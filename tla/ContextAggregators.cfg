CONSTANTS
  c1 = c1
  Calls <- const_Calls
  MaxFinals = 2
  MaxSuspicions = 2
SPECIFICATION AggregatorFairSpec
INVARIANTS
  ConfirmedOncePerSuspicion
  SoloAppendsStay
PROPERTIES
  ToolCallsAnswered
\* A conversation in which nobody speaks any more stops.
CHECK_DEADLOCK FALSE
