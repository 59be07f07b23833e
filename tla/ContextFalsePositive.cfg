CONSTANTS
  c1 = c1
  Calls <- const_Calls
  MaxFinals = 1
  MaxSuspicions = 1
SPECIFICATION AggregatorFairSpec
PROPERTIES
  FalsePositiveRegenerates
\* A conversation in which nobody speaks any more stops.
CHECK_DEADLOCK FALSE
