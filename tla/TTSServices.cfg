CONSTANTS
  MaxConns = 3
  MaxCalls = 2
  MaxCharsBeforeFlush = 3
  Headroom = 1
  TextSizes = {2, 3}
SPECIFICATION FairSpec
INVARIANTS
  BufferBelowLimit
  ContextsNotReused
  NoOrphanConnection
PROPERTIES
  LostConnectionHandled
  GoroutinesEnd
\* The service ends when the session does.
CHECK_DEADLOCK FALSE
