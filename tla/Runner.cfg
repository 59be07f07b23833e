CONSTANTS
  N = 3
  Plain = {3}
  StartMayFail = {3}
  ServiceMayFail = {3}
  HasBackup = {3}
  OutputMayFail = TRUE
  CleanupMayHang = {2}
  CleanupMayPanic = {2}
  HasTimeout = TRUE
  Together = FALSE
SPECIFICATION FairSpec
INVARIANTS
  ShutdownInOrder
PROPERTIES
  RunReturns
  
  EndCallStopsHealthySession
\* A session ends.
CHECK_DEADLOCK FALSE
