CONSTANTS
  j1 = j1
  j2 = j2
  Jobs <- MCJobs
  Room <- MCRoom
  MaxJobs = 1
  MaxConns = 3
SPECIFICATION FairSpec
INVARIANTS
  Supervised
  NoJobAfterStop
PROPERTIES
  ConnectionsClosed
  StopCompletes
\* A stopped provider stops.
CHECK_DEADLOCK FALSE
