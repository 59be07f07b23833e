CONSTANTS
  MessageCapacity = 2
  MaxGenerations = 2
  MaxItems = 2
SPECIFICATION FairSpec
INVARIANTS
  ChunksInOrder
  QuietAfterInterruption
PROPERTIES
  ResponseEnds
CHECK_DEADLOCK FALSE
