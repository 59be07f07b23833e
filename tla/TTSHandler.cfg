CONSTANTS
  QueueCapacity = 2
  MaxBuffer = 2
  MaxWords = 2
  ServiceMayFail = TRUE
SPECIFICATION FairSpec
INVARIANTS
  SpeakingBracketsWords
  WordsInOrder
  CompletedIsFlushed
PROPERTIES
  WordsLeave
\* The session ends when its context does.
CHECK_DEADLOCK FALSE
