CONSTANTS
  MaxConns = 2
  MaxErrors = 1
  BaseGrace = 1
  PatienceIncrease = 1
  PatienceResetDuration = 2
  AllowInterruptions = TRUE
  MaxAge = 3
SPECIFICATION FairSpec
INVARIANTS
  UtteranceFinalised
  OpenConnectionIsUsed
PROPERTIES
  SpeechStartsWithSpeech
  SessionEnds
\* A session that is over stops.
CHECK_DEADLOCK FALSE
