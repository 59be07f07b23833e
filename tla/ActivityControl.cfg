\* The gate's safety, its refinement of AudioGate, and that audio leaves.
CONSTANTS
  MaxChunks = 3
  MaxSuspensions = 3
SPECIFICATION FairSpec
INVARIANTS
  SuspensionHasEnd
  AudioAccounted
  DiscardedStaysSilent
PROPERTIES
  ImplementsAudioGate
  AudioLeaves
\* The handler stops for good once its session is shut down.
CHECK_DEADLOCK FALSE
