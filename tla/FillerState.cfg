CONSTANTS
  MaxFillerGenerations = 2
  MaxRequests = 3
SPECIFICATION FillerSpec
INVARIANTS
  FillerSpokenOnce
  FillerIsCurrent
CHECK_DEADLOCK FALSE
