CONSTANTS
  user = user
  guest = guest
  agent = agent
  mic = mic
  Nobody = Nobody
  Participants <- MCPeople
  Accepted <- MCAccepted
  Tracks <- MCTrack
  Owner <- MCOwner
  OutputCap = 1
  ErrorCap = 1
  EventKinds = {"state", "audio", "interruption", "publish"}
SPECIFICATION TransportFairSpec
INVARIANTS
  NoReaderAfterDisconnect
PROPERTIES
  CleanupCompletes
  ParticipantLossReported
\* A session that is over stops.
CHECK_DEADLOCK FALSE
