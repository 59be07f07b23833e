------------------------- MODULE MC_LiveKitTransport -------------------------
(* TLC instance of LiveKitTransport: a user with a track, a guest, and     *)
(* another agent, whose kind the transport does not link.                  *)
EXTENDS LiveKitTransport

CONSTANTS user, guest, agent, mic

MCPeople == {user, guest, agent}
MCAccepted == {user, guest}
MCTrack == {mic}
MCOwner == [t \in Tracks |-> user]
=============================================================================
