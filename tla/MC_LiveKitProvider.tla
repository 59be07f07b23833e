------------------------- MODULE MC_LiveKitProvider -------------------------
(* TLC instance of LiveKitProvider: two jobs, each in a room of its own.   *)
EXTENDS LiveKitProvider

CONSTANTS j1, j2

MCJobs == {j1, j2}
MCRoom == [j \in {j1, j2} |-> j]
=============================================================================
