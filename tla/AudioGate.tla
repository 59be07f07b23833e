------------------------------ MODULE AudioGate ------------------------------
(***************************************************************************)
(* What the stage between the TTS handler and the output transport        *)
(* promises about bot audio, whatever interruptions do to it: chunks leave *)
(* in the order they came, none twice, and audio that is held back is      *)
(* either released in that order or thrown away as a whole.  Only a        *)
(* session that is shutting down may refuse a chunk.                       *)
(*                                                                         *)
(* ActivityControl implements this specification.                          *)
(***************************************************************************)
EXTENDS Naturals, Sequences

CONSTANT MaxChunks      \* bound: audio chunks synthesised in one behaviour

VARIABLES
  accepted,   \* chunks 1..accepted have been handed to the gate
  pending,    \* accepted chunks not yet passed on, oldest first
  played,     \* chunks passed on to the transport, oldest first
  open        \* FALSE once the session is shutting down

gateVars == <<accepted, pending, played, open>>

GateInit ==
  /\ accepted = 0
  /\ pending = <<>>
  /\ played = <<>>
  /\ open = TRUE

Accept ==
  /\ accepted < MaxChunks
  /\ accepted' = accepted + 1
  /\ pending' = Append(pending, accepted + 1)
  /\ UNCHANGED <<played, open>>

Play ==
  /\ open
  /\ pending # <<>>
  /\ played' = Append(played, Head(pending))
  /\ pending' = Tail(pending)
  /\ UNCHANGED <<accepted, open>>

Discard ==
  /\ pending # <<>>
  /\ pending' = <<>>
  /\ UNCHANGED <<accepted, played, open>>

Close ==
  /\ open
  /\ open' = FALSE
  /\ UNCHANGED <<accepted, pending, played>>

Refuse ==
  /\ ~open
  /\ accepted < MaxChunks
  /\ accepted' = accepted + 1
  /\ UNCHANGED <<pending, played, open>>

GateNext == Accept \/ Play \/ Discard \/ Close \/ Refuse

GateSpec == GateInit /\ [][GateNext]_gateVars
=============================================================================
