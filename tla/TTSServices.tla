----------------------------- MODULE TTSServices -----------------------------
(***************************************************************************)
(* The three TTS services, one of which a session uses.                    *)
(***************************************************************************)
EXTENDS DeepgramTTS, CartesiaTTS

VARIABLE provider

EL == INSTANCE ElevenLabsTTS

Providers == {"deepgram", "elevenlabs", "cartesia"}

vars == <<connectionVars, charCount, contextID, provider>>

Init ==
  /\ ConnectionInit
  /\ charCount = 0 /\ contextID = 1
  /\ provider \in Providers

Deepgram   == provider = "deepgram" /\ DeepgramNext
              /\ UNCHANGED <<contextID, provider>>
ElevenLabs == provider = "elevenlabs" /\ EL!ElevenLabsNext
              /\ UNCHANGED <<charCount, contextID, provider>>
Cartesia   == provider = "cartesia" /\ CartesiaNext
              /\ UNCHANGED <<charCount, provider>>

Next == Deepgram \/ ElevenLabs \/ Cartesia

Spec == Init /\ [][Next]_vars

Common(step) == step /\ UNCHANGED <<charCount, contextID, provider>>

\* A call in progress goes on.
CallStep ==
  /\ call # "idle"
  /\ \/ provider = "deepgram" /\ (DeepgramBegins \/ DeepgramCall)
        /\ UNCHANGED <<contextID, provider>>
     \/ provider = "elevenlabs" /\ (EL!ElevenLabsBegins \/ EL!ElevenLabsCall)
        /\ UNCHANGED <<charCount, contextID, provider>>
     \/ provider = "cartesia" /\ (CartesiaBegins \/ CartesiaCall)
        /\ UNCHANGED <<charCount, provider>>
     \/ Common(CheckFails)

(* A goroutine that can go on does: mu and reconnectMu are held for a     *)
(* bounded time (dialling has a timeout, Cleanup waits for 5 seconds), and *)
(* a failed read is noticed at the latest after the read deadline.  While  *)
(* a goroutine dials the step that is always enabled is the failure; it    *)
(* may succeed instead.  The heartbeat's select chooses at random between  *)
(* a tick and the end of the context, hence the strong fairness.  Nothing  *)
(* is assumed of the network, of the runner and of the event loop.         *)
Fairness ==
  /\ WF_vars(Common(ReaderStep))
  /\ WF_vars(CallStep)
  /\ WF_vars(Common(StartFails))
  /\ WF_vars(Common(CleanupCloses))
  /\ WF_vars(Common(HeartbeatPing))
  /\ SF_vars(Common(HeartbeatEnds))

FairSpec == Spec /\ Fairness

-----------------------------------------------------------------------------
\* The variables have their types.
TypeOK ==
  /\ ConnectionTypeOK
  /\ charCount \in Nat /\ contextID \in Nat \ {0} /\ provider \in Providers

\* Deepgram: between two calls the characters that the server keeps on an open
\* connection are counted, and fewer than the limit at which it refuses the
\* connection: over splitting, automatic flushes, failed writes, reconnection
\* and calls that were waiting for it (BufferText, Flush, Reset, reconnect).
BufferBelowLimit ==
  provider = "deepgram" /\ call = "idle" =>
    \A c \in Conns :
      c = conn /\ status[c] = "open" =>
        /\ KeptChars(wire[c]) <= charCount
        /\ charCount < MaxCharsBeforeFlush

\* Cartesia: nothing is sent to a context after it was finished or cancelled on
\* that connection (Flush and Reset rotate the context_id).
ContextsNotReused ==
  provider = "cartesia" =>
    \A c \in Conns : \A i, j \in DOMAIN wire[c] :
      i < j /\ wire[c][i][1] \in {"finish", "cancel"} => wire[c][j][2] # wire[c][i][2]

\* Every connection that is not closed is the current one or about to be
\* installed: reconnect, Reset, the heartbeat and Cleanup, which replace and
\* close it under different locks, never lose one.
NoOrphanConnection ==
  \A c \in Conns : status[c] \in {"open", "broken"} => c \in {conn, fresh}

\* A session that loses its connection gets a new one, or the handler is told
\* (sendError), or the session is over: it is never left silently without one.
Healthy == conn # 0 /\ status[conn] = "open"
LostConnectionHandled ==
  (session /\ ~Healthy) ~> (Healthy \/ reported \/ ctxDone)

\* Once Cleanup has returned, the reader and the heartbeat end, also when they
\* were reconnecting or pinging.
GoroutinesEnd ==
  (cleanup = "done") ~> (reader \in {"none", "ended"} /\ beat \in {"none", "ended"})
=============================================================================
