----------------------------- MODULE CartesiaTTS -----------------------------
(***************************************************************************)
(* services/cartesia/tts: texts belong to a context, known by its random   *)
(* context_id (here a number that is never used twice).  Flush finishes    *)
(* the context and Reset cancels it; both go on to a new one.              *)
(***************************************************************************)
EXTENDS TTSConnection

VARIABLE contextID

Transcript(id) == <<"text", id>>
Finish(id) == <<"finish", id>>
CancelContextMessage(id) == <<"cancel", id>>

CartesiaStart(c) == StartEstablishes(c, <<>>) /\ UNCHANGED contextID

\* reconnect keeps the context_id: the context goes on on the new connection.
CartesiaReconnect(c) == ReconnectEstablishes(c, <<>>) /\ UNCHANGED contextID

CartesiaBegins ==
  /\ \/ BeginCall("buffer", 1) \/ BeginCall("flush", 0) \/ BeginCall("reset", 0)
     \/ CheckPasses /\ op # "reset"
  /\ UNCHANGED contextID

CartesiaBufferText(ok) ==
  /\ call = "writing" /\ op = "buffer"
  /\ Write(Transcript(contextID), ok) /\ Return
  /\ UNCHANGED <<contextID, lifeVars, readVars, beatVars>>

\* Faulty variant: the context is not rotated.
FlushWithoutRotation(ok) ==
  /\ call = "writing" /\ op = "flush"
  /\ Write(Finish(contextID), ok) /\ Return
  /\ UNCHANGED <<contextID, lifeVars, readVars, beatVars>>

\* Flush: the context_id is rotated only when the message was sent.
CartesiaFlush(ok) ==
  /\ call = "writing" /\ op = "flush"
  /\ Write(Finish(contextID), ok)
  /\ IF ok
     THEN call' = "installing" /\ UNCHANGED <<op, left, callConn, calls>>
     ELSE Return
  /\ UNCHANGED <<contextID, lifeVars, readVars, beatVars>>

FlushRotates ==
  /\ call = "installing" /\ op = "flush" /\ mu = "free"
  /\ contextID' = contextID + 1
  /\ Return
  /\ UNCHANGED <<lifeVars, connVars, readVars, beatVars>>

\* Reset rotates under mu, together with the checks, and cancels afterwards;
\* an error of the cancellation is only logged.
ResetRotates ==
  /\ CheckPasses /\ op = "reset"
  /\ contextID' = contextID + 1

ResetCancels(ok) ==
  /\ call = "writing" /\ op = "reset"
  /\ Write(CancelContextMessage(contextID - 1), ok) /\ Return
  /\ UNCHANGED <<contextID, lifeVars, readVars, beatVars>>

CartesiaCall ==
  \/ FlushRotates \/ ResetRotates
  \/ \E ok \in BOOLEAN :
       CartesiaBufferText(ok) \/ CartesiaFlush(ok) \/ ResetCancels(ok)

-----------------------------------------------------------------------------
(* Line by line the code that TTSConnection models.                        *)

CartesiaLife == (LifeStep \/ CheckFails) /\ UNCHANGED contextID
CartesiaReader == ReaderStep /\ UNCHANGED contextID
CartesiaHeartbeat == HeartbeatStep /\ UNCHANGED contextID

CartesiaNext ==
  \/ CartesiaLife \/ CartesiaReader \/ CartesiaHeartbeat
  \/ NetworkStep /\ UNCHANGED contextID
  \/ CartesiaBegins \/ CartesiaCall
  \/ \E c \in Conns : CartesiaStart(c) \/ CartesiaReconnect(c)
=============================================================================
