---------------------------- MODULE ElevenLabsTTS ----------------------------
(***************************************************************************)
(* services/elevenlabs/tts: a stream begins with a BOS message and ends    *)
(* with an empty text (EOS), after which the server closes the connection  *)
(* and the reader reconnects.  Reset replaces the connection itself, with  *)
(* reconnectMu only read-locked.                                           *)
(***************************************************************************)
EXTENDS TTSConnection

BOS == <<"bos", 0>>
EOS == <<"eos", 0>>
TextMessage == <<"text", 1>>

\* sendBOSLocked is called on every connection before it is installed; in
\* StartTTSSession this is under mu, so that nobody sees the order.
ElevenLabsStart(c) == StartEstablishes(c, <<BOS>>)

ElevenLabsReconnect(c) == ReconnectEstablishes(c, <<BOS>>)

ElevenLabsBegins ==
  \/ BeginCall("buffer", 1) \/ BeginCall("flush", 0) \/ BeginCall("reset", 0)
  \/ CheckPasses

ElevenLabsBufferText(ok) ==
  /\ call = "writing" /\ op = "buffer"
  /\ Write(TextMessage, ok) /\ Return
  /\ UNCHANGED <<lifeVars, readVars, beatVars>>

ElevenLabsFlush(ok) ==
  /\ call = "writing" /\ op = "flush"
  /\ Write(EOS, ok) /\ Return
  /\ UNCHANGED <<lifeVars, readVars, beatVars>>

-----------------------------------------------------------------------------
(* Reset: close, dial, send BOS, install.                                  *)

ResetCloses ==
  /\ call = "writing" /\ op = "reset" /\ mu = "free"
  /\ CloseConnectionLocked
  /\ call' = "dialing"
  /\ UNCHANGED <<session, fresh, wire, op, left, callConn, calls, lifeVars,
                 readVars, beatVars>>

ResetEstablishes(c) ==
  /\ call = "dialing"
  /\ EstablishConnection(c, <<BOS>>)
  /\ fresh' = c
  /\ call' = "installing"
  /\ UNCHANGED <<conn, session, op, left, callConn, calls, lifeVars, readVars,
                 beatVars>>

ResetFails ==
  /\ call = "dialing"
  /\ Return
  /\ UNCHANGED <<lifeVars, connVars, readVars, beatVars>>

ResetInstalls ==
  /\ call = "installing" /\ mu = "free"
  /\ conn' = fresh /\ fresh' = 0
  /\ Return
  /\ UNCHANGED <<session, status, wire, lifeVars, readVars, beatVars>>

ElevenLabsReset ==
  \/ ResetCloses \/ ResetFails \/ ResetInstalls
  \/ \E c \in Conns : ResetEstablishes(c)

ElevenLabsCall ==
  \/ \E ok \in BOOLEAN : ElevenLabsBufferText(ok) \/ ElevenLabsFlush(ok)
  \/ ElevenLabsReset

-----------------------------------------------------------------------------
(* Line by line the code that TTSConnection models.                        *)

ElevenLabsLife == (LifeStep \/ CheckFails)
ElevenLabsReader == ReaderStep
ElevenLabsHeartbeat == HeartbeatStep

ElevenLabsNext ==
  \/ ElevenLabsLife \/ ElevenLabsReader \/ ElevenLabsHeartbeat
  \/ NetworkStep
  \/ ElevenLabsBegins \/ ElevenLabsCall
  \/ \E c \in Conns : ElevenLabsStart(c) \/ ElevenLabsReconnect(c)
=============================================================================
