----------------------------- MODULE DeepgramSTT -----------------------------
(***************************************************************************)
(* services/deepgram/stt, as the STT handler uses it.                      *)
(*                                                                         *)
(* Actors: the runner (Start, the end of the context, Cleanup); the        *)
(* session's goroutine (runSession, connectAndListen); the handler's       *)
(* HandleEvent, which sends audio; the goroutines that handle write        *)
(* errors; a keepAlive per connection; the handler's eventLoop, which      *)
(* takes the transcripts; the network.                                     *)
(*                                                                         *)
(* isConnected and conn are read by SendTranscriptionAudio without connMu, *)
(* so that its check and its write are two steps.  keepAlive writes under  *)
(* connMu and ignores errors: this changes nothing here.  Transcripts,     *)
(* final and interim, are not told apart: both channels are unbuffered and *)
(* treated alike.                                                          *)
(***************************************************************************)
EXTENDS Naturals

CONSTANTS
  MaxConns,   \* bound: connections dialled in one behaviour
  MaxErrors   \* bound: write errors that are being handled at a time

ASSUME STTAssumption == MaxConns \in Nat \ {0} /\ MaxErrors \in Nat \ {0}

Conns == 1..MaxConns

VARIABLES
  done,         \* the context of the session is done
  cleanup,      \* "none", "closed" (the handler's channels) or "done"
  session,      \* what runSession is doing
  fresh,        \* a connection that was dialled and not yet installed, or 0
  conn, isConnected,
  sessionConn,  \* the connection that connectAndListen reads, or 0
  sender,       \* SendTranscriptionAudio: "idle" or "checked"
  writeErrors,  \* calls of handleConnectionError that have not run yet
  keepers,      \* keepAlive goroutines
  loop,         \* eventLoop: "none", "waiting", "sending" or "ended"
  crashed,      \* "no", "nil" (pointer) or "closed" (channel)
  \* External: the server.
  status,       \* each connection, "none", "open", "broken" or "closed"
  unflushed     \* speech has arrived on the current one and was not finalised

sttVars == <<done, cleanup, session, fresh, conn, isConnected, sessionConn, sender,
             writeErrors, keepers, loop, crashed, status,
             unflushed>>

STTInit ==
  /\ done = FALSE /\ cleanup = "none"
  /\ session = "none" /\ fresh = 0 /\ conn = 0 /\ isConnected = FALSE
  /\ sessionConn = 0 /\ sender = "idle" /\ writeErrors = 0 /\ keepers = 0
  /\ loop = "none" /\ crashed = "no"
  /\ status = [c \in Conns |-> "none"] /\ unflushed = FALSE

\* closeConnection
CloseConnection ==
  /\ conn' = 0 /\ isConnected' = FALSE /\ unflushed' = FALSE
  /\ status' = IF conn = 0 THEN status ELSE [status EXCEPT ![conn] = "closed"]

-----------------------------------------------------------------------------
(* The handler.                                                            *)

\* STTHandler.Start runs in a goroutine of its own, and may be late.
StartSession ==
  /\ session = "none"
  /\ session' = "top" /\ loop' = "waiting"
  /\ UNCHANGED <<done, cleanup, fresh, conn, isConnected, sessionConn, sender,
                 writeErrors, keepers, crashed, status,
                 unflushed>>

ContextEnds ==
  /\ ~done
  /\ done' = TRUE
  /\ UNCHANGED <<cleanup, session, fresh, conn, isConnected, sessionConn, sender,
                 writeErrors, keepers, loop, crashed, status,
                 unflushed>>

\* STTHandler.Cleanup closes its channels first, then the service; the runner
\* has cancelled the context before.
HandlerCloses ==
  /\ cleanup = "none" /\ done
  /\ cleanup' = "closed"
  /\ UNCHANGED <<done, session, fresh, conn, isConnected, sessionConn, sender,
                 writeErrors, keepers, loop, crashed, status,
                 unflushed>>

ServiceCloses ==
  /\ cleanup = "closed"
  /\ cleanup' = "done"
  /\ CloseConnection
  /\ UNCHANGED <<done, session, fresh, sessionConn, sender, writeErrors, keepers,
                 loop, crashed>>

\* eventLoop passes a transcript on.
LoopSends ==
  /\ loop = "sending"
  /\ loop' = "waiting"
  /\ UNCHANGED <<done, cleanup, session, fresh, conn, isConnected, sessionConn,
                 sender, writeErrors, keepers, crashed, status,
                 unflushed>>

LoopEnds ==
  /\ loop = "waiting" /\ (done \/ cleanup # "none")
  /\ loop' = "ended"
  /\ UNCHANGED <<done, cleanup, session, fresh, conn, isConnected, sessionConn,
                 sender, writeErrors, keepers, crashed, status,
                 unflushed>>

-----------------------------------------------------------------------------
(* SendTranscriptionAudio and Flush, as HandleEvent calls them.            *)

\* "not connected to Deepgram"
AudioRefused ==
  /\ sender = "idle" /\ (~isConnected \/ conn = 0)
  /\ UNCHANGED sttVars

AudioChecks ==
  /\ sender = "idle" /\ isConnected /\ conn # 0
  /\ sender' = "checked"
  /\ UNCHANGED <<done, cleanup, session, fresh, conn, isConnected, sessionConn,
                 writeErrors, keepers, loop, crashed, status, unflushed>>

\* The connection may be another one by now, or nil.
AudioWrites(speech, ok) ==
  /\ sender = "checked" /\ sender' = "idle"
  /\ IF conn = 0
     THEN ok /\ crashed' = "nil" /\ UNCHANGED <<writeErrors, unflushed>>
     ELSE /\ IF ok THEN status[conn] # "closed"
                   ELSE status[conn] # "open" /\ writeErrors < MaxErrors
          /\ writeErrors' = IF ok THEN writeErrors ELSE writeErrors + 1
          /\ unflushed' = (unflushed \/ (speech /\ status[conn] = "open"))
          /\ UNCHANGED crashed
  /\ UNCHANGED <<done, cleanup, session, fresh, conn, isConnected, sessionConn,
                 keepers, loop, status>>

\* Flush: Finalize, if there is a connection.
Flush ==
  /\ sender = "idle"
  /\ unflushed' = (unflushed /\ ~(isConnected /\ conn # 0))
  /\ UNCHANGED <<done, cleanup, session, fresh, conn, isConnected, sessionConn,
                 sender, writeErrors, keepers, loop, crashed, status>>

\* handleConnectionError, in a goroutine: whichever connection there is, it is
\* no longer used.
HandleConnectionError ==
  /\ writeErrors > 0
  /\ writeErrors' = writeErrors - 1 /\ isConnected' = FALSE
  /\ UNCHANGED <<done, cleanup, session, fresh, conn, sessionConn, sender, keepers,
                 loop, crashed, status,
                 unflushed>>

-----------------------------------------------------------------------------
(* runSession and connectAndListen.                                        *)

SessionStep(from, to) == session = from /\ session' = to

SessionOnly == UNCHANGED <<done, cleanup, sender, writeErrors, loop, crashed>>

SessionChecks ==
  /\ SessionStep("top", IF done THEN "ended" ELSE "dialing")
  /\ UNCHANGED <<fresh, conn, isConnected, sessionConn, keepers, status,
                 unflushed>>
  /\ SessionOnly

\* The dial has a context of its own, and goes on when the session is over.
SessionDials(c) ==
  /\ SessionStep("dialing", "installing")
  /\ status[c] = "none" /\ \A d \in 1..(c - 1) : status[d] # "none"
  /\ status' = [status EXCEPT ![c] = "open"] /\ fresh' = c
  /\ UNCHANGED <<conn, isConnected, sessionConn, keepers, unflushed>>
  /\ SessionOnly

DialFails ==
  /\ SessionStep("dialing", "failed")
  /\ UNCHANGED <<fresh, conn, isConnected, sessionConn, keepers, status,
                 unflushed>>
  /\ SessionOnly

SessionInstalls ==
  /\ SessionStep("installing", "listening")
  /\ conn' = fresh /\ sessionConn' = fresh /\ fresh' = 0
  /\ isConnected' = TRUE /\ keepers' = keepers + 1
  /\ unflushed' = FALSE /\ UNCHANGED status
  /\ SessionOnly

\* Faulty variant: the context is not looked at before reading.
ListensOn ==
  /\ SessionStep("listening", "reading")
  /\ UNCHANGED <<fresh, conn, isConnected, sessionConn, keepers, status,
                 unflushed>>
  /\ SessionOnly

SessionListens ==
  /\ SessionStep("listening", IF done THEN "leaving" ELSE "reading")
  /\ UNCHANGED <<fresh, conn, isConnected, sessionConn, keepers, status,
                 unflushed>>
  /\ SessionOnly

\* A result with a transcript: it is not sent when the context is done ...
ResultArrives ==
  /\ session = "reading" /\ status[sessionConn] = "open"
  /\ session' = IF done THEN "listening" ELSE "delivering"
  /\ UNCHANGED <<fresh, conn, isConnected, sessionConn, keepers, status,
                 unflushed>>
  /\ SessionOnly

\* ... and is dropped when eventLoop is not waiting for it.
ResultDelivered ==
  /\ SessionStep("delivering", "listening")
  /\ crashed' = IF cleanup = "closed" THEN "closed" ELSE crashed
  /\ loop' = IF cleanup = "none" /\ loop = "waiting" THEN "sending" ELSE loop
  /\ UNCHANGED <<done, cleanup, fresh, conn, isConnected, sessionConn, sender,
                 writeErrors, keepers, status,
                 unflushed>>

ReadFails ==
  /\ session = "reading" /\ status[sessionConn] # "open"
  /\ session' = "leaving"
  /\ UNCHANGED <<fresh, conn, isConnected, sessionConn, keepers, status,
                 unflushed>>
  /\ SessionOnly

\* The deferred closeConnection; connectAndListen returns an error unless it has
\* seen the end of the context.
SessionLeaves ==
  /\ SessionStep("leaving", "failed")
  /\ CloseConnection /\ sessionConn' = 0
  /\ UNCHANGED <<fresh, keepers>>
  /\ SessionOnly

\* The error is not reported when the context is done ...
SessionFails ==
  /\ SessionStep("failed", IF done THEN "ended" ELSE "reporting")
  /\ UNCHANGED <<fresh, conn, isConnected, sessionConn, keepers, status,
                 unflushed>>
  /\ SessionOnly

\* ... and else goes to fatalServiceErrorChan, which BaseHandler.Cleanup may have
\* closed since; then the session waits.
SessionReports ==
  /\ SessionStep("reporting", "waiting")
  /\ crashed' = IF cleanup = "closed" THEN "closed" ELSE crashed
  /\ UNCHANGED <<done, cleanup, fresh, conn, isConnected, sessionConn, sender,
                 writeErrors, keepers, loop, status, unflushed>>

\* Faulty variant: the session does not wait before it reconnects.
RetriesAtOnce ==
  /\ SessionStep("waiting", IF done THEN "ended" ELSE "top")
  /\ UNCHANGED <<fresh, conn, isConnected, sessionConn, keepers, status,
                 unflushed>>
  /\ SessionOnly

\* Five seconds: a goroutine that was started before them has run.
SessionRetries ==
  /\ SessionStep("waiting", IF done THEN "ended" ELSE "top")
  /\ done \/ writeErrors = 0
  /\ UNCHANGED <<fresh, conn, isConnected, sessionConn, keepers, status,
                 unflushed>>
  /\ SessionOnly

KeeperEnds ==
  /\ keepers > 0 /\ done
  /\ keepers' = keepers - 1
  /\ UNCHANGED <<done, cleanup, session, fresh, conn, isConnected, sessionConn,
                 sender, writeErrors, loop, crashed, status,
                 unflushed>>

\* External: the network breaks a connection, or the server ends it.
Break(c) ==
  /\ status[c] = "open"
  /\ status' = [status EXCEPT ![c] = "broken"]
  /\ UNCHANGED <<done, cleanup, session, fresh, conn, isConnected, sessionConn,
                 sender, writeErrors, keepers, loop, crashed, unflushed>>

-----------------------------------------------------------------------------
\* What runSession does by itself.
SessionProgress ==
  \/ SessionChecks \/ DialFails \/ SessionInstalls \/ SessionListens
  \/ ResultDelivered \/ ReadFails \/ SessionLeaves \/ SessionFails
  \/ SessionReports \/ SessionRetries

\* Everything but the calls of HandleEvent.
STTStep ==
  \/ StartSession \/ ContextEnds \/ HandlerCloses \/ ServiceCloses
  \/ LoopSends \/ LoopEnds
  \/ HandleConnectionError
  \/ SessionProgress \/ ResultArrives \/ KeeperEnds
  \/ \E c \in Conns : SessionDials(c) \/ Break(c)

\* The variables have their types.
STTTypeOK ==
  /\ {done, isConnected, unflushed} \subseteq BOOLEAN
  /\ cleanup \in {"none", "closed", "done"}
  /\ session \in {"none", "top", "dialing", "installing", "listening", "reading",
                  "delivering", "leaving", "failed", "reporting", "waiting",
                  "ended"}
  /\ {fresh, conn, sessionConn} \subseteq 0..MaxConns
  /\ sender \in {"idle", "checked"} /\ writeErrors \in 0..MaxErrors
  /\ keepers \in 0..MaxConns
  /\ loop \in {"none", "waiting", "sending", "ended"}
  /\ crashed \in {"no", "nil", "closed"}
  /\ status \in [Conns -> {"none", "open", "broken", "closed"}]
=============================================================================
