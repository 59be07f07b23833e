---------------------------- MODULE TTSConnection ----------------------------
(***************************************************************************)
(* What the websocket TTS services (Deepgram, ElevenLabs, Cartesia) have   *)
(* in common: a connection that a reader goroutine replaces when it fails, *)
(* that a heartbeat goroutine pings and that BufferText, Flush and Reset   *)
(* write to.                                                               *)
(*                                                                         *)
(* Actors: the runner, which calls Initialize and Cleanup and cancels the  *)
(* context; the goroutine of TTSHandler.Start, which calls StartTTSSession *)
(* once; the event loop of the TTS handler, which makes one call at a      *)
(* time; the reader (handleIncomingMessages); the heartbeat; the network,  *)
(* which may break a connection at any moment.                             *)
(*                                                                         *)
(* Locks: mu is held across steps by StartTTSSession while it dials and by *)
(* Cleanup while it waits for the heartbeat.  reconnectMu is write-locked  *)
(* by the reader while it reconnects and read-locked by a call; a writer   *)
(* that waits keeps new readers out, as in Go.                             *)
(*                                                                         *)
(* establishConnection makes three attempts; nothing can be seen of the    *)
(* service between them, so it is one step that succeeds or fails.  The    *)
(* messages of the server (audio, metadata, errors) are passed on without  *)
(* a change of state and are left out; so is heartbeatDone, which delays   *)
(* Cleanup and nothing else.                                               *)
(***************************************************************************)
EXTENDS Naturals, Sequences

CONSTANTS
  MaxConns,   \* bound: connections dialled in one behaviour
  MaxCalls    \* bound: calls of BufferText, Flush and Reset

ASSUME TTSConnectionAssumption ==
  MaxConns \in Nat \ {0} /\ MaxCalls \in Nat

Conns == 1..MaxConns

VARIABLES
  isInitialized, ctxDone,
  mu,          \* who holds mu across steps: "free", "start" or "cleanup"
  conn,        \* the current connection, 0 when nil
  session,     \* currentSession is not nil
  start,       \* StartTTSSession: "pending", "dialing" or "done"
  cleanup,     \* Cleanup: "none", "waiting" or "done"
  reader,      \* what handleIncomingMessages is doing
  readerConn,  \* the connection it reads, 0 when it reads none
  fresh,       \* a connection dialled and not yet installed, or 0
  beat,        \* what the heartbeat is doing
  beatConn,    \* the connection it pings, 0 when it pings none
  call,        \* what the call in progress is doing, or "idle"
  op, left,    \* its name and the characters still to be sent
  callConn,    \* the connection it writes to
  calls,       \* calls made so far
  reported,    \* an error was sent to errorChan because a session was lost
  \* External: the connections as the network and the server see them.
  status,      \* "none", "open", "broken" by the network, or "closed" by us
  wire         \* the messages the server has received on each

lifeVars == <<isInitialized, ctxDone, mu, start, cleanup>>
connVars == <<conn, session, fresh, status, wire>>
readVars == <<reader, readerConn, reported>>
beatVars == <<beat, beatConn>>
callVars == <<call, op, left, callConn, calls>>
connectionVars == <<isInitialized, ctxDone, mu, start, cleanup, conn, session,
                    fresh, status, wire, reader, readerConn, reported, beat,
                    beatConn, call, op, left, callConn, calls>>

ConnectionInit ==
  /\ isInitialized = FALSE /\ ctxDone = FALSE /\ mu = "free"
  /\ start = "pending" /\ cleanup = "none"
  /\ conn = 0 /\ session = FALSE /\ fresh = 0
  /\ status = [c \in Conns |-> "none"] /\ wire = [c \in Conns |-> <<>>]
  /\ reader = "none" /\ readerConn = 0 /\ reported = FALSE
  /\ beat = "none" /\ beatConn = 0
  /\ call = "idle" /\ op = "none" /\ left = 0 /\ callConn = 0 /\ calls = 0

\* The states in which the reader holds reconnectMu or waits for it.
Reconnecting == reader \in {"locking", "closing", "dialing", "installing"}

-----------------------------------------------------------------------------
(* Connections.                                                            *)

\* closeConnectionLocked: close the current connection, if there is one.
CloseConnectionLocked ==
  /\ conn' = 0
  /\ status' = IF conn = 0 THEN status ELSE [status EXCEPT ![conn] = "closed"]

\* establishConnection returns connection c, on which greeting was sent.
EstablishConnection(c, greeting) ==
  /\ status[c] = "none" /\ \A d \in 1..(c - 1) : status[d] # "none"
  /\ status' = [status EXCEPT ![c] = "open"]
  /\ wire' = [wire EXCEPT ![c] = greeting]

\* The network breaks a connection, the server ends it, or a write deadline
\* has passed, after which every write fails.
Break(c) ==
  /\ status[c] = "open"
  /\ status' = [status EXCEPT ![c] = "broken"]
  /\ UNCHANGED <<conn, session, fresh, wire, lifeVars, readVars, beatVars,
                 callVars>>

\* sendJSON: a write on an open connection arrives, one on a connection that
\* we have closed fails, one on a broken connection is lost or fails.
Write(m, ok) ==
  /\ IF ok THEN status[callConn] # "closed" ELSE status[callConn] # "open"
  /\ wire' = IF status[callConn] = "open"
             THEN [wire EXCEPT ![callConn] = Append(@, m)]
             ELSE wire
  /\ UNCHANGED <<conn, session, fresh, status>>

-----------------------------------------------------------------------------
(* The life of the service.                                                *)

InitializeService ==
  /\ ~isInitialized /\ cleanup = "none" /\ mu = "free"
  /\ isInitialized' = TRUE
  /\ UNCHANGED <<ctxDone, mu, start, cleanup, connVars, readVars, beatVars,
                 callVars>>

\* The context of the session is cancelled.
CancelContext ==
  /\ isInitialized /\ ~ctxDone
  /\ ctxDone' = TRUE
  /\ UNCHANGED <<isInitialized, mu, start, cleanup, connVars, readVars,
                 beatVars, callVars>>

\* StartTTSSession takes mu, or finds that the service is not initialised.
StartLocks ==
  /\ start = "pending" /\ mu = "free"
  /\ IF isInitialized
     THEN start' = "dialing" /\ mu' = "start"
     ELSE start' = "done" /\ UNCHANGED mu
  /\ UNCHANGED <<isInitialized, ctxDone, cleanup, connVars, readVars, beatVars,
                 callVars>>

StartEstablishes(c, greeting) ==
  /\ start = "dialing"
  /\ EstablishConnection(c, greeting)
  /\ conn' = c /\ session' = TRUE
  /\ reader' = "top" /\ beat' = "waiting"
  /\ start' = "done" /\ mu' = "free"
  /\ UNCHANGED <<isInitialized, ctxDone, cleanup, fresh, readerConn, reported,
                 beatConn, callVars>>

StartFails ==
  /\ start = "dialing"
  /\ start' = "done" /\ mu' = "free"
  /\ UNCHANGED <<isInitialized, ctxDone, cleanup, connVars, readVars, beatVars,
                 callVars>>

\* Cleanup cancels the context and then waits for the heartbeat, holding mu.
CleanupCancels ==
  /\ cleanup = "none" /\ isInitialized /\ mu = "free"
  /\ cleanup' = "waiting" /\ mu' = "cleanup" /\ ctxDone' = TRUE
  /\ UNCHANGED <<isInitialized, start, connVars, readVars, beatVars, callVars>>

CleanupCloses ==
  /\ cleanup = "waiting"
  /\ CloseConnectionLocked
  /\ session' = FALSE /\ isInitialized' = FALSE
  /\ cleanup' = "done" /\ mu' = "free"
  /\ UNCHANGED <<ctxDone, start, fresh, wire, readVars, beatVars, callVars>>

-----------------------------------------------------------------------------
(* handleIncomingMessages.                                                 *)

ReaderChecksContext ==
  /\ reader = "top"
  /\ reader' = IF ctxDone THEN "leaving" ELSE "loading"
  /\ UNCHANGED <<readerConn, reported, lifeVars, connVars, beatVars, callVars>>

ReaderLoads ==
  /\ reader = "loading" /\ mu = "free"
  /\ readerConn' = conn
  /\ reader' = IF conn = 0 THEN "locking" ELSE "reading"
  /\ UNCHANGED <<reported, lifeVars, connVars, beatVars, callVars>>

\* Faulty variant: no read deadline is set.
ReadFailsWithoutDeadline ==
  /\ reader = "reading" /\ status[readerConn] # "open"
  /\ reader' = IF ctxDone THEN "leaving" ELSE "locking"
  /\ readerConn' = 0
  /\ UNCHANGED <<reported, lifeVars, connVars, beatVars, callVars>>

\* ReadMessage fails on a connection that is broken or that we have closed, and
\* when the read deadline passes: only pongs extend it, and after the heartbeat
\* has ended there are none.
ReadFails ==
  /\ reader = "reading"
  /\ status[readerConn] # "open" \/ beat = "ended"
  /\ reader' = IF ctxDone THEN "leaving" ELSE "locking"
  /\ readerConn' = 0
  /\ UNCHANGED <<reported, lifeVars, connVars, beatVars, callVars>>

\* reconnect takes reconnectMu once no call holds it.
ReconnectLocks ==
  /\ reader = "locking" /\ call = "idle"
  /\ reader' = "closing"
  /\ UNCHANGED <<readerConn, reported, lifeVars, connVars, beatVars, callVars>>

\* Faulty variant: the old connection is forgotten, not closed.
ReconnectForgets ==
  /\ reader = "closing" /\ mu = "free"
  /\ conn' = 0
  /\ reader' = "dialing"
  /\ UNCHANGED <<session, fresh, status, wire, readerConn, reported, lifeVars,
                 beatVars, callVars>>

ReconnectCloses ==
  /\ reader = "closing" /\ mu = "free"
  /\ CloseConnectionLocked
  /\ reader' = "dialing"
  /\ UNCHANGED <<session, fresh, wire, readerConn, reported, lifeVars, beatVars,
                 callVars>>

ReconnectEstablishes(c, greeting) ==
  /\ reader = "dialing"
  /\ EstablishConnection(c, greeting)
  /\ fresh' = c
  /\ reader' = "installing"
  /\ UNCHANGED <<conn, session, readerConn, reported, lifeVars, beatVars,
                 callVars>>

\* The new connection is installed whatever has happened in the meantime.
ReconnectInstalls ==
  /\ reader = "installing" /\ mu = "free"
  /\ conn' = fresh /\ fresh' = 0
  /\ reader' = "top"
  /\ UNCHANGED <<session, status, wire, readerConn, reported, lifeVars, beatVars,
                 callVars>>

\* Faulty variant: the reader gives up without an error.
ReconnectFailsSilently ==
  /\ reader = "dialing"
  /\ reader' = "leaving"
  /\ UNCHANGED <<readerConn, reported, lifeVars, connVars, beatVars, callVars>>

\* establishConnection failed: sendError, then the deferred clean-up.
ReconnectFails ==
  /\ reader = "dialing"
  /\ reported' = TRUE
  /\ reader' = "leaving"
  /\ UNCHANGED <<readerConn, lifeVars, connVars, beatVars, callVars>>

\* The deferred function: cleanupSessionLocked if the session is still ours.
ReaderLeaves ==
  /\ reader = "leaving" /\ mu = "free"
  /\ IF session THEN CloseConnectionLocked ELSE UNCHANGED <<conn, status>>
  /\ session' = FALSE
  /\ reader' = "ended"
  /\ UNCHANGED <<fresh, wire, readerConn, reported, lifeVars, beatVars, callVars>>

-----------------------------------------------------------------------------
(* heartbeat: on a tick it takes the current connection and pings it; if   *)
(* the ping fails it closes the connection that is current by then.        *)

HeartbeatTicks ==
  /\ beat = "waiting" /\ mu = "free"
  /\ conn # 0
  /\ beatConn' = conn
  /\ beat' = "pinging"
  /\ UNCHANGED <<lifeVars, connVars, readVars, callVars>>

HeartbeatPings(ok) ==
  /\ beat = "pinging"
  /\ IF ok THEN status[beatConn] # "closed" ELSE status[beatConn] # "open"
  /\ beat' = IF ok THEN "waiting" ELSE "closing"
  /\ beatConn' = 0
  /\ UNCHANGED <<lifeVars, connVars, readVars, callVars>>

HeartbeatCloses ==
  /\ beat = "closing" /\ mu = "free"
  /\ CloseConnectionLocked
  /\ beat' = "waiting"
  /\ UNCHANGED <<beatConn, session, fresh, wire, lifeVars, readVars, callVars>>

\* The context is done; the deferred function needs mu to close heartbeatDone.
HeartbeatEnds ==
  /\ beat = "waiting" /\ ctxDone /\ mu = "free"
  /\ beat' = "ended"
  /\ UNCHANGED <<beatConn, lifeVars, connVars, readVars, callVars>>

-----------------------------------------------------------------------------
(* Calls of the event loop: they take reconnectMu for reading, then look   *)
(* at the service under mu.                                                *)

BeginCall(name, n) ==
  /\ call = "idle" /\ calls < MaxCalls /\ ~Reconnecting
  /\ call' = "checking" /\ op' = name /\ left' = n
  /\ calls' = calls + 1
  /\ UNCHANGED <<callConn, lifeVars, connVars, readVars, beatVars>>

\* The call returns; op and left are of no use any more.
Return ==
  /\ call' = "idle" /\ op' = "none" /\ left' = 0 /\ callConn' = 0
  /\ UNCHANGED calls

\* "service not initialized" or "no active TTS session".
CheckFails ==
  /\ call = "checking" /\ mu = "free"
  /\ ~isInitialized \/ conn = 0 \/ ~session
  /\ Return
  /\ UNCHANGED <<lifeVars, connVars, readVars, beatVars>>

CheckPasses ==
  /\ call = "checking" /\ mu = "free"
  /\ isInitialized /\ conn # 0 /\ session
  /\ call' = "writing" /\ callConn' = conn
  /\ UNCHANGED <<op, left, calls, lifeVars, connVars, readVars, beatVars>>

-----------------------------------------------------------------------------
(* The goroutines and calls whose code is the same in the three services.  *)

\* Initialize, StartTTSSession up to the dial, Cleanup.
LifeStep ==
  \/ InitializeService \/ CancelContext
  \/ StartLocks \/ StartFails
  \/ CleanupCancels \/ CleanupCloses

\* handleIncomingMessages and reconnect, but for the dial that succeeds.
ReaderStep ==
  \/ ReaderChecksContext \/ ReaderLoads \/ ReadFails
  \/ ReconnectLocks \/ ReconnectCloses \/ ReconnectInstalls \/ ReconnectFails
  \/ ReaderLeaves

HeartbeatPing == \/ \E ok \in BOOLEAN : HeartbeatPings(ok)
                 \/ HeartbeatCloses

HeartbeatStep == HeartbeatTicks \/ HeartbeatPing \/ HeartbeatEnds

\* External: the network.
NetworkStep == \E c \in Conns : Break(c)

ConnectionTypeOK ==
  /\ isInitialized \in BOOLEAN /\ ctxDone \in BOOLEAN /\ session \in BOOLEAN
  /\ reported \in BOOLEAN
  /\ mu \in {"free", "start", "cleanup"}
  /\ start \in {"pending", "dialing", "done"}
  /\ cleanup \in {"none", "waiting", "done"}
  /\ {conn, fresh, readerConn, beatConn, callConn} \subseteq 0..MaxConns
  /\ status \in [Conns -> {"none", "open", "broken", "closed"}]
  /\ reader \in {"none", "top", "loading", "reading", "locking", "closing",
                 "dialing", "installing", "leaving", "ended"}
  /\ beat \in {"none", "waiting", "pinging", "closing", "ended"}
  /\ call \in {"idle", "checking", "writing", "flushing", "sending", "closing",
               "dialing", "installing"}
  /\ op \in {"none", "buffer", "flush", "reset"}
  /\ left \in Nat /\ calls \in 0..MaxCalls
=============================================================================
