------------------------------- MODULE Runner -------------------------------
(***************************************************************************)
(* core/runner.go and factories/pipeline.go: the life of one session.      *)
(* Pipeline.Run starts a Runner and blocks; the Runner initialises its     *)
(* handlers, spawns their goroutines and a listener for what leaves the    *)
(* pipeline, and Stop takes all of it down again.                          *)
(*                                                                         *)
(* Actors: Pipeline.Run; the goroutines that run handler.Start; one loop   *)
(* goroutine per handler; one fatal-error goroutine per handler; the       *)
(* listener; the goroutine that relays an EndCallEvent from the top; and   *)
(* any number of goroutines that call Stop.                                *)
(*                                                                         *)
(* A goroutine parked in a select is woken by the cancellation itself, so  *)
(* parked goroutines leave in the step that cancels.  A goroutine that was *)
(* doing something else comes to its select later, when Stop may already   *)
(* have closed the channels: both cases are then ready and Go picks one at *)
(* random.  A receive from a closed channel yields a nil packet, which     *)
(* HandleEvent and the listener dereference; a send on one panics.  Either *)
(* ends the process: the goroutine is "crashed".                           *)
(*                                                                         *)
(* Handler 1 is the input transport, handler N the output transport.       *)
(***************************************************************************)
EXTENDS Naturals, FiniteSets

CONSTANTS
  N,            \* number of handlers
  Plain,        \* handlers whose loop does not check ctx after a receive
  StartMayFail, \* handlers whose Start can return an error
  ServiceMayFail,\* handlers whose service can report a fatal error
  HasBackup,    \* handlers configured with a backup service
  OutputMayFail,\* SendEvent of the output transport can return an error
  CleanupMayHang,\* handlers whose Cleanup may never return
  CleanupMayPanic,\* handlers whose Cleanup may panic
  HasTimeout,   \* PipelineConfig.Timeout > 0
  Together      \* bound: if FALSE, only one of these happens in a session: a
                \* service fails, the call is ended, the timeout comes

Handlers == 1..N

ASSUME RunnerAssumption ==
  /\ N \in Nat /\ N > 1
  /\ Plain \subseteq Handlers
  /\ StartMayFail \subseteq Handlers
  /\ ServiceMayFail \subseteq Handlers
  /\ HasBackup \subseteq Handlers
  /\ CleanupMayHang \subseteq Handlers
  /\ CleanupMayPanic \subseteq Handlers
  /\ OutputMayFail \in BOOLEAN
  /\ HasTimeout \in BOOLEAN /\ Together \in BOOLEAN

VARIABLES
  run,        \* Pipeline.Run: "start", "waiting", "stopping" or "returned"
  result,     \* what Run returned: "nil", "error" or "deadline"
  jobDone,    \* the job's context is done
  ctxDone,    \* the runner's context is done
  Started,
  Finished,   \* signals in the channel Finished, of capacity 5
  initialized,\* handlers 1..initialized have been initialised
  start,      \* start[h]: the goroutine that runs h.Start
  fatal,      \* handlers with an error in FatalServiceErrorChan
  backups,    \* handlers that still have a backup service
  deaf,       \* handlers whose fatalErrorHandlerLoop has given up
  loop,       \* loop[h]: the loop goroutine of h
  packet,     \* packet[h]: what that goroutine is working on
  listener,   \* the listener goroutine
  received,   \* what the listener is working on
  relay,      \* the goroutine that relays an EndCallEvent to handler 1
  stop,       \* the Stop that found the runner started: its next step
  stopBy,     \* who called it: "none", "run" or "goroutine"
  stopCalls,  \* Stop goroutines spawned and not yet running
  stopped,    \* Stop has called Cleanup of the handlers 1..stopped
  cleanups,   \* cleanups[h]: how often h.Cleanup has been called
  closed,     \* how many channels have been closed
  ending      \* History: "asked" once the end_call tool has been used, and
              \* "swallowed" when the output transport failed on its event

vars == <<run, result, jobDone, ctxDone, Started, Finished, initialized,
          start, fatal, backups, deaf, loop, packet, listener, received, relay,
          stop, stopBy, stopCalls, stopped, cleanups, closed, ending>>

runVars   == <<run, result>>
startVars == <<initialized, start, fatal, backups, deaf>>
flowVars  == <<loop, packet, listener, received, relay>>
stopVars  == <<stop, stopBy, stopped, cleanups, closed>>
callVars  == <<stopCalls, ending>>

\* Stop closes topOutputChan, lastOutputChan and then the inputs in order.
TopClosed      == closed >= 1
LastClosed     == closed >= 2
InputClosed(h) == closed >= h + 2
\* The channel handler h sends to its successor on is closed.
OutputClosed(h) == IF h = N THEN LastClosed ELSE InputClosed(h + 1)

-----------------------------------------------------------------------------
Init ==
  /\ run = "start" /\ result = "nil"
  /\ jobDone \in BOOLEAN
  /\ ctxDone = FALSE
  /\ Started = FALSE
  /\ Finished = 0
  /\ initialized = 0
  /\ start = [h \in Handlers |-> "none"]
  /\ fatal = {}
  /\ backups = HasBackup /\ deaf = {}
  /\ loop = [h \in Handlers |-> "none"]
  /\ packet = [h \in Handlers |-> "none"]
  /\ listener = "none" /\ received = "none" /\ relay = "none"
  /\ stop = "none" /\ stopBy = "none" /\ stopped = 0
  /\ stopCalls = 0
  /\ cleanups = [h \in Handlers |-> 0]
  /\ closed = 0
  /\ ending = "no"

(* r.cancel(): the context ends and every parked goroutine leaves; one     *)
(* parked in a send drops its packet and returns to its loop, which it     *)
(* then finds at the select with the context done ("busy" with nothing).   *)
cancel ==
  /\ ctxDone' = TRUE
  /\ loop' = [h \in Handlers |-> CASE loop[h] = "parked" -> "exited"
                                   [] loop[h] = "sending" -> "busy"
                                   [] OTHER -> loop[h]]
  /\ packet' = [h \in Handlers |->
                  IF loop[h] = "sending" THEN "none" ELSE packet[h]]
  /\ listener' = IF listener = "parked" THEN "exited" ELSE listener
  /\ relay' = IF relay = "sending" THEN "exited" ELSE relay
  /\ UNCHANGED received

-----------------------------------------------------------------------------
(* Runner.Start, called by Pipeline.Run.                                   *)

\* The job was cancelled before it began, or the builder returned an error.
RunSkipsJob ==
  /\ run = "start" /\ initialized = 0 /\ ~Started
  /\ run' = "returned"
  /\ \/ jobDone /\ UNCHANGED result
     \/ ~jobDone /\ result' = "error"
  /\ UNCHANGED <<jobDone, ctxDone, Started, Finished, startVars, flowVars,
                 stopVars, callVars>>

\* handler.Initialize returns nil.  For a handler that uses HandlerLoop it
\* also spawns the loop; the others spawn theirs in Start.
InitializeHandler ==
  /\ run = "start" /\ initialized < N
  /\ Started \/ ~jobDone
  /\ Started' = TRUE
  /\ initialized' = initialized + 1
  /\ loop' = [loop EXCEPT ![initialized + 1] =
                IF initialized + 1 \in Plain THEN "none" ELSE "parked"]
  /\ UNCHANGED <<runVars, jobDone, ctxDone, Finished, start, fatal, backups,
                 deaf, packet, listener, received, relay, stopVars, callVars>>

\* handler.Initialize returns an error: Start cancels, signals and returns it.
\* Handlers initialised before are not cleaned up.
InitializeFails ==
  /\ run = "start" /\ initialized < N
  /\ Started \/ ~jobDone
  /\ Started' = TRUE
  /\ cancel
  /\ Finished' = Finished + 1
  /\ run' = "returned" /\ result' = "error"
  /\ UNCHANGED <<jobDone, startVars, stopVars, callVars>>

StartReturns ==
  /\ run = "start" /\ initialized = N
  /\ run' = "waiting"
  /\ start' = [h \in Handlers |-> "spawned"]
  /\ listener' = "parked"
  /\ UNCHANGED <<result, jobDone, ctxDone, Started, Finished, initialized,
                 fatal, backups, deaf, loop, packet, received, relay, stopVars,
                 callVars>>

\* h.Start succeeds.  A plain loop spawned now meets the select like any other.
StartHandler(h) ==
  /\ start[h] = "spawned"
  /\ start' = [start EXCEPT ![h] = "ok"]
  /\ loop' = [loop EXCEPT ![h] =
                IF h \in Plain THEN IF ctxDone THEN "busy" ELSE "parked"
                               ELSE @]
  /\ UNCHANGED <<runVars, jobDone, ctxDone, Started, Finished, initialized,
                 fatal, backups, deaf, packet, listener, received, relay, stopVars,
                 callVars>>

\* h.Start puts its error into FatalServiceErrorChan and returns it ...
StartHandlerFails(h) ==
  /\ start[h] = "spawned" /\ h \in StartMayFail
  /\ start' = [start EXCEPT ![h] = "failing"]
  /\ fatal' = fatal \cup {h}
  /\ UNCHANGED <<runVars, jobDone, ctxDone, Started, Finished, initialized,
                 backups, deaf, flowVars, stopVars, callVars>>

\* ... and the goroutine that called it cancels the context.
CancelAfterFailedStart(h) ==
  /\ start[h] = "failing"
  /\ start' = [start EXCEPT ![h] = "failed"]
  /\ cancel
  /\ UNCHANGED <<runVars, jobDone, Started, Finished, initialized, fatal,
                 backups, deaf, stopVars, callVars>>

-----------------------------------------------------------------------------
(* The loops.  A loop that finishes with a packet comes back to its select *)
(* (AtSelect): it parks there, or with the context done it picks one of    *)
(* the ready cases.                                                        *)

\* A closed input channel yields nil.  HandlerLoop looks at the context before
\* it uses the packet; a plain loop hands it to HandleEvent.
AtSelect(h, l) ==
  IF ~ctxDone THEN l = "parked"
  ELSE \/ l = "exited"
       \/ h \in Plain /\ InputClosed(h) /\ l = "crashed"

\* A packet from a service goroutine of the handler before h (audio from the
\* transport, a transcript, a token, ...) reaches the loop of h.
Deliver(h) ==
  /\ h > 1
  /\ ~ctxDone /\ loop[h] = "parked"
  /\ loop' = [loop EXCEPT ![h] = "busy"]
  /\ packet' = [packet EXCEPT ![h] = "data"]
  /\ UNCHANGED <<runVars, jobDone, ctxDone, Started, Finished, startVars,
                 listener, received, relay, stopVars, callVars>>

\* HandleEvent of h gets as far as SendPacket and passes its first check.
PassContextCheck(h) ==
  /\ loop[h] = "busy" /\ packet[h] # "none" /\ ~ctxDone
  /\ loop' = [loop EXCEPT ![h] = "checked"]
  /\ UNCHANGED <<runVars, jobDone, ctxDone, Started, Finished, startVars,
                 packet, listener, received, relay, stopVars, callVars>>

\* HandleEvent of the output transport: SendEvent fails, the error goes to
\* HandlerErrorChan and the packet is not passed on.
SendEventFails ==
  /\ OutputMayFail
  /\ loop[N] = "busy" /\ packet[N] # "none" /\ ~ctxDone
  /\ loop' = [loop EXCEPT ![N] = "parked"]
  /\ packet' = [packet EXCEPT ![N] = "none"]
  /\ ending' = IF packet[N] = "endCall" THEN "swallowed" ELSE ending
  /\ UNCHANGED <<runVars, jobDone, ctxDone, Started, Finished, startVars,
                 listener, received, relay, stopVars, stopCalls>>

\* The second select of SendPacket: it parks in the send, or finds the context
\* done, or the channel closed as well.
EnterSend(h) ==
  /\ loop[h] = "checked"
  /\ \/ /\ ~ctxDone
        /\ loop' = [loop EXCEPT ![h] = "sending"]
        /\ UNCHANGED packet
     \/ /\ ctxDone
        /\ loop' = [loop EXCEPT ![h] = "busy"]
        /\ packet' = [packet EXCEPT ![h] = "none"]
     \/ /\ OutputClosed(h)
        /\ loop' = [loop EXCEPT ![h] = "crashed"]
        /\ UNCHANGED packet
  /\ UNCHANGED <<runVars, jobDone, ctxDone, Started, Finished, startVars,
                 listener, received, relay, stopVars, callVars>>

\* The successor takes the packet.
PassOn(h) ==
  /\ loop[h] = "sending"
  /\ \/ /\ h < N
        /\ loop[h + 1] = "parked"
        /\ loop' = [loop EXCEPT ![h] = "parked", ![h + 1] = "busy"]
        /\ packet' = [packet EXCEPT ![h] = "none", ![h + 1] = packet[h]]
        /\ UNCHANGED <<listener, received>>
     \/ /\ h = N
        /\ listener = "parked"
        /\ loop' = [loop EXCEPT ![h] = "parked"]
        /\ packet' = [packet EXCEPT ![h] = "none"]
        /\ listener' = "busy"
        /\ received' = IF packet[h] = "endCall" THEN "endCallAtLast"
                                                ELSE "data"
  /\ UNCHANGED <<runVars, jobDone, ctxDone, Started, Finished, startVars,
                 relay, stopVars, callVars>>

\* The loop is back at its select after cancellation.
LoopLeaves(h) ==
  /\ ctxDone /\ loop[h] = "busy"
  /\ \E l \in {"exited", "crashed"} :
       AtSelect(h, l) /\ loop' = [loop EXCEPT ![h] = l]
  /\ packet' = [packet EXCEPT ![h] = "none"]
  /\ UNCHANGED <<runVars, jobDone, ctxDone, Started, Finished, startVars,
                 listener, received, relay, stopVars, callVars>>

-----------------------------------------------------------------------------
(* Fatal service errors and the top channel.                               *)

\* No service has failed so far.
ServicesWork == fatal = {} /\ deaf = {} /\ backups = HasBackup

\* A service reports an error through FatalServiceErrorChan.
ServiceFails(h) ==
  /\ Together \/ (ending = "no" /\ result # "deadline")
  /\ h \in ServiceMayFail
  /\ start[h] = "ok" /\ h \notin fatal /\ ~ctxDone
  /\ fatal' = fatal \cup {h}
  /\ UNCHANGED <<runVars, jobDone, ctxDone, Started, Finished, initialized,
                 start, backups, deaf, flowVars, stopVars, callVars>>

\* fatalErrorHandlerLoop: the backup takes over ...
SwitchToBackupService(h) ==
  /\ h \in fatal \ deaf /\ h \in backups /\ ~ctxDone
  /\ fatal' = fatal \ {h}
  /\ backups' = backups \ {h}
  /\ UNCHANGED <<runVars, jobDone, ctxDone, Started, Finished, initialized,
                 start, deaf, flowVars, stopVars, callVars>>

\* ... or there is none, or it does not initialise: a CriticalErrorEvent goes
\* to the top and the goroutine ends.
ReportCriticalError(h) ==
  /\ h \in fatal \ deaf
  /\ ~ctxDone /\ listener = "parked"
  /\ fatal' = fatal \ {h}
  /\ deaf' = deaf \cup {h}
  /\ listener' = "busy" /\ received' = "critical"
  /\ UNCHANGED <<runVars, jobDone, ctxDone, Started, Finished, initialized,
                 start, backups, loop, packet, relay, stopVars, callVars>>

\* Another packet for the top: broadcast to websocket clients and relayed to
\* handler 1 by a goroutine of its own (Deliver stands for its arrival).
DeliverTop ==
  /\ ~ctxDone /\ listener = "parked"
  /\ listener' = "busy" /\ received' = "data"
  /\ UNCHANGED <<runVars, jobDone, ctxDone, Started, Finished, startVars,
                 loop, packet, relay, stopVars, callVars>>

\* The end_call tool sends an EndCallEvent to the top.
EndCall ==
  /\ Together \/ (ServicesWork /\ result # "deadline")
  /\ ~ctxDone /\ listener = "parked" /\ ending = "no"
  /\ ending' = "asked"
  /\ listener' = "busy" /\ received' = "endCallAtTop"
  /\ UNCHANGED <<runVars, jobDone, ctxDone, Started, Finished, startVars,
                 loop, packet, relay, stopVars, stopCalls>>

\* Faulty variant: EndCallEvent is not recognised at the last node.
StopsRunnerOnlyOnCritical(event) == event = "critical"

\* The events on which the listener spawns a goroutine that calls Stop.
StopsRunner(event) == event \in {"critical", "endCallAtLast"}

\* processTopOutput or processFinalOutput returns and the listener is back at
\* its select.  It does not check the context, so a closed channel crashes it.
ListenerFinishes ==
  /\ listener = "busy"
  /\ received' = "none"
  /\ \/ ~ctxDone /\ listener' = "parked"
     \/ ctxDone /\ listener' = "exited"
     \/ (TopClosed \/ LastClosed) /\ listener' = "crashed"
  /\ relay' = IF received = "endCallAtTop" THEN "busy" ELSE relay
  /\ stopCalls' = IF StopsRunner(received) THEN stopCalls + 1 ELSE stopCalls
  /\ UNCHANGED <<runVars, jobDone, ctxDone, Started, Finished, startVars,
                 loop, packet, stopVars, ending>>

\* go r.Handlers[0].HandleEvent(packet): the relay goroutine goes through
\* SendPacket of handler 1 as the loops do.
RelaySends ==
  /\ \/ relay = "busy" /\ ~ctxDone /\ relay' = "checked"
     \/ relay = "busy" /\ ctxDone /\ relay' = "exited"
     \/ relay = "checked" /\ ~ctxDone /\ relay' = "sending"
     \/ relay = "checked" /\ ctxDone /\ relay' = "exited"
     \/ relay = "checked" /\ OutputClosed(1) /\ relay' = "crashed"
  /\ UNCHANGED <<runVars, jobDone, ctxDone, Started, Finished, startVars,
                 loop, packet, listener, received, stopVars, callVars>>

RelayDelivers ==
  /\ relay = "sending"
  /\ loop[2] = "parked"
  /\ relay' = "exited"
  /\ loop' = [loop EXCEPT ![2] = "busy"]
  /\ packet' = [packet EXCEPT ![2] = "endCall"]
  /\ UNCHANGED <<runVars, jobDone, ctxDone, Started, Finished, startVars,
                 listener, received, stopVars, callVars>>

-----------------------------------------------------------------------------
(* Runner.Stop.  The first caller to find Started set does the work, step  *)
(* by step; every other call returns at once.                              *)

EnterStop(caller) ==
  /\ Started
  /\ Started' = FALSE
  /\ stop' = "cancel" /\ stopBy' = caller /\ stopped' = 0
  /\ UNCHANGED <<cleanups, closed>>

SkipStop == ~Started /\ UNCHANGED <<Started, stopVars>>

\* A Stop goroutine spawned by the listener runs.
StopGoroutine ==
  /\ stopCalls > 0
  /\ stopCalls' = stopCalls - 1
  /\ EnterStop("goroutine") \/ SkipStop
  /\ UNCHANGED <<runVars, jobDone, ctxDone, Finished, startVars, flowVars,
                 ending>>


StopCancels ==
  /\ stop = "cancel"
  /\ stop' = "cleanup"
  /\ cancel
  /\ UNCHANGED <<runVars, jobDone, Started, Finished, startVars, stopBy,
                 stopped, cleanups, closed, callVars>>

\* Stop calls Cleanup of the next handler.
CallCleanup ==
  /\ stop = "cleanup" /\ stopped < N
  /\ stopped' = stopped + 1
  /\ cleanups' = [cleanups EXCEPT ![stopped + 1] = @ + 1]

\* It returns; an error is kept and does not end the loop.
StopCleansUp ==
  /\ CallCleanup
  /\ UNCHANGED <<runVars, jobDone, ctxDone, Started, Finished, startVars,
                 flowVars, stop, stopBy, closed, callVars>>

\* It never returns: TTSHandler.Cleanup waits for the simulation with the mutex
\* that the simulation needs, MCPManager.Close for a call without timeout.
CleanupHangs ==
  /\ CallCleanup /\ stopped' \in CleanupMayHang
  /\ stop' = "hung"
  /\ UNCHANGED <<runVars, jobDone, ctxDone, Started, Finished, startVars,
                 flowVars, stopBy, closed, callVars>>

\* The deferred functions of Stop: a non-blocking send on Finished, and the
\* recovery of a panic.  Then the caller goes on.
StopReturns ==
  /\ Finished' = IF Finished < 5 THEN Finished + 1 ELSE Finished
  /\ run' = IF stopBy = "run" THEN "returned" ELSE run

\* It panics: Stop recovers and returns, leaving the other handlers as they are
\* and every channel open.
CleanupPanics ==
  /\ CallCleanup /\ stopped' \in CleanupMayPanic
  /\ stop' = "panicked"
  /\ StopReturns
  /\ UNCHANGED <<result, jobDone, ctxDone, Started, startVars, flowVars,
                 stopBy, closed, callVars>>

\* Faulty variant: channels are closed while handlers are being cleaned up.
ClosableTooEarly == stop = "cleanup"

\* All handlers are cleaned up: the channels may be closed.
Closable == stop = "cleanup" /\ stopped = N

\* safeClose, one channel at a time.
StopCloses ==
  /\ Closable /\ closed < N + 2
  /\ closed' = closed + 1
  /\ UNCHANGED <<runVars, jobDone, ctxDone, Started, Finished, startVars,
                 flowVars, stop, stopBy, stopped, cleanups, callVars>>

\* Faulty variant: Finished is not signalled.
StopFinishesSilently ==
  /\ stop = "cleanup" /\ stopped = N /\ closed = N + 2
  /\ stop' = "done"
  /\ run' = IF stopBy = "run" THEN "returned" ELSE run
  /\ UNCHANGED <<result, jobDone, ctxDone, Started, Finished, startVars,
                 flowVars, stopBy, stopped, cleanups, closed, callVars>>

\* Everything is closed.
StopFinishes ==
  /\ stop = "cleanup" /\ stopped = N /\ closed = N + 2
  /\ stop' = "done"
  /\ StopReturns
  /\ UNCHANGED <<result, jobDone, ctxDone, Started, startVars, flowVars,
                 stopBy, stopped, cleanups, closed, callVars>>

-----------------------------------------------------------------------------
(* The select of Pipeline.Run.                                             *)

\* Run calls Stop itself and returns when that call returns.
RunCallsStop ==
  /\ run = "waiting"
  /\ \/ EnterStop("run") /\ run' = "stopping"
     \/ SkipStop /\ run' = "returned"
  /\ UNCHANGED <<jobDone, ctxDone, Finished, startVars, flowVars, callVars>>

\* The job's context is done.
RunStops == jobDone /\ RunCallsStop /\ UNCHANGED result

\* The session timeout has passed.
RunTimesOut ==
  /\ HasTimeout /\ (Together \/ (ServicesWork /\ ending = "no"))
  /\ RunCallsStop /\ result' = "deadline"

RunSeesFinished ==
  /\ run = "waiting" /\ Finished > 0
  /\ Finished' = Finished - 1
  /\ run' = "returned"
  /\ UNCHANGED <<result, jobDone, ctxDone, Started, startVars, flowVars,
                 stopVars, callVars>>

\* The provider cancels the job: the room closed, the worker drains, ...
CancelJob ==
  /\ ~jobDone
  /\ jobDone' = TRUE
  /\ UNCHANGED <<runVars, ctxDone, Started, Finished, startVars, flowVars,
                 stopVars, callVars>>

-----------------------------------------------------------------------------
\* The processes.
RunProcess ==
  \/ RunSkipsJob \/ InitializeHandler \/ InitializeFails \/ StartReturns
  \/ RunStops \/ RunSeesFinished
StopProcess ==
  \/ StopCancels \/ StopCleansUp \/ CleanupHangs \/ CleanupPanics
  \/ StopCloses \/ StopFinishes
StartProcess(h) ==
  StartHandler(h) \/ StartHandlerFails(h) \/ CancelAfterFailedStart(h)
LoopProcess(h) == PassContextCheck(h) \/ EnterSend(h) \/ LoopLeaves(h)
FatalErrorProcess(h) == SwitchToBackupService(h) \/ ReportCriticalError(h)

\* What happens to the session.
Environment ==
  \/ CancelJob \/ SendEventFails \/ DeliverTop \/ EndCall
  \/ \E h \in Handlers : Deliver(h) \/ ServiceFails(h)

Next ==
  \/ RunProcess \/ RunTimesOut
  \/ StopProcess \/ StopGoroutine
  \/ ListenerFinishes \/ RelaySends \/ RelayDelivers
  \/ \E h \in Handlers :
       StartProcess(h) \/ LoopProcess(h) \/ PassOn(h) \/ FatalErrorProcess(h)
  \/ Environment

Spec == Init /\ [][Next]_vars

(* Goroutines that can go on do.  Those that wait for a rendezvous with a  *)
(* busy partner are served in turn (Go queues blocked senders), hence      *)
(* strong fairness there.  SendEvent and Broadcast do not block for ever.  *)
(* Nothing is assumed of the environment, of a Cleanup that may hang, nor  *)
(* of the session timeout: a session must not need it to come to its end.  *)
(* Run, Stop, the starts and the reports of fatal errors take only so many *)
(* steps in a session, so that one condition for all of them is enough.    *)
Fairness ==
  /\ WF_vars(RunProcess \/ StopProcess \/ StopGoroutine
             \/ \E h \in Handlers : StartProcess(h))
  /\ WF_vars(ListenerFinishes)
  /\ SF_vars(RelaySends \/ RelayDelivers)
  /\ SF_vars(\E h \in Handlers : FatalErrorProcess(h))
  /\ \A h \in Handlers : SF_vars(LoopProcess(h) \/ PassOn(h))

FairSpec == Spec /\ Fairness
-----------------------------------------------------------------------------
(* Properties.                                                             *)

LoopStates ==
  {"none", "parked", "busy", "checked", "sending", "exited", "crashed"}

TypeOK ==
  /\ run \in {"start", "waiting", "stopping", "returned"}
  /\ result \in {"nil", "error", "deadline"}
  /\ jobDone \in BOOLEAN /\ ctxDone \in BOOLEAN /\ Started \in BOOLEAN
  /\ Finished \in 0..5
  /\ initialized \in 0..N
  /\ start \in [Handlers -> {"none", "spawned", "ok", "failing", "failed"}]
  /\ fatal \subseteq Handlers
  /\ backups \subseteq HasBackup
  /\ deaf \subseteq Handlers
  /\ loop \in [Handlers -> LoopStates]
  /\ packet \in [Handlers -> {"none", "data", "endCall"}]
  /\ listener \in {"none", "parked", "busy", "exited", "crashed"}
  /\ received \in {"none", "data", "critical", "endCallAtTop", "endCallAtLast"}
  /\ relay \in LoopStates
  /\ stop \in {"none", "cancel", "cleanup", "hung", "panicked", "done"}
  /\ stopBy \in {"none", "run", "goroutine"}
  /\ stopCalls \in Nat
  /\ stopped \in 0..N
  /\ cleanups \in [Handlers -> Nat]
  /\ closed \in 0..(N + 2)
  /\ ending \in {"no", "asked", "swallowed"}

\* However many goroutines call Stop, and whether or not Run calls it as well,
\* no handler is cleaned up twice: BaseHandler.Cleanup closes channels.
CleanupOnce == \A h \in Handlers : cleanups[h] <= 1

\* Stop takes the session down in order: handlers are cleaned up only once the
\* context is done, a channel is closed only when every handler has been
\* cleaned up, and a session that started is reported finished only when
\* every channel is closed, or a Cleanup panicked.
ShutdownInOrder ==
  /\ \A h \in Handlers : cleanups[h] > 0 => ctxDone
  /\ closed > 0 => \A h \in Handlers : cleanups[h] > 0
  /\ Finished > 0 /\ initialized = N => closed = N + 2 \/ stop = "panicked"

\* A session whose job is cancelled, or that somebody asked to stop, returns
\* from Pipeline.Run, unless a handler's Cleanup never returns.  A Cleanup that
\* fails or panics is no excuse.
RunReturns ==
  (jobDone \/ stopCalls > 0 \/ received = "critical")
    ~> (run = "returned" \/ stop = "hung")

\* No goroutine of the session outlives it for good: once Run has returned,
\* every loop, the listener and the relay come to an end.
GoroutinesEnd ==
  (run = "returned") ~>
    /\ \A h \in Handlers : loop[h] \in {"none", "exited", "crashed"}
    /\ listener \in {"none", "exited", "crashed"}
    /\ relay \in {"none", "exited", "crashed"}

\* A session whose handlers start and that the end_call tool asked to end returns
\* from Pipeline.Run: the event travels through every handler, the busy ones
\* included, and is neither lost nor stuck on the way.  What keeps it open is a
\* handler that failed to start (FailedStartEndsSession), a Cleanup that never
\* returns, and the output transport failing on the event (EndCallStopsSession).
EndCallStopsHealthySession ==
  (ending = "asked") ~>
    \/ run = "returned" \/ stop = "hung" \/ ending = "swallowed"
    \/ \E h \in Handlers : start[h] = "failed"

\* EndCallEvent: "The runner handles it by stopping the pipeline gracefully".
\* The code does not keep to this: the output transport returns an error of
\* SendEvent and does not pass the event on, so the runner never sees it; TLC
\* refutes it with StartMayFail = {} (README, section 3).
EndCallStopsSession ==
  (ending = "asked") ~> (run = "returned" \/ stop = "hung")

\* Pipeline.Run "blocks until completion": a session whose handler could not
\* be started has nothing left to wait for, and Run returns.
\* The code does not keep to this: TLC refutes it (README, section 3).
FailedStartEndsSession ==
  \A h \in Handlers : (start[h] = "failed") ~> run = "returned"

\* Provider.handleJob: "This ensures Pipeline.Run() completes its
\* runner.Stop() / Cleanup() cycle before we proceed".
\* The code does not keep to this: TLC refutes it (README, section 3).
CleanupBeforeReturn ==
  run = "returned" /\ initialized = N => \A h \in Handlers : cleanups[h] > 0

\* "stopping the pipeline gracefully": no goroutine panics on the way down.
\* The code does not keep to this: TLC refutes it (README, section 3).
StopsGracefully ==
  /\ \A h \in Handlers : loop[h] # "crashed"
  /\ listener # "crashed" /\ relay # "crashed"
=============================================================================
