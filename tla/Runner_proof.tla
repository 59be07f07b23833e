---------------------------- MODULE Runner_proof ----------------------------
(***************************************************************************)
(* Proofs about Runner, for any number of handlers and any choice of the   *)
(* ones that may fail: its type invariant, that no handler is cleaned up   *)
(* twice, and that Stop takes the session down in order.                   *)
(***************************************************************************)
EXTENDS Runner, TLAPS

USE RunnerAssumption DEF Handlers

\* Runner.cancel leaves every variable it changes well typed.
LEMMA CancelTypes ==
  ASSUME TypeOK, cancel
  PROVE  /\ ctxDone' \in BOOLEAN
         /\ loop' \in [Handlers -> LoopStates]
         /\ packet' \in [Handlers -> {"none", "data", "endCall"}]
         /\ listener' \in {"none", "parked", "busy", "exited", "crashed"}
         /\ relay' \in LoopStates
         /\ received' = received
BY DEF TypeOK, cancel, LoopStates

\* So does a call of Stop, whether it finds the runner started or not.
LEMMA EnterStopTypes ==
  ASSUME TypeOK, NEW caller \in {"run", "goroutine"},
         EnterStop(caller) \/ SkipStop
  PROVE  /\ Started' \in BOOLEAN
         /\ stop' \in {"none", "cancel", "cleanup", "hung", "panicked", "done"}
         /\ stopBy' \in {"none", "run", "goroutine"}
         /\ stopped' \in 0..N
         /\ cleanups' = cleanups /\ closed' = closed
<1>1. CASE EnterStop(caller)
  <2>1. Started' = FALSE /\ stop' = "cancel" /\ stopBy' = caller
        /\ stopped' = 0 /\ cleanups' = cleanups /\ closed' = closed
    BY <1>1, Zenon DEF EnterStop
  <2>2. Started' \in BOOLEAN
    BY <2>1, Zenon
  <2>3. stopped' \in 0..N
    BY <2>1
  <2> QED
    BY <2>1, <2>2, <2>3, Zenon
<1>2. CASE SkipStop
  BY <1>2 DEF SkipStop, TypeOK, stopVars
<1> QED
  BY <1>1, <1>2

\* What the proofs about Stop rest on: before StartReturns nobody can ask for a
\* stop; only the first caller of Stop finds Started set; and the progress of
\* that one Stop determines which handlers are cleaned up, whether channels
\* are closed and whether the session may be reported finished.
StopInv ==
  /\ run = "start" => /\ stop = "none" /\ Finished = 0
                      /\ listener = "none" /\ received = "none"
                      /\ stopCalls = 0
  /\ Started => stop = "none"
  /\ stop \in {"none", "cancel"} => stopped = 0
  /\ stop \in {"cleanup", "hung", "panicked", "done"} => ctxDone
  /\ \A h \in Handlers : cleanups[h] = IF h <= stopped THEN 1 ELSE 0
  /\ closed > 0 => stopped = N
  /\ stop = "done" => closed = N + 2
  /\ Finished > 0 /\ initialized = N => stop \in {"done", "panicked"}

\* The initial state is well typed and satisfies StopInv.
LEMMA InitInv == Init => TypeOK /\ StopInv
<1> SUFFICES ASSUME Init PROVE TypeOK /\ StopInv
  OBVIOUS
<1>1. TypeOK
  <2>1. /\ Finished \in 0..5 /\ initialized \in 0..N /\ stopCalls \in Nat
        /\ stopped \in 0..N /\ closed \in 0..(N + 2)
        /\ cleanups \in [Handlers -> Nat]
    BY DEF Init
  <2>2. /\ jobDone \in BOOLEAN /\ ctxDone \in BOOLEAN
        /\ Started \in BOOLEAN
    BY Zenon DEF Init
  <2> QED
    BY <2>1, <2>2 DEF Init, TypeOK, LoopStates
<1>2. StopInv
  BY DEF Init, StopInv
<1> QED
  BY <1>1, <1>2

\* Steps of Pipeline.Run and Runner.Start keep the types.
LEMMA RunTypes ==
  ASSUME TypeOK, StopInv, RunProcess \/ RunTimesOut PROVE TypeOK'
<1>1. CASE RunSkipsJob
  BY <1>1 DEF RunSkipsJob, TypeOK, startVars, flowVars, stopVars, callVars
<1>2. CASE InitializeHandler
  BY <1>2 DEF InitializeHandler, TypeOK, LoopStates, runVars, stopVars, callVars
<1>3. CASE InitializeFails
  <2>1. cancel /\ Finished' = 1
    BY <1>3 DEF InitializeFails, StopInv
  <2> QED
    BY <1>3, <2>1, CancelTypes
    DEF InitializeFails, TypeOK, startVars, stopVars, callVars
<1>4. CASE StartReturns
  BY <1>4 DEF StartReturns, TypeOK, stopVars, callVars
<1>5. CASE RunStops \/ RunTimesOut
  <2>1. run' \in {"stopping", "returned"}
        /\ result' \in {result, "deadline"}
    BY <1>5, Zenon DEF RunStops, RunTimesOut, RunCallsStop
  <2>2. EnterStop("run") \/ SkipStop
    BY <1>5, Zenon DEF RunStops, RunTimesOut, RunCallsStop
  <2>3. UNCHANGED <<jobDone, ctxDone, Finished, startVars, flowVars, callVars>>
    BY <1>5, Zenon DEF RunStops, RunTimesOut, RunCallsStop
  <2>4. /\ run' \in {"start", "waiting", "stopping", "returned"}
        /\ result' \in {"nil", "error", "deadline"}
    BY <2>1 DEF TypeOK
  <2>5. /\ Started' \in BOOLEAN
        /\ stop' \in {"none", "cancel", "cleanup", "hung", "panicked", "done"}
        /\ stopBy' \in {"none", "run", "goroutine"}
        /\ stopped' \in 0..N /\ cleanups' = cleanups /\ closed' = closed
    BY <2>2, EnterStopTypes, Zenon
  <2> QED
    BY <2>3, <2>4, <2>5
    DEF TypeOK, startVars, flowVars, callVars
<1>6. CASE RunSeesFinished
  BY <1>6 DEF RunSeesFinished, TypeOK, startVars, flowVars, stopVars, callVars
<1> QED
  BY <1>1, <1>2, <1>3, <1>4, <1>5, <1>6 DEF RunProcess

\* Steps of Stop keep the types.
LEMMA StopTypes ==
  ASSUME TypeOK, StopProcess \/ StopGoroutine PROVE TypeOK'
<1>1. CASE StopCancels
  BY <1>1, CancelTypes
  DEF StopCancels, TypeOK, runVars, startVars, callVars
<1>2. CASE StopCleansUp
  BY <1>2 DEF StopCleansUp, CallCleanup, TypeOK, runVars, startVars, flowVars,
              callVars
<1>6. CASE CleanupHangs
  BY <1>6 DEF CleanupHangs, CallCleanup, TypeOK, runVars, startVars, flowVars,
              callVars
<1>7. CASE CleanupPanics
  BY <1>7 DEF CleanupPanics, CallCleanup, StopReturns, TypeOK, startVars,
              flowVars, callVars
<1>3. CASE StopCloses
  BY <1>3 DEF StopCloses, TypeOK, runVars, startVars, flowVars, callVars
<1>4. CASE StopFinishes
  BY <1>4 DEF StopFinishes, StopReturns, TypeOK, startVars, flowVars, callVars
<1>5. CASE StopGoroutine
  <2>1. EnterStop("goroutine") \/ SkipStop
    BY <1>5, Zenon DEF StopGoroutine
  <2> QED
    BY <1>5, <2>1, EnterStopTypes
    DEF StopGoroutine, TypeOK, runVars, startVars, flowVars
<1> QED
  BY <1>1, <1>2, <1>3, <1>4, <1>5, <1>6, <1>7 DEF StopProcess

\* Steps of a handler's goroutines keep the types.
LEMMA HandlerTypes ==
  ASSUME TypeOK, NEW h \in Handlers,
         \/ StartProcess(h) \/ LoopProcess(h) \/ PassOn(h)
         \/ FatalErrorProcess(h) \/ Deliver(h) \/ ServiceFails(h)
  PROVE  TypeOK'
<1> USE DEF runVars, startVars, flowVars, stopVars, callVars
<1>1. CASE StartHandler(h)
  BY <1>1 DEF StartHandler, TypeOK, LoopStates
<1>2. CASE StartHandlerFails(h)
  BY <1>2 DEF StartHandlerFails, TypeOK
<1>3. CASE CancelAfterFailedStart(h)
  <2>1. cancel
    BY <1>3, Zenon DEF CancelAfterFailedStart
  <2>2. /\ start' \in [Handlers -> {"none", "spawned", "ok", "failing", "failed"}]
        /\ UNCHANGED <<run, result, jobDone, Started, Finished, initialized,
                       fatal, backups, deaf, stopVars, stopCalls, ending>>
    BY <1>3 DEF CancelAfterFailedStart, TypeOK
  <2> QED
    BY <2>1, <2>2, CancelTypes DEF TypeOK
<1>4. CASE PassContextCheck(h)
  BY <1>4 DEF PassContextCheck, TypeOK, LoopStates
<1>5. CASE EnterSend(h)
  <2>1. /\ \E l \in LoopStates : loop' = [loop EXCEPT ![h] = l]
        /\ packet' = packet \/ packet' = [packet EXCEPT ![h] = "none"]
    BY <1>5 DEF EnterSend, LoopStates
  <2> QED
    BY <1>5, <2>1 DEF EnterSend, TypeOK
<1>6. CASE LoopLeaves(h)
  <2>1. /\ \E l \in LoopStates : loop' = [loop EXCEPT ![h] = l]
        /\ packet' = [packet EXCEPT ![h] = "none"]
    BY <1>6 DEF LoopLeaves, LoopStates
  <2> QED
    BY <1>6, <2>1 DEF LoopLeaves, TypeOK
<1>7. CASE PassOn(h)
  <2>1. packet[h] \in {"none", "data", "endCall"}
    BY DEF TypeOK
  <2>2. /\ loop' \in [Handlers -> LoopStates]
        /\ packet' \in [Handlers -> {"none", "data", "endCall"}]
    <3>1. CASE h < N /\ loop[h + 1] = "parked"
               /\ loop' = [loop EXCEPT ![h] = "parked", ![h + 1] = "busy"]
               /\ packet' = [packet EXCEPT ![h] = "none", ![h + 1] = packet[h]]
      BY <2>1, <3>1 DEF TypeOK, LoopStates
    <3>2. CASE /\ loop' = [loop EXCEPT ![h] = "parked"]
               /\ packet' = [packet EXCEPT ![h] = "none"]
      BY <3>2 DEF TypeOK, LoopStates
    <3> QED
      BY <1>7, <3>1, <3>2, Zenon DEF PassOn
  <2>3. /\ listener' \in {listener, "busy"}
        /\ received' \in {received, "endCallAtLast", "data"}
    BY <1>7 DEF PassOn
  <2> QED
    BY <1>7, <2>2, <2>3 DEF PassOn, TypeOK
<1>8. CASE SwitchToBackupService(h)
  BY <1>8 DEF SwitchToBackupService, TypeOK
<1>9. CASE ReportCriticalError(h)
  BY <1>9 DEF ReportCriticalError, TypeOK
<1>10. CASE Deliver(h)
  BY <1>10 DEF Deliver, TypeOK, LoopStates
<1>11. CASE ServiceFails(h)
  BY <1>11 DEF ServiceFails, TypeOK
<1> QED
  BY <1>1, <1>2, <1>3, <1>4, <1>5, <1>6, <1>7, <1>8, <1>9, <1>10, <1>11
  DEF StartProcess, LoopProcess, FatalErrorProcess

\* Steps of the listener, the relay and the environment keep the types.
LEMMA ListenerTypes ==
  ASSUME TypeOK,
         \/ ListenerFinishes \/ RelaySends \/ RelayDelivers \/ CancelJob
         \/ SendEventFails \/ DeliverTop \/ EndCall
  PROVE  TypeOK'
<1> USE DEF runVars, startVars, flowVars, stopVars, callVars
<1>1. CASE ListenerFinishes
  BY <1>1 DEF ListenerFinishes, TypeOK, LoopStates
<1>2. CASE RelaySends
  BY <1>2 DEF RelaySends, TypeOK, LoopStates
<1>3. CASE RelayDelivers
  BY <1>3 DEF RelayDelivers, TypeOK, LoopStates
<1>4. CASE CancelJob
  BY <1>4 DEF CancelJob, TypeOK
<1>5. CASE SendEventFails
  BY <1>5 DEF SendEventFails, TypeOK, LoopStates
<1>6. CASE DeliverTop
  BY <1>6 DEF DeliverTop, TypeOK
<1>7. CASE EndCall
  BY <1>7 DEF EndCall, TypeOK
<1> QED
  BY <1>1, <1>2, <1>3, <1>4, <1>5, <1>6, <1>7

-----------------------------------------------------------------------------
\* StopInv is preserved by Pipeline.Run and by Stop.
LEMMA StopInvByRunAndStop ==
  ASSUME TypeOK, StopInv,
         RunProcess \/ RunTimesOut \/ StopProcess \/ StopGoroutine
  PROVE  StopInv'
<1> USE DEF TypeOK, StopInv, runVars, startVars, flowVars, stopVars, callVars
<1>1. CASE RunSkipsJob
  BY <1>1 DEF RunSkipsJob
<1>2. CASE InitializeHandler
  BY <1>2 DEF InitializeHandler
<1>3. CASE InitializeFails
  BY <1>3 DEF InitializeFails, cancel
<1>4. CASE StartReturns
  BY <1>4 DEF StartReturns
<1>5. CASE RunStops \/ RunTimesOut
  BY <1>5 DEF RunStops, RunTimesOut, RunCallsStop, EnterStop, SkipStop
<1>6. CASE RunSeesFinished
  BY <1>6 DEF RunSeesFinished
<1>7. CASE StopCancels
  BY <1>7 DEF StopCancels, cancel
<1>8. CASE StopCleansUp
  BY <1>8 DEF StopCleansUp, CallCleanup
<1>12. CASE CleanupHangs
  BY <1>12 DEF CleanupHangs, CallCleanup
<1>13. CASE CleanupPanics
  BY <1>13 DEF CleanupPanics, CallCleanup, StopReturns
<1>9. CASE StopCloses
  BY <1>9 DEF StopCloses, Closable
<1>10. CASE StopFinishes
  BY <1>10 DEF StopFinishes, StopReturns
<1>11. CASE StopGoroutine
  BY <1>11 DEF StopGoroutine, EnterStop, SkipStop
<1> QED
  BY <1>1, <1>2, <1>3, <1>4, <1>5, <1>6, <1>7, <1>8, <1>9, <1>10, <1>11,
     <1>12, <1>13
  DEF RunProcess, StopProcess

\* Every other step leaves Stop's state alone, and cancels at most.
LEMMA StopInvByOthers ==
  ASSUME TypeOK, StopInv,
         \/ ListenerFinishes \/ RelaySends \/ RelayDelivers \/ Environment
         \/ \E h \in Handlers : \/ StartProcess(h) \/ LoopProcess(h)
                                \/ PassOn(h) \/ FatalErrorProcess(h)
  PROVE  StopInv'
<1> USE DEF TypeOK, StopInv, runVars, startVars, flowVars, stopVars, callVars
<1>1. CASE ListenerFinishes
  BY <1>1 DEF ListenerFinishes
<1>2. CASE RelaySends \/ RelayDelivers
  BY <1>2 DEF RelaySends, RelayDelivers
<1>3. CASE Environment
  BY <1>3 DEF Environment, CancelJob, SendEventFails, DeliverTop, EndCall,
              Deliver, ServiceFails
<1>4. CASE \E h \in Handlers : StartProcess(h)
  BY <1>4 DEF StartProcess, StartHandler, StartHandlerFails,
              CancelAfterFailedStart, cancel
<1>5. CASE \E h \in Handlers : LoopProcess(h)
  BY <1>5 DEF LoopProcess, PassContextCheck, EnterSend, LoopLeaves
<1>6. CASE \E h \in Handlers : PassOn(h)
  BY <1>6 DEF PassOn
<1>7. CASE \E h \in Handlers : FatalErrorProcess(h)
  BY <1>7 DEF FatalErrorProcess, SwitchToBackupService, ReportCriticalError
<1> QED
  BY <1>1, <1>2, <1>3, <1>4, <1>5, <1>6, <1>7

\* The inductive step.
LEMMA NextInv == ASSUME TypeOK, StopInv, [Next]_vars PROVE TypeOK' /\ StopInv'
<1>1. CASE UNCHANGED vars
  BY <1>1 DEF TypeOK, StopInv, vars
<1>2. CASE Next
  <2>1. TypeOK'
    BY <1>2, RunTypes, StopTypes, HandlerTypes, ListenerTypes
    DEF Next, Environment
  <2>2. StopInv'
    BY <1>2, StopInvByRunAndStop, StopInvByOthers DEF Next
  <2> QED
    BY <2>1, <2>2
<1> QED
  BY <1>1, <1>2

\* The state of a session is always well typed and StopInv always holds.
THEOREM RunnerInvariant == Spec => [](TypeOK /\ StopInv)
<1>1. Init => TypeOK /\ StopInv
  BY InitInv
<1>2. (TypeOK /\ StopInv) /\ [Next]_vars => (TypeOK /\ StopInv)'
  BY NextInv
<1> QED
  BY <1>1, <1>2, PTL DEF Spec

\* No handler is cleaned up twice, however many goroutines call Runner.Stop.
THEOREM CleanupOnceHolds == Spec => []CleanupOnce
<1>1. TypeOK /\ StopInv => CleanupOnce
  BY DEF TypeOK, StopInv, CleanupOnce
<1> QED
  BY <1>1, RunnerInvariant, PTL

\* Runner.Stop cancels before it cleans up, cleans everything up before it
\* closes a channel, and closes everything before it signals Finished, unless
\* a Cleanup panicked.
THEOREM ShutdownInOrderHolds == Spec => []ShutdownInOrder
<1>1. TypeOK /\ StopInv => ShutdownInOrder
  BY DEF TypeOK, StopInv, ShutdownInOrder
<1> QED
  BY <1>1, RunnerInvariant, PTL
=============================================================================
