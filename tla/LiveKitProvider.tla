--------------------------- MODULE LiveKitProvider ---------------------------
(***************************************************************************)
(* transports/livekit/provider.go: a worker that keeps one websocket to    *)
(* the LiveKit server, on which the server offers, assigns and terminates  *)
(* jobs, and that runs one goroutine per job.                              *)
(*                                                                         *)
(* Actors: the program, which calls Start and Stop; the connector, which   *)
(* is the goroutine of Start or one of scheduleReconnect and runs connect; *)
(* one readLoop per connection; the loops that log and report statistics;  *)
(* the jobs; the server and the network.  There is one connector at a time *)
(* because it is a readLoop that fails, or connect itself, that schedules  *)
(* the next one.                                                           *)
(*                                                                         *)
(* Messages to the server (availability, job and worker status) change no  *)
(* state of the provider; of the availability only the acceptance is kept, *)
(* which the server needs to assign the job.  A job has an id of its own,  *)
(* and is assigned once.  The HTTP server that Stop shuts down is left     *)
(* out.                                                                    *)
(***************************************************************************)
EXTENDS Naturals, FiniteSets

CONSTANTS
  Jobs,      \* bound: the jobs the server has
  Room,      \* the room of each job
  MaxJobs,   \* config.MaxJobs
  MaxConns   \* bound: connections dialled in one behaviour

ASSUME ProviderAssumption ==
  MaxJobs \in Nat /\ MaxConns \in Nat \ {0} /\ DOMAIN Room = Jobs

Conns == 1..MaxConns

VARIABLES
  state,      \* "Disconnected", "Connecting", "Connected" or "Draining"
  ctxDone,    \* p.ctx was cancelled
  conn,       \* p.conn, 0 when nil
  stop,       \* what Stop is doing: "none", "storing", "polling", "closing",
              \* "waiting" or "returned"
  connector,  \* what connect is doing, "unstarted" before Start, or "idle"
  tracked,    \* the connector is counted by p.wg
  fresh,      \* the connection that connect has dialled, or 0
  loops,      \* what the readLoop started with each connection is doing
  loopConn,   \* the connection it reads, or 0
  loggers,    \* statusLoop and the logStatsLoops that are running
  job,        \* "none", "accepted", "running", "hung", "leaving" or "done"
  activeJobs, cancelled,
  status      \* External: each connection, "none", "open", "broken" or "closed"

jobVars == <<job, activeJobs, cancelled>>
connectVars == <<connector, tracked, fresh>>
loopVars == <<loops, loopConn, loggers>>
vars == <<state, ctxDone, conn, stop, connector, tracked, fresh, loops, loopConn,
          loggers, job, activeJobs, cancelled, status>>

Init ==
  /\ state = "Disconnected" /\ ctxDone = FALSE /\ conn = 0 /\ stop = "none"
  /\ connector = "unstarted" /\ tracked = FALSE /\ fresh = 0
  /\ loops = [c \in Conns |-> "none"] /\ loopConn = [c \in Conns |-> 0]
  /\ loggers = 0
  /\ job = [j \in Jobs |-> "none"] /\ activeJobs = {} /\ cancelled = {}
  /\ status = [c \in Conns |-> "none"]

\* cleanupConnection
CleanupConnection ==
  /\ conn' = 0
  /\ status' = IF conn = 0 THEN status ELSE [status EXCEPT ![conn] = "closed"]

\* scheduleReconnect: a goroutine, counted by wg, unless the provider stops.
ScheduleReconnect ==
  /\ connector' = IF ctxDone THEN "idle" ELSE "waiting"
  /\ tracked' = ~ctxDone

\* Start: statusLoop is counted by wg, the goroutine that connects is not.
Start ==
  /\ connector = "unstarted"
  /\ connector' = "checking" /\ loggers' = 1
  /\ UNCHANGED <<state, ctxDone, conn, stop, tracked, fresh, loops, loopConn,
                 jobVars, status>>

-----------------------------------------------------------------------------
(* connect.                                                                *)

\* The wait of scheduleReconnect ends.  It is a second long: a readLoop that has
\* returned runs its deferred functions before that.
BackoffEnds ==
  /\ connector = "waiting"
  /\ IF ctxDone
     THEN connector' = "idle" /\ tracked' = FALSE
     ELSE /\ \A c \in Conns : loops[c] # "closing"
          /\ connector' = "checking" /\ UNCHANGED tracked
  /\ UNCHANGED <<state, ctxDone, conn, stop, fresh, loopVars, jobVars, status>>

ConnectChecks ==
  /\ connector = "checking"
  /\ connector' = IF ctxDone THEN "idle" ELSE "cleaning"
  /\ tracked' = (tracked /\ ~ctxDone)
  /\ UNCHANGED <<state, ctxDone, conn, stop, fresh, loopVars, jobVars, status>>

ConnectCleans ==
  /\ connector = "cleaning"
  /\ CleanupConnection
  /\ state' = "Connecting" /\ connector' = "dialing"
  /\ UNCHANGED <<ctxDone, stop, tracked, fresh, loopVars, jobVars>>

\* DialContext gives up when the context is cancelled.
ConnectDials(c) ==
  /\ connector = "dialing" /\ ~ctxDone
  /\ status[c] = "none" /\ \A d \in 1..(c - 1) : status[d] # "none"
  /\ status' = [status EXCEPT ![c] = "open"]
  /\ fresh' = c /\ connector' = "installing"
  /\ UNCHANGED <<state, ctxDone, conn, stop, tracked, loopVars, jobVars>>

DialFails ==
  /\ connector = "dialing"
  /\ ScheduleReconnect
  /\ UNCHANGED <<state, ctxDone, conn, stop, fresh, loopVars, jobVars, status>>

ConnectInstalls ==
  /\ connector = "installing"
  /\ conn' = fresh /\ connector' = "registering"
  /\ UNCHANGED <<state, ctxDone, stop, tracked, fresh, loopVars, jobVars, status>>

\* The registration is sent: the provider is connected, whatever state says by
\* then, and the loops of the connection start.
Registers ==
  /\ connector = "registering" /\ status[fresh] # "closed"
  /\ state' = "Connected"
  /\ loops' = [loops EXCEPT ![fresh] = "top"] /\ loggers' = loggers + 1
  /\ connector' = "idle" /\ tracked' = FALSE /\ fresh' = 0
  /\ UNCHANGED <<ctxDone, conn, stop, loopConn, jobVars, status>>

\* Faulty variant: the error is logged and nothing is tried again.
RegisterGivesUp ==
  /\ connector = "registering" /\ status[fresh] # "open"
  /\ CleanupConnection
  /\ connector' = "idle" /\ tracked' = FALSE /\ fresh' = 0
  /\ UNCHANGED <<state, ctxDone, stop, loopVars, jobVars>>

RegisterFails ==
  /\ connector = "registering" /\ status[fresh] # "open"
  /\ CleanupConnection
  /\ ScheduleReconnect
  /\ fresh' = 0
  /\ UNCHANGED <<state, ctxDone, stop, loopVars, jobVars>>

-----------------------------------------------------------------------------
(* readLoop.                                                               *)

LoopGoesTo(c, place) ==
  /\ loops' = [loops EXCEPT ![c] = place]
  /\ loopConn' = [loopConn EXCEPT ![c] = 0]

\* Faulty variant: the context is not looked at.
LoopIgnoresContext(c) ==
  /\ loops[c] = "top"
  /\ LoopGoesTo(c, "loading")
  /\ UNCHANGED <<state, ctxDone, conn, stop, connectVars, loggers, jobVars, status>>

LoopChecksContext(c) ==
  /\ loops[c] = "top"
  /\ LoopGoesTo(c, IF ctxDone THEN "closing" ELSE "loading")
  /\ UNCHANGED <<state, ctxDone, conn, stop, connectVars, loggers, jobVars, status>>

\* Without a connection the loop ends, and does not reconnect.
LoopLoads(c) ==
  /\ loops[c] = "loading"
  /\ loops' = [loops EXCEPT ![c] = IF conn = 0 THEN "closing" ELSE "reading"]
  /\ loopConn' = [loopConn EXCEPT ![c] = conn]
  /\ UNCHANGED <<state, ctxDone, conn, stop, connectVars, loggers, jobVars, status>>

LoopReadFails(c) ==
  /\ loops[c] = "reading" /\ status[loopConn[c]] # "open"
  /\ LoopGoesTo(c, "closing")
  /\ IF state = "Draining"
     THEN UNCHANGED <<state, connector, tracked>>
     ELSE state' = "Disconnected" /\ ScheduleReconnect
  /\ UNCHANGED <<ctxDone, conn, stop, fresh, loggers, jobVars, status>>

\* Faulty variant: the deferred cleanupConnection is missing.
LoopEndsOpen(c) ==
  /\ loops[c] = "closing"
  /\ LoopGoesTo(c, "ended")
  /\ UNCHANGED <<state, ctxDone, conn, status, stop, connectVars, loggers, jobVars>>

\* The deferred functions: close whichever connection is current, wg.Done.
LoopEnds(c) ==
  /\ loops[c] = "closing"
  /\ LoopGoesTo(c, "ended")
  /\ CleanupConnection
  /\ UNCHANGED <<state, ctxDone, stop, connectVars, loggers, jobVars>>

\* A message has arrived on an open connection, and the loop goes round.
LoopReceives(c) ==
  /\ loops[c] = "reading" /\ status[loopConn[c]] = "open"
  /\ LoopGoesTo(c, "top")
  /\ UNCHANGED <<state, ctxDone, conn, stop, connectVars, loggers, status>>

\* handleJobRequest, when it answers that the provider is available.
HandleJobRequest(c, j) ==
  /\ LoopReceives(c)
  /\ job[j] = "none"
  /\ state = "Connected" /\ Cardinality(activeJobs) < MaxJobs
  /\ \A k \in activeJobs : Room[k] # Room[j]
  /\ job' = [job EXCEPT ![j] = "accepted"]
  /\ UNCHANGED <<activeJobs, cancelled>>

\* The context of a job is a child of p.ctx.
HandleAssignment(c, j) ==
  /\ LoopReceives(c)
  /\ job[j] = "accepted"
  /\ job' = [job EXCEPT ![j] = "running"]
  /\ activeJobs' = activeJobs \cup {j}
  /\ cancelled' = IF ctxDone THEN cancelled \cup {j} ELSE cancelled

HandleTermination(c, j) ==
  /\ LoopReceives(c)
  /\ j \in activeJobs
  /\ cancelled' = cancelled \cup {j} /\ activeJobs' = activeJobs \ {j}
  /\ UNCHANGED job

-----------------------------------------------------------------------------
(* runJob: the handler returns, by itself or because its context is done;  *)
(* then the participants are disconnected and the deferred function runs.  *)

HandlerReturns(j) ==
  /\ job[j] = "running"
  /\ job' = [job EXCEPT ![j] = "leaving"]
  /\ UNCHANGED <<state, ctxDone, conn, stop, connectVars, loopVars, activeJobs,
                 cancelled, status>>

\* A cancelled handler that never returns: Pipeline.Run is in a Stop whose
\* Cleanup hangs (Runner).  runJob waits for it without a limit.
HandlerHangs(j) ==
  /\ job[j] = "running" /\ j \in cancelled
  /\ job' = [job EXCEPT ![j] = "hung"]
  /\ UNCHANGED <<state, ctxDone, conn, stop, connectVars, loopVars, activeJobs,
                 cancelled, status>>

JobEnds(j) ==
  /\ job[j] = "leaving"
  /\ job' = [job EXCEPT ![j] = "done"] /\ activeJobs' = activeJobs \ {j}
  /\ UNCHANGED <<state, ctxDone, conn, stop, connectVars, loopVars, cancelled,
                 status>>

\* logStatsLoop and statusLoop end when the context is done.
LoggerEnds ==
  /\ loggers > 0 /\ ctxDone
  /\ loggers' = loggers - 1
  /\ UNCHANGED <<state, ctxDone, conn, stop, connectVars, loops, loopConn, jobVars,
                 status>>

-----------------------------------------------------------------------------
(* Stop.                                                                   *)

StopDrains ==
  /\ stop = "none" /\ connector # "unstarted"
  /\ stop' = "storing" /\ state' = "Draining"
  /\ UNCHANGED <<ctxDone, conn, connectVars, loopVars, jobVars, status>>

StopCancels ==
  /\ stop = "storing"
  /\ stop' = "polling" /\ ctxDone' = TRUE
  /\ cancelled' = cancelled \cup {j \in Jobs : job[j] = "running"}
  /\ UNCHANGED <<state, conn, connectVars, loopVars, job, activeJobs, status>>

\* There are no active jobs, or DrainTimeout has passed.
StopPolls ==
  /\ stop = "polling"
  /\ stop' = "closing" /\ cancelled' = cancelled \cup activeJobs
  /\ UNCHANGED <<state, ctxDone, conn, connectVars, loopVars, job, activeJobs,
                 status>>

\* Faulty variant: the connection is left to the readLoop.
StopLeavesConnection ==
  /\ stop = "closing"
  /\ stop' = "waiting"
  /\ UNCHANGED <<state, ctxDone, conn, connectVars, loopVars, jobVars, status>>

StopCloses ==
  /\ stop = "closing"
  /\ stop' = "waiting"
  /\ CleanupConnection
  /\ UNCHANGED <<state, ctxDone, connectVars, loopVars, jobVars>>

\* wg.Wait: the goroutines that p.wg counts.
WaitGroupZero ==
  /\ loggers = 0 /\ ~tracked
  /\ \A c \in Conns : loops[c] \in {"none", "ended"}
  /\ \A j \in Jobs : job[j] \notin {"running", "hung", "leaving"}

StopReturns ==
  /\ stop = "waiting" /\ WaitGroupZero
  /\ stop' = "returned"
  /\ UNCHANGED <<state, ctxDone, conn, connectVars, loopVars, jobVars, status>>

\* External: the network breaks a connection, or the server ends it.
Break(c) ==
  /\ status[c] = "open"
  /\ status' = [status EXCEPT ![c] = "broken"]
  /\ UNCHANGED <<state, ctxDone, conn, stop, connectVars, loopVars, jobVars>>

-----------------------------------------------------------------------------
ConnectorStep ==
  \/ BackoffEnds \/ ConnectChecks \/ ConnectCleans \/ DialFails
  \/ ConnectInstalls \/ Registers \/ RegisterFails

LoopStep(c) ==
  LoopChecksContext(c) \/ LoopLoads(c) \/ LoopReadFails(c) \/ LoopEnds(c)

StopStep == StopCancels \/ StopPolls \/ StopCloses \/ StopReturns

Next ==
  \/ Start \/ StopDrains \/ StopStep
  \/ ConnectorStep
  \/ \E c \in Conns :
       \/ ConnectDials(c) \/ LoopStep(c) \/ Break(c)
       \/ \E j \in Jobs :
            HandleJobRequest(c, j) \/ HandleAssignment(c, j) \/ HandleTermination(c, j)
  \/ \E j \in Jobs : HandlerReturns(j) \/ HandlerHangs(j) \/ JobEnds(j)
  \/ LoggerEnds

Spec == Init /\ [][Next]_vars

(* Goroutines that can go on do, Stop among them; dialling ends with the   *)
(* context at the latest; the handler of a job whose context is done       *)
(* returns or hangs.  Nothing is assumed of the server and the network, or *)
(* of a handler that was not cancelled.                                    *)
Fairness ==
  /\ WF_vars(ConnectorStep)
  /\ \A c \in Conns : WF_vars(LoopStep(c))
  /\ WF_vars(StopStep)
  /\ WF_vars(LoggerEnds)
  /\ \A j \in Jobs :
       /\ WF_vars(j \in cancelled /\ (HandlerReturns(j) \/ HandlerHangs(j)))
       /\ WF_vars(JobEnds(j))

FairSpec == Spec /\ Fairness

-----------------------------------------------------------------------------
\* The variables have their types.
TypeOK ==
  /\ state \in {"Disconnected", "Connecting", "Connected", "Draining"}
  /\ ctxDone \in BOOLEAN /\ tracked \in BOOLEAN
  /\ {conn, fresh} \subseteq 0..MaxConns
  /\ stop \in {"none", "storing", "polling", "closing", "waiting", "returned"}
  /\ connector \in {"unstarted", "idle", "waiting", "checking", "cleaning",
                    "dialing", "installing", "registering"}
  /\ loops \in [Conns -> {"none", "top", "loading", "reading", "closing", "ended"}]
  /\ loopConn \in [Conns -> 0..MaxConns]
  /\ loggers \in 0..(MaxConns + 1)
  /\ job \in [Jobs -> {"none", "accepted", "running", "hung", "leaving", "done"}]
  /\ activeJobs \subseteq Jobs /\ cancelled \subseteq Jobs
  /\ status \in [Conns -> {"none", "open", "broken", "closed"}]

\* Until Stop is called a provider is never left alone: a readLoop watches the
\* connection or connect is on its way, over failed dials, failed registrations,
\* broken connections and the deferred clean-up of an earlier readLoop.
Supervised ==
  stop = "none" /\ connector = "idle" =>
    \E c \in Conns : loops[c] \in {"top", "loading", "reading"}

\* Once Stop has returned no job runs, although the goroutine that connects
\* first is not waited for and may start a readLoop afterwards.
NoJobAfterStop ==
  stop = "returned" => \A j \in Jobs : job[j] \notin {"running", "hung", "leaving"}

\* After Stop has returned the connections end up closed, the one included that
\* connect was dialling or registering in the meantime.
ConnectionsClosed ==
  (stop = "returned") ~> [](\A c \in Conns : status[c] # "open")

\* Stop returns unless the handler of a job hangs, which DrainTimeout does not
\* cover: no readLoop, reconnect, logger, assignment that came late or job that
\* reacts to its cancellation keeps p.wg from zero.
StopCompletes ==
  (stop # "none") ~> (stop = "returned" \/ \E j \in Jobs : job[j] = "hung")
=============================================================================
