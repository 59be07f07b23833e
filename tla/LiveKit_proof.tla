--------------------------- MODULE LiveKit_proof ---------------------------
(***************************************************************************)
(* Proofs about the two modules of transports/livekit: LiveKitProvider,    *)
(* for any number of connections and of jobs, and LiveKitTransport, for    *)
(* any participants and tracks and every capacity of the output channel.   *)
(***************************************************************************)
EXTENDS LiveKitProvider, LiveKitTransport, FiniteSetTheorems, TLAPS

-----------------------------------------------------------------------------
(* The provider: the inductive invariant.                                  *)

Watching == {"top", "loading", "reading"}
Running == {"top", "loading", "reading", "closing"}

LoopStates == {"none", "top", "loading", "reading", "closing", "ended"}
JobStates == {"none", "accepted", "running", "hung", "leaving", "done"}
ConnStates == {"none", "open", "broken", "closed"}
ConnectorStates ==
  {"unstarted", "idle", "waiting", "checking", "cleaning", "dialing", "installing",
   "registering"}

\* The types, of which the number of loggers is a matter of LoggerInv.
Types ==
  /\ state \in {"Disconnected", "Connecting", "Connected", "Draining"}
  /\ ctxDone \in BOOLEAN /\ tracked \in BOOLEAN
  /\ conn \in 0..MaxConns /\ fresh \in 0..MaxConns
  /\ stop \in {"none", "storing", "polling", "closing", "waiting", "returned"}
  /\ connector \in ConnectorStates
  /\ loops \in [Conns -> LoopStates]
  /\ loopConn \in [Conns -> 0..MaxConns]
  /\ loggers \in Nat
  /\ job \in [Jobs -> JobStates]
  /\ activeJobs \subseteq Jobs /\ cancelled \subseteq Jobs
  /\ status \in [Conns -> ConnStates]

\* One readLoop runs at a time, none while connect is under way.  A readLoop that
\* is only left with its deferred functions may run beside the wait of
\* scheduleReconnect.
OneReadLoop ==
  \A c, d \in Conns : loops[c] \in Running /\ loops[d] \in Running => c = d

LoopInv ==
  /\ OneReadLoop
  /\ \A c \in Conns : loops[c] \in Watching => connector = "idle"
  /\ \A c \in Conns : loops[c] = "closing" => connector = "idle" \/ connector = "waiting"

\* The connection that connect holds is new: no readLoop was started with it.
FreshInv ==
  /\ connector = "installing" \/ connector = "registering" => fresh \in Conns
  /\ fresh \in Conns => status[fresh] # "none" /\ loops[fresh] = "none"
  /\ \A c \in Conns : loops[c] # "none" => status[c] # "none"

\* There is one statusLoop, and one logStatsLoop per readLoop that was started.
Used == {c \in Conns : loops[c] # "none"}
LoggerInv ==
  /\ loggers <= 1 + Cardinality(Used)
  /\ connector = "unstarted" => loggers = 0

\* Before Stop a readLoop has a connection, and one that ends has scheduled a
\* reconnect; after it no readLoop gets past the look at the context.
StopInv ==
  /\ ctxDone <=> stop # "none" /\ stop # "storing"
  /\ stop = "none" =>
       /\ state # "Draining"
       /\ \A c \in Conns : loops[c] \in Watching => conn # 0
       /\ connector = "registering" => conn = fresh
       /\ \A c \in Conns : loops[c] = "closing" => connector = "waiting"
  /\ stop = "returned" =>
       /\ \A c \in Conns : loops[c] # "loading" /\ loops[c] # "reading"
       /\ \A j \in Jobs : job[j] \notin {"running", "hung", "leaving"}

IInv == Types /\ LoopInv /\ FreshInv /\ LoggerInv /\ StopInv /\ Supervised

-----------------------------------------------------------------------------
(* The provider: types.                                                    *)

\* A connection that is closed is closed, and the others are as they were.
LEMMA CleanupTypes ==
  ASSUME Types, CleanupConnection
  PROVE  /\ conn' = 0 /\ status' \in [Conns -> ConnStates]
         /\ \A c \in Conns : status'[c] # status[c] => status'[c] = "closed"
<1>1. CASE conn = 0
  BY <1>1 DEF Types, CleanupConnection
<1>2. CASE conn # 0
  <2>1. conn \in Conns
    BY <1>2, ProviderAssumption DEF Types, Conns
  <2> QED
    BY <1>2, <2>1 DEF Types, CleanupConnection, ConnStates
<1> QED
  BY <1>1, <1>2

\* A readLoop moves to one of its places.
LEMMA LoopMoves ==
  ASSUME Types, NEW c \in Conns, NEW place \in LoopStates, LoopGoesTo(c, place)
  PROVE  /\ loops' \in [Conns -> LoopStates] /\ loopConn' \in [Conns -> 0..MaxConns]
         /\ loops'[c] = place /\ \A d \in Conns : d # c => loops'[d] = loops[d]
BY ProviderAssumption DEF Types, LoopGoesTo

\* The reconnect is scheduled unless the context is done.
LEMMA ScheduleTypes ==
  ASSUME ScheduleReconnect
  PROVE  connector' \in ConnectorStates /\ tracked' \in BOOLEAN
BY DEF ScheduleReconnect, ConnectorStates

\* A step of connect keeps the types.
LEMMA ConnectorTypes ==
  ASSUME Types, FreshInv, Start \/ ConnectorStep \/ \E c \in Conns : ConnectDials(c)
  PROVE  Types'
<1> USE DEF connectVars, loopVars, jobVars
<1>0. Conns \subseteq 0..MaxConns /\ 0 \in 0..MaxConns
  BY ProviderAssumption DEF Conns
<1>1. CASE Start
  BY <1>1 DEF Start, Types, ConnectorStates
<1>2. CASE BackoffEnds
  BY <1>2 DEF BackoffEnds, Types, ConnectorStates
<1>3. CASE ConnectChecks
  <2>1. connector' \in ConnectorStates /\ tracked' \in BOOLEAN
    BY <1>3 DEF ConnectChecks, ConnectorStates
  <2> QED
    BY <1>3, <2>1 DEF ConnectChecks, Types
<1>4. CASE ConnectCleans
  BY <1>0, <1>4, CleanupTypes DEF ConnectCleans, Types, ConnectorStates
<1>5. CASE DialFails
  BY <1>5, ScheduleTypes DEF DialFails, Types
<1>6. CASE ConnectInstalls
  BY <1>6 DEF ConnectInstalls, Types, ConnectorStates
<1>7. CASE Registers
  <2>1. loops' \in [Conns -> LoopStates] /\ connector' \in ConnectorStates
    BY <1>7 DEF Registers, Types, LoopStates, ConnectorStates
  <2>2. loggers' \in Nat /\ fresh' \in 0..MaxConns
    BY <1>0, <1>7 DEF Registers, Types
  <2> QED
    BY <1>7, <2>1, <2>2 DEF Registers, Types
<1>8. CASE RegisterFails
  BY <1>0, <1>8, CleanupTypes, ScheduleTypes DEF RegisterFails, Types
<1>9. ASSUME NEW c \in Conns, ConnectDials(c) PROVE Types'
  BY <1>0, <1>9 DEF ConnectDials, Types, ConnStates, ConnectorStates
<1> QED
  BY <1>1, <1>2, <1>3, <1>4, <1>5, <1>6, <1>7, <1>8, <1>9 DEF ConnectorStep

\* What a readLoop does with a message, be it a job's or not.
LEMMA ReceiveTypes ==
  ASSUME Types, NEW c \in Conns, NEW j \in Jobs,
         HandleJobRequest(c, j) \/ HandleAssignment(c, j) \/ HandleTermination(c, j)
  PROVE  Types'
<1>1. LoopReceives(c) /\ LoopGoesTo(c, "top")
  BY DEF HandleJobRequest, HandleAssignment, HandleTermination, LoopReceives
<1>2. loops' \in [Conns -> LoopStates] /\ loopConn' \in [Conns -> 0..MaxConns]
  BY <1>1, LoopMoves DEF LoopStates
<1>3. /\ job' \in [Jobs -> JobStates]
      /\ activeJobs' \subseteq Jobs /\ cancelled' \subseteq Jobs
  <2>1. CASE HandleJobRequest(c, j)
    BY <2>1 DEF HandleJobRequest, Types, JobStates
  <2>2. CASE HandleAssignment(c, j)
    BY <2>2 DEF HandleAssignment, Types, JobStates
  <2>3. CASE HandleTermination(c, j)
    BY <2>3 DEF HandleTermination, Types
  <2> QED
    BY <2>1, <2>2, <2>3
<1> QED
  BY <1>1, <1>2, <1>3 DEF LoopReceives, connectVars, Types

\* Every other step of a readLoop keeps the types.
LEMMA LoopTypes ==
  ASSUME Types, NEW c \in Conns, LoopStep(c)
  PROVE  Types'
<1> USE DEF connectVars, jobVars
<1>0. "top" \in LoopStates /\ "loading" \in LoopStates /\ "closing" \in LoopStates
      /\ "ended" \in LoopStates /\ "reading" \in LoopStates
  BY DEF LoopStates
<1>1. CASE LoopChecksContext(c)
  <2>1. loops' \in [Conns -> LoopStates] /\ loopConn' \in [Conns -> 0..MaxConns]
    BY <1>0, <1>1, LoopMoves DEF LoopChecksContext
  <2> QED
    BY <1>1, <2>1 DEF LoopChecksContext, Types
<1>2. CASE LoopLoads(c)
  BY <1>0, <1>2 DEF LoopLoads, Types
<1>3. CASE LoopReadFails(c)
  <2>1. loops' \in [Conns -> LoopStates] /\ loopConn' \in [Conns -> 0..MaxConns]
    BY <1>0, <1>3, LoopMoves DEF LoopReadFails
  <2>2. state' \in {"Disconnected", "Connecting", "Connected", "Draining"}
        /\ connector' \in ConnectorStates /\ tracked' \in BOOLEAN
    BY <1>3, ScheduleTypes DEF LoopReadFails, Types
  <2> QED
    BY <1>3, <2>1, <2>2 DEF LoopReadFails, Types
<1>4. CASE LoopEnds(c)
  <2>1. loops' \in [Conns -> LoopStates] /\ loopConn' \in [Conns -> 0..MaxConns]
    BY <1>0, <1>4, LoopMoves DEF LoopEnds
  <2>2. conn' \in 0..MaxConns /\ status' \in [Conns -> ConnStates]
    BY <1>4, CleanupTypes, ProviderAssumption DEF LoopEnds
  <2> QED
    BY <1>4, <2>1, <2>2 DEF LoopEnds, Types
<1> QED
  BY <1>1, <1>2, <1>3, <1>4 DEF LoopStep

\* A step of Stop, of a job, of a logger or of the network keeps the types.
LEMMA OtherTypes ==
  ASSUME Types,
         \/ StopDrains \/ StopStep \/ LoggerEnds
         \/ \E c \in Conns : Break(c)
         \/ \E j \in Jobs : HandlerReturns(j) \/ HandlerHangs(j) \/ JobEnds(j)
  PROVE  Types'
<1> USE DEF connectVars, loopVars, jobVars
<1>1. CASE StopDrains
  BY <1>1 DEF StopDrains, Types
<1>2. CASE StopCancels
  BY <1>2 DEF StopCancels, Types
<1>3. CASE StopPolls
  BY <1>3 DEF StopPolls, Types
<1>4. CASE StopCloses
  <2>1. conn' \in 0..MaxConns /\ status' \in [Conns -> ConnStates]
    BY <1>4, CleanupTypes, ProviderAssumption DEF StopCloses
  <2> QED
    BY <1>4, <2>1 DEF StopCloses, Types
<1>5. CASE StopReturns
  BY <1>5 DEF StopReturns, Types
<1>6. CASE LoggerEnds
  BY <1>6 DEF LoggerEnds, Types
<1>7. ASSUME NEW c \in Conns, Break(c) PROVE Types'
  BY <1>7 DEF Break, Types, ConnStates
<1>8. ASSUME NEW j \in Jobs, HandlerReturns(j) \/ HandlerHangs(j) PROVE Types'
  BY <1>8 DEF HandlerReturns, HandlerHangs, Types, JobStates
<1>9. ASSUME NEW j \in Jobs, JobEnds(j) PROVE Types'
  BY <1>9 DEF JobEnds, Types, JobStates
<1> QED
  BY <1>1, <1>2, <1>3, <1>4, <1>5, <1>6, <1>7, <1>8, <1>9 DEF StopStep

\* Every step keeps the types.
LEMMA NextTypes ==
  ASSUME Types, FreshInv, Next
  PROVE  Types'
BY ConnectorTypes, ReceiveTypes, LoopTypes, OtherTypes DEF Next

-----------------------------------------------------------------------------
(* The provider: one readLoop at a time.                                   *)

\* A connection that was dialled is never again one that was not.
Dialled == \A c \in Conns : status[c] # "none" => status'[c] # "none"

\* A step of Stop, of a job, of a logger or of the network leaves connect and the
\* readLoops alone.
LEMMA OtherFrame ==
  ASSUME Types,
         \/ StopDrains \/ StopStep \/ LoggerEnds
         \/ \E c \in Conns : Break(c)
         \/ \E j \in Jobs : HandlerReturns(j) \/ HandlerHangs(j) \/ JobEnds(j)
  PROVE  UNCHANGED <<connector, fresh, loops>> /\ Dialled
<1> USE DEF connectVars, loopVars
<1>1. CASE StopDrains \/ StopCancels \/ StopPolls \/ StopReturns \/ LoggerEnds
  BY <1>1 DEF StopDrains, StopCancels, StopPolls, StopReturns, LoggerEnds, Dialled
<1>2. CASE StopCloses
  BY <1>2, CleanupTypes DEF StopCloses, Dialled
<1>3. ASSUME NEW c \in Conns, Break(c)
      PROVE  UNCHANGED <<connector, fresh, loops>> /\ Dialled
  BY <1>3 DEF Break, Dialled, Types
<1>4. ASSUME NEW j \in Jobs, HandlerReturns(j) \/ HandlerHangs(j) \/ JobEnds(j)
      PROVE  UNCHANGED <<connector, fresh, loops>> /\ Dialled
  BY <1>4 DEF HandlerReturns, HandlerHangs, JobEnds, Dialled
<1> QED
  BY <1>1, <1>2, <1>3, <1>4 DEF StopStep

\* A step of the readLoop of c.
LoopAction(c) ==
  \/ LoopStep(c)
  \/ \E j \in Jobs :
       HandleJobRequest(c, j) \/ HandleAssignment(c, j) \/ HandleTermination(c, j)

\* It moves that readLoop and no other, and connect only when a read has failed.
LEMMA LoopFrame ==
  ASSUME Types, NEW c \in Conns, LoopAction(c)
  PROVE  /\ loops[c] \in Running /\ loops'[c] # "none"
         /\ \A d \in Conns : d # c => loops'[d] = loops[d]
         /\ loops'[c] \in Watching => loops[c] \in Watching /\ connector' = connector
         /\ loops'[c] = "closing" => loops[c] \in Watching
         /\ LoopReadFails(c) \/ UNCHANGED <<state, connector>>
         /\ LoopEnds(c) \/ UNCHANGED conn
         /\ UNCHANGED <<fresh, loggers, ctxDone, stop>> /\ Dialled
<1> USE DEF connectVars, Running, Watching
<1>1. CASE LoopChecksContext(c)
  <2>1. LoopGoesTo(c, "closing") \/ LoopGoesTo(c, "loading")
    BY <1>1 DEF LoopChecksContext
  <2>2. (loops'[c] = "closing" \/ loops'[c] = "loading")
        /\ \A d \in Conns : d # c => loops'[d] = loops[d]
    BY <2>1, LoopMoves DEF LoopStates
  <2> QED
    BY <1>1, <2>2 DEF LoopChecksContext, Dialled
<1>2. CASE LoopLoads(c)
  <2>1. (loops'[c] = "closing" \/ loops'[c] = "reading")
        /\ \A d \in Conns : d # c => loops'[d] = loops[d]
    BY <1>2 DEF LoopLoads, Types
  <2> QED
    BY <1>2, <2>1 DEF LoopLoads, Dialled
<1>3. CASE LoopReadFails(c)
  <2>1. loops'[c] = "closing" /\ \A d \in Conns : d # c => loops'[d] = loops[d]
    BY <1>3, LoopMoves DEF LoopReadFails, LoopStates
  <2> QED
    BY <1>3, <2>1 DEF LoopReadFails, Dialled
<1>4. CASE LoopEnds(c)
  <2>1. loops'[c] = "ended" /\ \A d \in Conns : d # c => loops'[d] = loops[d]
    BY <1>4, LoopMoves DEF LoopEnds, LoopStates
  <2>2. Dialled
    BY <1>4, CleanupTypes DEF LoopEnds, Dialled
  <2> QED
    BY <1>4, <2>1, <2>2 DEF LoopEnds
<1>5. CASE LoopReceives(c)
  <2>1. loops'[c] = "top" /\ \A d \in Conns : d # c => loops'[d] = loops[d]
    BY <1>5, LoopMoves DEF LoopReceives, LoopStates
  <2> QED
    BY <1>5, <2>1 DEF LoopReceives, Dialled
<1> QED
  BY <1>1, <1>2, <1>3, <1>4, <1>5
     DEF LoopAction, LoopStep, HandleJobRequest, HandleAssignment, HandleTermination

\* While connect is at work no readLoop runs.
LEMMA ConnectAlone ==
  ASSUME Types, LoopInv, connector # "idle", connector # "waiting", NEW c \in Conns
  PROVE  loops[c] \notin Running
BY DEF Types, LoopInv, Running, Watching, LoopStates

\* Every step keeps to one readLoop.
LEMMA NextLoop ==
  ASSUME Types, LoopInv, FreshInv, Next
  PROVE  LoopInv'
<1> USE DEF connectVars, loopVars, Running, Watching
<1>1. CASE Start \/ ConnectChecks \/ ConnectCleans \/ DialFails \/ ConnectInstalls
        \/ RegisterFails
           \/ \E c \in Conns : ConnectDials(c)
  <2>1. loops' = loops /\ connector # "idle" /\ connector # "waiting"
    BY <1>1 DEF Start, ConnectChecks, ConnectCleans, DialFails, ConnectInstalls,
                RegisterFails, ConnectDials
  <2>2. \A c \in Conns : loops'[c] \notin Running
    BY <2>1, ConnectAlone
  <2> QED
    BY <2>2 DEF LoopInv, OneReadLoop
<1>2. CASE BackoffEnds
  <2>1. loops' = loops /\ \A c \in Conns : loops[c] \notin Watching
    BY <1>2 DEF BackoffEnds, LoopInv
  <2> QED
    BY <1>2, <2>1 DEF BackoffEnds, LoopInv, OneReadLoop
<1>3. CASE Registers
  <2>1. connector' = "idle" /\ fresh \in Conns /\ connector # "idle"
          /\ connector # "waiting"
    BY <1>3 DEF Registers, FreshInv
  <2>2. \A c \in Conns : loops[c] \notin Running
    BY <2>1, ConnectAlone
  <2>3. \A c \in Conns : c # fresh => loops'[c] = loops[c]
    BY <1>3 DEF Registers, Types
  <2> QED
    BY <2>1, <2>2, <2>3 DEF LoopInv, OneReadLoop
<1>4. ASSUME NEW c \in Conns, LoopAction(c) PROVE LoopInv'
  <2>1. /\ loops[c] \in Running
        /\ \A d \in Conns : d # c => loops'[d] = loops[d]
        /\ loops'[c] \in Watching => loops[c] \in Watching /\ connector' = connector
        /\ loops'[c] = "closing" => loops[c] \in Watching
        /\ LoopReadFails(c) \/ connector' = connector
    BY <1>4, LoopFrame
  <2>2. \A d \in Conns : d # c => loops'[d] \notin Running
    BY <2>1 DEF LoopInv, OneReadLoop
  <2>3. OneReadLoop'
    BY <2>2 DEF OneReadLoop
  <2>4. ASSUME loops'[c] = "closing" PROVE connector' = "idle" \/ connector' = "waiting"
    <3>1. connector = "idle"
      BY <2>1, <2>4 DEF LoopInv
    <3> QED
      BY <2>1, <3>1 DEF LoopReadFails, ScheduleReconnect
  <2> QED
    BY <2>1, <2>2, <2>3, <2>4 DEF LoopInv
<1>5. CASE \/ StopDrains \/ StopStep \/ LoggerEnds
           \/ \E c \in Conns : Break(c)
           \/ \E j \in Jobs : HandlerReturns(j) \/ HandlerHangs(j) \/ JobEnds(j)
  <2>1. UNCHANGED <<connector, loops>>
    BY <1>5, OtherFrame
  <2> QED
    BY <2>1 DEF LoopInv, OneReadLoop
<1> QED
  BY <1>1, <1>2, <1>3, <1>4, <1>5 DEF Next, ConnectorStep, LoopAction

-----------------------------------------------------------------------------
(* The provider: connections are used once, and what they have started.    *)

\* A step of connect before the registration starts no loop.
LEMMA ConnectFrame ==
  ASSUME Types,
         \/ BackoffEnds \/ ConnectChecks \/ ConnectCleans \/ DialFails \/ ConnectInstalls
         \/ RegisterFails
         \/ \E c \in Conns : ConnectDials(c)
  PROVE  UNCHANGED <<loops, loggers, ctxDone, stop, job>> /\ Dialled
         /\ connector # "unstarted" /\ connector' # "unstarted"
<1> USE DEF connectVars, loopVars, jobVars
<1>1. CASE BackoffEnds \/ ConnectChecks \/ DialFails \/ ConnectInstalls
  BY <1>1 DEF BackoffEnds, ConnectChecks, DialFails, ConnectInstalls, Dialled,
              ScheduleReconnect
<1>2. CASE ConnectCleans
  BY <1>2, CleanupTypes DEF ConnectCleans, Dialled
<1>3. CASE RegisterFails
  BY <1>3, CleanupTypes DEF RegisterFails, Dialled, ScheduleReconnect
<1>4. ASSUME NEW c \in Conns, ConnectDials(c)
      PROVE  UNCHANGED <<loops, loggers, ctxDone, stop, job>> /\ Dialled
             /\ connector # "unstarted" /\ connector' # "unstarted"
  BY <1>4 DEF ConnectDials, Dialled, Types
<1> QED
  BY <1>1, <1>2, <1>3, <1>4

\* A connection that connect dials is new until the loops start with it.
LEMMA NextFresh ==
  ASSUME Types, LoopInv, FreshInv, Next, Types'
  PROVE  FreshInv'
<1> USE DEF connectVars, loopVars
<1>0. 0 \notin Conns
  BY ProviderAssumption DEF Conns
<1>1. ASSUME Dialled, loops' = loops
      PROVE  \A c \in Conns : loops'[c] # "none" => status'[c] # "none"
  BY <1>1 DEF Dialled, FreshInv
<1>2. CASE Start
  BY <1>2 DEF Start, FreshInv
<1>3. CASE BackoffEnds \/ ConnectChecks \/ ConnectCleans \/ DialFails \/ ConnectInstalls
  <2>1. loops' = loops /\ Dialled /\ fresh' = fresh
    BY <1>3, ConnectFrame DEF BackoffEnds, ConnectChecks, ConnectCleans, DialFails,
         ConnectInstalls
  <2>2. connector' = "installing" \/ connector' = "registering" => connector = "installing"
    BY <1>3 DEF BackoffEnds, ConnectChecks, ConnectCleans, DialFails, ConnectInstalls,
                ScheduleReconnect
  <2> QED
    BY <1>1, <2>1, <2>2 DEF FreshInv, Dialled
<1>4. CASE RegisterFails
  <2>1. loops' = loops /\ Dialled /\ fresh' = 0
        /\ connector' # "installing" /\ connector' # "registering"
    BY <1>4, ConnectFrame DEF RegisterFails, ScheduleReconnect
  <2> QED
    BY <1>0, <1>1, <2>1 DEF FreshInv
<1>5. ASSUME NEW c \in Conns, ConnectDials(c) PROVE FreshInv'
  <2>1. loops' = loops /\ Dialled /\ fresh' = c /\ status'[c] = "open" /\ status[c] = "none"
    BY <1>5, ConnectFrame DEF ConnectDials, Types
  <2>2. loops[c] = "none"
    BY <2>1 DEF FreshInv
  <2> QED
    BY <1>1, <2>1, <2>2 DEF FreshInv
<1>6. CASE Registers
  <2>1. fresh' = 0 /\ connector' = "idle" /\ status' = status /\ fresh \in Conns
    BY <1>6 DEF Registers, FreshInv
  <2>2. \A c \in Conns : c # fresh => loops'[c] = loops[c]
    BY <1>6 DEF Registers, Types
  <2> QED
    BY <1>0, <2>1, <2>2 DEF FreshInv
<1>7. ASSUME NEW c \in Conns, LoopAction(c) PROVE FreshInv'
  <2>1. /\ loops[c] \in Running /\ \A d \in Conns : d # c => loops'[d] = loops[d]
        /\ fresh' = fresh /\ Dialled
        /\ LoopReadFails(c) \/ connector' = connector
    BY <1>7, LoopFrame
  <2>2. connector' = "installing" \/ connector' = "registering" => connector' = connector
    BY <2>1 DEF LoopReadFails, ScheduleReconnect
  <2>3. loops[c] # "none"
    BY <2>1 DEF Running
  <2>4. fresh \in Conns => fresh # c
    BY <2>3 DEF FreshInv
  <2>5. \A d \in Conns : loops'[d] # "none" => loops[d] # "none"
    BY <2>1, <2>3
  <2> QED
    BY <2>1, <2>2, <2>4, <2>5 DEF FreshInv, Dialled
<1>8. CASE \/ StopDrains \/ StopStep \/ LoggerEnds
           \/ \E c \in Conns : Break(c)
           \/ \E j \in Jobs : HandlerReturns(j) \/ HandlerHangs(j) \/ JobEnds(j)
  <2>1. UNCHANGED <<connector, fresh, loops>> /\ Dialled
    BY <1>8, OtherFrame
  <2> QED
    BY <1>1, <2>1 DEF FreshInv, Dialled
<1> QED
  BY <1>2, <1>3, <1>4, <1>5, <1>6, <1>7, <1>8 DEF Next, ConnectorStep, LoopAction

\* The connections are finitely many, and those in use too.
LEMMA UsedFinite ==
  /\ IsFiniteSet(Used) /\ Cardinality(Used) \in Nat
  /\ Cardinality(Used) <= MaxConns
<1>1. IsFiniteSet(Conns) /\ Cardinality(Conns) = MaxConns
  <2>1. IsFiniteSet(1..MaxConns) /\ Cardinality(1..MaxConns) = MaxConns
    BY ProviderAssumption, FS_Interval
  <2> QED
    BY <2>1 DEF Conns
<1>2. Used \subseteq Conns
  BY DEF Used
<1> QED
  BY <1>1, <1>2, FS_Subset, FS_CardinalityType

\* Every step keeps the loggers within one per readLoop and the statusLoop.
LEMMA NextLogger ==
  ASSUME Types, FreshInv, LoggerInv, Next
  PROVE  LoggerInv'
<1> USE DEF connectVars, loopVars
<1>0. Used' = Used /\ loggers' = loggers /\ connector' # "unstarted" => LoggerInv'
  BY DEF LoggerInv
<1>1. CASE Start
  <2>1. Used' = Used /\ loggers' = 1 /\ connector' # "unstarted"
    BY <1>1 DEF Start, Used
  <2>2. Cardinality(Used) \in Nat
    BY UsedFinite
  <2> QED
    BY <2>1, <2>2 DEF LoggerInv
<1>2. CASE BackoffEnds \/ ConnectChecks \/ ConnectCleans \/ DialFails \/ ConnectInstalls
           \/ RegisterFails
           \/ \E c \in Conns : ConnectDials(c)
  BY <1>0, <1>2, ConnectFrame DEF Used
<1>3. CASE Registers
  <2>1. fresh \in Conns /\ loops[fresh] = "none" /\ fresh \notin Used
    BY <1>3 DEF Registers, FreshInv, Used
  <2>2. Used' = Used \cup {fresh}
    BY <1>3, <2>1 DEF Registers, Used, Types
  <2>3. Cardinality(Used') = Cardinality(Used) + 1
    BY <2>1, <2>2, UsedFinite, FS_AddElement
  <2>4. loggers' = loggers + 1 /\ connector' = "idle"
    BY <1>3 DEF Registers
  <2> QED
    BY <2>3, <2>4, UsedFinite DEF LoggerInv, Types
<1>4. ASSUME NEW c \in Conns, LoopAction(c) PROVE LoggerInv'
  <2>1. /\ loops[c] \in Running /\ loops'[c] # "none"
        /\ \A d \in Conns : d # c => loops'[d] = loops[d]
        /\ loggers' = loggers
        /\ LoopReadFails(c) \/ connector' = connector
    BY <1>4, LoopFrame
  <2>2. Used' = Used
    <3>1. loops[c] # "none"
      BY <2>1 DEF Running
    <3>2. \A d \in Conns : loops'[d] # "none" <=> loops[d] # "none"
      BY <2>1, <3>1
    <3> QED
      BY <3>2 DEF Used
  <2>3. connector' = "unstarted" => connector = "unstarted"
    BY <2>1 DEF LoopReadFails, ScheduleReconnect
  <2> QED
    BY <2>1, <2>2, <2>3 DEF LoggerInv
<1>5. CASE \/ StopDrains \/ StopStep
           \/ \E c \in Conns : Break(c)
           \/ \E j \in Jobs : HandlerReturns(j) \/ HandlerHangs(j) \/ JobEnds(j)
  <2>1. UNCHANGED <<connector, loops>>
    BY <1>5, OtherFrame
  <2>2. loggers' = loggers
    BY <1>5 DEF StopDrains, StopStep, StopCancels, StopPolls, StopCloses, StopReturns,
                Break, HandlerReturns, HandlerHangs, JobEnds
  <2> QED
    BY <2>1, <2>2 DEF LoggerInv, Used
<1>6. CASE LoggerEnds
  <2>1. Used' = Used /\ loggers' = loggers - 1 /\ loggers > 0 /\ connector' = connector
    BY <1>6 DEF LoggerEnds, Used
  <2>2. Cardinality(Used) \in Nat /\ loggers \in Nat
    BY UsedFinite DEF Types
  <2> QED
    BY <2>1, <2>2 DEF LoggerInv
<1> QED
  BY <1>1, <1>2, <1>3, <1>4, <1>5, <1>6 DEF Next, ConnectorStep, LoopAction

-----------------------------------------------------------------------------
(* The provider: before and after Stop.                                    *)

\* What a step of connect does before Stop, and that it does nothing to a stopped
\* provider but start a readLoop that will see the context.
LEMMA ConnectorStop ==
  ASSUME Types, LoopInv, FreshInv, StopInv,
         Start \/ ConnectorStep \/ \E c \in Conns : ConnectDials(c)
  PROVE  StopInv'
<1> USE DEF connectVars, loopVars, jobVars, Watching
<1>0. 0 \notin Conns
  BY ProviderAssumption DEF Conns
<1>1. CASE Start \/ ConnectChecks \/ ConnectCleans \/ DialFails \/ ConnectInstalls
           \/ RegisterFails \/ \E c \in Conns : ConnectDials(c)
  <2>1. /\ UNCHANGED <<loops, ctxDone, stop, job>>
        /\ connector # "idle" /\ connector # "waiting"
        /\ state' = state \/ state' = "Connecting"
        /\ connector' = "registering" => conn' = fresh'
    BY <1>1 DEF Start, ConnectChecks, ConnectCleans, DialFails, ConnectInstalls,
                RegisterFails, ConnectDials, ScheduleReconnect
  <2>2. \A c \in Conns : loops'[c] \notin Running
    BY <2>1, ConnectAlone
  <2> QED
    BY <2>1, <2>2 DEF StopInv, Running
<1>2. CASE BackoffEnds
  <2>1. /\ UNCHANGED <<loops, ctxDone, stop, job, state, conn>>
        /\ connector' # "registering" /\ connector = "waiting"
    BY <1>2 DEF BackoffEnds
  <2>2. stop = "none" => \A c \in Conns : loops[c] # "closing"
    BY <1>2 DEF BackoffEnds, StopInv
  <2> QED
    BY <2>1, <2>2 DEF StopInv
<1>3. CASE Registers
  <2>1. /\ UNCHANGED <<ctxDone, stop, job, conn>> /\ state' = "Connected"
        /\ connector = "registering" /\ connector' = "idle" /\ fresh \in Conns
    BY <1>3 DEF Registers, FreshInv
  <2>2. loops'[fresh] = "top" /\ \A c \in Conns : c # fresh => loops'[c] = loops[c]
    BY <1>3, <2>1 DEF Registers, Types
  <2>3. \A c \in Conns : loops'[c] \in Running => loops'[c] = "top"
    BY <2>1, <2>2, ConnectAlone
  <2>4. stop = "none" => conn' # 0
    BY <1>0, <2>1 DEF StopInv
  <2> QED
    BY <2>1, <2>3, <2>4 DEF StopInv, Running
<1> QED
  BY <1>1, <1>2, <1>3 DEF ConnectorStep

\* Before Stop a readLoop ends only when it has scheduled a reconnect; after it
\* no message is received.
LEMMA LoopStop ==
  ASSUME Types, LoopInv, StopInv, NEW c \in Conns, LoopAction(c)
  PROVE  StopInv'
<1> USE DEF connectVars, jobVars, Watching
<1>1. /\ loops[c] \in Running
      /\ \A d \in Conns : d # c => loops'[d] = loops[d]
      /\ loops'[c] \in Watching => loops[c] \in Watching /\ connector' = connector
      /\ loops'[c] = "closing" => loops[c] \in Watching
      /\ LoopReadFails(c) \/ UNCHANGED <<state, connector>>
      /\ LoopEnds(c) \/ UNCHANGED conn
      /\ UNCHANGED <<fresh, ctxDone, stop>>
  BY LoopFrame
<1>2. \A d \in Conns : d # c => loops'[d] \notin Running
  BY <1>1 DEF LoopInv, OneReadLoop
<1>3. ASSUME stop = "none"
      PROVE  /\ state' # "Draining"
             /\ \A d \in Conns : loops'[d] \in Watching => conn' # 0
             /\ connector' = "registering" => conn' = fresh'
             /\ \A d \in Conns : loops'[d] = "closing" => connector' = "waiting"
  <2>1. state' # "Draining"
    BY <1>1, <1>3 DEF StopInv, LoopReadFails
  <2>2. loops'[c] \in Watching => conn' # 0
    <3>1. LoopEnds(c) => loops'[c] = "ended"
      BY LoopMoves DEF LoopEnds, LoopStates
    <3>2. "ended" \notin Watching
      OBVIOUS
    <3> QED
      BY <1>1, <1>3, <3>1, <3>2 DEF StopInv
  <2>3. connector' # "registering"
    <3>1. connector # "registering"
      BY <1>1 DEF LoopInv, Running
    <3> QED
      BY <1>1, <3>1 DEF LoopReadFails, ScheduleReconnect
  <2>4. ASSUME loops'[c] = "closing" PROVE connector' = "waiting"
    <3>0. ~ctxDone /\ state # "Draining" /\ conn # 0
      BY <1>1, <1>3, <2>4 DEF StopInv
    <3>1. CASE LoopChecksContext(c)
      <4>1. LoopGoesTo(c, "loading")
        BY <3>0, <3>1 DEF LoopChecksContext
      <4> QED
        BY <2>4, <4>1, LoopMoves DEF LoopStates
    <3>2. CASE LoopLoads(c)
      BY <2>4, <3>0, <3>2 DEF LoopLoads, Types
    <3>3. CASE LoopReadFails(c)
      BY <3>0, <3>3 DEF LoopReadFails, ScheduleReconnect
    <3>4. CASE LoopEnds(c)
      BY <2>4, <3>4, LoopMoves DEF LoopEnds, LoopStates
    <3>5. CASE LoopReceives(c)
      BY <2>4, <3>5, LoopMoves DEF LoopReceives, LoopStates
    <3> QED
      BY <3>1, <3>2, <3>3, <3>4, <3>5
         DEF LoopAction, LoopStep, HandleJobRequest, HandleAssignment, HandleTermination
  <2> QED
    BY <1>2, <2>1, <2>2, <2>3, <2>4 DEF Running
<1>4. ASSUME stop = "returned"
      PROVE  /\ \A d \in Conns : loops'[d] # "loading" /\ loops'[d] # "reading"
             /\ job' = job
  <2>0. ctxDone /\ loops[c] # "loading" /\ loops[c] # "reading"
    BY <1>4 DEF StopInv
  <2>1. LoopChecksContext(c) \/ LoopEnds(c)
    BY <2>0 DEF LoopAction, LoopStep, HandleJobRequest, HandleAssignment,
                HandleTermination, LoopReceives, LoopLoads, LoopReadFails
  <2>2. LoopGoesTo(c, "closing") \/ LoopGoesTo(c, "ended")
    BY <2>0, <2>1 DEF LoopChecksContext, LoopEnds
  <2>3. loops'[c] # "loading" /\ loops'[c] # "reading"
    BY <2>2, LoopMoves DEF LoopStates
  <2> QED
    BY <1>2, <2>1, <2>3 DEF LoopChecksContext, LoopEnds, Running
<1> QED
  BY <1>1, <1>3, <1>4 DEF StopInv

\* Stop cancels before it waits, and returns when nothing that is counted runs.
LEMMA OtherStop ==
  ASSUME Types, StopInv,
         \/ StopDrains \/ StopStep \/ LoggerEnds
         \/ \E c \in Conns : Break(c)
         \/ \E j \in Jobs : HandlerReturns(j) \/ HandlerHangs(j) \/ JobEnds(j)
  PROVE  StopInv'
<1> USE DEF connectVars, loopVars, jobVars
<1>1. CASE StopDrains
  BY <1>1 DEF StopDrains, StopInv
<1>2. CASE StopCancels
  BY <1>2 DEF StopCancels, StopInv
<1>3. CASE StopPolls
  BY <1>3 DEF StopPolls, StopInv
<1>4. CASE StopCloses
  BY <1>4 DEF StopCloses, StopInv
<1>5. CASE StopReturns
  BY <1>5 DEF StopReturns, WaitGroupZero, StopInv
<1>6. CASE LoggerEnds \/ \E c \in Conns : Break(c)
  BY <1>6 DEF LoggerEnds, Break, StopInv
<1>7. ASSUME NEW j \in Jobs, HandlerReturns(j) \/ HandlerHangs(j)
        \/ JobEnds(j) PROVE StopInv'
  <2>1. UNCHANGED <<state, ctxDone, conn, stop, connector, fresh, loops>>
    BY <1>7 DEF HandlerReturns, HandlerHangs, JobEnds
  <2>2. stop # "returned"
    BY <1>7 DEF HandlerReturns, HandlerHangs, JobEnds, StopInv
  <2> QED
    BY <2>1, <2>2 DEF StopInv
<1> QED
  BY <1>1, <1>2, <1>3, <1>4, <1>5, <1>6, <1>7 DEF StopStep

\* Every step keeps what holds before and after Stop.
LEMMA NextStop ==
  ASSUME Types, LoopInv, FreshInv, StopInv, Next
  PROVE  StopInv'
BY ConnectorStop, LoopStop, OtherStop DEF Next, LoopAction

\* Every step leaves somebody in charge: a readLoop or connect.
LEMMA NextSupervised ==
  ASSUME Types, LoopInv, FreshInv, StopInv, Supervised, Next, StopInv'
  PROVE  Supervised'
<1> SUFFICES ASSUME stop' = "none", connector' = "idle"
             PROVE  \E c \in Conns : loops'[c] \in Watching
  BY DEF Supervised, Watching
<1> USE DEF connectVars, loopVars, jobVars
<1>1. stop = "none" /\ ~ctxDone
  BY DEF Next, Start, StopDrains, StopStep, StopCancels, StopPolls, StopCloses, StopReturns,
         ConnectorStep, BackoffEnds, ConnectChecks, ConnectCleans, DialFails,
         ConnectInstalls, Registers, RegisterFails, ConnectDials, LoopStep,
         LoopChecksContext, LoopLoads, LoopReadFails, LoopEnds, Break, LoopReceives,
         HandleJobRequest, HandleAssignment, HandleTermination, HandlerReturns,
         HandlerHangs, JobEnds,
         LoggerEnds, StopInv
<1>2. CASE Start \/ BackoffEnds \/ ConnectChecks \/ ConnectCleans \/ DialFails
        \/ ConnectInstalls
           \/ RegisterFails \/ \E c \in Conns : ConnectDials(c)
  BY <1>1, <1>2 DEF Start, BackoffEnds, ConnectChecks, ConnectCleans, DialFails,
                    ConnectInstalls, RegisterFails, ConnectDials, ScheduleReconnect
<1>3. CASE Registers
  <2>1. fresh \in Conns /\ loops'[fresh] = "top"
    BY <1>3 DEF Registers, FreshInv, Types
  <2> QED
    BY <2>1 DEF Watching
<1>4. ASSUME NEW c \in Conns, LoopAction(c) PROVE \E d \in Conns : loops'[d] \in Watching
  <2>1. /\ \A d \in Conns : d # c => loops'[d] = loops[d]
        /\ loops[c] \in Running
        /\ LoopReadFails(c) \/ UNCHANGED <<state, connector>>
    BY <1>4, LoopFrame
  <2>2. connector = "idle"
    BY <1>1, <2>1 DEF LoopReadFails, ScheduleReconnect, StopInv
  <2>3. PICK d \in Conns : loops[d] \in Watching
    BY <1>1, <2>2 DEF Supervised, Watching
  <2>4. d = c
    BY <2>1, <2>3 DEF LoopInv, OneReadLoop, Running, Watching
  <2>5. loops'[c] # "closing"
    BY DEF StopInv
  <2>6. loops'[c] \in Watching \/ loops'[c] = "closing"
    <3>1. ~LoopEnds(c)
      BY <2>3, <2>4 DEF LoopEnds, Watching
    <3>2. CASE LoopChecksContext(c)
      BY <3>2, LoopMoves DEF LoopChecksContext, LoopStates, Watching
    <3>3. CASE LoopLoads(c)
      BY <3>3 DEF LoopLoads, Types, Watching
    <3>4. CASE LoopReadFails(c)
      BY <3>4, LoopMoves DEF LoopReadFails, LoopStates
    <3>5. CASE LoopReceives(c)
      BY <3>5, LoopMoves DEF LoopReceives, LoopStates, Watching
    <3> QED
      BY <1>4, <3>1, <3>2, <3>3, <3>4, <3>5
         DEF LoopAction, LoopStep, HandleJobRequest, HandleAssignment, HandleTermination
  <2> QED
    BY <2>5, <2>6
<1>5. CASE \/ StopDrains \/ StopStep \/ LoggerEnds
           \/ \E c \in Conns : Break(c)
           \/ \E j \in Jobs : HandlerReturns(j) \/ HandlerHangs(j) \/ JobEnds(j)
  <2>1. UNCHANGED <<connector, loops>>
    BY <1>5, OtherFrame
  <2> QED
    BY <1>1, <2>1 DEF Supervised, Watching
<1> QED
  BY <1>2, <1>3, <1>4, <1>5 DEF Next, ConnectorStep, LoopAction

-----------------------------------------------------------------------------
(* The provider: the theorems.                                             *)

\* The initial state satisfies the invariant.
LEMMA InitInvariant == Init => IInv
<1> SUFFICES ASSUME Init PROVE IInv
  OBVIOUS
<1>0. 0 \notin Conns /\ 0 \in 0..MaxConns
  BY ProviderAssumption DEF Conns
<1>1. Types
  BY <1>0 DEF Init, Types, LoopStates, JobStates, ConnStates, ConnectorStates
<1>2. LoopInv /\ FreshInv /\ StopInv /\ Supervised
  BY <1>0 DEF Init, LoopInv, OneReadLoop, FreshInv, StopInv, Supervised, Running, Watching
<1>3. LoggerInv
  BY UsedFinite DEF Init, LoggerInv
<1> QED
  BY <1>1, <1>2, <1>3 DEF IInv

\* Every step keeps the invariant.
LEMMA NextInvariant == IInv /\ [Next]_vars => IInv'
<1>1. ASSUME IInv, Next PROVE IInv'
  <2>1. Types'
    BY <1>1, NextTypes DEF IInv
  <2>2. StopInv'
    BY <1>1, NextStop DEF IInv
  <2> QED
    BY <1>1, <2>1, <2>2, NextLoop, NextFresh, NextLogger, NextSupervised DEF IInv
<1>2. ASSUME IInv, UNCHANGED vars PROVE IInv'
  BY <1>2 DEF IInv, Types, LoopInv, OneReadLoop, FreshInv, LoggerInv, Used, StopInv,
              Supervised, vars
<1> QED
  BY <1>1, <1>2

\* Every reachable state of the provider satisfies the invariant.
THEOREM ProviderInvariant == Spec => []IInv
BY InitInvariant, NextInvariant, PTL DEF Spec

\* Every variable of the provider keeps its type; there is no more than one
\* logStatsLoop per connection beside the statusLoop.
THEOREM ProviderTypeCorrect == Spec => []TypeOK
<1>1. IInv => TypeOK
  <2> SUFFICES ASSUME IInv PROVE TypeOK
    OBVIOUS
  <2>1. loggers \in 0..(MaxConns + 1)
    BY UsedFinite, ProviderAssumption DEF IInv, Types, LoggerInv
  <2>2. {conn, fresh} \subseteq 0..MaxConns
    BY DEF IInv, Types
  <2> QED
    BY <2>1, <2>2 DEF IInv, Types, TypeOK, LoopStates, JobStates, ConnStates,
         ConnectorStates
<1> QED
  BY <1>1, ProviderInvariant, PTL

\* At no time do two readLoops run: a websocket connection allows one reader.
THEOREM OneReadLoopHolds == Spec => []OneReadLoop
<1>1. IInv => OneReadLoop
  BY DEF IInv, LoopInv
<1> QED
  BY <1>1, ProviderInvariant, PTL

\* Until Stop is called a readLoop watches the connection or connect is on its
\* way, for any number of connections that are lost.
THEOREM SupervisedHolds == Spec => []Supervised
<1>1. IInv => Supervised
  BY DEF IInv
<1> QED
  BY <1>1, ProviderInvariant, PTL

\* Once Stop has returned no job runs, for any number of jobs, although a
\* readLoop may be started afterwards.
THEOREM NoJobAfterStopHolds == Spec => []NoJobAfterStop
<1>1. IInv => NoJobAfterStop
  BY DEF IInv, StopInv, NoJobAfterStop
<1> QED
  BY <1>1, ProviderInvariant, PTL

-----------------------------------------------------------------------------
(* The transport: the inductive invariant.                                 *)

USE TransportAssumption

ReaderStates ==
  {"none", "ignored", "spawned", "listing", "top", "reading", "sending", "leaving",
   "ended"}

FlagTypes ==
  /\ sessionDone \in BOOLEAN /\ client \in BOOLEAN /\ connected \in BOOLEAN
  /\ audioTrack \in BOOLEAN /\ channels \in BOOLEAN /\ reported \in BOOLEAN
  /\ crashed \in BOOLEAN /\ audioEnabled \in BOOLEAN /\ lost \in BOOLEAN

TrackTypes ==
  /\ activeTracks \subseteq Tracks /\ cancelledTracks \subseteq Tracks
  /\ participantTracks \in [Participants -> SUBSET Tracks]
  /\ captured \in [Tracks -> SUBSET Tracks]
  /\ reader \in [Tracks -> ReaderStates]
  /\ live \subseteq Tracks

OtherTypesOK ==
  /\ life \in {"new", "joining", "publishing", "linking", "connected", "failed"}
  /\ unseen \subseteq Participants
  /\ receiving \in {"none", "waiting", "ended"}
  /\ linkedParticipant \in Participants \cup {Nobody} /\ disconnectCh \in 0..1
  /\ packet \in {"none", "sending"} /\ sender \in {"idle", "checked", "audio", "state"}
  /\ cleanup \in {"none", "clearing", "waiting", "disconnecting", "closing", "done"}
  /\ queue \in 0..OutputCap /\ errors \in 0..ErrorCap
  /\ person \in [Participants -> {"out", "in", "gone"}]

\* After the context is done and the readers were waited for, a reader that a
\* callback still starts leaves at its first look at the context.
ReaderInv ==
  /\ cleanup # "none" => sessionDone
  /\ cleanup \in {"disconnecting", "closing", "done"} =>
       \A t \in Tracks : reader[t] \notin {"reading", "sending"}

\* SendEvent is called once Connect has succeeded; then the client is there, and the
\* track if there is to be one, until Cleanup takes them away.
ClientInv ==
  /\ cleanup # "none" => life \in {"connected", "failed"}
  /\ sender # "idle" => life = "connected"
  /\ life \in {"publishing", "linking", "connected"} /\ cleanup \in {"none", "clearing"}
       => client /\ connected
  /\ /\ life \in {"linking", "connected"} /\ cleanup \in {"none", "clearing"}
     /\ audioEnabled
     => audioTrack

TransportInv ==
  /\ FlagTypes /\ TrackTypes /\ OtherTypesOK
  /\ ReaderInv /\ ClientInv /\ CrashOnlyInCleanup

-----------------------------------------------------------------------------
(* The transport: the steps.                                               *)

\* The error channel holds no more than its capacity.
LEMMA PutErrorTypes ==
  ASSUME TransportInv, PutError \/ UNCHANGED errVars
  PROVE  errors' \in 0..ErrorCap /\ reported' \in BOOLEAN
<1>1. errors' \in 0..ErrorCap
  BY DEF TransportInv, OtherTypesOK, PutError, errVars
<1>2. reported' \in BOOLEAN
  BY DEF TransportInv, FlagTypes, PutError, errVars
<1> QED
  BY <1>1, <1>2

\* A step of the session's life keeps the invariant.
LEMMA LifeStep ==
  ASSUME TransportInv,
         \/ Connect \/ ConnectStep \/ StartReceiving \/ ReceiveStep
         \/ SessionEnds
  PROVE  TransportInv'
<1> USE DEF TransportInv, lifeVars, joinVars, linkVars, trackVars, chanVars, errVars,
           roomVars
<1>1. CASE Connect
  <2>1. FlagTypes' /\ TrackTypes' /\ OtherTypesOK'
    BY <1>1 DEF Connect, ConnectOnly, FlagTypes, TrackTypes, OtherTypesOK
  <2> QED
    BY <1>1, <2>1 DEF Connect, ConnectOnly, ReaderInv, ClientInv, CrashOnlyInCleanup
<1>2. CASE OnRoomConnected \/ CreateAudioTrackFails
  <2>1. FlagTypes'
    BY <1>2 DEF OnRoomConnected, CreateAudioTrackFails, ConnectOnly, FlagTypes
  <2>2. TrackTypes' /\ OtherTypesOK'
    BY <1>2 DEF OnRoomConnected, CreateAudioTrackFails, ConnectOnly, TrackTypes,
                OtherTypesOK
  <2>3. ReaderInv' /\ CrashOnlyInCleanup'
    BY <1>2 DEF OnRoomConnected, CreateAudioTrackFails, ConnectOnly, ReaderInv,
                CrashOnlyInCleanup
  <2>4. ClientInv'
    BY <1>2 DEF OnRoomConnected, CreateAudioTrackFails, ConnectOnly, ClientInv
  <2> QED
    BY <2>1, <2>2, <2>3, <2>4
<1>6. CASE ListParticipants
  <2>1. FlagTypes'
    BY <1>6 DEF ListParticipants, ConnectOnly, FlagTypes
  <2>2. TrackTypes' /\ OtherTypesOK'
    BY <1>6 DEF ListParticipants, ConnectOnly, TrackTypes, OtherTypesOK
  <2>3. ReaderInv' /\ CrashOnlyInCleanup'
    BY <1>6 DEF ListParticipants, ConnectOnly, ReaderInv, CrashOnlyInCleanup
  <2>4. ClientInv'
    BY <1>6 DEF ListParticipants, ConnectOnly, ClientInv
  <2> QED
    BY <2>1, <2>2, <2>3, <2>4
<1>7. ASSUME NEW p \in Participants, LinkPresent(p) PROVE TransportInv'
  <2>1. FlagTypes'
    BY <1>7 DEF LinkPresent, ConnectOnly, FlagTypes
  <2>2. TrackTypes' /\ OtherTypesOK'
    BY <1>7 DEF LinkPresent, Link, ConnectOnly, TrackTypes, OtherTypesOK
  <2>3. ReaderInv' /\ CrashOnlyInCleanup'
    BY <1>7 DEF LinkPresent, ConnectOnly, ReaderInv, CrashOnlyInCleanup
  <2>4. ClientInv'
    BY <1>7 DEF LinkPresent, ConnectOnly, ClientInv
  <2> QED
    BY <2>1, <2>2, <2>3, <2>4
<1>3. CASE StartReceiving
  <2>1. FlagTypes' /\ TrackTypes' /\ OtherTypesOK'
    BY <1>3 DEF StartReceiving, FlagTypes, TrackTypes, OtherTypesOK
  <2> QED
    BY <1>3, <2>1 DEF StartReceiving, ReaderInv, ClientInv,
         CrashOnlyInCleanup
<1>4. CASE ReceiveStep
  <2>1. /\ UNCHANGED <<lifeVars, linkedParticipant, lost, trackVars, packet, sender, queue,
                       crashed, roomVars>>
        /\ receiving' = "ended" /\ disconnectCh' \in 0..1
    BY <1>4 DEF ReceiveStep, ReceiveLeft, ReceiveEnds, OtherTypesOK
  <2>2. PutError \/ UNCHANGED errVars
    BY <1>4 DEF ReceiveStep, ReceiveLeft, ReceiveEnds
  <2>3. errors' \in 0..ErrorCap /\ reported' \in BOOLEAN
    BY <2>2, PutErrorTypes
  <2>4. FlagTypes' /\ TrackTypes' /\ OtherTypesOK'
    BY <2>1, <2>3 DEF FlagTypes, TrackTypes, OtherTypesOK
  <2> QED
    BY <2>1, <2>4 DEF ReaderInv, ClientInv, CrashOnlyInCleanup
<1>5. CASE SessionEnds
  <2>1. FlagTypes' /\ TrackTypes' /\ OtherTypesOK'
    BY <1>5 DEF SessionEnds, FlagTypes, TrackTypes, OtherTypesOK
  <2> QED
    BY <1>5, <2>1 DEF SessionEnds, ReaderInv, ClientInv,
         CrashOnlyInCleanup
<1> QED
  BY <1>1, <1>2, <1>3, <1>4, <1>5, <1>6, <1>7 DEF ConnectStep

\* A callback of the room keeps the invariant: a reader is started but does not read
\* yet.
LEMMA RoomStep ==
  ASSUME TransportInv,
         \/ \E p \in Participants :
              ParticipantConnected(p) \/ ParticipantDisconnected(p) \/ DataPacket(p)
         \/ \E t \in Tracks : TrackSubscribed(t) \/ TrackUnsubscribed(t)
  PROVE  TransportInv'
<1> USE DEF TransportInv, lifeVars, joinVars, linkVars, trackVars, chanVars, errVars,
           roomVars
<1>1. ASSUME NEW p \in Participants, ParticipantConnected(p) PROVE TransportInv'
  <2>1. person' \in [Participants -> {"out", "in", "gone"}]
        /\ linkedParticipant' \in Participants \cup {Nobody}
    BY <1>1 DEF ParticipantConnected, Link, OtherTypesOK
  <2>2. FlagTypes' /\ TrackTypes' /\ OtherTypesOK'
    BY <1>1, <2>1 DEF ParticipantConnected, FlagTypes, TrackTypes, OtherTypesOK
  <2> QED
    BY <1>1, <2>2 DEF ParticipantConnected, ReaderInv, ClientInv, CrashOnlyInCleanup
<1>2. ASSUME NEW p \in Participants, ParticipantDisconnected(p) PROVE TransportInv'
  <2>1. person' \in [Participants -> {"out", "in", "gone"}]
    BY <1>2 DEF ParticipantDisconnected, OtherTypesOK
  <2>2. linkedParticipant' \in Participants \cup {Nobody} /\ disconnectCh' \in 0..1
    BY <1>2 DEF ParticipantDisconnected, OtherTypesOK
  <2>3. TrackTypes'
    BY <1>2 DEF ParticipantDisconnected, TrackTypes
  <2>4. lost' \in BOOLEAN
    BY <1>2 DEF ParticipantDisconnected, FlagTypes
  <2>5. FlagTypes' /\ OtherTypesOK'
    BY <1>2, <2>1, <2>2, <2>4 DEF ParticipantDisconnected, FlagTypes, OtherTypesOK
  <2> QED
    BY <1>2, <2>3, <2>5
       DEF ParticipantDisconnected, ReaderInv, ClientInv, CrashOnlyInCleanup
<1>3. ASSUME NEW p \in Participants, DataPacket(p) PROVE TransportInv'
  <2>1. FlagTypes' /\ TrackTypes' /\ OtherTypesOK'
    BY <1>3 DEF DataPacket, FlagTypes, TrackTypes, OtherTypesOK
  <2> QED
    BY <1>3, <2>1 DEF DataPacket, ReaderInv, ClientInv,
         CrashOnlyInCleanup
<1>4. ASSUME NEW t \in Tracks, TrackSubscribed(t) PROVE TransportInv'
  <2>1. /\ reader' \in [Tracks -> ReaderStates]
        /\ \A u \in Tracks : reader'[u] \in {"reading", "sending"} => reader'[u] = reader[u]
    BY <1>4 DEF TrackSubscribed, TrackTypes, ReaderStates
  <2>2. FlagTypes' /\ TrackTypes' /\ OtherTypesOK'
    BY <1>4, <2>1 DEF TrackSubscribed, FlagTypes, TrackTypes, OtherTypesOK
  <2>3. ReaderInv'
    BY <1>4, <2>1 DEF TrackSubscribed, ReaderInv
  <2> QED
    BY <1>4, <2>2, <2>3 DEF TrackSubscribed, ClientInv,
         CrashOnlyInCleanup
<1>5. ASSUME NEW t \in Tracks, TrackUnsubscribed(t) PROVE TransportInv'
  <2>1. TrackTypes'
    BY <1>5 DEF TrackUnsubscribed, Unlist, TrackTypes
  <2>2. FlagTypes' /\ OtherTypesOK'
    BY <1>5 DEF TrackUnsubscribed, FlagTypes, OtherTypesOK
  <2> QED
    BY <1>5, <2>1, <2>2 DEF TrackUnsubscribed, ReaderInv, ClientInv,
         CrashOnlyInCleanup
<1> QED
  BY <1>1, <1>2, <1>3, <1>4, <1>5

\* A reader comes to read or to send only past a look at the context.
LEMMA ReaderMoves ==
  ASSUME TransportInv, NEW t \in Tracks,
         ReaderReads(t) \/ ReaderErrs(t) \/ ReaderStep(t)
  PROVE  /\ reader' \in [Tracks -> ReaderStates]
         /\ \A u \in Tracks : u # t => reader'[u] = reader[u]
         /\ reader'[t] \in {"reading", "sending"} => ~sessionDone \/ reader[t] = "reading"
<1> USE DEF TransportInv, TrackTypes, ReaderStates, ReaderGoesTo, Stopped
<1>1. CASE ReaderReads(t)
  BY <1>1 DEF ReaderReads
<1>2. CASE ReaderErrs(t)
  BY <1>2 DEF ReaderErrs
<1>3. CASE ReaderStores(t) \/ ReaderLists(t) \/ ReaderLeaves(t)
  BY <1>3 DEF ReaderStores, ReaderLists, ReaderLeaves
<1>4. CASE ReaderChecks(t)
  BY <1>4 DEF ReaderChecks
<1>5. CASE ReaderWakes(t)
  BY <1>5 DEF ReaderWakes
<1>6. CASE ReaderSends(t)
  BY <1>6 DEF ReaderSends
<1> QED
  BY <1>1, <1>2, <1>3, <1>4, <1>5, <1>6 DEF ReaderStep

\* A step of a reader keeps the invariant.
LEMMA ReaderKeeps ==
  ASSUME TransportInv, NEW t \in Tracks,
         ReaderReads(t) \/ ReaderErrs(t) \/ ReaderStep(t)
  PROVE  TransportInv'
<1> USE DEF TransportInv, lifeVars, joinVars, linkVars, trackVars, chanVars, errVars,
           roomVars
<1>1. /\ reader' \in [Tracks -> ReaderStates]
      /\ \A u \in Tracks : u # t => reader'[u] = reader[u]
      /\ reader'[t] \in {"reading", "sending"} => ~sessionDone \/ reader[t] = "reading"
  BY ReaderMoves
<1>2. UNCHANGED <<lifeVars, receiving, linkVars, packet, sender, crashed, roomVars>>
  BY DEF ReaderReads, ReaderErrs, ReaderStep, ReaderStores, ReaderLists,
         ReaderChecks, ReaderWakes, ReaderSends, ReaderLeaves, ReaderOnly
<1>3. errors' \in 0..ErrorCap /\ reported' \in BOOLEAN
  <2>1. PutError \/ UNCHANGED errVars
    BY DEF ReaderReads, ReaderErrs, ReaderStep, ReaderStores, ReaderLists,
           ReaderChecks, ReaderWakes, ReaderSends, ReaderLeaves
  <2> QED
    BY <2>1, PutErrorTypes
<1>4. queue' \in 0..OutputCap
  <2>1. CASE queue' = queue
    BY <2>1 DEF OtherTypesOK
  <2>2. CASE queue < OutputCap /\ queue' = queue + 1
    BY <2>2 DEF OtherTypesOK
  <2> QED
    BY <2>1, <2>2 DEF ReaderReads, ReaderErrs, ReaderStep, ReaderStores,
         ReaderLists, ReaderChecks, ReaderWakes, ReaderSends, ReaderLeaves
<1>5. /\ activeTracks' \subseteq Tracks /\ cancelledTracks' = cancelledTracks
      /\ participantTracks' \in [Participants -> SUBSET Tracks]
      /\ captured' \in [Tracks -> SUBSET Tracks]
  <2>0. Owner[t] \in Participants
    OBVIOUS
  <2>1. CASE ReaderStores(t)
    BY <2>0, <2>1 DEF ReaderStores, TrackTypes
  <2>2. CASE ReaderLists(t)
    BY <2>0, <2>2 DEF ReaderLists, TrackTypes
  <2>3. CASE ReaderLeaves(t)
    BY <2>0, <2>3 DEF ReaderLeaves, Unlist, TrackTypes
  <2>4. CASE ReaderReads(t) \/ ReaderErrs(t) \/ ReaderChecks(t) \/ ReaderWakes(t)
             \/ ReaderSends(t)
    BY <2>4 DEF ReaderReads, ReaderErrs, ReaderChecks, ReaderWakes, ReaderSends,
                TrackTypes
  <2> QED
    BY <2>1, <2>2, <2>3, <2>4 DEF ReaderStep
<1>6. FlagTypes' /\ TrackTypes' /\ OtherTypesOK'
  BY <1>1, <1>2, <1>3, <1>4, <1>5 DEF FlagTypes, TrackTypes, OtherTypesOK
<1>7. ReaderInv'
  BY <1>1, <1>2 DEF ReaderInv
<1> QED
  BY <1>2, <1>6, <1>7 DEF ClientInv, CrashOnlyInCleanup

\* A step that sends or receives keeps the invariant.
LEMMA SendStep ==
  ASSUME TransportInv,
         \/ PacketLeaves \/ HandlerReceives \/ SendChecks
         \/ \E kind \in EventKinds : SendLooks(kind) \/ SendActs(kind)
  PROVE  TransportInv'
<1> USE DEF TransportInv, lifeVars, joinVars, linkVars, trackVars, chanVars, errVars,
           roomVars
<1>1. CASE PacketLeaves \/ HandlerReceives
  <2>1. queue' \in 0..OutputCap /\ errors' \in 0..ErrorCap
    BY <1>1 DEF PacketLeaves, HandlerReceives, OtherTypesOK
  <2>2. FlagTypes' /\ TrackTypes' /\ OtherTypesOK'
    BY <1>1, <2>1 DEF PacketLeaves, HandlerReceives, FlagTypes, TrackTypes, OtherTypesOK
  <2> QED
    BY <1>1, <2>2 DEF PacketLeaves, HandlerReceives, ReaderInv,
                      ClientInv, CrashOnlyInCleanup
<1>2. CASE SendChecks
  <2>1. FlagTypes' /\ TrackTypes' /\ OtherTypesOK'
    BY <1>2 DEF SendChecks, FlagTypes, TrackTypes, OtherTypesOK
  <2> QED
    BY <1>2, <2>1 DEF SendChecks, ReaderInv, ClientInv,
         CrashOnlyInCleanup
<1>3. ASSUME NEW kind \in EventKinds, SendLooks(kind)
      PROVE  TransportInv'
  <2>1. sender' \in {"idle", "checked", "audio", "state"} /\ sender # "idle"
    BY <1>3 DEF SendLooks
  <2>2. FlagTypes' /\ TrackTypes' /\ OtherTypesOK'
    BY <1>3, <2>1 DEF SendLooks, FlagTypes, TrackTypes, OtherTypesOK
  <2> QED
    BY <1>3, <2>1, <2>2 DEF SendLooks, ReaderInv, ClientInv,
         CrashOnlyInCleanup
<1>4. ASSUME NEW kind \in EventKinds, SendActs(kind)
      PROVE  TransportInv'
  <2>1. crashed' \in BOOLEAN /\ sender' = "idle" /\ sender # "idle"
    BY <1>4 DEF SendActs
  <2>2. FlagTypes' /\ TrackTypes' /\ OtherTypesOK'
    BY <1>4, <2>1 DEF SendActs, FlagTypes, TrackTypes, OtherTypesOK
  <2>3. CrashOnlyInCleanup'
    BY <1>4, <2>1 DEF SendActs, Has, ClientInv, CrashOnlyInCleanup
  <2> QED
    BY <1>4, <2>1, <2>2, <2>3 DEF SendActs, ReaderInv, ClientInv
<1> QED
  BY <1>1, <1>2, <1>3, <1>4

\* A step of Cleanup keeps the invariant: the context is done before anything is
\* cleared, and the readers are waited for before the client disconnects.
LEMMA CleanupKeeps ==
  ASSUME TransportInv, CleanupCancels \/ CleanupStep
  PROVE  TransportInv'
<1> USE DEF TransportInv, lifeVars, joinVars, linkVars, trackVars, chanVars, errVars,
           roomVars
<1>1. CASE CleanupCancels
  <2>1. FlagTypes' /\ TrackTypes' /\ OtherTypesOK'
    BY <1>1 DEF CleanupCancels, FlagTypes, TrackTypes, OtherTypesOK
  <2> QED
    BY <1>1, <2>1 DEF CleanupCancels, Returned, ReaderInv, ClientInv,
         CrashOnlyInCleanup
<1>2. CASE CleanupClears
  <2>0. FlagTypes'
    BY <1>2 DEF CleanupClears, FlagTypes
  <2>1. FlagTypes' /\ TrackTypes' /\ OtherTypesOK'
    BY <1>2, <2>0 DEF CleanupClears, TrackTypes, OtherTypesOK
  <2> QED
    BY <1>2, <2>1 DEF CleanupClears, ReaderInv, ClientInv,
         CrashOnlyInCleanup
<1>3. CASE CleanupWaits
  <2>1. FlagTypes' /\ TrackTypes' /\ OtherTypesOK'
    BY <1>3 DEF CleanupWaits, FlagTypes, TrackTypes, OtherTypesOK
  <2>2. ReaderInv'
    BY <1>3 DEF CleanupWaits, ReaderInv
  <2> QED
    BY <1>3, <2>1, <2>2 DEF CleanupWaits, ClientInv, CrashOnlyInCleanup
<1>4. CASE CleanupDisconnects
  <2>0. FlagTypes'
    BY <1>4 DEF CleanupDisconnects, FlagTypes
  <2>1. FlagTypes' /\ TrackTypes' /\ OtherTypesOK'
    BY <1>4, <2>0 DEF CleanupDisconnects, TrackTypes, OtherTypesOK
  <2> QED
    BY <1>4, <2>1 DEF CleanupDisconnects, ReaderInv, ClientInv,
         CrashOnlyInCleanup
<1>5. CASE CleanupCloses
  <2>1. FlagTypes' /\ TrackTypes' /\ OtherTypesOK'
    BY <1>5 DEF CleanupCloses, FlagTypes, TrackTypes, OtherTypesOK
  <2> QED
    BY <1>5, <2>1 DEF CleanupCloses, ReaderInv, ClientInv,
         CrashOnlyInCleanup
<1> QED
  BY <1>1, <1>2, <1>3, <1>4, <1>5 DEF CleanupStep

-----------------------------------------------------------------------------
(* The transport: the theorems.                                            *)

\* The initial states of the transport satisfy its invariant.
LEMMA TransportInvInit ==
  ASSUME TransportInit
  PROVE  TransportInv
<1>1. FlagTypes /\ TrackTypes
  BY DEF TransportInit, FlagTypes, TrackTypes, ReaderStates
<1>2. OtherTypesOK
  BY DEF TransportInit, OtherTypesOK
<1>3. ReaderInv /\ ClientInv /\ CrashOnlyInCleanup
  BY DEF TransportInit, ReaderInv, ClientInv, CrashOnlyInCleanup
<1> QED
  BY <1>1, <1>2, <1>3 DEF TransportInv

\* Every step of the transport keeps its invariant.
LEMMA TransportInvNext ==
  ASSUME TransportInv, [TransportNext]_transportVars
  PROVE  TransportInv'
<1>1. CASE TransportNext
  BY <1>1, LifeStep, RoomStep, ReaderKeeps, SendStep, CleanupKeeps DEF TransportNext
<1>2. CASE UNCHANGED transportVars
  BY <1>2 DEF transportVars, TransportInv, FlagTypes, TrackTypes, OtherTypesOK,
       ReaderInv, ClientInv, CrashOnlyInCleanup
<1> QED
  BY <1>1, <1>2

\* Every reachable state of the transport satisfies its invariant.
THEOREM TransportInvariant == TransportSpec => []TransportInv
BY TransportInvInit, TransportInvNext, PTL DEF TransportSpec

\* Every variable of the transport keeps its type, and the output channel its
\* capacity.
THEOREM TransportTypeCorrect == TransportSpec => []TransportTypeOK
<1>1. TransportInv => TransportTypeOK
  <2> SUFFICES ASSUME TransportInv PROVE TransportTypeOK
    OBVIOUS
  <2>1. {audioEnabled, sessionDone, client, connected, audioTrack, channels, crashed,
         reported, lost} \subseteq BOOLEAN
    BY DEF TransportInv, FlagTypes
  <2> QED
    BY <2>1 DEF TransportInv, TrackTypes, OtherTypesOK, ReaderStates, TransportTypeOK
<1> QED
  BY <1>1, TransportInvariant, PTL

\* When Cleanup has disconnected the client no reader reads or sends any more, for
\* any participants and tracks, also a reader that a callback starts while Cleanup
\* waits for the others.
THEOREM NoReaderAfterDisconnectHolds == TransportSpec => []NoReaderAfterDisconnect
<1>1. TransportInv => NoReaderAfterDisconnect
  BY DEF TransportInv, ReaderInv, NoReaderAfterDisconnect
<1> QED
  BY <1>1, TransportInvariant, PTL

\* With an audio track SendEvent meets a nil pointer only when Cleanup has taken the
\* track or the client away, for any events and however Connect goes.
THEOREM CrashOnlyInCleanupHolds == TransportSpec => []CrashOnlyInCleanup
<1>1. TransportInv => CrashOnlyInCleanup
  BY DEF TransportInv
<1> QED
  BY <1>1, TransportInvariant, PTL
=============================================================================
