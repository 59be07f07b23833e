-------------------------- MODULE TTSServices_proof --------------------------
(***************************************************************************)
(* Proofs about the TTS services, for every number of connections and      *)
(* calls, every limit of characters and all lengths of texts.              *)
(***************************************************************************)
EXTENDS TTSServices, SequenceTheorems, WellFoundedInduction, TLAPS

-----------------------------------------------------------------------------
(* The inductive invariant.                                                *)

\* What the server receives: a kind of message and a number.
Messages == {"bos", "text", "flush", "clear", "eos", "finish", "cancel"} \X Nat

WireTypes == wire \in [Conns -> Seq(Messages)]

\* Who may replace the connection.  Until StartTTSSession is done there is
\* nothing; while reconnect or Reset dials there is no current connection, a
\* dialled one is about to be installed by exactly one of them, and reconnect
\* does not overlap with a call.
ConnInv ==
  /\ conn # 0 => start = "done"
  /\ reader # "none" => start = "done"
  /\ call \notin {"idle", "checking"} => start = "done"
  /\ reader \in {"closing", "dialing", "installing"} => call = "idle"
  /\ reader \in {"dialing", "installing"} => conn = 0
  /\ provider = "elevenlabs" /\ call \in {"dialing", "installing"} => conn = 0
  /\ fresh # 0 <=> \/ reader = "installing"
                   \/ provider = "elevenlabs" /\ call = "installing"
  /\ NoOrphanConnection

\* A call writes to the connection that was current when it began; that one may
\* have been closed since, but except by ElevenLabs' own Reset it is not replaced.
CallInv ==
  call \in {"writing", "flushing", "sending"} =>
    callConn \in Conns /\ conn \in {0, callConn}

\* Deepgram's counter, also in the middle of a call: while a chunk is out that
\* is not yet flushed it says nothing about an open connection, and between an
\* automatic flush and its text it is ahead.
BufferInv ==
  provider = "deepgram" =>
    /\ charCount < MaxCharsBeforeFlush
    /\ call \in {"idle", "checking", "writing", "flushing", "sending"}
    /\ fresh # 0 => wire[fresh] = <<>>
    /\ call = "sending" => charCount = left
    /\ conn # 0 /\ status[conn] = "open" =>
         /\ call \in {"idle", "checking", "writing"} => KeptChars(wire[conn]) <= charCount
         /\ call = "sending" => KeptChars(wire[conn]) = 0

\* Cartesia's contexts: where the context is known to be over, or about to be
\* cancelled, nothing later has been sent.
IdsUpTo(k) == \A c \in Conns : \A i \in DOMAIN wire[c] : wire[c][i][2] <= k
OverBelow(k) ==
  \A c \in Conns : \A i \in DOMAIN wire[c] :
    wire[c][i][1] \in {"finish", "cancel"} => wire[c][i][2] < k

ContextInv ==
  provider = "cartesia" =>
    /\ call \in {"idle", "checking", "writing", "installing"}
    /\ IdsUpTo(contextID)
    /\ call # "installing" => OverBelow(contextID)
    /\ call = "writing" /\ op = "reset" =>
         contextID > 1 /\ IdsUpTo(contextID - 1) /\ OverBelow(contextID - 1)
    /\ ContextsNotReused

IInv == TypeOK /\ WireTypes /\ ConnInv /\ CallInv /\ BufferInv /\ ContextInv

-----------------------------------------------------------------------------
(* The goroutines that the three services share.                           *)

\* ElevenLabs' instance of the shared code is the shared code.
LEMMA ElevenLabsShared ==
  /\ (EL!LifeStep <=> LifeStep) /\ (EL!ReaderStep <=> ReaderStep)
  /\ (EL!HeartbeatStep <=> HeartbeatStep) /\ (EL!NetworkStep <=> NetworkStep)
  /\ (EL!CheckFails <=> CheckFails) /\ (EL!CheckPasses <=> CheckPasses)
<1> USE DEF lifeVars, EL!lifeVars, connVars, EL!connVars, readVars, EL!readVars,
            beatVars, EL!beatVars, callVars, EL!callVars, CloseConnectionLocked,
            EL!CloseConnectionLocked, Return, EL!Return
<1>1. /\ (EL!InitializeService <=> InitializeService)
      /\ (EL!CancelContext <=> CancelContext)
      /\ (EL!StartLocks <=> StartLocks)
      /\ (EL!StartFails <=> StartFails)
      /\ (EL!CleanupCancels <=> CleanupCancels)
      /\ (EL!CleanupCloses <=> CleanupCloses)
  BY DEF InitializeService, EL!InitializeService, CancelContext,
         EL!CancelContext, StartLocks, EL!StartLocks, StartFails, EL!StartFails,
         CleanupCancels, EL!CleanupCancels, CleanupCloses, EL!CleanupCloses
<1>2. /\ (EL!ReaderChecksContext <=> ReaderChecksContext)
      /\ (EL!ReaderLoads <=> ReaderLoads)
      /\ (EL!ReadFails <=> ReadFails)
      /\ (EL!ReconnectLocks <=> ReconnectLocks)
  BY DEF ReaderChecksContext, EL!ReaderChecksContext, ReaderLoads,
         EL!ReaderLoads, ReadFails, EL!ReadFails, ReconnectLocks,
         EL!ReconnectLocks
<1>3. /\ (EL!ReconnectCloses <=> ReconnectCloses)
      /\ (EL!ReconnectInstalls <=> ReconnectInstalls)
      /\ (EL!ReconnectFails <=> ReconnectFails)
      /\ (EL!ReaderLeaves <=> ReaderLeaves)
  BY DEF ReconnectCloses, EL!ReconnectCloses, ReconnectInstalls,
         EL!ReconnectInstalls, ReconnectFails, EL!ReconnectFails, ReaderLeaves,
         EL!ReaderLeaves
<1>4. /\ (EL!HeartbeatTicks <=> HeartbeatTicks)
      /\ (EL!HeartbeatPing <=> HeartbeatPing)
      /\ (EL!HeartbeatEnds <=> HeartbeatEnds)
      /\ (EL!NetworkStep <=> NetworkStep)
      /\ (EL!CheckFails <=> CheckFails)
      /\ (EL!CheckPasses <=> CheckPasses)
  BY DEF HeartbeatTicks, EL!HeartbeatTicks, HeartbeatPing, EL!HeartbeatPing,
         HeartbeatEnds, EL!HeartbeatEnds, NetworkStep, EL!NetworkStep,
         CheckFails, EL!CheckFails, CheckPasses, EL!CheckPasses, HeartbeatPings,
         EL!HeartbeatPings, HeartbeatCloses, EL!HeartbeatCloses, Break, EL!Break,
         Conns, EL!Conns
<1> QED
  BY <1>1, <1>2, <1>3, <1>4
     DEF LifeStep, EL!LifeStep, ReaderStep, EL!ReaderStep, HeartbeatStep,
         EL!HeartbeatStep

\* What the services share: all steps but the dial that succeeds and the calls.
SharedStep ==
  LifeStep \/ ReaderStep \/ HeartbeatStep \/ NetworkStep \/ CheckFails

\* Closing the current connection.
LEMMA CloseEffect ==
  ASSUME ConnectionTypeOK, CloseConnectionLocked
  PROVE  /\ conn' = 0 /\ status' \in [Conns -> {"none", "open", "broken", "closed"}]
         /\ \A c \in Conns : status'[c] = IF c = conn THEN "closed" ELSE status[c]
BY TTSConnectionAssumption DEF ConnectionTypeOK, CloseConnectionLocked, Conns

\* The shared steps do not write, keep at most what the call in progress knows,
\* open no connection and install only what was dialled.
LEMMA SharedFrame ==
  ASSUME ConnectionTypeOK, SharedStep
  PROVE  /\ UNCHANGED wire
         /\ \/ UNCHANGED <<call, op, left, callConn>>
            \/ /\ call = "checking" /\ call' = "idle" /\ op' = "none"
               /\ UNCHANGED conn
         /\ \/ UNCHANGED <<conn, fresh>>
            \/ conn' = 0 /\ UNCHANGED fresh
            \/ reader = "installing" /\ conn' = fresh /\ fresh' = 0 /\ UNCHANGED call
         /\ \A c \in Conns : status'[c] = "open" => status[c] = "open"
<1> USE DEF lifeVars, connVars, readVars, beatVars, callVars, Return
<1>1. CASE InitializeService \/ CancelContext \/ StartLocks \/ StartFails \/ CleanupCancels
  BY <1>1 DEF InitializeService, CancelContext, StartLocks, StartFails, CleanupCancels
<1>2. CASE CleanupCloses \/ ReconnectCloses \/ HeartbeatCloses
  BY <1>2, CloseEffect DEF CleanupCloses, ReconnectCloses, HeartbeatCloses
<1>3. CASE ReaderChecksContext \/ ReaderLoads \/ ReadFails \/ ReconnectLocks
        \/ ReconnectFails
  BY <1>3 DEF ReaderChecksContext, ReaderLoads, ReadFails, ReconnectLocks, ReconnectFails
<1>4. CASE ReconnectInstalls
  BY <1>4 DEF ReconnectInstalls
<1>5. CASE ReaderLeaves
  BY <1>5, CloseEffect DEF ReaderLeaves
<1>6. CASE HeartbeatTicks \/ (\E ok \in BOOLEAN : HeartbeatPings(ok)) \/ HeartbeatEnds
  BY <1>6 DEF HeartbeatTicks, HeartbeatPings, HeartbeatEnds
<1>7. CASE NetworkStep
  BY <1>7 DEF NetworkStep, Break, ConnectionTypeOK
<1>8. CASE CheckFails
  BY <1>8 DEF CheckFails
<1> QED
  BY <1>1, <1>2, <1>3, <1>4, <1>5, <1>6, <1>7, <1>8
     DEF SharedStep, LifeStep, ReaderStep, HeartbeatStep, HeartbeatPing

\* They keep the types.
LEMMA SharedTypes ==
  ASSUME ConnectionTypeOK, SharedStep PROVE ConnectionTypeOK'
<1> USE TTSConnectionAssumption DEF lifeVars, connVars, readVars, beatVars, callVars, Return
<1>1. CASE InitializeService
  <2>1. isInitialized' \in BOOLEAN
    BY <1>1 DEF InitializeService
  <2> QED
    BY <1>1, <2>1 DEF InitializeService, ConnectionTypeOK
<1>2. CASE CancelContext \/ CleanupCancels
  <2>1. ctxDone' \in BOOLEAN
    BY <1>2 DEF CancelContext, CleanupCancels
  <2> QED
    BY <1>2, <2>1 DEF CancelContext, CleanupCancels, ConnectionTypeOK
<1>3. CASE StartLocks \/ StartFails
  BY <1>3 DEF StartLocks, StartFails, ConnectionTypeOK
<1>4. CASE CleanupCloses
  <2>1. session' \in BOOLEAN /\ isInitialized' \in BOOLEAN
    BY <1>4 DEF CleanupCloses
  <2> QED
    BY <1>4, <2>1, CloseEffect DEF CleanupCloses, ConnectionTypeOK
<1>5. CASE ReconnectCloses \/ HeartbeatCloses
  BY <1>5, CloseEffect DEF ReconnectCloses, HeartbeatCloses, ConnectionTypeOK
<1>6. CASE ReaderChecksContext \/ ReaderLoads \/ ReadFails \/ ReconnectLocks
  BY <1>6 DEF ReaderChecksContext, ReaderLoads, ReadFails, ReconnectLocks, ConnectionTypeOK
<1>7. CASE ReconnectFails
  <2>1. reported' \in BOOLEAN
    BY <1>7 DEF ReconnectFails
  <2> QED
    BY <1>7, <2>1 DEF ReconnectFails, ConnectionTypeOK
<1>8. CASE ReconnectInstalls
  BY <1>8 DEF ReconnectInstalls, ConnectionTypeOK
<1>9. CASE ReaderLeaves
  <2>1. session' \in BOOLEAN
    BY <1>9 DEF ReaderLeaves
  <2>2. /\ conn' \in 0..MaxConns
        /\ status' \in [Conns -> {"none", "open", "broken", "closed"}]
    BY <1>9, CloseEffect DEF ReaderLeaves, ConnectionTypeOK
  <2> QED
    BY <1>9, <2>1, <2>2 DEF ReaderLeaves, ConnectionTypeOK
<1>10. CASE HeartbeatTicks \/ HeartbeatEnds
  BY <1>10 DEF HeartbeatTicks, HeartbeatEnds, ConnectionTypeOK
<1>11. CASE \E ok \in BOOLEAN : HeartbeatPings(ok)
  BY <1>11 DEF HeartbeatPings, ConnectionTypeOK
<1>12. CASE NetworkStep
  <2>1. status' \in [Conns -> {"none", "open", "broken", "closed"}]
    BY <1>12 DEF NetworkStep, Break, ConnectionTypeOK
  <2> QED
    BY <1>12, <2>1 DEF NetworkStep, Break, ConnectionTypeOK
<1>13. CASE CheckFails
  BY <1>13 DEF CheckFails, ConnectionTypeOK
<1> QED
  BY <1>1, <1>2, <1>3, <1>4, <1>5, <1>6, <1>7, <1>8, <1>9, <1>10, <1>11, <1>12, <1>13
     DEF SharedStep, LifeStep, ReaderStep, HeartbeatStep, HeartbeatPing

\* They keep the discipline of replacing the connection.
LEMMA SharedConn ==
  ASSUME ConnectionTypeOK, ConnInv, SharedStep, UNCHANGED provider PROVE ConnInv'
<1> USE DEF lifeVars, connVars, readVars, beatVars, callVars, Return
<1>1. CASE InitializeService \/ CancelContext \/ CleanupCancels
  BY <1>1 DEF InitializeService, CancelContext, CleanupCancels, ConnInv, NoOrphanConnection
<1>2. CASE StartLocks \/ StartFails
  BY <1>2 DEF StartLocks, StartFails, ConnInv, NoOrphanConnection
<1>3. CASE CleanupCloses \/ ReconnectCloses \/ HeartbeatCloses
  <2>1. NoOrphanConnection'
    BY <1>3, CloseEffect
       DEF CleanupCloses, ReconnectCloses, HeartbeatCloses, ConnInv, NoOrphanConnection
  <2> QED
    BY <1>3, <2>1, CloseEffect
       DEF CleanupCloses, ReconnectCloses, HeartbeatCloses, ConnInv
<1>4. CASE ReaderChecksContext \/ ReaderLoads \/ ReadFails \/ ReconnectFails
  BY <1>4 DEF ReaderChecksContext, ReaderLoads, ReadFails, ReconnectFails, ConnInv,
     NoOrphanConnection
<1>5. CASE ReconnectLocks
  BY <1>5 DEF ReconnectLocks, ConnInv, NoOrphanConnection
<1>6. CASE ReconnectInstalls
  <2>1. NoOrphanConnection'
    BY <1>6 DEF ReconnectInstalls, ConnInv, NoOrphanConnection, ConnectionTypeOK, Conns
  <2> QED
    BY <1>6, <2>1 DEF ReconnectInstalls, ConnInv
<1>7. CASE ReaderLeaves
  <2>1. NoOrphanConnection'
    BY <1>7, CloseEffect DEF ReaderLeaves, ConnInv, NoOrphanConnection
  <2>2. conn' \in {0, conn}
    BY <1>7, CloseEffect DEF ReaderLeaves
  <2> QED
    BY <1>7, <2>1, <2>2 DEF ReaderLeaves, ConnInv
<1>8. CASE HeartbeatTicks \/ (\E ok \in BOOLEAN : HeartbeatPings(ok)) \/ HeartbeatEnds
  BY <1>8 DEF HeartbeatTicks, HeartbeatPings, HeartbeatEnds, ConnInv, NoOrphanConnection
<1>9. CASE NetworkStep
  <2>1. NoOrphanConnection'
    BY <1>9 DEF NetworkStep, Break, ConnInv, NoOrphanConnection, ConnectionTypeOK
  <2> QED
    BY <1>9, <2>1 DEF NetworkStep, Break, ConnInv
<1>10. CASE CheckFails
  BY <1>10 DEF CheckFails, ConnInv, NoOrphanConnection
<1> QED
  BY <1>1, <1>2, <1>3, <1>4, <1>5, <1>6, <1>7, <1>8, <1>9, <1>10
     DEF SharedStep, LifeStep, ReaderStep, HeartbeatStep, HeartbeatPing

-----------------------------------------------------------------------------
(* The other steps: dials that succeed, and calls.                         *)

Shares ==
  SharedStep /\ UNCHANGED <<charCount, contextID, provider>>

\* A new connection is silent, but for ElevenLabs' BOS.
Greeting(g) == g \in Seq(Messages) /\ (provider # "elevenlabs" => g = <<>>)

StartDials ==
  \E c \in Conns : \E g :
    /\ Greeting(g) /\ StartEstablishes(c, g)
    /\ UNCHANGED <<charCount, contextID, provider>>

ReconnectDials ==
  \E c \in Conns : \E g :
    /\ Greeting(g) /\ ReconnectEstablishes(c, g)
    /\ charCount' = (IF provider = "deepgram" THEN 0 ELSE charCount)
    /\ UNCHANGED <<contextID, provider>>

CallBegins ==
  \E name \in {"buffer", "flush", "reset"} : \E n \in Nat :
    BeginCall(name, n) /\ UNCHANGED <<charCount, contextID, provider>>

\* Cartesia's Reset rotates the context together with the check.
CallPasses ==
  /\ CheckPasses
  /\ contextID' = (IF provider = "cartesia" /\ op = "reset" THEN contextID + 1
                                                            ELSE contextID)
  /\ UNCHANGED <<charCount, provider>>

DeepgramWorks ==
  provider = "deepgram" /\ DeepgramCall /\ UNCHANGED <<contextID, provider>>

ElevenLabsWorks ==
  /\ provider = "elevenlabs" /\ EL!ElevenLabsCall
  /\ UNCHANGED <<charCount, contextID, provider>>

CartesiaWorks ==
  /\ provider = "cartesia"
  /\ \/ FlushRotates
     \/ \E ok \in BOOLEAN : CartesiaBufferText(ok) \/ CartesiaFlush(ok) \/ ResetCancels(ok)
  /\ UNCHANGED <<charCount, provider>>

Steps == \/ Shares \/ StartDials \/ ReconnectDials \/ CallBegins \/ CallPasses
         \/ DeepgramWorks \/ ElevenLabsWorks \/ CartesiaWorks

\* There are no other steps.
LEMMA StepCases == ASSUME TypeOK, Next PROVE Steps
<1>0. <<>> \in Seq(Messages) /\ <<EL!BOS>> \in Seq(Messages) /\ TextSizes \subseteq Nat
  <2>1. EL!BOS \in Messages
    BY DEF EL!BOS, Messages
  <2> QED
    BY <2>1, EmptySeq, DeepgramAssumption
<1>1. CASE Deepgram
  <2> USE DEF Deepgram
  <2>1. CASE (LifeStep \/ ReaderStep \/ HeartbeatStep \/ NetworkStep \/ CheckFails)
             /\ UNCHANGED charCount
    BY <1>1, <2>1 DEF Shares, SharedStep, Steps
  <2>2. CASE CheckPasses /\ UNCHANGED charCount
    BY <1>1, <2>2 DEF CallPasses, Steps
  <2>3. CASE DeepgramBegins /\ ~CheckPasses
    BY <1>0, <1>1, <2>3 DEF DeepgramBegins, CallBegins, Steps
  <2>4. CASE DeepgramCall
    BY <1>1, <2>4 DEF DeepgramWorks, Steps
  <2>5. ASSUME NEW c \in Conns, DeepgramStart(c) PROVE Steps
    BY <1>0, <1>1, <2>5 DEF DeepgramStart, StartDials, Greeting, Steps
  <2>6. ASSUME NEW c \in Conns, DeepgramReconnect(c) PROVE Steps
    BY <1>0, <1>1, <2>6 DEF DeepgramReconnect, ReconnectDials, Greeting, Steps
  <2> QED
    BY <1>1, <2>1, <2>2, <2>3, <2>4, <2>5, <2>6 DEF DeepgramNext, DeepgramBegins
<1>2. CASE Cartesia
  <2> USE DEF Cartesia
  <2>1. CASE (LifeStep \/ ReaderStep \/ HeartbeatStep \/ NetworkStep \/ CheckFails)
             /\ UNCHANGED contextID
    BY <1>2, <2>1 DEF Shares, SharedStep, Steps
  <2>2. CASE CheckPasses /\ op # "reset" /\ UNCHANGED contextID
    BY <1>2, <2>2 DEF CallPasses, Steps
  <2>3. CASE ResetRotates
    BY <1>2, <2>3 DEF ResetRotates, CallPasses, Steps
  <2>4. CASE (BeginCall("buffer", 1) \/ BeginCall("flush", 0) \/ BeginCall("reset", 0))
             /\ UNCHANGED contextID
    BY <1>2, <2>4 DEF CallBegins, Steps
  <2>5. CASE CartesiaCall /\ ~ResetRotates
    BY <1>2, <2>5 DEF CartesiaCall, CartesiaWorks, Steps
  <2>6. ASSUME NEW c \in Conns, CartesiaStart(c) PROVE Steps
    BY <1>0, <1>2, <2>6 DEF CartesiaStart, StartDials, Greeting, Steps
  <2>7. ASSUME NEW c \in Conns, CartesiaReconnect(c) PROVE Steps
    BY <1>0, <1>2, <2>7 DEF CartesiaReconnect, ReconnectDials, Greeting, Steps
  <2> QED
    BY <1>2, <2>1, <2>2, <2>3, <2>4, <2>5, <2>6, <2>7
       DEF CartesiaNext, CartesiaBegins, CartesiaLife, CartesiaReader, CartesiaHeartbeat
<1>3. CASE ElevenLabs
  <2> USE DEF ElevenLabs
  <2>1. CASE EL!LifeStep \/ EL!CheckFails \/ EL!ReaderStep \/ EL!HeartbeatStep
             \/ EL!NetworkStep
    BY <1>3, <2>1, ElevenLabsShared DEF Shares, SharedStep, Steps
  <2>2. CASE EL!CheckPasses
    BY <1>3, <2>2, ElevenLabsShared DEF CallPasses, Steps
  <2>3. CASE EL!BeginCall("buffer", 1) \/ EL!BeginCall("flush", 0)
          \/ EL!BeginCall("reset", 0)
    <3>1. BeginCall("buffer", 1) \/ BeginCall("flush", 0) \/ BeginCall("reset", 0)
      BY <2>3 DEF EL!BeginCall, BeginCall, EL!Reconnecting, Reconnecting, lifeVars,
         EL!lifeVars, connVars, EL!connVars, readVars, EL!readVars, beatVars, EL!beatVars
    <3> QED
      BY <1>3, <3>1 DEF CallBegins, Steps
  <2>4. CASE EL!ElevenLabsCall
    BY <1>3, <2>4 DEF ElevenLabsWorks, Steps
  <2>5. ASSUME NEW c \in EL!Conns, EL!ElevenLabsStart(c) PROVE Steps
    <3>1. c \in Conns /\ StartEstablishes(c, <<EL!BOS>>)
      BY <2>5 DEF EL!ElevenLabsStart, EL!StartEstablishes, StartEstablishes, EL!Conns,
         Conns, EL!EstablishConnection, EstablishConnection, callVars, EL!callVars
    <3> QED
      BY <1>0, <1>3, <3>1 DEF StartDials, Greeting, Steps
  <2>6. ASSUME NEW c \in EL!Conns, EL!ElevenLabsReconnect(c) PROVE Steps
    <3>1. c \in Conns /\ ReconnectEstablishes(c, <<EL!BOS>>)
      BY <2>6 DEF EL!ElevenLabsReconnect, EL!ReconnectEstablishes, ReconnectEstablishes,
         EL!Conns, Conns, EL!EstablishConnection, EstablishConnection, lifeVars,
         EL!lifeVars,
         beatVars, EL!beatVars, callVars, EL!callVars
    <3> QED
      BY <1>0, <1>3, <3>1 DEF ReconnectDials, Greeting, Steps
  <2> QED
    BY <1>3, <2>1, <2>2, <2>3, <2>4, <2>5, <2>6
       DEF EL!ElevenLabsNext, EL!ElevenLabsBegins, EL!ElevenLabsLife, EL!ElevenLabsReader,
           EL!ElevenLabsHeartbeat
<1> QED
  BY <1>1, <1>2, <1>3 DEF Next

-----------------------------------------------------------------------------
(* Calls at work.                                                          *)

\* A message reaches the connection that the call writes to if that is open.
LEMMA WriteEffect ==
  ASSUME ConnectionTypeOK, WireTypes, callConn \in Conns, NEW m \in Messages, NEW ok,
         Write(m, ok)
  PROVE  /\ WireTypes' /\ UNCHANGED <<conn, session, fresh, status>>
         /\ status[callConn] = "open" => wire'[callConn] = Append(wire[callConn], m)
         /\ \A c \in Conns :
              wire'[c] = wire[c] \/ (c = callConn /\ wire'[c] = Append(wire[c], m))
<1>1. wire[callConn] \in Seq(Messages)
  BY DEF WireTypes
<1>2. Append(wire[callConn], m) \in Seq(Messages)
  BY <1>1, AppendProperties
<1> QED
  BY <1>1, <1>2 DEF Write, WireTypes

\* A call writes and either returns or goes on.
CallWrites ==
  /\ call \in {"writing", "flushing", "sending"}
  /\ \E m \in Messages : \E ok \in BOOLEAN : Write(m, ok)
  /\ \/ Return
     \/ /\ call' \in {"writing", "flushing", "sending"} /\ left' \in Nat
        /\ UNCHANGED <<op, callConn, calls>>
     \/ /\ call' = "installing" /\ provider = "cartesia"
        /\ UNCHANGED <<op, left, callConn, calls>>
  /\ UNCHANGED <<lifeVars, readVars, beatVars, provider>>

\* The steps of a call that do not write.
CallRotates ==
  /\ provider = "cartesia" /\ FlushRotates /\ UNCHANGED <<charCount, provider>>

ElevenLabsResets ==
  /\ provider = "elevenlabs" /\ UNCHANGED <<charCount, contextID, provider>>
  /\ UNCHANGED <<lifeVars, readVars, beatVars, session>>
  /\ \/ /\ call = "writing" /\ CloseConnectionLocked /\ call' = "dialing"
        /\ UNCHANGED <<fresh, wire, op, left, callConn, calls>>
     \/ /\ call = "dialing" /\ call' = "installing" /\ UNCHANGED conn
        /\ UNCHANGED <<op, left, callConn, calls>>
        /\ \E c \in Conns : EstablishConnection(c, <<EL!BOS>>) /\ fresh' = c
     \/ call = "dialing" /\ Return /\ UNCHANGED <<conn, fresh, status, wire>>
     \/ /\ call = "installing" /\ Return /\ conn' = fresh /\ fresh' = 0
        /\ UNCHANGED <<status, wire>>

\* Messages are what they should be.
LEMMA MessageTypes ==
  /\ \A n \in Nat : Text(n) \in Messages
  /\ FlushMessage \in Messages /\ ClearMessage \in Messages
  /\ EL!EOS \in Messages /\ EL!TextMessage \in Messages
  /\ \A k \in Nat : /\ Transcript(k) \in Messages /\ Finish(k) \in Messages
                    /\ CancelContextMessage(k) \in Messages
BY DEF Text, FlushMessage, ClearMessage, EL!EOS, EL!TextMessage, Transcript, Finish,
   CancelContextMessage, Messages

\* The size of a chunk.
LEMMA ChunkSizeType == ChunkSize \in Nat \ {0} /\ ChunkSize < MaxCharsBeforeFlush
BY DeepgramAssumption DEF ChunkSize

\* Deepgram's calls only write.
LEMMA DeepgramWrites == ASSUME TypeOK, DeepgramWorks PROVE CallWrites
<1>0. left \in Nat /\ ChunkSize \in Nat /\ provider = "deepgram" /\ UNCHANGED provider
  BY ChunkSizeType DEF TypeOK, ConnectionTypeOK, DeepgramWorks
<1>1. PICK ok \in BOOLEAN :
        \/ SendChunk(ok) \/ FlushChunk(ok) \/ AutoFlush(ok) \/ SendRestAfterFlush(ok)
        \/ SendRest(ok) \/ DeepgramFlush(ok) \/ DeepgramReset(ok)
  BY DEF DeepgramWorks, DeepgramCall
<1>2. CASE SendChunk(ok)
  <2>1. ChunkSize < left => left - ChunkSize \in Nat
    BY <1>0
  <2> QED
    BY <1>0, <1>2, <2>1, MessageTypes DEF SendChunk, CallWrites
<1>3. CASE FlushChunk(ok)
  BY <1>0, <1>3, MessageTypes DEF FlushChunk, CallWrites
<1>4. CASE AutoFlush(ok)
  BY <1>0, <1>4, MessageTypes DEF AutoFlush, CallWrites
<1>5. CASE SendRestAfterFlush(ok) \/ SendRest(ok)
  BY <1>0, <1>5, MessageTypes DEF SendRestAfterFlush, SendRest, CallWrites
<1>6. CASE DeepgramFlush(ok) \/ DeepgramReset(ok)
  BY <1>0, <1>6, MessageTypes DEF DeepgramFlush, DeepgramReset, CallWrites
<1> QED
  BY <1>1, <1>2, <1>3, <1>4, <1>5, <1>6

\* Cartesia's calls write or rotate.
LEMMA CartesiaWrites ==
  ASSUME TypeOK, ContextInv, CartesiaWorks PROVE CallWrites \/ CallRotates
<1>0. contextID \in Nat \ {0} /\ provider = "cartesia" /\ UNCHANGED <<provider, charCount>>
  BY DEF TypeOK, CartesiaWorks
<1>1. CASE FlushRotates
  BY <1>0, <1>1 DEF CallRotates
<1>2. ASSUME NEW ok \in BOOLEAN, CartesiaBufferText(ok) PROVE CallWrites
  BY <1>0, <1>2, MessageTypes DEF CartesiaBufferText, CallWrites
<1>3. ASSUME NEW ok \in BOOLEAN, CartesiaFlush(ok) PROVE CallWrites
  BY <1>0, <1>3, MessageTypes DEF CartesiaFlush, CallWrites
<1>4. ASSUME NEW ok \in BOOLEAN, ResetCancels(ok) PROVE CallWrites
  <2>1. contextID - 1 \in Nat
    BY <1>0
  <2> QED
    BY <1>0, <1>4, <2>1, MessageTypes DEF ResetCancels, CallWrites
<1> QED
  BY <1>1, <1>2, <1>3, <1>4 DEF CartesiaWorks

\* ElevenLabs' calls write or replace the connection.
LEMMA ElevenLabsWrites ==
  ASSUME TypeOK, ElevenLabsWorks PROVE CallWrites \/ ElevenLabsResets
<1> USE DEF lifeVars, EL!lifeVars, readVars, EL!readVars, beatVars, EL!beatVars,
            Return, EL!Return
<1>0. provider = "elevenlabs" /\ UNCHANGED <<charCount, contextID, provider>>
  BY DEF ElevenLabsWorks
<1>1. \A m, ok : EL!Write(m, ok) <=> Write(m, ok)
  BY DEF EL!Write, Write
<1>2. ASSUME NEW ok \in BOOLEAN, EL!ElevenLabsBufferText(ok) PROVE CallWrites
  BY <1>0, <1>1, <1>2, MessageTypes DEF EL!ElevenLabsBufferText, CallWrites
<1>3. ASSUME NEW ok \in BOOLEAN, EL!ElevenLabsFlush(ok) PROVE CallWrites
  BY <1>0, <1>1, <1>3, MessageTypes DEF EL!ElevenLabsFlush, CallWrites
<1>4. CASE EL!ResetCloses
  BY <1>0, <1>4 DEF EL!ResetCloses, ElevenLabsResets, EL!CloseConnectionLocked,
     CloseConnectionLocked
<1>5. ASSUME NEW c \in EL!Conns, EL!ResetEstablishes(c) PROVE ElevenLabsResets
  BY <1>0, <1>5 DEF EL!ResetEstablishes, ElevenLabsResets, EL!EstablishConnection,
     EstablishConnection, EL!Conns, Conns
<1>6. CASE EL!ResetFails \/ EL!ResetInstalls
  BY <1>0, <1>6 DEF EL!ResetFails, EL!ResetInstalls, ElevenLabsResets, EL!connVars
<1> QED
  BY <1>2, <1>3, <1>4, <1>5, <1>6
     DEF ElevenLabsWorks, EL!ElevenLabsCall, EL!ElevenLabsReset

\* The steps of a call, whatever the service.
CallSteps == CallWrites \/ CallRotates \/ ElevenLabsResets

\* A call at work takes no other steps.
LEMMA WorkCases ==
  ASSUME TypeOK, ContextInv, DeepgramWorks \/ ElevenLabsWorks \/ CartesiaWorks
  PROVE  CallSteps
BY DeepgramWrites, CartesiaWrites, ElevenLabsWrites DEF CallSteps

-----------------------------------------------------------------------------
(* Types, and who replaces the connection.                                 *)

\* A dial that succeeds: the new connection is open, the others are as before.
LEMMA DialEffect ==
  ASSUME ConnectionTypeOK, WireTypes, NEW c \in Conns, NEW g \in Seq(Messages),
         EstablishConnection(c, g)
  PROVE  /\ status' \in [Conns -> {"none", "open", "broken", "closed"}] /\ WireTypes'
         /\ status[c] = "none" /\ wire'[c] = g
         /\ \A d \in Conns \ {c} : status'[d] = status[d] /\ wire'[d] = wire[d]
BY DEF ConnectionTypeOK, WireTypes, EstablishConnection

\* The types of the connections and calls are kept.
LEMMA ConnectionTypesStep ==
  ASSUME TypeOK, WireTypes, CallInv, ContextInv, Steps
  PROVE  ConnectionTypeOK' /\ WireTypes'
<1> USE TTSConnectionAssumption DEF lifeVars, connVars, readVars, beatVars, callVars, Return
<1>0. ConnectionTypeOK
  BY DEF TypeOK
<1>1. CASE Shares
  BY <1>0, <1>1, SharedTypes, SharedFrame DEF Shares, WireTypes
<1>2. CASE StartDials
  <2>1. PICK c \in Conns, g \in Seq(Messages) : StartEstablishes(c, g)
    BY <1>2 DEF StartDials, Greeting
  <2>2. /\ status' \in [Conns -> {"none", "open", "broken", "closed"}] /\ WireTypes'
        /\ conn' \in 0..MaxConns /\ UNCHANGED <<fresh, readerConn, beatConn, callConn>>
    BY <1>0, <2>1, DialEffect DEF StartEstablishes, Conns
  <2>3. session' \in BOOLEAN
    BY <2>1 DEF StartEstablishes
  <2> QED
    BY <1>0, <2>1, <2>2, <2>3 DEF StartEstablishes, ConnectionTypeOK
<1>3. CASE ReconnectDials
  <2>1. PICK c \in Conns, g \in Seq(Messages) : ReconnectEstablishes(c, g)
    BY <1>3 DEF ReconnectDials, Greeting
  <2>2. /\ status' \in [Conns -> {"none", "open", "broken", "closed"}] /\ WireTypes'
        /\ fresh' \in 0..MaxConns /\ UNCHANGED <<conn, readerConn, beatConn, callConn>>
    BY <1>0, <2>1, DialEffect DEF ReconnectEstablishes, Conns
  <2> QED
    BY <1>0, <2>1, <2>2 DEF ReconnectEstablishes, ConnectionTypeOK
<1>4. CASE CallBegins
  <2>1. calls' \in 0..MaxCalls
    BY <1>0, <1>4 DEF CallBegins, BeginCall, ConnectionTypeOK
  <2> QED
    BY <1>0, <1>4, <2>1 DEF CallBegins, BeginCall, ConnectionTypeOK, WireTypes
<1>5. CASE CallPasses
  BY <1>0, <1>5 DEF CallPasses, CheckPasses, ConnectionTypeOK, WireTypes
<1>6. CASE CallWrites
  <2>1. callConn \in Conns
    BY <1>6 DEF CallWrites, CallInv
  <2>2. WireTypes' /\ UNCHANGED <<conn, session, fresh, status>>
    BY <1>0, <1>6, <2>1, WriteEffect DEF CallWrites
  <2> QED
    BY <1>0, <1>6, <2>2 DEF CallWrites, ConnectionTypeOK
<1>7. CASE CallRotates
  BY <1>0, <1>7 DEF CallRotates, FlushRotates, ConnectionTypeOK, WireTypes
<1>8. CASE ElevenLabsResets
  <2>0. <<EL!BOS>> \in Seq(Messages)
    <3>1. EL!BOS \in Messages
      BY DEF EL!BOS, Messages
    <3> QED
      BY <3>1
  <2>1. /\ status' \in [Conns -> {"none", "open", "broken", "closed"}] /\ WireTypes'
        /\ conn' \in 0..MaxConns /\ fresh' \in 0..MaxConns
    <3>1. CASE CloseConnectionLocked /\ UNCHANGED <<fresh, wire>>
      BY <1>0, <3>1, CloseEffect DEF WireTypes, ConnectionTypeOK
    <3>2. CASE UNCHANGED conn /\ \E c \in Conns : EstablishConnection(c, <<EL!BOS>>)
            /\ fresh' = c
      <4>1. PICK c \in Conns : EstablishConnection(c, <<EL!BOS>>) /\ fresh' = c
        BY <3>2
      <4>2. status' \in [Conns -> {"none", "open", "broken", "closed"}] /\ WireTypes'
        BY <1>0, <2>0, <4>1, DialEffect
      <4> QED
        BY <1>0, <3>2, <4>1, <4>2 DEF ConnectionTypeOK, Conns
    <3>3. CASE UNCHANGED <<status, wire>> /\ conn' \in {conn, fresh}
            /\ fresh' \in {0, fresh}
      BY <1>0, <3>3 DEF ConnectionTypeOK, WireTypes
    <3> QED
      BY <1>8, <3>1, <3>2, <3>3 DEF ElevenLabsResets
  <2> QED
    BY <1>0, <1>8, <2>1 DEF ElevenLabsResets, ConnectionTypeOK
<1> QED
  BY <1>1, <1>2, <1>3, <1>4, <1>5, <1>6, <1>7, <1>8, WorkCases DEF Steps, CallSteps

\* So are those of the service's own variables.
LEMMA TypesStep ==
  ASSUME TypeOK, WireTypes, CallInv, ContextInv, Steps PROVE TypeOK' /\ WireTypes'
<1>0. /\ charCount \in Nat /\ contextID \in Nat \ {0} /\ provider \in Providers
      /\ left \in Nat
  BY DEF TypeOK, ConnectionTypeOK
<1>1. CASE Shares \/ StartDials \/ ReconnectDials \/ CallBegins \/ CallPasses
  <2>1. charCount' \in Nat /\ contextID' \in Nat \ {0} /\ provider' \in Providers
    BY <1>0, <1>1 DEF Shares, StartDials, ReconnectDials, CallBegins, CallPasses
  <2> QED
    BY <2>1, ConnectionTypesStep DEF TypeOK
<1>2. CASE DeepgramWorks
  <2>1. charCount' \in Nat
    BY <1>0, <1>2 DEF DeepgramWorks, DeepgramCall, SendChunk, FlushChunk, AutoFlush,
       SendRestAfterFlush, SendRest, DeepgramFlush, DeepgramReset
  <2>2. contextID' \in Nat \ {0} /\ provider' \in Providers
    BY <1>0, <1>2 DEF DeepgramWorks
  <2> QED
    BY <2>1, <2>2, ConnectionTypesStep DEF TypeOK
<1>3. CASE ElevenLabsWorks
  BY <1>0, <1>3, ConnectionTypesStep DEF ElevenLabsWorks, TypeOK
<1>4. CASE CartesiaWorks
  <2>1. contextID' \in Nat \ {0}
    BY <1>0, <1>4 DEF CartesiaWorks, FlushRotates, CartesiaBufferText, CartesiaFlush,
       ResetCancels
  <2> QED
    BY <1>0, <1>4, <2>1, ConnectionTypesStep DEF CartesiaWorks, TypeOK
<1> QED
  BY <1>1, <1>2, <1>3, <1>4 DEF Steps

\* No connection is lost: what is replaced has been closed before.
LEMMA ConnStep ==
  ASSUME TypeOK, WireTypes, ConnInv, CallInv, ContextInv, Steps
  PROVE  ConnInv'
<1> USE DEF lifeVars, connVars, readVars, beatVars, callVars, Return
<1>0. ConnectionTypeOK /\ 0 \notin Conns
  BY TTSConnectionAssumption DEF TypeOK, Conns
<1>1. CASE Shares
  BY <1>0, <1>1, SharedConn DEF Shares
<1>2. CASE StartDials
  <2>1. PICK c \in Conns, g \in Seq(Messages) : StartEstablishes(c, g) /\ UNCHANGED provider
    BY <1>2 DEF StartDials, Greeting
  <2>2. /\ conn = 0 /\ fresh = 0 /\ fresh' = 0 /\ conn' = c /\ c # 0
        /\ call \in {"idle", "checking"} /\ call' = call
        /\ reader' = "top" /\ start' = "done"
    BY <1>0, <2>1 DEF StartEstablishes, ConnInv
  <2>3. NoOrphanConnection'
    BY <1>0, <2>1, <2>2, DialEffect DEF StartEstablishes, ConnInv, NoOrphanConnection
  <2> QED
    BY <2>1, <2>2, <2>3 DEF ConnInv
<1>3. CASE ReconnectDials
  <2>1. PICK c \in Conns, g \in Seq(Messages) :
          ReconnectEstablishes(c, g) /\ UNCHANGED provider
    BY <1>3 DEF ReconnectDials, Greeting
  <2>2. /\ conn = 0 /\ conn' = 0 /\ fresh = 0 /\ fresh' = c /\ c # 0
        /\ call = "idle" /\ call' = call /\ reader' = "installing"
        /\ start = "done" /\ start' = "done"
    BY <1>0, <2>1 DEF ReconnectEstablishes, ConnInv
  <2>3. NoOrphanConnection'
    BY <1>0, <2>1, <2>2, DialEffect DEF ReconnectEstablishes, ConnInv, NoOrphanConnection
  <2> QED
    BY <2>1, <2>2, <2>3 DEF ConnInv
<1>4. CASE CallBegins
  BY <1>4 DEF CallBegins, BeginCall, Reconnecting, ConnInv, NoOrphanConnection
<1>5. CASE CallPasses
  BY <1>5 DEF CallPasses, CheckPasses, ConnInv, NoOrphanConnection
<1>6. CASE CallWrites
  <2>1. callConn \in Conns
    BY <1>6 DEF CallWrites, CallInv
  <2>2. UNCHANGED <<conn, session, fresh, status>>
    BY <1>0, <1>6, <2>1, WriteEffect DEF CallWrites
  <2>3. NoOrphanConnection'
    BY <2>2 DEF ConnInv, NoOrphanConnection
  <2> QED
    BY <1>6, <2>2, <2>3 DEF CallWrites, ConnInv
<1>7. CASE CallRotates
  BY <1>7 DEF CallRotates, FlushRotates, ConnInv, NoOrphanConnection
<1>8. CASE ElevenLabsResets
  <2>0. <<EL!BOS>> \in Seq(Messages)
    <3>1. EL!BOS \in Messages
      BY DEF EL!BOS, Messages
    <3> QED
      BY <3>1
  <2>1. CASE call = "writing" /\ CloseConnectionLocked /\ call' = "dialing"
          /\ UNCHANGED fresh
    <3>1. NoOrphanConnection'
      BY <1>0, <2>1, CloseEffect DEF ConnInv, NoOrphanConnection
    <3> QED
      BY <1>0, <1>8, <2>1, <3>1, CloseEffect DEF ElevenLabsResets, ConnInv
  <2>2. CASE /\ call = "dialing" /\ call' = "installing" /\ UNCHANGED conn
             /\ \E c \in Conns : EstablishConnection(c, <<EL!BOS>>) /\ fresh' = c
    <3>1. fresh = 0 /\ fresh' # 0
      BY <1>0, <2>2 DEF ConnInv
    <3>2. NoOrphanConnection'
      BY <1>0, <2>0, <2>2, <3>1, DialEffect DEF ConnInv, NoOrphanConnection
    <3> QED
      BY <1>8, <2>2, <3>1, <3>2 DEF ElevenLabsResets, ConnInv
  <2>3. CASE call = "dialing" /\ Return /\ UNCHANGED <<conn, fresh, status, wire>>
    BY <1>8, <2>3 DEF ElevenLabsResets, ConnInv, NoOrphanConnection
  <2>4. CASE call = "installing" /\ Return /\ conn' = fresh /\ fresh' = 0
          /\ UNCHANGED status
    <3>1. NoOrphanConnection'
      BY <1>0, <1>8, <2>4 DEF ElevenLabsResets, ConnInv, NoOrphanConnection
    <3> QED
      BY <1>8, <2>4, <3>1 DEF ElevenLabsResets, ConnInv
  <2> QED
    BY <1>8, <2>1, <2>2, <2>3, <2>4 DEF ElevenLabsResets
<1> QED
  BY <1>1, <1>2, <1>3, <1>4, <1>5, <1>6, <1>7, <1>8, WorkCases DEF Steps, CallSteps

\* A call keeps its connection, or finds it gone.
LEMMA CallStepInv ==
  ASSUME TypeOK, WireTypes, ConnInv, CallInv, ContextInv, Steps
  PROVE  CallInv'
<1> USE DEF lifeVars, connVars, readVars, beatVars, callVars, Return
<1>0. ConnectionTypeOK
  BY DEF TypeOK
<1>1. CASE Shares
  BY <1>0, <1>1, SharedFrame DEF Shares, CallInv, ConnInv
<1>2. CASE StartDials
  BY <1>2 DEF StartDials, StartEstablishes, CallInv, ConnInv
<1>3. CASE ReconnectDials
  BY <1>3 DEF ReconnectDials, ReconnectEstablishes, CallInv, ConnInv
<1>4. CASE CallBegins
  BY <1>4 DEF CallBegins, BeginCall, CallInv
<1>5. CASE CallPasses
  BY <1>0, <1>5, TTSConnectionAssumption
     DEF CallPasses, CheckPasses, CallInv, ConnectionTypeOK, Conns
<1>6. CASE CallWrites
  <2>1. callConn \in Conns
    BY <1>6 DEF CallWrites, CallInv
  <2>2. UNCHANGED conn
    BY <1>0, <1>6, <2>1, WriteEffect DEF CallWrites
  <2> QED
    BY <1>6, <2>2 DEF CallWrites, CallInv
<1>7. CASE CallRotates
  BY <1>7 DEF CallRotates, FlushRotates, CallInv
<1>8. CASE ElevenLabsResets
  BY <1>8 DEF ElevenLabsResets, CallInv
<1> QED
  BY <1>1, <1>2, <1>3, <1>4, <1>5, <1>6, <1>7, <1>8, WorkCases DEF Steps, CallSteps

-----------------------------------------------------------------------------
(* What the server keeps.                                                  *)

\* A non-empty set of natural numbers has a least element.
LEMMA LeastNumber ==
  ASSUME NEW S, S \subseteq Nat, S # {}
  PROVE  \E m \in S : \A n \in S : m <= n
<1>1. PICK m \in S : \A n \in S : ~(<<n, m>> \in OpToRel(<, Nat))
  BY NatLessThanWellFounded, WFMin
<1>2. \A n \in S : ~(n < m)
  BY <1>1 DEF OpToRel
<1> QED
  BY <1>2

\* f counts what is kept after each of the first n messages of w.
Counts(f, w, n) ==
  f = [i \in 0..n |-> IF i = 0 THEN 0
                      ELSE IF w[i][1] = "text" THEN f[i - 1] + w[i][2] ELSE 0]

\* Two such counts agree as far as both go.
LEMMA CountsUnique ==
  ASSUME NEW w, NEW n \in Nat, NEW k \in Nat, k <= n, NEW f, NEW g,
         Counts(f, w, k), Counts(g, w, n)
  PROVE  \A i \in 0..k : f[i] = g[i]
<1> DEFINE Bad == {i \in 0..k : f[i] # g[i]}
<1> SUFFICES ASSUME Bad # {} PROVE FALSE
  OBVIOUS
<1>1. PICK m \in Bad : \A i \in Bad : m <= i
  <2>1. Bad \subseteq Nat
    OBVIOUS
  <2> HIDE DEF Bad
  <2> QED
    BY <2>1, LeastNumber
<1>2. m \in 0..k /\ m \in 0..n /\ f[m] # g[m]
  OBVIOUS
<1>3. f[0] = 0 /\ g[0] = 0
  BY DEF Counts
<1>4. m # 0 /\ m - 1 \in 0..k
  BY <1>2, <1>3
<1>5. f[m - 1] = g[m - 1]
  <2>1. ~(m - 1 \in Bad)
    BY <1>1, <1>2, <1>4
  <2> QED
    BY <1>4, <2>1
<1>6. f[m] = IF w[m][1] = "text" THEN f[m - 1] + w[m][2] ELSE 0
  BY <1>2, <1>4 DEF Counts
<1>7. g[m] = IF w[m][1] = "text" THEN g[m - 1] + w[m][2] ELSE 0
  BY <1>2, <1>4 DEF Counts
<1> QED
  BY <1>2, <1>5, <1>6, <1>7

\* There is such a count, and it counts in natural numbers.
LEMMA CountsExist ==
  ASSUME NEW w \in Seq(Messages), NEW n \in 0..Len(w)
  PROVE  \E f \in [0..n -> Nat] : Counts(f, w, n)
<1> DEFINE Bad == {k \in 0..Len(w) : ~ \E f \in [0..k -> Nat] : Counts(f, w, k)}
<1> SUFFICES ASSUME Bad # {} PROVE FALSE
  OBVIOUS
<1>0. Len(w) \in Nat
  BY LenProperties
<1>1. PICK m \in Bad : \A k \in Bad : m <= k
  <2>1. Bad \subseteq Nat
    BY <1>0
  <2> HIDE DEF Bad
  <2> QED
    BY <2>1, LeastNumber
<1>2. m \in 0..Len(w) /\ m \in Nat /\ ~ \E f \in [0..m -> Nat] : Counts(f, w, m)
  BY <1>0
<1>3. m # 0
  <2> SUFFICES ASSUME m = 0 PROVE FALSE
    OBVIOUS
  <2> DEFINE f == [i \in 0..0 |-> 0]
  <2>1. f \in [0..m -> Nat] /\ Counts(f, w, m)
    BY DEF Counts
  <2> QED
    BY <1>2, <2>1
<1>4. PICK f \in [0..(m - 1) -> Nat] : Counts(f, w, m - 1)
  <2>1. m - 1 \in 0..Len(w) /\ m - 1 \in Nat /\ ~(m <= m - 1)
    BY <1>0, <1>2, <1>3
  <2>2. ~(m - 1 \in Bad)
    <3> HIDE DEF Bad
    <3> QED
      BY <1>1, <2>1
  <2> QED
    BY <2>1, <2>2
<1>5. w[m] \in Messages /\ w[m][2] \in Nat
  <2>1. w[m] \in Messages
    BY <1>0, <1>2, <1>3, ElementOfSeq
  <2> QED
    BY <2>1 DEF Messages
<1> DEFINE last == IF w[m][1] = "text" THEN f[m - 1] + w[m][2] ELSE 0
           g == [i \in 0..m |-> IF i = m THEN last ELSE f[i]]
<1>6. last \in Nat
  BY <1>2, <1>3, <1>4, <1>5
<1>7. g \in [0..m -> Nat]
  BY <1>2, <1>3, <1>4, <1>6
<1>8. Counts(g, w, m)
  <2>1. ASSUME NEW i \in 0..m
        PROVE  g[i] = IF i = 0 THEN 0
                      ELSE IF w[i][1] = "text" THEN g[i - 1] + w[i][2] ELSE 0
    <3>1. CASE i = m
      <4>1. i - 1 \in 0..m /\ i - 1 # m /\ i # 0
        BY <1>2, <1>3, <3>1
      <4> QED
        BY <3>1, <4>1
    <3>2. CASE i # m
      <4>1. i \in 0..(m - 1) /\ (i # 0 => i - 1 \in 0..m /\ i - 1 # m)
        BY <1>2, <1>3, <3>2
      <4>2. f[i] = IF i = 0 THEN 0
                   ELSE IF w[i][1] = "text" THEN f[i - 1] + w[i][2] ELSE 0
        BY <1>4, <4>1 DEF Counts
      <4> QED
        BY <3>2, <4>1, <4>2
    <3> QED
      BY <3>1, <3>2
  <2> QED
    BY <2>1 DEF Counts
<1> QED
  BY <1>2, <1>7, <1>8

\* KeptChars is the last value of the count.
LEMMA KeptIsCount ==
  ASSUME NEW w \in Seq(Messages), NEW f, Counts(f, w, Len(w))
  PROVE  KeptChars(w) = f[Len(w)] /\ KeptChars(w) \in Nat
<1>0. Len(w) \in Nat
  BY LenProperties
<1> DEFINE h == CHOOSE x : Counts(x, w, Len(w))
<1>1. Counts(h, w, Len(w))
  OBVIOUS
<1>2. KeptChars(w) = h[Len(w)]
  BY DEF KeptChars, Counts
<1>3. PICK g \in [0..Len(w) -> Nat] : Counts(g, w, Len(w))
  BY <1>0, CountsExist
<1> HIDE DEF h
<1>4. h[Len(w)] = f[Len(w)] /\ h[Len(w)] = g[Len(w)]
  BY <1>0, <1>1, <1>3, CountsUnique
<1> QED
  BY <1>0, <1>2, <1>3, <1>4

\* A text adds its characters to what is kept, any other message clears it.
LEMMA KeptAppend ==
  ASSUME NEW w \in Seq(Messages), NEW m \in Messages
  PROVE  /\ KeptChars(<<>>) = 0 /\ KeptChars(w) \in Nat
         /\ KeptChars(Append(w, m)) = IF m[1] = "text" THEN KeptChars(w) + m[2] ELSE 0
<1> DEFINE v == Append(w, m)
           n == Len(w)
<1>0. /\ n \in Nat /\ v \in Seq(Messages) /\ Len(v) = n + 1 /\ v[n + 1] = m
      /\ \A i \in 1..n : v[i] = w[i]
  BY AppendProperties, LenProperties
<1>1. PICK f : Counts(f, w, n)
  BY <1>0, CountsExist
<1>2. PICK g : Counts(g, v, n + 1)
  <2>1. n + 1 \in 0..Len(v)
    BY <1>0
  <2> QED
    BY <1>0, <2>1, CountsExist
<1> HIDE DEF v
<1>3. KeptChars(w) = f[n] /\ KeptChars(w) \in Nat
  BY <1>1, KeptIsCount
<1>4. KeptChars(v) = g[n + 1]
  BY <1>0, <1>2, KeptIsCount
<1> HIDE DEF n
<1>5. Counts(f, v, n)
  BY <1>0, <1>1 DEF Counts
<1>6. f[n] = g[n]
  BY <1>0, <1>2, <1>5, CountsUnique
<1>7. g[n + 1] = IF m[1] = "text" THEN g[n] + m[2] ELSE 0
  <2>1. n + 1 \in 0..(n + 1) /\ n + 1 # 0 /\ (n + 1) - 1 = n
    BY <1>0
  <2> QED
    BY <1>0, <1>2, <2>1 DEF Counts
<1>8. KeptChars(<<>>) = 0
  <2> DEFINE z == [i \in 0..0 |-> 0]
  <2>1. <<>> \in Seq(Messages) /\ Len(<<>>) = 0
    BY EmptySeq
  <2>2. Counts(z, <<>>, Len(<<>>)) /\ z[Len(<<>>)] = 0
    BY <2>1 DEF Counts
  <2> QED
    BY <2>1, <2>2, KeptIsCount
<1> QED
  BY <1>3, <1>4, <1>6, <1>7, <1>8 DEF v

-----------------------------------------------------------------------------
(* Deepgram's counter.                                                     *)

\* The server's view of the connection in use, after a message of the call.
LEMMA WriteKept ==
  ASSUME ConnectionTypeOK, WireTypes, CallInv, NEW m \in Messages, NEW ok, Write(m, ok),
         call \in {"writing", "flushing", "sending"},
         conn' # 0, status'[conn'] = "open"
  PROVE  /\ conn' = conn /\ conn # 0 /\ status[conn] = "open" /\ conn = callConn
         /\ KeptChars(wire[conn]) \in Nat
         /\ KeptChars(wire'[conn']) =
              IF m[1] = "text" THEN KeptChars(wire[conn]) + m[2] ELSE 0
<1>1. callConn \in Conns /\ conn \in {0, callConn}
  BY DEF CallInv
<1>2. /\ UNCHANGED <<conn, status>>
      /\ status[callConn] = "open" => wire'[callConn] = Append(wire[callConn], m)
  BY <1>1, WriteEffect
<1>3. conn' = conn /\ conn # 0 /\ status[conn] = "open" /\ conn = callConn
  BY <1>1, <1>2
<1>4. wire[conn] \in Seq(Messages) /\ wire'[conn'] = Append(wire[conn], m)
  BY <1>1, <1>2, <1>3 DEF WireTypes
<1>5. /\ KeptChars(wire[conn]) \in Nat
      /\ KeptChars(Append(wire[conn], m)) =
           IF m[1] = "text" THEN KeptChars(wire[conn]) + m[2] ELSE 0
  BY <1>4, KeptAppend
<1> QED
  BY <1>3, <1>4, <1>5

\* The kinds of Deepgram's messages.
LEMMA DeepgramMessages ==
  /\ FlushMessage[1] # "text" /\ ClearMessage[1] # "text"
  /\ \A n \in Nat : Text(n)[1] = "text" /\ Text(n)[2] = n
BY DEF FlushMessage, ClearMessage, Text

\* A call counts what it sends, or flushes it, or is on a broken connection.
LEMMA DeepgramCounts ==
  ASSUME TypeOK, WireTypes, ConnInv, CallInv, BufferInv, DeepgramWorks PROVE BufferInv'
<1> USE DEF Return
<1> DEFINE Open == conn' # 0 /\ status'[conn'] = "open"
           Before == KeptChars(wire[conn])
           After == KeptChars(wire'[conn'])
<1>0. /\ ConnectionTypeOK /\ left \in Nat /\ ChunkSize \in Nat \ {0}
      /\ charCount \in Nat /\ charCount < MaxCharsBeforeFlush
      /\ MaxCharsBeforeFlush \in Nat /\ ChunkSize < MaxCharsBeforeFlush
      /\ provider = "deepgram" /\ provider' = "deepgram"
  BY ChunkSizeType, DeepgramAssumption
     DEF TypeOK, ConnectionTypeOK, DeepgramWorks, BufferInv
<1>1. PICK ok \in BOOLEAN :
        \/ SendChunk(ok) \/ FlushChunk(ok) \/ AutoFlush(ok) \/ SendRestAfterFlush(ok)
        \/ SendRest(ok) \/ DeepgramFlush(ok) \/ DeepgramReset(ok)
  BY DEF DeepgramWorks, DeepgramCall
<1>2. call \in {"writing", "flushing", "sending"}
  BY <1>1 DEF SendChunk, FlushChunk, AutoFlush, SendRestAfterFlush, SendRest,
     DeepgramFlush, DeepgramReset
<1>3. ASSUME NEW m \in Messages, Write(m, ok)
      PROVE  /\ fresh' = 0
             /\ Open => /\ ok /\ Before \in Nat
                        /\ conn # 0 /\ status[conn] = "open"
                        /\ After = IF m[1] = "text" THEN Before + m[2] ELSE 0
  <2>1. fresh' = 0
    BY <1>0, <1>2, <1>3 DEF ConnInv, Write
  <2>2. Open => /\ conn = callConn /\ Before \in Nat /\ conn # 0 /\ status[conn] = "open"
                /\ After = IF m[1] = "text" THEN Before + m[2] ELSE 0
    BY <1>0, <1>2, <1>3, WriteKept
  <2>3. Open => ok
    BY <1>3, <2>2 DEF Write
  <2> QED
    BY <2>1, <2>2, <2>3
<1>4. Before \in Nat /\ conn # 0 /\ status[conn] = "open" =>
        /\ call = "writing" => Before <= charCount
        /\ call = "sending" => Before = 0 
  BY <1>0 DEF BufferInv
<1> HIDE DEF Open, Before, After
<1> SUFFICES /\ charCount' < MaxCharsBeforeFlush
             /\ call' \in {"idle", "checking", "writing", "flushing", "sending"}
             /\ fresh' = 0
             /\ call' = "sending" => charCount' = left'
             /\ Open => /\ call' \in {"idle", "checking", "writing"} => After <= charCount'
                        /\ call' = "sending" => After = 0
  BY <1>0 DEF BufferInv, Open, After
<1>5. CASE SendChunk(ok)
  <2>1. fresh' = 0 /\ (Open => ok)
    BY <1>0, <1>3, <1>5, MessageTypes DEF SendChunk
  <2> QED
    BY <1>0, <1>5, <2>1 DEF SendChunk
<1>6. CASE FlushChunk(ok)
  <2>1. fresh' = 0 /\ (Open => ok /\ After = 0)
    BY <1>3, <1>6, MessageTypes, DeepgramMessages DEF FlushChunk
  <2> QED
    BY <1>0, <1>6, <2>1 DEF FlushChunk
<1>7. CASE AutoFlush(ok)
  <2>1. fresh' = 0 /\ (Open => After = 0)
    BY <1>3, <1>7, MessageTypes, DeepgramMessages DEF AutoFlush
  <2> QED
    BY <1>0, <1>7, <2>1 DEF AutoFlush
<1>8. CASE SendRestAfterFlush(ok)
  <2>1. fresh' = 0 /\ (Open => /\ After = Before + left /\ Before \in Nat
                               /\ conn # 0 /\ status[conn] = "open")
    BY <1>0, <1>3, <1>8, MessageTypes, DeepgramMessages DEF SendRestAfterFlush
  <2>2. charCount = left
    BY <1>0, <1>8 DEF SendRestAfterFlush, BufferInv
  <2> QED
    BY <1>0, <1>4, <1>8, <2>1, <2>2 DEF SendRestAfterFlush
<1>9. CASE SendRest(ok)
  <2>1. fresh' = 0 /\ (Open => /\ After = Before + left /\ Before \in Nat
                               /\ conn # 0 /\ status[conn] = "open")
    BY <1>0, <1>3, <1>9, MessageTypes, DeepgramMessages DEF SendRest
  <2> QED
    BY <1>0, <1>4, <1>9, <2>1 DEF SendRest
<1>10. CASE DeepgramFlush(ok)
  <2>1. fresh' = 0 /\ (Open => After = 0)
    BY <1>3, <1>10, MessageTypes, DeepgramMessages DEF DeepgramFlush
  <2> QED
    BY <1>0, <1>10, <2>1 DEF DeepgramFlush
<1>11. CASE DeepgramReset(ok)
  <2>1. fresh' = 0 /\ (Open => After = 0)
    BY <1>3, <1>11, MessageTypes, DeepgramMessages DEF DeepgramReset
  <2> QED
    BY <1>0, <1>11, <2>1 DEF DeepgramReset
<1> QED
  BY <1>1, <1>5, <1>6, <1>7, <1>8, <1>9, <1>10, <1>11

\* The other steps leave the counter alone or begin with an empty connection.
LEMMA BufferStep ==
  ASSUME TypeOK, WireTypes, ConnInv, CallInv, BufferInv, Steps PROVE BufferInv'
<1> USE DEF lifeVars, connVars, readVars, beatVars, callVars
<1>0. ConnectionTypeOK /\ 0 \notin Conns /\ conn \in {0} \cup Conns
  BY TTSConnectionAssumption DEF TypeOK, ConnectionTypeOK, Conns
<1>a. /\ charCount \in Nat /\ MaxCharsBeforeFlush \in Nat /\ 0 < MaxCharsBeforeFlush
      /\ KeptChars(<<>>) = 0
  <2>1. <<>> \in Seq(Messages) /\ FlushMessage \in Messages
    BY EmptySeq, MessageTypes
  <2>2. KeptChars(<<>>) = 0
    BY <2>1, KeptAppend
  <2>3. charCount \in Nat /\ MaxCharsBeforeFlush \in Nat /\ 0 < MaxCharsBeforeFlush
    BY DeepgramAssumption DEF TypeOK
  <2> QED
    BY <2>2, <2>3
<1> SUFFICES ASSUME provider' = "deepgram" PROVE BufferInv'
  BY DEF BufferInv
<1>b. provider = "deepgram"
  BY DEF Steps, Shares, StartDials, ReconnectDials, CallBegins, CallPasses, DeepgramWorks,
     ElevenLabsWorks, CartesiaWorks
<1>1. CASE Shares
  <2>1. /\ UNCHANGED <<wire, charCount>>
        /\ \/ UNCHANGED <<call, op, left, callConn>>
           \/ call = "checking" /\ call' = "idle" /\ UNCHANGED conn
        /\ \/ UNCHANGED <<conn, fresh>>
           \/ conn' = 0 /\ UNCHANGED fresh
           \/ reader = "installing" /\ conn' = fresh /\ fresh' = 0 /\ UNCHANGED call
        /\ \A c \in Conns : status'[c] = "open" => status[c] = "open"
    BY <1>0, <1>1, SharedFrame DEF Shares
  <2>2. CASE UNCHANGED <<conn, fresh>>
    BY <1>0, <1>b, <2>1, <2>2 DEF BufferInv
  <2>3. CASE conn' = 0 /\ UNCHANGED fresh
    BY <1>b, <2>1, <2>3 DEF BufferInv
  <2>4. CASE reader = "installing" /\ conn' = fresh /\ fresh' = 0 /\ UNCHANGED call
    <3>1. fresh # 0 /\ call' = "idle" /\ wire'[conn'] = <<>>
      BY <1>b, <2>1, <2>4 DEF ConnInv, BufferInv
    <3>2. KeptChars(wire'[conn']) <= charCount'
      BY <1>a, <2>1, <3>1
    <3> QED
      BY <1>b, <2>1, <2>4, <3>1, <3>2 DEF BufferInv
  <2> QED
    BY <2>1, <2>2, <2>3, <2>4
<1>2. CASE StartDials
  <2>1. PICK c \in Conns : StartEstablishes(c, <<>>) /\ UNCHANGED charCount
    BY <1>2, <1>b DEF StartDials, Greeting
  <2>2. conn' = c /\ wire'[c] = <<>> /\ fresh' = 0 /\ call' = call
    BY <1>0, <1>b, <2>1, DialEffect, EmptySeq DEF StartEstablishes, ConnInv
  <2>3. call \in {"idle", "checking"} /\ KeptChars(wire'[conn']) <= charCount'
    BY <1>a, <2>1, <2>2 DEF StartEstablishes, ConnInv
  <2> QED
    BY <1>b, <2>1, <2>2, <2>3 DEF BufferInv
<1>3. CASE ReconnectDials
  <2>1. PICK c \in Conns : ReconnectEstablishes(c, <<>>) /\ charCount' = 0
    BY <1>3, <1>b DEF ReconnectDials, Greeting
  <2>2. /\ conn' = 0 /\ fresh' = c /\ wire'[c] = <<>> /\ call' = "idle"
    BY <1>0, <1>b, <2>1, DialEffect, EmptySeq DEF ReconnectEstablishes, ConnInv
  <2> QED
    BY <1>a, <1>b, <2>1, <2>2 DEF BufferInv
<1>4. CASE CallBegins
  BY <1>4, <1>b DEF CallBegins, BeginCall, BufferInv
<1>5. CASE CallPasses
  BY <1>5, <1>b DEF CallPasses, CheckPasses, BufferInv
<1>6. CASE DeepgramWorks
  BY <1>6, DeepgramCounts
<1> QED
  BY <1>b, <1>1, <1>2, <1>3, <1>4, <1>5, <1>6 DEF Steps, ElevenLabsWorks, CartesiaWorks

-----------------------------------------------------------------------------
(* Cartesia's contexts.                                                    *)

\* The messages on a connection after one more.
LEMMA WriteMessages ==
  ASSUME ConnectionTypeOK, WireTypes, callConn \in Conns, NEW m \in Messages, NEW ok,
         Write(m, ok), NEW c \in Conns, NEW i \in DOMAIN wire'[c]
  PROVE  \/ i \in DOMAIN wire[c] /\ wire'[c][i] = wire[c][i]
         \/ /\ wire'[c][i] = m
            /\ \A j \in DOMAIN wire'[c] : j < i => j \in DOMAIN wire[c]
            /\ \A j \in DOMAIN wire'[c] : ~(i < j)
<1>1. wire'[c] = wire[c] \/ wire'[c] = Append(wire[c], m)
  BY WriteEffect
<1>2. CASE wire'[c] = wire[c]
  BY <1>2
<1>3. CASE wire'[c] = Append(wire[c], m)
  <2>1. /\ wire[c] \in Seq(Messages) /\ Len(wire[c]) \in Nat
        /\ DOMAIN wire[c] = 1..Len(wire[c])
    BY LenProperties DEF WireTypes
  <2>2. /\ DOMAIN Append(wire[c], m) = 1..(Len(wire[c]) + 1)
        /\ \A j \in 1..Len(wire[c]) : Append(wire[c], m)[j] = wire[c][j]
        /\ Append(wire[c], m)[Len(wire[c]) + 1] = m
    BY <2>1, AppendProperties, LenProperties
  <2>3. CASE i \in DOMAIN wire[c]
    BY <1>3, <2>1, <2>2, <2>3
  <2>4. CASE i = Len(wire[c]) + 1
    BY <1>3, <2>1, <2>2, <2>4
  <2> QED
    BY <1>3, <2>1, <2>2, <2>3, <2>4
<1> QED
  BY <1>1, <1>2, <1>3

\* A message with the number k may be sent when everything that is over is
\* below k.
LEMMA MessageInContext ==
  ASSUME ConnectionTypeOK, WireTypes, callConn \in Conns, NEW m \in Messages, NEW ok,
         Write(m, ok), provider = "cartesia", provider' = "cartesia",
         IdsUpTo(m[2]), OverBelow(m[2]), ContextsNotReused
  PROVE  /\ ContextsNotReused' /\ IdsUpTo(m[2])'
         /\ m[1] = "text" => OverBelow(m[2])'
<1>0. m[2] \in Nat
  BY DEF Messages
<1>1. \A c \in Conns : \A i \in DOMAIN wire[c] : wire[c][i] \in Messages
        /\ wire[c][i][2] \in Nat
  <2> SUFFICES ASSUME NEW c \in Conns, NEW i \in DOMAIN wire[c]
               PROVE  wire[c][i] \in Messages /\ wire[c][i][2] \in Nat
    OBVIOUS
  <2>1. wire[c][i] \in Messages
    BY LenProperties, ElementOfSeq DEF WireTypes
  <2> QED
    BY <2>1 DEF Messages
<1>2. ContextsNotReused'
  <2> SUFFICES ASSUME NEW c \in Conns, NEW i \in DOMAIN wire'[c], NEW j \in DOMAIN wire'[c],
                      i < j, wire'[c][i][1] \in {"finish", "cancel"}
               PROVE  wire'[c][j][2] # wire'[c][i][2]
    BY DEF ContextsNotReused
  <2>1. i \in DOMAIN wire[c] /\ wire'[c][i] = wire[c][i]
    BY WriteMessages
  <2>2. CASE j \in DOMAIN wire[c] /\ wire'[c][j] = wire[c][j]
    BY <2>1, <2>2 DEF ContextsNotReused
  <2>3. CASE wire'[c][j] = m
    <3>1. wire[c][i][2] < m[2] /\ wire[c][i][2] \in Nat
      BY <1>1, <2>1 DEF OverBelow
    <3> QED
      BY <1>0, <2>1, <2>3, <3>1
  <2> QED
    BY <2>2, <2>3, WriteMessages
<1>3. IdsUpTo(m[2])'
  <2> SUFFICES ASSUME NEW c \in Conns, NEW i \in DOMAIN wire'[c]
               PROVE  wire'[c][i][2] <= m[2]
    BY DEF IdsUpTo, Conns
  <2>1. CASE wire'[c][i] = m
    BY <1>0, <2>1
  <2>2. CASE i \in DOMAIN wire[c] /\ wire'[c][i] = wire[c][i]
    BY <2>2 DEF IdsUpTo
  <2> QED
    BY <2>1, <2>2, WriteMessages
<1>4. ASSUME m[1] = "text" PROVE OverBelow(m[2])'
  <2> SUFFICES ASSUME NEW c \in Conns, NEW i \in DOMAIN wire'[c],
                      wire'[c][i][1] \in {"finish", "cancel"}
               PROVE  wire'[c][i][2] < m[2]
    BY DEF OverBelow, Conns
  <2>1. i \in DOMAIN wire[c] /\ wire'[c][i] = wire[c][i]
    BY <1>4, WriteMessages
  <2> QED
    BY <2>1 DEF OverBelow
<1> QED
  BY <1>2, <1>3, <1>4

\* Numbers up to k are below what follows k.
LEMMA IdsGrow ==
  ASSUME WireTypes, NEW k \in Nat, IdsUpTo(k)
  PROVE  IdsUpTo(k + 1) /\ OverBelow(k + 1)
<1> SUFFICES ASSUME NEW c \in Conns, NEW i \in DOMAIN wire[c]
             PROVE  wire[c][i][2] <= k + 1 /\ wire[c][i][2] < k + 1
  BY DEF IdsUpTo, OverBelow
<1>1. wire[c][i] \in Messages
  BY LenProperties, ElementOfSeq DEF WireTypes
<1>2. wire[c][i][2] \in Nat /\ wire[c][i][2] <= k
  BY <1>1 DEF IdsUpTo, Messages
<1> QED
  BY <1>2

\* Silent connections have no contexts.
LEMMA SilentDial ==
  ASSUME ConnectionTypeOK, WireTypes, NEW c \in Conns, EstablishConnection(c, <<>>),
         provider = "cartesia", provider' = "cartesia", NEW k
  PROVE  /\ IdsUpTo(k) => IdsUpTo(k)'
         /\ OverBelow(k) => OverBelow(k)'
         /\ ContextsNotReused => ContextsNotReused'
<1>1. wire'[c] = <<>> /\ DOMAIN wire'[c] = {} /\ \A d \in Conns \ {c} : wire'[d] = wire[d]
  <2>1. <<>> \in Seq(Messages) /\ DOMAIN <<>> = {}
    BY EmptySeq
  <2> QED
    BY <2>1, DialEffect
<1>2. IdsUpTo(k) => IdsUpTo(k)'
  BY <1>1 DEF IdsUpTo, Conns
<1>3. OverBelow(k) => OverBelow(k)'
  BY <1>1 DEF OverBelow, Conns
<1>4. ContextsNotReused => ContextsNotReused'
  BY <1>1 DEF ContextsNotReused, Conns
<1> QED
  BY <1>2, <1>3, <1>4

\* A call of Cartesia keeps the contexts apart.
LEMMA CartesiaContexts ==
  ASSUME TypeOK, WireTypes, WireTypes', CallInv, ContextInv, CartesiaWorks PROVE ContextInv'
<1> USE DEF Return
<1>0. /\ ConnectionTypeOK /\ contextID \in Nat \ {0} /\ provider = "cartesia"
      /\ provider' = "cartesia" /\ IdsUpTo(contextID) /\ ContextsNotReused
      /\ call # "installing" => OverBelow(contextID)
  BY DEF TypeOK, CartesiaWorks, ContextInv
<1>1. CASE FlushRotates
  <2>1. UNCHANGED wire /\ contextID' = contextID + 1 /\ call' = "idle"
    BY <1>1 DEF FlushRotates, connVars
  <2>2. IdsUpTo(contextID + 1) /\ OverBelow(contextID + 1)
    BY <1>0, IdsGrow
  <2>3. IdsUpTo(contextID)' /\ OverBelow(contextID)'
    BY <2>1, <2>2 DEF IdsUpTo, OverBelow
  <2>4. ContextsNotReused'
    BY <1>0, <2>1 DEF ContextsNotReused
  <2> QED
    BY <2>1, <2>3, <2>4 DEF ContextInv
<1>2. ASSUME NEW ok \in BOOLEAN, CartesiaBufferText(ok) PROVE ContextInv'
  <2>1. PICK m \in Messages : m = Transcript(contextID)
    BY <1>0, MessageTypes
  <2>2. m[1] = "text" /\ m[2] = contextID
    BY <2>1 DEF Transcript
  <2>3. /\ call = "writing" /\ Write(m, ok) /\ call' = "idle" /\ contextID' = contextID
        /\ callConn \in Conns
    BY <1>2, <2>1 DEF CartesiaBufferText, CallInv
  <2>4. ContextsNotReused' /\ IdsUpTo(m[2])' /\ OverBelow(m[2])'
    BY <1>0, <2>2, <2>3, MessageInContext
  <2>5. IdsUpTo(contextID)' /\ OverBelow(contextID)'
    BY <2>2, <2>3, <2>4 DEF IdsUpTo, OverBelow
  <2> QED
    BY <2>3, <2>4, <2>5 DEF ContextInv
<1>3. ASSUME NEW ok \in BOOLEAN, CartesiaFlush(ok) PROVE ContextInv'
  <2>1. PICK m \in Messages : m = Finish(contextID)
    BY <1>0, MessageTypes
  <2>2. m[2] = contextID
    BY <2>1 DEF Finish
  <2>3. /\ call = "writing" /\ Write(m, ok) /\ contextID' = contextID
        /\ op = "flush" /\ callConn \in Conns
    BY <1>3, <2>1 DEF CartesiaFlush, CallInv
  <2>4. CASE ok
    <3>1. ContextsNotReused' /\ IdsUpTo(m[2])'
      BY <1>0, <2>2, <2>3, MessageInContext
    <3>2. IdsUpTo(contextID)' /\ call' = "installing"
      BY <1>3, <2>2, <2>3, <2>4, <3>1 DEF IdsUpTo, CartesiaFlush
    <3> QED
      BY <3>1, <3>2 DEF ContextInv
  <2>5. CASE ~ok
    <3>1. UNCHANGED wire /\ call' = "idle"
      BY <1>3, <2>3, <2>5 DEF Write, CartesiaFlush
    <3>2. ContextsNotReused' /\ IdsUpTo(contextID)' /\ OverBelow(contextID)'
      BY <1>0, <2>3, <3>1 DEF IdsUpTo, OverBelow, ContextsNotReused
    <3> QED
      BY <3>1, <3>2 DEF ContextInv
  <2> QED
    BY <2>4, <2>5
<1>4. ASSUME NEW ok \in BOOLEAN, ResetCancels(ok) PROVE ContextInv'
  <2>0. contextID - 1 \in Nat /\ (contextID - 1) + 1 = contextID
    BY <1>0
  <2>1. PICK m \in Messages : m = CancelContextMessage(contextID - 1)
    BY <2>0, MessageTypes
  <2>2. m[2] = contextID - 1
    BY <2>1 DEF CancelContextMessage
  <2>3. /\ call = "writing" /\ Write(m, ok) /\ call' = "idle" /\ contextID' = contextID
        /\ op = "reset" /\ callConn \in Conns
    BY <1>4, <2>1 DEF ResetCancels, CallInv
  <2>4. IdsUpTo(m[2]) /\ OverBelow(m[2])
    BY <1>0, <2>2, <2>3 DEF ContextInv
  <2>5. ContextsNotReused' /\ IdsUpTo(m[2])'
    BY <1>0, <2>3, <2>4, MessageInContext
  <2>6. \A k \in Nat : IdsUpTo(k)' => IdsUpTo(k + 1)' /\ OverBelow(k + 1)'
    <3> SUFFICES ASSUME NEW k \in Nat, IdsUpTo(k)', NEW c \in Conns,
    NEW i \in DOMAIN wire'[c]
                 PROVE  wire'[c][i][2] <= k + 1 /\ wire'[c][i][2] < k + 1
      BY DEF IdsUpTo, OverBelow, Conns
    <3>1. wire'[c][i] \in Messages
      BY LenProperties, ElementOfSeq DEF WireTypes, Conns
    <3>2. wire'[c][i][2] \in Nat /\ wire'[c][i][2] <= k
      BY <3>1 DEF IdsUpTo, Messages, Conns
    <3> QED
      BY <3>2
  <2>7. IdsUpTo(m[2] + 1)' /\ OverBelow(m[2] + 1)' /\ m[2] + 1 = contextID'
    BY <2>0, <2>2, <2>3, <2>5, <2>6
  <2>8. IdsUpTo(contextID)' /\ OverBelow(contextID)'
    BY <2>7 DEF IdsUpTo, OverBelow
  <2> QED
    BY <2>3, <2>5, <2>8 DEF ContextInv
<1> QED
  BY <1>1, <1>2, <1>3, <1>4 DEF CartesiaWorks

\* The other steps write nothing.
LEMMA ContextStep ==
  ASSUME TypeOK, WireTypes, WireTypes', ConnInv, CallInv, ContextInv, Steps
  PROVE  ContextInv'
<1> USE DEF lifeVars, connVars, readVars, beatVars, callVars
<1> SUFFICES ASSUME provider' = "cartesia" PROVE ContextInv'
  BY DEF ContextInv
<1>0. provider = "cartesia"
  BY DEF Steps, Shares, StartDials, ReconnectDials, CallBegins, CallPasses, DeepgramWorks,
     ElevenLabsWorks, CartesiaWorks
<1>a. /\ ConnectionTypeOK /\ contextID \in Nat \ {0} /\ IdsUpTo(contextID)
      /\ ContextsNotReused /\ (call # "installing" => OverBelow(contextID))
      /\ call \in {"idle", "checking", "writing", "installing"}
  BY <1>0 DEF TypeOK, ContextInv
<1>1. CASE Shares \/ CallBegins
  <2>1. /\ UNCHANGED <<wire, contextID>>
        /\ \/ UNCHANGED <<call, op>>
           \/ call # "installing" /\ call' \in {"idle", "checking"}
    BY <1>1, <1>a, SharedFrame DEF Shares, CallBegins, BeginCall
  <2>2. ContextsNotReused' /\ IdsUpTo(contextID)'
    BY <1>0, <1>a, <2>1 DEF ContextsNotReused, IdsUpTo
  <2>3. OverBelow(contextID) => OverBelow(contextID)'
    BY <2>1 DEF OverBelow
  <2>4. CASE UNCHANGED <<call, op>>
    BY <1>0, <1>a, <2>1, <2>2, <2>3, <2>4 DEF ContextInv, IdsUpTo, OverBelow
  <2>5. CASE call # "installing" /\ call' \in {"idle", "checking"}
    BY <1>a, <2>2, <2>3, <2>5 DEF ContextInv
  <2> QED
    BY <2>1, <2>4, <2>5
<1>2. CASE StartDials \/ ReconnectDials
  <2>1. PICK c \in Conns : /\ EstablishConnection(c, <<>>) /\ UNCHANGED <<contextID, call>>
                           /\ call \in {"idle", "checking"}
    BY <1>0, <1>2 DEF StartDials, ReconnectDials, Greeting, StartEstablishes,
       ReconnectEstablishes, ConnInv
  <2>2. PICK k : k = contextID
    OBVIOUS
  <2>3. IdsUpTo(k)' /\ OverBelow(k)' /\ ContextsNotReused'
    BY <1>0, <1>a, <2>1, <2>2, SilentDial
  <2>4. IdsUpTo(contextID)' /\ OverBelow(contextID)'
    BY <2>1, <2>2, <2>3 DEF IdsUpTo, OverBelow
  <2> QED
    BY <2>1, <2>3, <2>4 DEF ContextInv
<1>3. CASE CallPasses
  <2>1. UNCHANGED <<wire, op>> /\ call = "checking" /\ call' = "writing"
    BY <1>3 DEF CallPasses, CheckPasses
  <2>2. ContextsNotReused' /\ OverBelow(contextID)
    BY <1>0, <1>a, <2>1 DEF ContextsNotReused
  <2>3. CASE op # "reset"
    <3>1. UNCHANGED contextID
      BY <1>3, <2>3 DEF CallPasses
    <3>2. IdsUpTo(contextID)' /\ OverBelow(contextID)'
      BY <1>a, <2>1, <2>2, <3>1 DEF IdsUpTo, OverBelow
    <3> QED
      BY <2>1, <2>2, <2>3, <3>2 DEF ContextInv
  <2>4. CASE op = "reset"
    <3>1. contextID' = contextID + 1 /\ contextID' - 1 = contextID /\ contextID' > 1
      BY <1>0, <1>3, <1>a, <2>4 DEF CallPasses
    <3>2. IdsUpTo(contextID + 1) /\ OverBelow(contextID + 1)
      BY <1>a, IdsGrow
    <3>3. IdsUpTo(contextID)' /\ OverBelow(contextID)'
      BY <2>1, <3>1, <3>2 DEF IdsUpTo, OverBelow
    <3>4. IdsUpTo(contextID - 1)' /\ OverBelow(contextID - 1)'
      BY <1>a, <2>1, <2>2, <3>1 DEF IdsUpTo, OverBelow
    <3> QED
      BY <2>1, <2>2, <3>1, <3>3, <3>4 DEF ContextInv
  <2> QED
    BY <2>3, <2>4
<1>4. CASE CartesiaWorks
  BY <1>4, CartesiaContexts
<1> QED
  BY <1>0, <1>1, <1>2, <1>3, <1>4 DEF Steps, DeepgramWorks, ElevenLabsWorks

-----------------------------------------------------------------------------
(* The invariant and what it says.                                         *)

\* It holds before Initialize.
LEMMA InitInv == Init => IInv
<1> SUFFICES ASSUME Init PROVE IInv
  OBVIOUS
<1> USE TTSConnectionAssumption, DeepgramAssumption DEF Init, ConnectionInit
<1>1. ConnectionTypeOK
  <2>1. /\ isInitialized \in BOOLEAN /\ ctxDone \in BOOLEAN /\ session \in BOOLEAN
        /\ reported \in BOOLEAN
    OBVIOUS
  <2> QED
    BY <2>1 DEF ConnectionTypeOK
<1>2. TypeOK /\ WireTypes
  BY <1>1, EmptySeq DEF TypeOK, WireTypes, Providers
<1>3. ConnInv /\ CallInv
  BY DEF ConnInv, NoOrphanConnection, CallInv
<1>4. BufferInv
  BY DEF BufferInv
<1>5. ContextInv
  <2>1. \A c \in Conns : DOMAIN wire[c] = {}
    BY EmptySeq
  <2> QED
    BY <2>1 DEF ContextInv, IdsUpTo, OverBelow, ContextsNotReused
<1> QED
  BY <1>2, <1>3, <1>4, <1>5 DEF IInv

\* Every step of the service and of the network keeps it.
LEMMA NextInv == ASSUME IInv, [Next]_vars PROVE IInv'
<1>1. CASE Next
  <2>1. Steps
    BY <1>1, StepCases DEF IInv
  <2>2. TypeOK' /\ WireTypes'
    BY <2>1, TypesStep DEF IInv
  <2> QED
    BY <2>1, <2>2, ConnStep, CallStepInv, BufferStep, ContextStep DEF IInv
<1>2. CASE UNCHANGED vars
  <2> USE <1>2 DEF vars, connectionVars
  <2>1. TypeOK' /\ WireTypes'
    BY DEF IInv, TypeOK, ConnectionTypeOK, WireTypes
  <2>2. ConnInv' /\ CallInv'
    BY DEF IInv, ConnInv, NoOrphanConnection, CallInv
  <2>3. BufferInv'
    BY DEF IInv, BufferInv
  <2>4. ContextInv'
    BY DEF IInv, ContextInv, IdsUpTo, OverBelow, ContextsNotReused
  <2> QED
    BY <2>1, <2>2, <2>3, <2>4 DEF IInv
<1> QED
  BY <1>1, <1>2

\* Reader, heartbeat, calls, StartTTSSession, Cleanup and the network keep the
\* invariant in any order, for each of the three services.
THEOREM TTSServicesInvariant == Spec => []IInv
BY InitInv, NextInv, PTL DEF Spec

\* The variables keep their types.
THEOREM TypeCorrect == Spec => []TypeOK
<1>1. IInv => TypeOK
  BY DEF IInv
<1> QED
  BY <1>1, TTSServicesInvariant, PTL

\* No connection is left open that the service does not know, however many times
\* it is lost, replaced and closed.
THEOREM NoOrphanConnectionHolds == Spec => []NoOrphanConnection
<1>1. IInv => NoOrphanConnection
  BY DEF IInv, ConnInv
<1> QED
  BY <1>1, TTSServicesInvariant, PTL

\* Deepgram's server never keeps as many characters as it refuses, whatever the
\* limit, the headroom and the lengths of the texts.
THEOREM BufferBelowLimitHolds == Spec => []BufferBelowLimit
<1>1. IInv => BufferBelowLimit
  <2>1. 0 \notin Conns
    BY TTSConnectionAssumption DEF Conns
  <2> QED
    BY <2>1 DEF IInv, BufferInv, BufferBelowLimit
<1> QED
  BY <1>1, TTSServicesInvariant, PTL

\* Cartesia sends nothing to a context that was finished or cancelled on the
\* same connection.
THEOREM ContextsNotReusedHolds == Spec => []ContextsNotReused
<1>1. IInv => ContextsNotReused
  BY DEF IInv, ContextInv, ContextsNotReused
<1> QED
  BY <1>1, TTSServicesInvariant, PTL
=============================================================================
