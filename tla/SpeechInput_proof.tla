-------------------------- MODULE SpeechInput_proof --------------------------
(***************************************************************************)
(* Proofs about SpeechInput: the VAD handler, the STT handler and the      *)
(* Deepgram service, for any number of connections and of write errors and *)
(* any grace periods.                                                      *)
(***************************************************************************)
EXTENDS SpeechInput, TLAPS

-----------------------------------------------------------------------------
(* The inductive invariant.                                                *)

\* The session dials a connection only when there is none, and only after the
\* errors of the last one have been handled; an error that is still to be
\* handled, or that was, concerns a connection that does not work.
ConnectionInv ==
  /\ session = "installing" <=> fresh # 0
  /\ conn # 0 => session \in {"listening", "reading", "delivering", "leaving"}
  /\ session \in {"listening", "reading", "delivering", "leaving"} => sessionConn # 0
  /\ isConnected => conn # 0
  /\ session \in {"none", "top", "dialing", "installing"} => writeErrors = 0
  /\ conn # 0 /\ (writeErrors > 0 \/ ~isConnected) => status[conn] # "open"

\* A keepAlive was started for a connection that was dialled; the connections
\* are dialled in their order.
Dialled == keepers + (IF fresh = 0 THEN 0 ELSE 1)
KeepersInv ==
  Dialled <= MaxConns /\ \A c \in Conns : status[c] = "none" => Dialled < c

\* What the VAD handler sends before it takes the next chunk; speech that the
\* server has not been told to finalise is going on, or its end is on the way.
UtteranceInv ==
  /\ inbox \in {<<>>, <<"speech">>, <<"silence">>, <<"ended", "silence">>}
  /\ inbox = <<"speech">> => isSpeechActive
  /\ unflushed /\ isConnected => isSpeechActive \/ inbox = <<"ended", "silence">>

\* Speech that has ended is older than the grace period in force.
GraceInv == ~isSpeechActive => sinceSpeech > currentGracePeriod

STTInv == STTTypeOK /\ ConnectionInv /\ KeepersInv
VADInv == VADTypeOK /\ GraceInv
IInv == STTInv /\ VADInv /\ UtteranceInv

-----------------------------------------------------------------------------
(* The service.                                                            *)

\* closeConnection leaves nothing to refuse and nothing to finalise.
LEMMA CloseConnectionType ==
  ASSUME STTInv, CloseConnection
  PROVE  /\ conn' = 0 /\ isConnected' = FALSE /\ unflushed' = FALSE
         /\ status' \in [Conns -> {"none", "open", "broken", "closed"}]
         /\ \A c \in Conns : status'[c] = "none" => status[c] = "none"
BY DEF STTInv, STTTypeOK, CloseConnection, Conns

\* A dial takes the first connection that was not used before.
LEMMA DialKeepsOrder ==
  ASSUME STTInv, NEW c \in Conns, SessionDials(c)
  PROVE  KeepersInv'
<1> USE STTAssumption
<1>1. /\ fresh = 0 /\ fresh' = c /\ keepers' = keepers /\ keepers \in Nat
      /\ status[c] = "none" /\ status' = [status EXCEPT ![c] = "open"]
      /\ \A d \in 1..(c - 1) : status[d] # "none"
      /\ c \in Nat \ {0} /\ c <= MaxConns
      /\ status \in [Conns -> {"none", "open", "broken", "closed"}]
  BY DEF STTInv, STTTypeOK, ConnectionInv, SessionDials, SessionStep, Conns
<1>2. keepers < c
  BY <1>1 DEF STTInv, KeepersInv, Dialled
<1>3. Dialled' = keepers + 1
  BY <1>1 DEF Dialled
<1>4. ASSUME NEW d \in Conns, status'[d] = "none" PROVE keepers + 1 < d
  <2>1. d # c /\ status[d] = "none"
    BY <1>1, <1>4
  <2>2. d \in Nat /\ ~(d \in 1..(c - 1))
    BY <1>1, <2>1 DEF Conns
  <2>3. d > c
    BY <1>1, <2>1, <2>2, <1>4 DEF Conns
  <2> QED
    BY <1>1, <1>2, <2>3, <2>2
<1> QED
  BY <1>1, <1>2, <1>3, <1>4 DEF KeepersInv

\* Every step of the session, of the runner, of the goroutines that handle write
\* errors and of the network keeps the invariant of the service.
LEMMA STTStepInv ==
  ASSUME STTInv, STTStep
  PROVE  STTInv'
<1> USE STTAssumption
<1>1. CASE StartSession
  BY <1>1 DEF STTInv, STTTypeOK, ConnectionInv, KeepersInv, Dialled, StartSession
<1>2. CASE ContextEnds
  BY <1>2 DEF STTInv, STTTypeOK, ConnectionInv, KeepersInv, Dialled, ContextEnds
<1>3. CASE HandlerCloses
  BY <1>3 DEF STTInv, STTTypeOK, ConnectionInv, KeepersInv, Dialled, HandlerCloses
<1>4. CASE ServiceCloses
  BY <1>4, CloseConnectionType
     DEF STTInv, STTTypeOK, ConnectionInv, KeepersInv, Dialled, ServiceCloses
<1>5. CASE LoopSends \/ LoopEnds
  BY <1>5 DEF STTInv, STTTypeOK, ConnectionInv, KeepersInv, Dialled, LoopSends, LoopEnds
<1>6. CASE HandleConnectionError
  <2>1. STTTypeOK'
    <3>1. {done', isConnected', unflushed'} \subseteq BOOLEAN
      BY <1>6 DEF STTInv, STTTypeOK, HandleConnectionError
    <3>2. writeErrors' \in 0..MaxErrors
      BY <1>6 DEF STTInv, STTTypeOK, HandleConnectionError
    <3> QED
      BY <1>6, <3>1, <3>2 DEF STTInv, STTTypeOK, HandleConnectionError
  <2>2. ConnectionInv'
    BY <1>6 DEF STTInv, STTTypeOK, ConnectionInv, HandleConnectionError
  <2>3. KeepersInv'
    BY <1>6 DEF STTInv, KeepersInv, Dialled, HandleConnectionError
  <2> QED
    BY <2>1, <2>2, <2>3 DEF STTInv
<1>7. CASE SessionChecks \/ DialFails \/ SessionFails \/ SessionReports \/ SessionRetries
  BY <1>7 DEF STTInv, STTTypeOK, ConnectionInv, KeepersInv, Dialled, SessionStep,
     SessionOnly, SessionChecks, DialFails, SessionFails, SessionReports, SessionRetries
<1>8. CASE SessionListens \/ ReadFails \/ ResultArrives
  BY <1>8 DEF STTInv, STTTypeOK, ConnectionInv, KeepersInv, Dialled, SessionStep,
     SessionOnly, SessionListens, ReadFails, ResultArrives
<1>9. CASE ResultDelivered
  BY <1>9 DEF STTInv, STTTypeOK, ConnectionInv, KeepersInv, Dialled, SessionStep,
     ResultDelivered
<1>10. CASE SessionInstalls
  <2>1. fresh \in Conns /\ keepers' = keepers + 1 /\ fresh' = 0
    BY <1>10 DEF STTInv, STTTypeOK, ConnectionInv, SessionStep, SessionInstalls, Conns
  <2>2. Dialled' = Dialled /\ KeepersInv'
    BY <1>10, <2>1 DEF STTInv, STTTypeOK, KeepersInv, Dialled, SessionInstalls, Conns
  <2>3. keepers' \in 0..MaxConns
    BY <2>1, <2>2 DEF STTInv, STTTypeOK, KeepersInv, Dialled, Conns
  <2>4. STTTypeOK'
    <3>1. {done', isConnected', unflushed'} \subseteq BOOLEAN
      BY <1>10 DEF STTInv, STTTypeOK, SessionInstalls, SessionOnly
    <3>2. {fresh', conn', sessionConn'} \subseteq 0..MaxConns
      BY <1>10, <2>1 DEF SessionInstalls, Conns
    <3> QED
      BY <1>10, <3>1, <3>2, <2>3 DEF STTInv, STTTypeOK, SessionStep, SessionOnly,
         SessionInstalls
  <2>5. ConnectionInv'
    <3>1. isConnected' /\ conn' = fresh /\ fresh # 0 /\ sessionConn' = fresh
      BY <1>10, <2>1 DEF SessionInstalls, Conns
    <3>2. session = "installing" /\ session' = "listening"
      BY <1>10 DEF SessionInstalls, SessionStep
    <3>3. writeErrors' = 0
      BY <1>10, <3>2 DEF STTInv, ConnectionInv, SessionInstalls, SessionOnly
    <3> QED
      BY <2>1, <3>1, <3>2, <3>3 DEF ConnectionInv
  <2> QED
    BY <2>2, <2>4, <2>5 DEF STTInv
<1>11. CASE SessionLeaves
  BY <1>11, CloseConnectionType DEF STTInv, STTTypeOK, ConnectionInv, KeepersInv,
     Dialled, SessionStep, SessionOnly, SessionLeaves
<1>12. CASE KeeperEnds
  BY <1>12 DEF STTInv, STTTypeOK, ConnectionInv, KeepersInv, Dialled, KeeperEnds, Conns
<1>13. ASSUME NEW c \in Conns, SessionDials(c) PROVE STTInv'
  <2>1. KeepersInv'
    BY <1>13, DialKeepsOrder
  <2>2. STTTypeOK' /\ ConnectionInv'
    BY <1>13 DEF STTInv, STTTypeOK, ConnectionInv, SessionStep, SessionOnly,
       SessionDials, Conns
  <2> QED
    BY <2>1, <2>2 DEF STTInv
<1>14. ASSUME NEW c \in Conns, Break(c) PROVE STTInv'
  BY <1>14 DEF STTInv, STTTypeOK, ConnectionInv, KeepersInv, Dialled, Break, Conns
<1> QED
  BY <1>1, <1>2, <1>3, <1>4, <1>5, <1>6, <1>7, <1>8, <1>9, <1>10, <1>11, <1>12,
     <1>13, <1>14 DEF STTStep, SessionProgress

\* So do SendTranscriptionAudio and Flush, which may find another connection
\* than the one they checked, or none.
LEMMA AudioInv ==
  ASSUME STTInv,
         AudioRefused \/ AudioChecks \/ Flush
           \/ \E speech, ok \in BOOLEAN : AudioWrites(speech, ok)
  PROVE  STTInv'
<1> USE STTAssumption
<1>1. CASE AudioRefused
  BY <1>1 DEF STTInv, STTTypeOK, ConnectionInv, KeepersInv, Dialled, AudioRefused, sttVars
<1>2. CASE AudioChecks
  BY <1>2 DEF STTInv, STTTypeOK, ConnectionInv, KeepersInv, Dialled, AudioChecks
<1>3. CASE Flush
  <2>1. {done', isConnected', unflushed'} \subseteq BOOLEAN
    BY <1>3 DEF STTInv, STTTypeOK, Flush
  <2> QED
    BY <1>3, <2>1 DEF STTInv, STTTypeOK, ConnectionInv, KeepersInv, Dialled, Flush
<1>4. ASSUME NEW speech \in BOOLEAN, NEW ok \in BOOLEAN, AudioWrites(speech, ok)
      PROVE  STTInv'
  <2>1. {done', isConnected', unflushed'} \subseteq BOOLEAN
    BY <1>4 DEF STTInv, STTTypeOK, AudioWrites
  <2>2. writeErrors' \in 0..MaxErrors /\ crashed' \in {"no", "nil", "closed"}
    BY <1>4 DEF STTInv, STTTypeOK, AudioWrites
  <2>3. STTTypeOK'
    BY <1>4, <2>1, <2>2 DEF STTInv, STTTypeOK, AudioWrites
  <2>4. KeepersInv'
    BY <1>4 DEF STTInv, KeepersInv, Dialled, AudioWrites
  <2>5. ConnectionInv'
    BY <1>4 DEF STTInv, STTTypeOK, ConnectionInv, AudioWrites
  <2> QED
    BY <2>3, <2>4, <2>5 DEF STTInv
<1> QED
  BY <1>1, <1>2, <1>3, <1>4

\* Only audio leaves something to be finalised: a new connection starts with
\* nothing, and a connection that is not used is not taken up again.
LEMMA OnlyAudioUnflushes ==
  ASSUME STTInv, STTStep, unflushed', isConnected'
  PROVE  unflushed /\ isConnected
<1>1. CASE StartSession \/ ContextEnds \/ HandlerCloses \/ LoopSends \/ LoopEnds
             \/ KeeperEnds \/ ResultDelivered
  BY <1>1 DEF StartSession, ContextEnds, HandlerCloses, LoopSends, LoopEnds,
     KeeperEnds, ResultDelivered
<1>2. CASE ServiceCloses \/ SessionLeaves
  BY <1>2 DEF ServiceCloses, SessionLeaves, CloseConnection
<1>3. CASE HandleConnectionError \/ SessionInstalls
  BY <1>3 DEF HandleConnectionError, SessionInstalls
<1>4. CASE SessionChecks \/ DialFails \/ SessionListens \/ ReadFails \/ SessionFails
             \/ SessionReports \/ SessionRetries \/ ResultArrives
  BY <1>4 DEF SessionChecks, DialFails, SessionListens, ReadFails, SessionFails,
     SessionReports, SessionRetries, ResultArrives
<1>5. ASSUME NEW c \in Conns, SessionDials(c) \/ Break(c)
      PROVE  unflushed /\ isConnected
  BY <1>5 DEF SessionDials, Break
<1> QED
  BY <1>1, <1>2, <1>3, <1>4, <1>5 DEF STTStep, SessionProgress

-----------------------------------------------------------------------------
(* The VAD handler.                                                        *)

\* The grace period in force when a chunk arrives is never longer than the one
\* that was in force before.
LEMMA GraceShrinks ==
  ASSUME VADTypeOK
  PROVE  /\ Grace \in {BaseGrace, BaseGrace + PatienceIncrease}
         /\ Grace \in Nat /\ currentGracePeriod \in Nat
         /\ Grace <= currentGracePeriod
BY VADAssumption DEF VADTypeOK, Grace

\* The patience after an interruption is over, or goes on.
LEMMA PatienceType ==
  ASSUME VADTypeOK
  PROVE  (IF PatienceOver THEN Never ELSE sinceInterruption) \in 0..Never
BY VADAssumption DEF VADTypeOK, Never

\* A tick, and the bot that starts or stops to speak, keep the VAD invariant.
LEMMA VADElseInv ==
  ASSUME VADInv, TimePasses \/ \E speaks \in BOOLEAN : BotSpeaks(speaks)
  PROVE  VADInv'
<1> USE VADAssumption
<1>1. CASE TimePasses
  BY <1>1 DEF VADInv, VADTypeOK, GraceInv, TimePasses, Older, Never
<1>2. ASSUME NEW speaks \in BOOLEAN, BotSpeaks(speaks)
      PROVE  VADInv'
  <2>1. {isSpeechActive', botSpeaking'} \subseteq BOOLEAN
    BY <1>2 DEF VADInv, VADTypeOK, BotSpeaks
  <2> QED
    BY <1>2, <2>1 DEF VADInv, VADTypeOK, GraceInv, BotSpeaks
<1> QED
  BY <1>1, <1>2

\* A chunk keeps it too: only speech makes the grace period longer.
LEMMA ChunkInv ==
  ASSUME VADInv, SpeechChunk \/ SilentChunk \/ ChunkFails
  PROVE  VADInv'
<1> USE VADAssumption
<1>0. /\ VADTypeOK
      /\ Grace \in {BaseGrace, BaseGrace + PatienceIncrease}
      /\ Grace \in Nat /\ currentGracePeriod \in Nat
      /\ Grace <= currentGracePeriod
      /\ (IF PatienceOver THEN Never ELSE sinceInterruption) \in 0..Never
  BY GraceShrinks, PatienceType DEF VADInv
<1>1. CASE SpeechChunk
  <2>1. {isSpeechActive', botSpeaking'} \subseteq BOOLEAN /\ isSpeechActive'
    BY <1>0, <1>1 DEF VADTypeOK, SpeechChunk
  <2>2. vadEvents' \subseteq {"started", "ended", "speaking", "silence", "interruption"}
    BY <1>1 DEF SpeechChunk
  <2>3. /\ currentGracePeriod' \in {BaseGrace, BaseGrace + PatienceIncrease}
        /\ sinceInterruption' \in 0..Never /\ sinceSpeech' \in 0..MaxAge
    <3> DEFINE patience == IF PatienceOver THEN Never ELSE sinceInterruption
    <3>1. \/ currentGracePeriod' = BaseGrace + PatienceIncrease /\ sinceInterruption' = 0
          \/ currentGracePeriod' = Grace /\ sinceInterruption' = patience
      BY <1>1, Zenon DEF SpeechChunk
    <3>2. patience \in 0..Never
      BY <1>0, Zenon
    <3>3. sinceSpeech' = 0 /\ 0 \in 0..Never /\ 0 \in 0..MaxAge
      BY <1>1 DEF SpeechChunk, Never
    <3> HIDE DEF patience
    <3> QED
      BY <1>0, <3>1, <3>2, <3>3
  <2> QED
    BY <2>1, <2>2, <2>3 DEF VADInv, VADTypeOK, GraceInv
<1>2. CASE SilentChunk
  <2>1. {isSpeechActive', botSpeaking'} \subseteq BOOLEAN
    BY <1>0, <1>2 DEF VADTypeOK, SilentChunk
  <2>2. vadEvents' \subseteq {"started", "ended", "speaking", "silence", "interruption"}
    BY <1>2 DEF SilentChunk
  <2>3. ~isSpeechActive' => sinceSpeech > Grace
    <3>1. ~isSpeechActive' => ~(sinceSpeech <= Grace)
      BY <1>2, Zenon DEF SilentChunk
    <3> QED
      BY <1>0, <3>1 DEF VADTypeOK
  <2> QED
    BY <1>0, <1>2, <2>1, <2>2, <2>3 DEF VADInv, VADTypeOK, GraceInv, SilentChunk
<1>3. CASE ChunkFails
  BY <1>0, <1>3 DEF VADInv, VADTypeOK, GraceInv, ChunkFails
<1> QED
  BY <1>1, <1>2, <1>3

\* handleTransportAudio has a branch that would begin speech in a chunk without
\* any: it is never taken.
LEMMA SilenceStartsNothing ==
  ASSUME VADInv, SilentChunk
  PROVE  isSpeechActive' => isSpeechActive
BY GraceShrinks DEF VADInv, VADTypeOK, GraceInv, SilentChunk

-----------------------------------------------------------------------------
(* The composition.                                                        *)

\* The invariant holds at the start.
LEMMA InitInv == Init => IInv
<1> SUFFICES ASSUME Init PROVE IInv
  OBVIOUS
<1>1. STTInv
  <2>1. {done, isConnected, unflushed} \subseteq BOOLEAN
    BY DEF Init, STTInit
  <2> QED
    BY <2>1, STTAssumption DEF Init, STTInit, STTInv, STTTypeOK, ConnectionInv,
       KeepersInv, Dialled, Conns
<1>2. VADInv
  <2>1. {isSpeechActive, botSpeaking} \subseteq BOOLEAN
    BY DEF Init, VADInit
  <2> QED
    BY <2>1, VADAssumption DEF Init, VADInit, VADInv, VADTypeOK, GraceInv, Never
<1>3. UtteranceInv
  BY DEF Init, STTInit, UtteranceInv
<1> QED
  BY <1>1, <1>2, <1>3 DEF IInv

\* A chunk of the VAD handler: speech that ends is announced to the STT handler.
LEMMA ChunkArrivesInv ==
  ASSUME IInv, ChunkArrives PROVE IInv'
<1>1. STTInv'
  BY DEF IInv, STTInv, STTTypeOK, ConnectionInv, KeepersInv, Dialled, ChunkArrives,
     sttVars
<1>2. VADInv'
  BY ChunkInv DEF IInv, ChunkArrives
<1>3. UtteranceInv'
  <2>0. unflushed' = unflushed /\ isConnected' = isConnected
    BY DEF ChunkArrives, sttVars
  <2>00. unflushed /\ isConnected => isSpeechActive
    BY DEF IInv, UtteranceInv, ChunkArrives
  <2>1. CASE SpeechChunk /\ inbox' = <<"speech">>
    BY <2>1, <2>0 DEF UtteranceInv, SpeechChunk
  <2>2. CASE SilentChunk /\ inbox' = IF "ended" \in vadEvents'
                                     THEN <<"ended", "silence">> ELSE <<"silence">>
    <3>1. isSpeechActive /\ ~isSpeechActive' => "ended" \in vadEvents'
      BY <2>2, Zenon DEF SilentChunk
    <3> QED
      BY <2>2, <2>0, <2>00, <3>1 DEF UtteranceInv
  <2>3. CASE ChunkFails /\ inbox' = <<"silence">>
    BY <2>3, <2>0, <2>00 DEF UtteranceInv, ChunkFails
  <2> QED
    BY <2>1, <2>2, <2>3 DEF ChunkArrives
<1> QED
  BY <1>1, <1>2, <1>3 DEF IInv

\* What is at the head of the inbox, and what is left behind it.
LEMMA InboxSequences ==
  /\ Head(<<"speech">>) = "speech" /\ Tail(<<"speech">>) = <<>>
  /\ Head(<<"silence">>) = "silence" /\ Tail(<<"silence">>) = <<>>
  /\ Head(<<"ended", "silence">>) = "ended"
  /\ Tail(<<"ended", "silence">>) = <<"silence">>
  /\ {<<>>, <<"speech">>, <<"silence">>, <<"ended", "silence">>}
       \subseteq Seq({"ended", "speech", "silence"})
<1>1. /\ Head(<<"speech">>) = "speech" /\ Tail(<<"speech">>) = <<>>
  OBVIOUS
<1>2. /\ Head(<<"silence">>) = "silence" /\ Tail(<<"silence">>) = <<>>
  OBVIOUS
<1>3. Head(<<"ended", "silence">>) = "ended"
  OBVIOUS
<1>4. Tail(<<"ended", "silence">>) = <<"silence">>
  OBVIOUS
<1>5. {<<>>, <<"speech">>, <<"silence">>, <<"ended", "silence">>}
       \subseteq Seq({"ended", "speech", "silence"})
  OBVIOUS
<1> QED
  BY <1>1, <1>2, <1>3, <1>4, <1>5

\* HandleEvent of the STT handler: audio that leaves something to be finalised is
\* speech, and the end of speech finalises it.
LEMMA HandleEventInv ==
  ASSUME IInv, HandleAudio \/ HandleSpeechEnded PROVE IInv'
<1>1. STTInv'
  BY AudioInv DEF IInv, HandleAudio, HandleSpeechEnded
<1>2. VADInv' /\ isSpeechActive' = isSpeechActive
  BY DEF IInv, VADInv, VADTypeOK, GraceInv, HandleAudio, HandleSpeechEnded, vadVars
<1>3. UtteranceInv'
  <2>1. CASE HandleAudio
    <3>1. inbox \in {<<"speech">>, <<"silence">>} /\ Tail(inbox) = <<>>
      BY <2>1, InboxSequences DEF IInv, UtteranceInv, HandleAudio
    <3>2. unflushed /\ isConnected => isSpeechActive
      BY <3>1 DEF IInv, UtteranceInv
    <3>3. CASE AudioRefused /\ inbox' = Tail(inbox)
      BY <1>2, <3>1, <3>2, <3>3 DEF UtteranceInv, AudioRefused, sttVars
    <3>4. CASE AudioChecks /\ UNCHANGED inbox
      BY <1>2, <3>4 DEF IInv, UtteranceInv, AudioChecks
    <3>5. ASSUME NEW ok \in BOOLEAN, AudioWrites(Head(inbox) = "speech", ok),
                 inbox' = Tail(inbox)
          PROVE  UtteranceInv'
      <4>1. unflushed' => unflushed \/ Head(inbox) = "speech"
        BY <3>5 DEF AudioWrites
      <4>2. Head(inbox) = "speech" => isSpeechActive
        BY <3>1 DEF IInv, UtteranceInv
      <4>3. isConnected' = isConnected
        BY <3>5 DEF AudioWrites
      <4> QED
        BY <1>2, <3>1, <3>2, <3>5, <4>1, <4>2, <4>3 DEF UtteranceInv
    <3> QED
      BY <2>1, <3>3, <3>4, <3>5 DEF HandleAudio
  <2>2. CASE HandleSpeechEnded
    <3>1. inbox' = <<"silence">>
      BY <2>2, InboxSequences DEF IInv, UtteranceInv, HandleSpeechEnded
    <3>2. ~(unflushed' /\ isConnected')
      BY <2>2 DEF HandleSpeechEnded, Flush, IInv, STTInv, ConnectionInv
    <3> QED
      BY <3>1, <3>2 DEF UtteranceInv
  <2> QED
    BY <2>1, <2>2
<1> QED
  BY <1>1, <1>2, <1>3 DEF IInv

\* Every step keeps the invariant.
LEMMA NextInv == IInv /\ [Next]_vars => IInv'
<1> SUFFICES ASSUME IInv, [Next]_vars PROVE IInv'
  OBVIOUS
<1>1. CASE ChunkArrives
  BY <1>1, ChunkArrivesInv
<1>2. CASE HandleAudio \/ HandleSpeechEnded
  BY <1>2, HandleEventInv
<1>3. CASE VADElse
  <2>1. VADInv' /\ isSpeechActive' = isSpeechActive
    BY <1>3, VADElseInv DEF IInv, VADElse, TimePasses, BotSpeaks
  <2>2. STTInv' /\ UtteranceInv'
    BY <1>3, <2>1 DEF IInv, STTInv, STTTypeOK, ConnectionInv, KeepersInv, Dialled,
       UtteranceInv, VADElse, sttVars
  <2> QED
    BY <2>1, <2>2 DEF IInv
<1>4. CASE STTElse
  <2>1. STTInv'
    BY <1>4, STTStepInv DEF IInv, STTElse
  <2>2. unflushed' /\ isConnected' => unflushed /\ isConnected
    BY <1>4, OnlyAudioUnflushes DEF IInv, STTElse
  <2>3. VADInv' /\ UtteranceInv'
    BY <1>4, <2>2 DEF IInv, VADInv, VADTypeOK, GraceInv, UtteranceInv, STTElse, vadVars
  <2> QED
    BY <2>1, <2>3 DEF IInv
<1>5. CASE UNCHANGED vars
  BY <1>5 DEF IInv, STTInv, STTTypeOK, ConnectionInv, KeepersInv, Dialled, VADInv,
     VADTypeOK, GraceInv, UtteranceInv, vars, sttVars, vadVars
<1> QED
  BY <1>1, <1>2, <1>3, <1>4, <1>5 DEF Next

-----------------------------------------------------------------------------
(* The theorems.                                                           *)

\* The invariant holds in every reachable state.
THEOREM SpeechInputInvariant == Spec => []IInv
BY InitInv, NextInv, PTL DEF Spec

\* The variables of the VAD handler, the STT handler and the service have their
\* types; no more keepAlives run than connections were dialled.
THEOREM TypeCorrect == Spec => []TypeOK
<1>1. IInv => TypeOK
  <2>1. ASSUME UtteranceInv PROVE inbox \in Seq({"ended", "speech", "silence"})
    BY <2>1, InboxSequences DEF UtteranceInv
  <2> QED
    BY <2>1 DEF IInv, STTInv, VADInv, TypeOK
<1> QED
  BY <1>1, SpeechInputInvariant, PTL

\* Once the user has stopped speaking and the STT handler is up to date, nothing
\* that was said waits at the server without a Finalize.
THEOREM UtteranceFinalisedHolds == Spec => []UtteranceFinalised
<1>1. IInv => UtteranceFinalised
  BY DEF IInv, UtteranceInv, UtteranceFinalised
<1> QED
  BY <1>1, SpeechInputInvariant, PTL

\* handleConnectionError never turns off a connection that works: it runs before
\* the session has dialled another one.
THEOREM OpenConnectionIsUsedHolds == Spec => []OpenConnectionIsUsed
<1>1. IInv => OpenConnectionIsUsed
  BY DEF IInv, STTInv, ConnectionInv, OpenConnectionIsUsed
<1> QED
  BY <1>1, SpeechInputInvariant, PTL

\* User speech starts with a chunk that has speech in it, whatever happens to the
\* grace period.
THEOREM SpeechStartsWithSpeechHolds == Spec => SpeechStartsWithSpeech
<1>1. ASSUME IInv, [Next]_vars, ~isSpeechActive, isSpeechActive'
      PROVE  sinceSpeech' = 0
  <2>1. CASE ChunkArrives
    BY <1>1, <2>1, SilenceStartsNothing DEF IInv, ChunkArrives, SpeechChunk, ChunkFails
  <2>2. CASE ~ChunkArrives
    <3>1. isSpeechActive' = isSpeechActive
      BY <1>1, <2>2 DEF Next, VADElse, TimePasses, BotSpeaks, HandleAudio,
         HandleSpeechEnded, STTElse, vars, vadVars
    <3> QED
      BY <1>1, <3>1
  <2> QED
    BY <2>1, <2>2
<1>2. IInv /\ [Next]_vars => [~isSpeechActive /\ isSpeechActive' => sinceSpeech' = 0]_vars
  BY <1>1
<1> QED
  BY <1>2, SpeechInputInvariant, PTL DEF Spec, SpeechStartsWithSpeech
=============================================================================
