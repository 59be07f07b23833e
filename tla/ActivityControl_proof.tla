------------------------ MODULE ActivityControl_proof ------------------------
(***************************************************************************)
(* Proofs about ActivityControl, for any number of chunks and suspensions. *)
(***************************************************************************)
EXTENDS ActivityControl, SequenceTheorems, TLAPS

USE BoundsAssumption DEF Chunks, Timers

-----------------------------------------------------------------------------
(* Sequences of chunks and of packets.                                     *)

\* Appending a chunk adds it to the elements.
LEMMA ElemsAppend ==
  ASSUME NEW s \in Seq(Chunks), NEW c \in Chunks
  PROVE  /\ Append(s, c) \in Seq(Chunks)
         /\ Elems(Append(s, c)) = Elems(s) \cup {c}
<1>1. /\ Append(s, c) \in Seq(Chunks)
      /\ Len(Append(s, c)) = Len(s) + 1
      /\ \A i \in 1..Len(s) : Append(s, c)[i] = s[i]
      /\ Append(s, c)[Len(s) + 1] = c
  BY AppendProperties
<1>2. /\ DOMAIN s = 1..Len(s) /\ Len(s) \in Nat
      /\ DOMAIN Append(s, c) = 1..(Len(s) + 1)
  BY <1>1, LenProperties
<1> QED
  BY <1>1, <1>2 DEF Elems

\* A non-empty sequence of packets carries its head's chunk and the tail's.
LEMMA ChunksInHeadTail ==
  ASSUME NEW ps \in Seq(Packets), ps # <<>>
  PROVE  /\ Tail(ps) \in Seq(Packets) /\ Head(ps) \in Packets
         /\ Head(ps) = ps[1]
         /\ Len(Tail(ps)) = Len(ps) - 1 /\ Len(ps) \in Nat \ {0}
         /\ \A i \in DOMAIN Tail(ps) : i + 1 \in DOMAIN ps /\ Tail(ps)[i] = ps[i + 1]
         /\ ChunksIn(ps) = ({Head(ps).chunk} \ {0}) \cup ChunksIn(Tail(ps))
<1>1. /\ Head(ps) \in Packets /\ Tail(ps) \in Seq(Packets)
      /\ Len(Tail(ps)) = Len(ps) - 1
      /\ \A i \in 1..Len(Tail(ps)) : Tail(ps)[i] = ps[i + 1]
  BY HeadTailProperties
<1>2. /\ DOMAIN ps = 1..Len(ps) /\ Len(ps) \in Nat \ {0}
      /\ DOMAIN Tail(ps) = 1..(Len(ps) - 1)
  BY <1>1, LenProperties, EmptySeq
<1>3. Head(ps) = ps[1]
  OBVIOUS
<1>4. ASSUME NEW i \in DOMAIN ps, i # 1
      PROVE  i - 1 \in DOMAIN Tail(ps) /\ ps[i] = Tail(ps)[i - 1]
  BY <1>1, <1>2, <1>4
<1>5. \A i \in DOMAIN Tail(ps) : i + 1 \in DOMAIN ps /\ Tail(ps)[i] = ps[i + 1]
  BY <1>1, <1>2
<1>6. 1 \in DOMAIN ps
  BY <1>2
<1>7. ASSUME NEW x
      PROVE  x \in ChunksIn(ps)
               <=> x \in ({Head(ps).chunk} \ {0}) \cup ChunksIn(Tail(ps))
  <2>1. ASSUME NEW i \in DOMAIN ps, x = ps[i].chunk
        PROVE  x = Head(ps).chunk \/ \E j \in DOMAIN Tail(ps) : x = Tail(ps)[j].chunk
    BY <1>3, <1>4, <2>1, Zenon
  <2>2. ASSUME NEW j \in DOMAIN Tail(ps), x = Tail(ps)[j].chunk
        PROVE  \E i \in DOMAIN ps : x = ps[i].chunk
    BY <1>5, <2>2, Zenon
  <2> QED
    BY <1>3, <1>6, <2>1, <2>2, Zenon DEF ChunksIn
<1> QED
  BY <1>1, <1>2, <1>3, <1>5, <1>7, Zenon

\* Turning chunks into packets keeps order and content.
LEMMA AudioPacketsProperties ==
  ASSUME NEW cs \in Seq(Chunks)
  PROVE  /\ AudioPackets(cs) \in Seq(Packets)
         /\ DOMAIN AudioPackets(cs) = DOMAIN cs
         /\ \A i \in DOMAIN cs : AudioPackets(cs)[i] = Audio(cs[i])
         /\ ChunksIn(AudioPackets(cs)) = Elems(cs)
<1>1. DOMAIN cs = 1..Len(cs) /\ Len(cs) \in Nat /\ \A i \in DOMAIN cs : cs[i] \in Chunks
  BY LenProperties, ElementOfSeq
<1>2. \A i \in DOMAIN cs : Audio(cs[i]) \in Packets /\ Audio(cs[i]).chunk = cs[i]
  BY <1>1 DEF Audio, Packets
<1>3. AudioPackets(cs) \in [1..Len(cs) -> Packets]
  BY <1>1, <1>2 DEF AudioPackets
<1>4. AudioPackets(cs) \in Seq(Packets)
  BY <1>1, <1>3, SeqDef
<1>5. DOMAIN AudioPackets(cs) = DOMAIN cs
      /\ \A i \in DOMAIN cs : AudioPackets(cs)[i] = Audio(cs[i])
  BY DEF AudioPackets
<1>6. ChunksIn(AudioPackets(cs)) = Elems(cs) \ {0}
  BY <1>2, <1>5 DEF ChunksIn, Elems
<1>7. 0 \notin Elems(cs)
  BY <1>1 DEF Elems
<1> QED
  BY <1>4, <1>5, <1>6, <1>7

\* The packets the handler forwards or originates, other than audio.
ControlPackets == {p \in Packets : p.event # "TTSOutput" /\ p.chunk = 0}

\* Every event the handler forwards makes such a packet.
LEMMA ControlPacketsIn ==
  /\ \A e \in Controls : Forward(e) \in ControlPackets
  /\ SpeakingEndedToTop \in ControlPackets
BY DEF ControlPackets, Packets, Controls, Forward, SpeakingEndedToTop

\* A queue of such packets carries no audio.
LEMMA NoChunksInControl ==
  ASSUME NEW ps \in Seq(ControlPackets)
  PROVE  ps \in Seq(Packets) /\ ChunksIn(ps) = {}
<1>1. \A i \in DOMAIN ps : ps[i] \in ControlPackets
  BY LenProperties, ElementOfSeq
<1>2. ps \in Seq(Packets)
  BY SeqMonotonic DEF ControlPackets
<1> QED
  BY <1>1, <1>2 DEF ControlPackets, ChunksIn

-----------------------------------------------------------------------------
(* What a step does to the audio, in one of eight ways.                    *)

ForwardsControl ==
  /\ outbox = <<>> /\ outbox' \in Seq(ControlPackets)
  /\ isSuspended => isSuspended'
  /\ UNCHANGED <<accepted, played, cachedChunks, discarded, lost, ctxDone>>
DropsCache ==
  /\ outbox = <<>> /\ outbox' \in Seq(ControlPackets)
  /\ cachedChunks' = <<>>
  /\ discarded' = discarded \cup Elems(cachedChunks)
  /\ UNCHANGED <<accepted, played, lost, ctxDone>>
CachesChunk ==
  /\ isSuspended /\ isSuspended' = isSuspended
  /\ outbox = <<>>
  /\ accepted < MaxChunks /\ accepted' = accepted + 1
  /\ cachedChunks' = Append(cachedChunks, accepted + 1)
  /\ UNCHANGED <<outbox, played, discarded, lost, ctxDone>>
SendsChunk ==
  /\ ~isSuspended /\ isSuspended' = isSuspended
  /\ outbox = <<>>
  /\ accepted < MaxChunks /\ accepted' = accepted + 1
  /\ SendPacket(Audio(accepted + 1))
  /\ UNCHANGED <<cachedChunks, played, discarded, ctxDone>>
ReleasesCache ==
  /\ outbox = <<>> /\ cachedChunks' = <<>>
  /\ SendPackets(AudioPackets(cachedChunks))
  /\ UNCHANGED <<accepted, played, discarded, ctxDone>>
DeliversPacket ==
  /\ ~ctxDone /\ outbox # <<>> /\ outbox' = Tail(outbox)
  /\ played' = IF Head(outbox).event = "TTSOutput"
               THEN Append(played, Head(outbox).chunk) ELSE played
  /\ UNCHANGED <<accepted, cachedChunks, discarded, lost, ctxDone, isSuspended>>
AbandonsPackets ==
  /\ ctxDone /\ outbox # <<>> /\ outbox' = <<>>
  /\ lost' = lost \cup ChunksIn(outbox)
  /\ UNCHANGED <<accepted, played, cachedChunks, discarded, ctxDone, isSuspended>>
KeepsAudio ==
  /\ ctxDone => ctxDone'
  /\ UNCHANGED <<accepted, played, outbox, cachedChunks, discarded, lost,
                 isSuspended>>

\* Sending control packets leaves control packets, and loses no audio.
LEMMA SendControl ==
  ASSUME NEW ps \in Seq(ControlPackets), SendPackets(ps)
  PROVE  outbox' \in Seq(ControlPackets) /\ lost' = lost
<1>1. ChunksIn(ps) = {}
  BY NoChunksInControl
<1>2. <<>> \in Seq(ControlPackets)
  BY EmptySeq
<1> QED
  BY <1>1, <1>2 DEF SendPackets

\* Each event is forwarded as one control packet.
LEMMA SendForward ==
  ASSUME NEW e \in Controls, SendPacket(Forward(e))
  PROVE  outbox' \in Seq(ControlPackets) /\ lost' = lost
<1>1. <<Forward(e)>> \in Seq(ControlPackets)
  BY ControlPacketsIn
<1> QED
  BY <1>1, SendControl DEF SendPacket

\* Every step has one of the eight effects.
LEMMA StepEffects ==
  ASSUME Next
  PROVE  \/ ForwardsControl \/ DropsCache \/ CachesChunk \/ SendsChunk
         \/ ReleasesCache \/ DeliversPacket \/ AbandonsPackets \/ KeepsAudio
<1> USE DEF AtSelect, historyVars
<1>1. CASE HandleSpeakingStarted
  <2>1. outbox' \in Seq(ControlPackets) /\ lost' = lost
    BY <1>1, SendForward DEF HandleSpeakingStarted, Controls
  <2> QED
    BY <1>1, <2>1 DEF HandleSpeakingStarted, ForwardsControl
<1>2. CASE HandleSpeakingEnded
  <2>1. outbox' \in Seq(ControlPackets) /\ lost' = lost
    BY <1>2, SendForward DEF HandleSpeakingEnded, Controls
  <2> QED
    BY <1>2, <2>1 DEF HandleSpeakingEnded, ForwardsControl
<1>3. CASE HandleResponseStarted
  <2>1. outbox' \in Seq(ControlPackets) /\ lost' = lost
    BY <1>3, SendForward DEF HandleResponseStarted, Controls
  <2> QED
    BY <1>3, <2>1 DEF HandleResponseStarted, DropsCache
<1>4. CASE HandleAudio
  BY <1>4 DEF HandleAudio, CachesChunk, SendsChunk
<1>5. CASE HandleSuspected
  <2>1. outbox' \in Seq(ControlPackets) /\ lost' = lost
    BY <1>5, SendForward DEF HandleSuspected, Controls
  <2> QED
    BY <1>5, <2>1 DEF HandleSuspected, ForwardsControl
<1>6. CASE HandleConfirmed
  <2>1. /\ <<Forward("VadInterruptionConfirmed")>> \in Seq(ControlPackets)
        /\ <<SpeakingEndedToTop, Forward("VadInterruptionConfirmed")>>
             \in Seq(ControlPackets)
    BY ControlPacketsIn DEF Controls
  <2>2. outbox' \in Seq(ControlPackets) /\ lost' = lost
    BY <1>6, <2>1, SendControl DEF HandleConfirmed
  <2> QED
    BY <1>6, <2>2 DEF HandleConfirmed, DropsCache
<1>7. CASE HandleOther
  <2>1. outbox' \in Seq(ControlPackets) /\ lost' = lost
    BY <1>7, SendForward DEF HandleOther, Controls
  <2> QED
    BY <1>7, <2>1 DEF HandleOther, ForwardsControl
<1>8. CASE onFalsePositive
  BY <1>8 DEF onFalsePositive, ReleasesCache
<1>9. CASE PacketAccepted
  BY <1>9 DEF PacketAccepted, DeliversPacket
<1>10. CASE SendAbandoned
  BY <1>10 DEF SendAbandoned, AbandonsPackets
<1>11. CASE \E t \in Timers : TimerExpires(t) \/ TimerSignals(t)
  BY <1>11 DEF TimerExpires, TimerSignals, KeepsAudio
<1>12. CASE Cancel \/ Cleanup \/ EventLoopExits
  BY <1>12 DEF Cancel, Cleanup, EventLoopExits, KeepsAudio
<1> QED
  BY <1>1, <1>2, <1>3, <1>4, <1>5, <1>6, <1>7, <1>8, <1>9, <1>10, <1>11, <1>12
  DEF Next, HandleEvent

-----------------------------------------------------------------------------
(* The type invariant, in two halves, and the shape of the outbox that its *)
(* audio half needs: only audio packets carry a chunk, and a body sends    *)
(* either audio or control packets, never both.                            *)

ControlTypes ==
  /\ ctxDone \in BOOLEAN
  /\ loop \in {"running", "exited"}
  /\ isSpeaking \in BOOLEAN
  /\ isSuspended \in BOOLEAN
  /\ confirmTimer \in 0..MaxSuspensions
  /\ running \subseteq Timers
  /\ firing \subseteq Timers
  /\ resumeChan \in Seq(Timers)
  /\ Len(resumeChan) <= 1
  /\ suspensions \in 0..MaxSuspensions

AudioTypes ==
  /\ cachedChunks \in Seq(Chunks)
  /\ outbox \in Seq(Packets)
  /\ accepted \in 0..MaxChunks
  /\ played \in Seq(Chunks)
  /\ discarded \subseteq Chunks
  /\ lost \subseteq Chunks

IsAudio(ps) == \A i \in DOMAIN ps : ps[i].event = "TTSOutput" /\ ps[i].chunk # 0
OutboxShape == outbox \in Seq(ControlPackets) \/ IsAudio(outbox)

\* The type invariant splits into control state and audio state.
LEMMA TypeHalves == TypeOK <=> ControlTypes /\ AudioTypes
BY DEF TypeOK, ControlTypes, AudioTypes

\* The timer, the channel and the flags stay well typed.
LEMMA ControlTypesStep ==
  ASSUME ControlTypes, Next PROVE ControlTypes'
<1> USE DEF AtSelect, historyVars, timerVars
<1>1. CASE HandleSpeakingStarted \/ HandleSpeakingEnded \/ HandleOther
  BY <1>1 DEF HandleSpeakingStarted, HandleSpeakingEnded, HandleOther, ControlTypes
<1>2. CASE HandleResponseStarted \/ HandleAudio
  BY <1>2 DEF HandleResponseStarted, HandleAudio, ControlTypes
<1>3. CASE HandleSuspected
  <2>1. startConfirmTimer \/ UNCHANGED <<timerVars, suspensions>>
    BY <1>3, Zenon DEF HandleSuspected
  <2>2. /\ suspensions' \in 0..MaxSuspensions
        /\ confirmTimer' \in 0..MaxSuspensions
        /\ running' \subseteq Timers /\ firing' = firing
    <3>1. CASE startConfirmTimer
      <4>1. suspensions + 1 \in Timers
        BY <3>1 DEF startConfirmTimer, ControlTypes
      <4> QED
        BY <3>1, <4>1 DEF startConfirmTimer, ControlTypes
    <3>2. CASE UNCHANGED <<timerVars, suspensions>>
      BY <3>2 DEF ControlTypes
    <3> QED
      BY <2>1, <3>1, <3>2
  <2>3. isSuspended' \in BOOLEAN
    BY <1>3, Zenon DEF HandleSuspected
  <2> QED
    BY <1>3, <2>2, <2>3 DEF HandleSuspected, ControlTypes
<1>4. CASE HandleConfirmed
  <2>1. isSuspended' \in BOOLEAN /\ isSpeaking' \in BOOLEAN
    BY <1>4, Zenon DEF HandleConfirmed
  <2> QED
    BY <1>4, <2>1 DEF HandleConfirmed, stopConfirmTimer, ControlTypes
<1>5. CASE onFalsePositive
  <2>1. isSuspended' \in BOOLEAN
    BY <1>5, Zenon DEF onFalsePositive
  <2>2. resumeChan' \in Seq(Timers) /\ Len(resumeChan') = 0
    BY <1>5, EmptySeq DEF onFalsePositive
  <2> QED
    BY <1>5, <2>1, <2>2 DEF onFalsePositive, ControlTypes
<1>6. CASE PacketAccepted \/ SendAbandoned
  BY <1>6 DEF PacketAccepted, SendAbandoned, ControlTypes
<1>7. ASSUME NEW t \in Timers, TimerExpires(t) PROVE ControlTypes'
  BY <1>7 DEF TimerExpires, ControlTypes
<1>8. ASSUME NEW t \in Timers, TimerSignals(t) PROVE ControlTypes'
  <2>1. <<t>> \in Seq(Timers) /\ Len(<<t>>) = 1
    OBVIOUS
  <2>2. resumeChan' \in Seq(Timers) /\ Len(resumeChan') <= 1
    <3>1. CASE resumeChan = <<>>
      BY <1>8, <2>1, <3>1 DEF TimerSignals
    <3>2. CASE resumeChan # <<>>
      BY <1>8, <3>2 DEF TimerSignals, ControlTypes
    <3> QED
      BY <3>1, <3>2
  <2>3. firing' \subseteq Timers
    BY <1>8 DEF TimerSignals, ControlTypes
  <2> QED
    BY <1>8, <2>2, <2>3 DEF TimerSignals, ControlTypes
<1>9. CASE Cancel \/ EventLoopExits
  BY <1>9 DEF Cancel, EventLoopExits, ControlTypes
<1>10. CASE Cleanup
  BY <1>10 DEF Cleanup, stopConfirmTimer, ControlTypes
<1> QED
  BY <1>1, <1>2, <1>3, <1>4, <1>5, <1>6, <1>7, <1>8, <1>9, <1>10
  DEF Next, HandleEvent

\* Sending a new chunk: one audio packet, or the chunk is lost.
LEMMA SendNewChunk ==
  ASSUME AudioTypes, SendsChunk
  PROVE  /\ accepted + 1 \in Chunks
         /\ \/ ~ctxDone /\ outbox' = AudioPackets(<<accepted + 1>>) /\ lost' = lost
            \/ ctxDone /\ outbox' = <<>> /\ lost' = lost \cup {accepted + 1}
<1>1. accepted + 1 \in Chunks /\ <<accepted + 1>> \in Seq(Chunks)
  BY DEF AudioTypes, SendsChunk
<1>2. <<Audio(accepted + 1)>> = AudioPackets(<<accepted + 1>>)
  BY DEF AudioPackets
<1>3. ChunksIn(AudioPackets(<<accepted + 1>>)) = {accepted + 1}
  <2>1. Elems(<<accepted + 1>>) = {accepted + 1}
    BY DEF Elems
  <2> QED
    BY <1>1, <2>1, AudioPacketsProperties
<1> QED
  BY <1>1, <1>2, <1>3 DEF SendsChunk, SendPacket, SendPackets

\* Releasing the cache: its packets, or all its chunks are lost.
LEMMA SendCache ==
  ASSUME AudioTypes, ReleasesCache
  PROVE  \/ ~ctxDone /\ outbox' = AudioPackets(cachedChunks) /\ lost' = lost
         \/ ctxDone /\ outbox' = <<>> /\ lost' = lost \cup Elems(cachedChunks)
BY AudioPacketsProperties DEF ReleasesCache, SendPackets, AudioTypes

\* Audio packets have the shape of audio.
LEMMA AudioPacketsShape ==
  ASSUME NEW cs \in Seq(Chunks)
  PROVE  AudioPackets(cs) \in Seq(Packets) /\ IsAudio(AudioPackets(cs))
<1>1. \A i \in DOMAIN cs : cs[i] \in Chunks
  BY LenProperties, ElementOfSeq
<1>2. \A i \in DOMAIN cs : Audio(cs[i]).event = "TTSOutput" /\ Audio(cs[i]).chunk # 0
  BY <1>1 DEF Audio
<1>3. /\ AudioPackets(cs) \in Seq(Packets)
      /\ DOMAIN AudioPackets(cs) = DOMAIN cs
      /\ \A i \in DOMAIN cs : AudioPackets(cs)[i] = Audio(cs[i])
  BY AudioPacketsProperties
<1> QED
  BY <1>2, <1>3, Zenon DEF IsAudio

\* The audio stays well typed and the outbox in shape.
LEMMA AudioTypesStep ==
  ASSUME AudioTypes, OutboxShape, Next PROVE AudioTypes' /\ OutboxShape'
<1>0. <<>> \in Seq(ControlPackets) /\ <<>> \in Seq(Packets) /\ <<>> \in Seq(Chunks)
  BY EmptySeq
<1>a. Elems(cachedChunks) \subseteq Chunks
  BY LenProperties, ElementOfSeq DEF AudioTypes, Elems
<1>1. CASE ForwardsControl
  BY <1>1, NoChunksInControl DEF ForwardsControl, AudioTypes, OutboxShape
<1>2. CASE DropsCache
  BY <1>0, <1>a, <1>2, NoChunksInControl DEF DropsCache, AudioTypes, OutboxShape
<1>3. CASE CachesChunk
  <2>1. accepted + 1 \in Chunks /\ accepted' \in 0..MaxChunks
    BY <1>3 DEF CachesChunk, AudioTypes
  <2>2. cachedChunks' \in Seq(Chunks)
    BY <1>3, <2>1, ElemsAppend DEF CachesChunk, AudioTypes
  <2> QED
    BY <1>3, <2>1, <2>2 DEF CachesChunk, AudioTypes, OutboxShape
<1>4. CASE SendsChunk
  <2>1. accepted + 1 \in Chunks /\ accepted' \in 0..MaxChunks
        /\ <<accepted + 1>> \in Seq(Chunks)
    BY <1>4 DEF SendsChunk, AudioTypes
  <2>2. outbox' \in Seq(Packets) /\ OutboxShape' /\ lost' \subseteq Chunks
    BY <1>0, <1>4, <2>1, SendNewChunk, AudioPacketsShape DEF AudioTypes, OutboxShape
  <2> QED
    BY <1>4, <2>1, <2>2 DEF SendsChunk, AudioTypes
<1>5. CASE ReleasesCache
  <2>1. outbox' \in Seq(Packets) /\ OutboxShape' /\ lost' \subseteq Chunks
    BY <1>0, <1>a, <1>5, SendCache, AudioPacketsShape DEF AudioTypes, OutboxShape
  <2> QED
    BY <1>0, <1>5, <2>1 DEF ReleasesCache, AudioTypes
<1>6. CASE DeliversPacket
  <2>1. /\ Tail(outbox) \in Seq(Packets) /\ Head(outbox) \in Packets
        /\ Head(outbox) = outbox[1] /\ 1 \in DOMAIN outbox
        /\ \A i \in DOMAIN Tail(outbox) :
              i + 1 \in DOMAIN outbox /\ Tail(outbox)[i] = outbox[i + 1]
    BY <1>6, ChunksInHeadTail, LenProperties DEF DeliversPacket, AudioTypes
  <2>2. Head(outbox).event = "TTSOutput" => Head(outbox).chunk \in Chunks
    <3>1. CASE outbox \in Seq(ControlPackets)
      BY <2>1, <3>1, LenProperties, ElementOfSeq DEF ControlPackets
    <3>2. CASE IsAudio(outbox)
      BY <2>1, <3>2 DEF IsAudio, Packets
    <3> QED
      BY <3>1, <3>2 DEF OutboxShape
  <2>3. played' \in Seq(Chunks)
    BY <1>6, <2>2, ElemsAppend DEF DeliversPacket, AudioTypes
  <2>4. OutboxShape'
    <3>1. CASE outbox \in Seq(ControlPackets)
      BY <1>6, <3>1, HeadTailProperties DEF DeliversPacket, OutboxShape
    <3>2. CASE IsAudio(outbox)
      BY <1>6, <2>1, <3>2 DEF DeliversPacket, OutboxShape, IsAudio
    <3> QED
      BY <3>1, <3>2 DEF OutboxShape
  <2> QED
    BY <1>6, <2>1, <2>3, <2>4 DEF DeliversPacket, AudioTypes
<1>7. CASE AbandonsPackets
  <2>1. ChunksIn(outbox) \subseteq Chunks
    <3>1. \A i \in DOMAIN outbox : outbox[i] \in Packets
      BY LenProperties, ElementOfSeq DEF AudioTypes
    <3>2. \A i \in DOMAIN outbox : outbox[i].chunk \in 0..MaxChunks
      BY <3>1 DEF Packets
    <3> QED
      BY <3>2 DEF ChunksIn
  <2> QED
    BY <1>0, <1>7, <2>1 DEF AbandonsPackets, AudioTypes, OutboxShape
<1>8. CASE KeepsAudio
  BY <1>8 DEF KeepsAudio, AudioTypes, OutboxShape, IsAudio
<1> QED
  BY <1>1, <1>2, <1>3, <1>4, <1>5, <1>6, <1>7, <1>8, StepEffects

-----------------------------------------------------------------------------
(* Order and conservation of audio.  Neither is inductive by itself: a new *)
(* chunk may be sent past the cache only because the cache is empty unless *)
(* the handler is suspended, and a released cache may use the outbox only  *)
(* because audio is never cached while audio is being sent.                *)

CacheInv ==
  /\ cachedChunks # <<>> => isSuspended
  /\ ChunksIn(outbox) # {} => cachedChunks = <<>>

Before(A, B) == \A a \in A, b \in B : a < b
OutOrdered(ps) ==
  \A i, j \in DOMAIN ps :
    i < j /\ ps[i].chunk # 0 /\ ps[j].chunk # 0 => ps[i].chunk < ps[j].chunk

AudioInv == CacheInv /\ AudioInOrder /\ AudioAccounted /\ DiscardedStaysSilent

\* AudioInOrder, said with sets.
LEMMA OrderWithSets ==
  AudioInOrder <=>
    /\ Increasing(played) /\ Increasing(cachedChunks) /\ OutOrdered(outbox)
    /\ Before(Elems(played), Elems(cachedChunks))
    /\ Before(Elems(played), ChunksIn(outbox))
    /\ Before(ChunksIn(outbox), Elems(cachedChunks))
BY Zenon DEF AudioInOrder, OutOrdered, Before

\* The same for the state after a step.
LEMMA OrderWithSetsPrimed ==
  AudioInOrder' <=>
    /\ Increasing(played') /\ Increasing(cachedChunks') /\ OutOrdered(outbox')
    /\ Before(Elems(played'), Elems(cachedChunks'))
    /\ Before(Elems(played'), ChunksIn(outbox'))
    /\ Before(ChunksIn(outbox'), Elems(cachedChunks'))
BY Zenon DEF AudioInOrder, OutOrdered, Before, Increasing, Elems, ChunksIn

\* Nothing is in the empty sequence, and it is in order.
LEMMA EmptyFacts ==
  /\ Elems(<<>>) = {} /\ ChunksIn(<<>>) = {}
  /\ Increasing(<<>>) /\ OutOrdered(<<>>)
BY DEF Elems, ChunksIn, Increasing, OutOrdered

\* Control packets are in order, whatever they are.
LEMMA ControlOrdered ==
  ASSUME NEW ps \in Seq(ControlPackets) PROVE OutOrdered(ps) /\ ChunksIn(ps) = {}
<1>1. \A i \in DOMAIN ps : ps[i].chunk = 0
  BY LenProperties, ElementOfSeq DEF ControlPackets
<1> QED
  BY <1>1, NoChunksInControl, Zenon DEF OutOrdered

\* A chunk later than all the others goes to the end.
LEMMA IncreasingAppend ==
  ASSUME NEW s \in Seq(Chunks), NEW c \in Chunks, Increasing(s),
         \A x \in Elems(s) : x < c
  PROVE  Increasing(Append(s, c))
<1>1. /\ DOMAIN s = 1..Len(s) /\ Len(s) \in Nat
      /\ DOMAIN Append(s, c) = 1..(Len(s) + 1)
      /\ \A i \in 1..Len(s) : Append(s, c)[i] = s[i]
      /\ Append(s, c)[Len(s) + 1] = c
  BY AppendProperties, LenProperties
<1>2. \A i \in 1..Len(s) : s[i] < c
  BY <1>1 DEF Elems
<1> QED
  BY <1>1, <1>2 DEF Increasing

\* Packets made from chunks in order are in order.
LEMMA AudioPacketsOrdered ==
  ASSUME NEW cs \in Seq(Chunks), Increasing(cs) PROVE OutOrdered(AudioPackets(cs))
<1>1. \A i \in DOMAIN cs : Audio(cs[i]).chunk = cs[i]
  BY DEF Audio
<1>2. /\ DOMAIN AudioPackets(cs) = DOMAIN cs
      /\ \A i \in DOMAIN cs : AudioPackets(cs)[i] = Audio(cs[i])
  BY AudioPacketsProperties
<1> QED
  BY <1>1, <1>2, Zenon DEF OutOrdered, Increasing

\* The head of an ordered audio outbox comes before the chunks in its tail.
LEMMA HeadFirst ==
  ASSUME NEW ps \in Seq(Packets), ps # <<>>, OutOrdered(ps)
  PROVE  /\ OutOrdered(Tail(ps))
         /\ Head(ps).chunk # 0 => Before({Head(ps).chunk}, ChunksIn(Tail(ps)))
<1>1. /\ Head(ps) = ps[1] /\ 1 \in DOMAIN ps
      /\ \A i \in DOMAIN Tail(ps) : /\ i + 1 \in DOMAIN ps
                                    /\ Tail(ps)[i] = ps[i + 1]
                                    /\ i \in Nat \ {0}
  BY ChunksInHeadTail, LenProperties
<1>2. \A i, j \in DOMAIN Tail(ps) : i < j => i + 1 < j + 1
  BY <1>1
<1>3. OutOrdered(Tail(ps))
  BY <1>1, <1>2 DEF OutOrdered
<1>4. \A i \in DOMAIN Tail(ps) : 1 < i + 1
  BY <1>1
<1>5. ASSUME Head(ps).chunk # 0, NEW i \in DOMAIN Tail(ps), Tail(ps)[i].chunk # 0
      PROVE  Head(ps).chunk < Tail(ps)[i].chunk
  BY <1>1, <1>4, <1>5 DEF OutOrdered
<1> QED
  BY <1>3, <1>5, Zenon DEF Before, ChunksIn

\* The sets the argument is about: chunks played, on their way and cached.
LEMMA ElementsAreChunks ==
  ASSUME AudioTypes
  PROVE  Elems(cachedChunks) \subseteq Chunks /\ Elems(played) \subseteq Chunks
BY LenProperties, ElementOfSeq DEF AudioTypes, Elems

\* Every step preserves AudioInv.
LEMMA AudioInvStep ==
  ASSUME AudioTypes, OutboxShape, AudioInv, Next PROVE AudioInv'
<1> DEFINE P == Elems(played)
           O == ChunksIn(outbox)
           C == Elems(cachedChunks)
<1>0. /\ Elems(<<>>) = {} /\ ChunksIn(<<>>) = {}
      /\ Increasing(<<>>) /\ OutOrdered(<<>>)
  BY EmptyFacts
<1>a. /\ Increasing(played) /\ Increasing(cachedChunks) /\ OutOrdered(outbox)
      /\ Before(P, C) /\ Before(P, O) /\ Before(O, C)
      /\ CacheInv
  BY OrderWithSets DEF AudioInv
<1>b. /\ P \cup O \cup C \cup discarded \cup lost = 1..accepted
      /\ lost # {} => ctxDone
      /\ discarded \cap (P \cup O \cup C) = {}
  BY DEF AudioInv, AudioAccounted, DiscardedStaysSilent
<1>c. P \subseteq Chunks /\ C \subseteq Chunks /\ accepted \in Nat
  BY ElementsAreChunks DEF AudioTypes
\* It is enough to show the primed version in terms of sets.
<1>q. ASSUME Increasing(played'), Increasing(cachedChunks'), OutOrdered(outbox'),
             Before(Elems(played'), Elems(cachedChunks')),
             Before(Elems(played'), ChunksIn(outbox')),
             Before(ChunksIn(outbox'), Elems(cachedChunks')),
             cachedChunks' # <<>> => isSuspended',
             ChunksIn(outbox') # {} => cachedChunks' = <<>>,
             Elems(played') \cup ChunksIn(outbox') \cup Elems(cachedChunks')
               \cup discarded' \cup lost' = 1..accepted',
             lost' # {} => ctxDone',
             discarded' \cap (Elems(played') \cup ChunksIn(outbox')
                                \cup Elems(cachedChunks')) = {}
      PROVE  AudioInv'
  <2>1. AudioInOrder'
    BY <1>q, OrderWithSetsPrimed, Zenon
  <2>2. CacheInv'
    BY <1>q, Zenon DEF CacheInv, ChunksIn
  <2>3. AudioAccounted'
    BY <1>q, Zenon DEF AudioAccounted, ChunksIn, Elems
  <2>4. DiscardedStaysSilent'
    BY <1>q, Zenon DEF DiscardedStaysSilent, ChunksIn, Elems
  <2> QED
    BY <2>1, <2>2, <2>3, <2>4, Zenon DEF AudioInv
<1>1. CASE ForwardsControl
  <2>1. OutOrdered(outbox') /\ ChunksIn(outbox') = {} /\ O = {}
    BY <1>0, <1>1, ControlOrdered DEF ForwardsControl
  <2>2. /\ played' = played /\ cachedChunks' = cachedChunks /\ lost' = lost
        /\ discarded' = discarded /\ accepted' = accepted /\ ctxDone' = ctxDone
        /\ isSuspended => isSuspended'
    BY <1>1 DEF ForwardsControl
  <2> QED
    BY <1>a, <1>b, <1>q, <2>1, <2>2 DEF Before, CacheInv
<1>2. CASE DropsCache
  <2>1. OutOrdered(outbox') /\ ChunksIn(outbox') = {} /\ O = {}
    BY <1>0, <1>2, ControlOrdered DEF DropsCache
  <2>2. /\ played' = played /\ cachedChunks' = <<>> /\ lost' = lost
        /\ discarded' = discarded \cup C /\ accepted' = accepted
        /\ ctxDone' = ctxDone
    BY <1>2 DEF DropsCache
  <2>3. C \cap P = {}
    BY <1>a, <1>c DEF Before
  <2>4. discarded' \cap P = {}
    BY <1>b, <2>2, <2>3
  <2> QED
    BY <1>0, <1>a, <1>b, <1>q, <2>1, <2>2, <2>4 DEF Before
<1>3. CASE CachesChunk
  <2>1. /\ accepted + 1 \in Chunks /\ isSuspended' /\ O = {} /\ outbox' = outbox
        /\ played' = played /\ discarded' = discarded /\ lost' = lost
        /\ ctxDone' = ctxDone /\ accepted' = accepted + 1
        /\ cachedChunks' = Append(cachedChunks, accepted + 1)
    BY <1>0, <1>3 DEF CachesChunk, AudioTypes
  <2>2. Elems(cachedChunks') = C \cup {accepted + 1}
    BY <2>1, ElemsAppend DEF AudioTypes
  <2>3. \A x \in P \cup C \cup discarded \cup lost : x \in 1..accepted /\ x < accepted + 1
    BY <1>b, <1>c
  <2>4. Increasing(cachedChunks')
    BY <1>a, <2>1, <2>3, IncreasingAppend DEF AudioTypes
  <2>5. P \cup C \cup {accepted + 1} \cup discarded \cup lost = 1..(accepted + 1)
    BY <1>b, <1>c, <2>1
  <2>6. discarded \cap (P \cup C \cup {accepted + 1}) = {}
    BY <1>b, <1>c, <2>3
  <2>7. Before(P, C \cup {accepted + 1})
    BY <1>a, <2>3 DEF Before
  <2> QED
    BY <1>a, <1>b, <1>q, <2>1, <2>2, <2>4, <2>5, <2>6, <2>7 DEF Before
<1>4. CASE SendsChunk
  <2>1. /\ accepted + 1 \in Chunks /\ <<accepted + 1>> \in Seq(Chunks)
        /\ O = {} /\ C = {} /\ cachedChunks = <<>>
        /\ cachedChunks' = <<>> /\ played' = played /\ discarded' = discarded
        /\ ctxDone' = ctxDone /\ accepted' = accepted + 1
    BY <1>0, <1>4, <1>a DEF SendsChunk, AudioTypes, CacheInv
  <2>2. \A x \in P \cup discarded \cup lost : x \in 1..accepted /\ x < accepted + 1
    BY <1>b, <1>c
  <2>3. P \cup {accepted + 1} \cup discarded \cup lost = 1..(accepted + 1)
    BY <1>b, <1>c, <2>1
  <2>4. discarded \cap (P \cup {accepted + 1}) = {}
    BY <1>b, <1>c, <2>2
  <2>5. CASE ~ctxDone /\ outbox' = AudioPackets(<<accepted + 1>>) /\ lost' = lost
    <3>1. Elems(<<accepted + 1>>) = {accepted + 1} /\ Increasing(<<accepted + 1>>)
      BY DEF Elems, Increasing
    <3>2. ChunksIn(outbox') = {accepted + 1} /\ OutOrdered(outbox')
      BY <2>1, <2>5, <3>1, AudioPacketsProperties, AudioPacketsOrdered
    <3>3. Before(P, {accepted + 1})
      BY <2>2 DEF Before
    <3> QED
      BY <1>0, <1>a, <1>b, <1>q, <2>1, <2>3, <2>4, <2>5, <3>2, <3>3 DEF Before
  <2>6. CASE ctxDone /\ outbox' = <<>> /\ lost' = lost \cup {accepted + 1}
    BY <1>0, <1>a, <1>b, <1>q, <2>1, <2>3, <2>6 DEF Before
  <2> QED
    BY <1>4, <2>5, <2>6, SendNewChunk
<1>5. CASE ReleasesCache
  <2>1. /\ O = {} /\ cachedChunks' = <<>> /\ played' = played
        /\ discarded' = discarded /\ ctxDone' = ctxDone /\ accepted' = accepted
        /\ cachedChunks \in Seq(Chunks)
    BY <1>0, <1>5 DEF ReleasesCache, AudioTypes
  <2>2. CASE ~ctxDone /\ outbox' = AudioPackets(cachedChunks) /\ lost' = lost
    <3>1. ChunksIn(outbox') = C /\ OutOrdered(outbox')
      BY <1>a, <2>1, <2>2, AudioPacketsProperties, AudioPacketsOrdered
    <3> QED
      BY <1>0, <1>a, <1>b, <1>q, <2>1, <2>2, <3>1 DEF Before
  <2>3. CASE ctxDone /\ outbox' = <<>> /\ lost' = lost \cup C
    BY <1>0, <1>a, <1>b, <1>q, <2>1, <2>3 DEF Before
  <2> QED
    BY <1>5, <2>2, <2>3, SendCache
<1>6. CASE DeliversPacket
  <2> DEFINE h == Head(outbox)
             T == ChunksIn(Tail(outbox))
  <2>1. /\ cachedChunks' = cachedChunks /\ discarded' = discarded
        /\ lost' = lost /\ ctxDone' = ctxDone /\ accepted' = accepted
        /\ isSuspended' = isSuspended /\ outbox' = Tail(outbox) /\ outbox # <<>>
        /\ outbox \in Seq(Packets) /\ played \in Seq(Chunks)
        /\ played' = IF h.event = "TTSOutput" THEN Append(played, h.chunk) ELSE played
    BY <1>6 DEF DeliversPacket, AudioTypes
  <2>2. /\ O = ({h.chunk} \ {0}) \cup T /\ h \in Packets
        /\ h = outbox[1] /\ 1 \in DOMAIN outbox
    BY <2>1, ChunksInHeadTail, LenProperties
  <2>3. /\ OutOrdered(Tail(outbox))
        /\ h.chunk # 0 => Before({h.chunk}, T)
    BY <1>a, <2>1, HeadFirst
  <2>4. CASE h.event = "TTSOutput" /\ h.chunk # 0
    <3>1. h.chunk \in Chunks /\ h.chunk \in O /\ O = {h.chunk} \cup T
      BY <2>2, <2>4 DEF Packets
    <3>2. played' = Append(played, h.chunk) /\ Elems(played') = P \cup {h.chunk}
      BY <2>1, <2>4, <3>1, ElemsAppend
    <3>3. \A x \in P : x < h.chunk
      BY <1>a, <3>1 DEF Before
    <3>4. Increasing(played')
      BY <1>a, <2>1, <3>1, <3>2, <3>3, IncreasingAppend
    <3>5. Before(P \cup {h.chunk}, T) /\ Before(P \cup {h.chunk}, C) /\ Before(T, C)
      BY <1>a, <2>3, <2>4, <3>1 DEF Before
    <3>6. (P \cup {h.chunk}) \cup T \cup C \cup discarded \cup lost = 1..accepted
          /\ discarded \cap ((P \cup {h.chunk}) \cup T \cup C) = {}
      BY <1>b, <3>1
    <3>7. cachedChunks = <<>>
      BY <1>a, <3>1 DEF CacheInv
    <3> QED
      BY <1>a, <1>b, <1>q, <2>1, <2>3, <3>2, <3>4, <3>5, <3>6, <3>7
  <2>5. CASE h.event # "TTSOutput" /\ h.chunk = 0
    BY <1>a, <1>b, <1>q, <2>1, <2>2, <2>3, <2>5 DEF Before, CacheInv
  <2>6. \/ h.event = "TTSOutput" /\ h.chunk # 0
        \/ h.event # "TTSOutput" /\ h.chunk = 0
    <3>1. CASE outbox \in Seq(ControlPackets)
      BY <2>2, <3>1, LenProperties, ElementOfSeq DEF ControlPackets
    <3>2. CASE IsAudio(outbox)
      BY <2>2, <3>2 DEF IsAudio
    <3> QED
      BY <3>1, <3>2 DEF OutboxShape
  <2> QED
    BY <2>4, <2>5, <2>6
<1>7. CASE AbandonsPackets
  <2>1. /\ played' = played /\ cachedChunks' = cachedChunks /\ outbox' = <<>>
        /\ discarded' = discarded /\ accepted' = accepted /\ ctxDone'
        /\ isSuspended' = isSuspended /\ lost' = lost \cup O
    BY <1>7 DEF AbandonsPackets
  <2> QED
    BY <1>0, <1>a, <1>b, <1>q, <2>1 DEF Before, CacheInv
<1>8. CASE KeepsAudio
  <2>1. /\ played' = played /\ cachedChunks' = cachedChunks /\ outbox' = outbox
        /\ discarded' = discarded /\ accepted' = accepted /\ lost' = lost
        /\ isSuspended' = isSuspended /\ (ctxDone => ctxDone')
    BY <1>8 DEF KeepsAudio
  <2> QED
    BY <1>a, <1>b, <1>q, <2>1 DEF CacheInv
<1> QED
  BY <1>1, <1>2, <1>3, <1>4, <1>5, <1>6, <1>7, <1>8, StepEffects

-----------------------------------------------------------------------------
(* The theorems.                                                           *)

IInv == TypeOK /\ OutboxShape /\ AudioInv /\ SuspensionHasEnd

\* The handler starts with nothing cached, nothing to send and no suspension.
LEMMA InitIInv == Init => IInv
<1> SUFFICES ASSUME Init PROVE IInv
  OBVIOUS
<1>0. <<>> \in Seq(ControlPackets) /\ <<>> \in Seq(Packets)
      /\ <<>> \in Seq(Chunks) /\ <<>> \in Seq(Timers) /\ Len(<<>>) = 0
  BY EmptySeq
<1>1. TypeOK
  <2>1. /\ ctxDone \in BOOLEAN /\ isSpeaking \in BOOLEAN
        /\ isSuspended \in BOOLEAN
    BY Zenon DEF Init
  <2> QED
    BY <1>0, <2>1 DEF Init, TypeOK
<1>2. OutboxShape
  BY <1>0 DEF Init, OutboxShape
<1>3. CacheInv
  BY EmptyFacts DEF Init, CacheInv
<1>4. AudioInOrder
  BY EmptyFacts, OrderWithSets DEF Init, Before
<1>5. AudioAccounted /\ DiscardedStaysSilent
  BY EmptyFacts DEF Init, AudioAccounted, DiscardedStaysSilent
<1>6. SuspensionHasEnd
  BY DEF Init, SuspensionHasEnd
<1> QED
  BY <1>1, <1>2, <1>3, <1>4, <1>5, <1>6 DEF IInv, AudioInv

\* Whatever ends a suspension is used up only by ending it.
LEMMA SuspensionHasEndStep ==
  ASSUME SuspensionHasEnd, Next PROVE SuspensionHasEnd'
<1> USE DEF SuspensionHasEnd, historyVars, timerVars
<1>1. CASE HandleSpeakingStarted \/ HandleSpeakingEnded \/ HandleOther
           \/ HandleResponseStarted \/ HandleAudio
  BY <1>1 DEF HandleSpeakingStarted, HandleSpeakingEnded, HandleOther,
              HandleResponseStarted, HandleAudio
<1>2. CASE HandleSuspected
  BY <1>2 DEF HandleSuspected, startConfirmTimer
<1>3. CASE HandleConfirmed \/ onFalsePositive
  BY <1>3 DEF HandleConfirmed, onFalsePositive
<1>4. CASE PacketAccepted \/ SendAbandoned
  BY <1>4 DEF PacketAccepted, SendAbandoned
<1>5. ASSUME NEW t \in Timers, TimerExpires(t) PROVE SuspensionHasEnd'
  BY <1>5 DEF TimerExpires
<1>6. ASSUME NEW t \in Timers, TimerSignals(t) PROVE SuspensionHasEnd'
  <2>1. resumeChan' # <<>>
    BY <1>6 DEF TimerSignals
  <2> QED
    BY <2>1
<1>7. CASE Cancel \/ Cleanup \/ EventLoopExits
  BY <1>7 DEF Cancel, Cleanup, EventLoopExits
<1> QED
  BY <1>1, <1>2, <1>3, <1>4, <1>5, <1>6, <1>7 DEF Next, HandleEvent

\* Every step of the handler, its timers and the runner preserves the invariant.
LEMMA NextIInv == ASSUME IInv, [Next]_vars PROVE IInv'
<1>1. CASE Next
  <2>1. ControlTypes' /\ AudioTypes' /\ OutboxShape'
    BY <1>1, ControlTypesStep, AudioTypesStep, TypeHalves DEF IInv
  <2>2. TypeOK'
    BY <2>1 DEF TypeOK, ControlTypes, AudioTypes
  <2>3. AudioInv'
    BY <1>1, AudioInvStep, TypeHalves DEF IInv
  <2>4. SuspensionHasEnd'
    BY <1>1, SuspensionHasEndStep DEF IInv
  <2> QED
    BY <2>1, <2>2, <2>3, <2>4 DEF IInv
<1>2. CASE UNCHANGED vars
  <2>0. TypeOK'
    BY <1>2 DEF IInv, TypeOK, vars
  <2>1. OutboxShape' /\ SuspensionHasEnd'
    BY <1>2 DEF IInv, OutboxShape, IsAudio, SuspensionHasEnd, vars
  <2>2. CacheInv'
    BY <1>2 DEF IInv, AudioInv, CacheInv, ChunksIn, vars
  <2>3. AudioInOrder'
    <3>1. /\ played' = played /\ cachedChunks' = cachedChunks
          /\ outbox' = outbox
      BY <1>2 DEF vars
    <3>2. AudioInOrder
      BY DEF IInv, AudioInv
    <3> QED
      BY <3>1, <3>2, OrderWithSets, OrderWithSetsPrimed, Zenon
  <2>4. AudioAccounted' /\ DiscardedStaysSilent'
    BY <1>2 DEF IInv, AudioInv, AudioAccounted, DiscardedStaysSilent, Elems,
                ChunksIn, vars
  <2> QED
    BY <2>0, <2>1, <2>2, <2>3, <2>4 DEF IInv, AudioInv
<1> QED
  BY <1>1, <1>2

\* The invariant holds in every reachable state.
LEMMA Invariant == Spec => []IInv
<1>1. IInv /\ [Next]_vars => IInv'
  BY NextIInv
<1> QED
  BY <1>1, InitIInv, PTL DEF Spec

\* The state of the handler is always well typed; in particular the timer
\* callbacks never overfill resumeChan.
THEOREM TypeCorrect == Spec => []TypeOK
BY Invariant, PTL DEF IInv

\* Every suspension of ActivityControlHandler has an end ahead of it.
THEOREM SuspensionHasEndHolds == Spec => []SuspensionHasEnd
BY Invariant, PTL DEF IInv

\* Audio leaves the handler in the order of synthesis, and no chunk twice.
THEOREM AudioInOrderHolds == Spec => []AudioInOrder
BY Invariant, PTL DEF IInv, AudioInv

\* No chunk disappears without an interruption, a new response or a shutdown.
THEOREM AudioAccountedHolds == Spec => []AudioAccounted
BY Invariant, PTL DEF IInv, AudioInv

\* Audio dropped by onInterruptionConfirmed or a new response stays silent.
THEOREM DiscardedStaysSilentHolds == Spec => []DiscardedStaysSilent
BY Invariant, PTL DEF IInv, AudioInv

-----------------------------------------------------------------------------
(* ActivityControl implements AudioGate.  Each of the eight effects a step *)
(* can have on the audio (StepEffects) is a step of the gate or leaves the *)
(* gate as it is.                                                          *)

\* The refinement mapping's value for pending.
pending == OutgoingChunks \o cachedChunks

\* Control packets on their way out carry nothing: pending is the cache.
LEMMA PendingIsCache ==
  ASSUME AudioTypes, ChunksIn(outbox) = {} PROVE pending = cachedChunks
<1>1. OutgoingChunks = <<>>
  BY Zenon DEF OutgoingChunks
<1> QED
  BY <1>1, ConcatEmptySeq DEF pending, AudioTypes

\* The same after a step.
LEMMA PendingIsCachePrimed ==
  ASSUME AudioTypes', ChunksIn(outbox') = {} PROVE pending' = cachedChunks'
<1>1. OutgoingChunks' = <<>>
  BY Zenon DEF OutgoingChunks, ChunksIn
<1> QED
  BY <1>1, ConcatEmptySeq DEF pending, AudioTypes

\* The chunks of a sequence of packets, one by one.
ChunkSeq(ps) == [i \in DOMAIN ps |-> ps[i].chunk]

\* A queue of audio packets gives a sequence of chunks of the same length.
LEMMA ChunkSeqOfAudio ==
  ASSUME NEW ps \in Seq(Packets), IsAudio(ps)
  PROVE  /\ ChunkSeq(ps) \in Seq(Chunks) /\ Len(ChunkSeq(ps)) = Len(ps)
         /\ \A i \in 1..Len(ps) : ChunkSeq(ps)[i] = ps[i].chunk
<1>1. DOMAIN ps = 1..Len(ps) /\ Len(ps) \in Nat /\ \A i \in DOMAIN ps : ps[i] \in Packets
  BY LenProperties, ElementOfSeq
<1>2. \A i \in DOMAIN ps : ps[i].chunk \in Chunks
  BY <1>1 DEF IsAudio, Packets
<1>3. ChunkSeq(ps) \in [1..Len(ps) -> Chunks]
  BY <1>1, <1>2 DEF ChunkSeq
<1>4. ChunkSeq(ps) \in Seq(Chunks)
  BY <1>1, <1>3, SeqDef
<1>5. DOMAIN ChunkSeq(ps) = 1..Len(ps)
        /\ \A i \in 1..Len(ps) : ChunkSeq(ps)[i] = ps[i].chunk
  BY <1>1 DEF ChunkSeq
<1>6. Len(ChunkSeq(ps)) = Len(ps)
  BY <1>1, <1>4, <1>5, LenProperties
<1> QED
  BY <1>4, <1>5, <1>6

\* Audio on its way out, with nothing cached, is all that is pending.
LEMMA PendingIsOutbox ==
  ASSUME AudioTypes, IsAudio(outbox), cachedChunks = <<>>
  PROVE  pending = ChunkSeq(outbox)
<1>1. ChunkSeq(outbox) \in Seq(Chunks) /\ Len(ChunkSeq(outbox)) = Len(outbox)
  BY ChunkSeqOfAudio DEF AudioTypes
<1>2. CASE ChunksIn(outbox) = {}
  <2>1. DOMAIN outbox = {}
    <3>1. \A i \in DOMAIN outbox : outbox[i].chunk \in ChunksIn(outbox)
      BY Zenon DEF ChunksIn, IsAudio
    <3> QED
      BY <1>2, <3>1
  <2>2. outbox = <<>>
    <3>1. Len(outbox) = 0
      BY <2>1, LenProperties DEF AudioTypes
    <3> QED
      BY <3>1, EmptySeq DEF AudioTypes
  <2>3. ChunkSeq(outbox) = <<>>
    BY <1>1, <2>2, EmptySeq
  <2> QED
    BY <1>2, <2>3, PendingIsCache
<1>3. CASE ChunksIn(outbox) # {}
  BY <1>1, <1>3, ConcatEmptySeq DEF OutgoingChunks, ChunkSeq, pending
<1> QED
  BY <1>2, <1>3

\* The same after a step.
LEMMA PendingIsOutboxPrimed ==
  ASSUME AudioTypes', IsAudio(outbox'), cachedChunks' = <<>>
  PROVE  pending' = ChunkSeq(outbox')
<1>1. ChunkSeq(outbox') \in Seq(Chunks) /\ Len(ChunkSeq(outbox')) = Len(outbox')
  BY ChunkSeqOfAudio DEF AudioTypes
<1>2. CASE ChunksIn(outbox') = {}
  <2>1. DOMAIN outbox' = {}
    <3>1. \A i \in DOMAIN outbox' : outbox'[i].chunk \in ChunksIn(outbox')
      BY Zenon DEF ChunksIn, IsAudio
    <3> QED
      BY <1>2, <3>1
  <2>2. outbox' = <<>>
    <3>1. Len(outbox') = 0
      BY <2>1, LenProperties DEF AudioTypes
    <3> QED
      BY <3>1, EmptySeq DEF AudioTypes
  <2>3. ChunkSeq(outbox') = <<>>
    BY <1>1, <2>2, EmptySeq
  <2> QED
    BY <1>2, <2>3, PendingIsCachePrimed
<1>3. CASE ChunksIn(outbox') # {}
  BY <1>1, <1>3, ConcatEmptySeq DEF OutgoingChunks, ChunkSeq, pending, ChunksIn
<1> QED
  BY <1>2, <1>3

\* The chunks of packets made from chunks are those chunks.
\* A queue of audio packets gives a sequence of chunks of the same length.
LEMMA ChunkSeqOfAudioPackets ==
  ASSUME NEW cs \in Seq(Chunks)
  PROVE  ChunkSeq(AudioPackets(cs)) = cs
<1>0. \A c : Audio(c).chunk = c
  BY DEF Audio
<1>1. /\ DOMAIN AudioPackets(cs) = DOMAIN cs
      /\ \A i \in DOMAIN cs : AudioPackets(cs)[i].chunk = cs[i]
  <2>1. /\ DOMAIN AudioPackets(cs) = DOMAIN cs
        /\ \A i \in DOMAIN cs : AudioPackets(cs)[i] = Audio(cs[i])
    BY AudioPacketsProperties
  <2> QED
    BY <1>0, <2>1, Zenon
<1>2. cs = [i \in DOMAIN cs |-> cs[i]]
  BY LenProperties
<1> QED
  BY <1>1, <1>2 DEF ChunkSeq

-----------------------------------------------------------------------------
\* Every step of the handler is a step of the gate or leaves it alone.
LEMMA GateStep ==
  ASSUME IInv, Next, IInv'
  PROVE  \/ Gate!GateNext
         \/ UNCHANGED <<accepted, pending, played, ctxDone>>
<1> USE DEF Gate!GateNext
<1>0. /\ AudioTypes /\ AudioTypes' /\ OutboxShape /\ CacheInv
      /\ ChunksIn(<<>>) = {}
  BY TypeHalves, EmptyFacts DEF IInv, AudioInv, TypeOK, AudioTypes
<1>1. CASE ForwardsControl
  <2>1. ChunksIn(outbox) = {} /\ ChunksIn(outbox') = {}
    BY <1>0, <1>1, NoChunksInControl DEF ForwardsControl
  <2> QED
    BY <1>0, <1>1, <2>1, PendingIsCache, PendingIsCachePrimed DEF ForwardsControl
<1>2. CASE DropsCache
  <2>1. ChunksIn(outbox) = {} /\ ChunksIn(outbox') = {}
    BY <1>0, <1>2, NoChunksInControl DEF DropsCache
  <2>2. pending = cachedChunks /\ pending' = <<>>
    BY <1>0, <1>2, <2>1, PendingIsCache, PendingIsCachePrimed DEF DropsCache
  <2> QED
    BY <1>2, <2>2 DEF DropsCache, Gate!Discard, pending
<1>3. CASE CachesChunk
  <2>1. ChunksIn(outbox) = {} /\ ChunksIn(outbox') = {}
    BY <1>0, <1>3 DEF CachesChunk
  <2>2. pending = cachedChunks /\ pending' = Append(cachedChunks, accepted + 1)
    BY <1>0, <1>3, <2>1, PendingIsCache, PendingIsCachePrimed DEF CachesChunk
  <2> QED
    BY <1>3, <2>2 DEF CachesChunk, Gate!Accept, pending
<1>4. CASE SendsChunk
  <2>1. /\ cachedChunks = <<>> /\ cachedChunks' = <<>> /\ ChunksIn(outbox) = {}
        /\ accepted + 1 \in Chunks /\ <<accepted + 1>> \in Seq(Chunks)
    BY <1>0, <1>4 DEF SendsChunk, CacheInv, AudioTypes
  <2>2. pending = <<>>
    BY <1>0, <2>1, PendingIsCache
  <2>3. CASE ~ctxDone /\ outbox' = AudioPackets(<<accepted + 1>>)
    <3>1. pending' = ChunkSeq(AudioPackets(<<accepted + 1>>))
      BY <1>0, <2>1, <2>3, AudioPacketsShape, PendingIsOutboxPrimed
    <3>2. pending' = Append(pending, accepted + 1)
      <4>1. pending' = <<accepted + 1>>
        BY <2>1, <3>1, ChunkSeqOfAudioPackets, Zenon
      <4>2. Append(<<>>, accepted + 1) = <<accepted + 1>>
        OBVIOUS
      <4> QED
        BY <2>2, <4>1, <4>2
    <3> QED
      BY <1>4, <3>2 DEF SendsChunk, Gate!Accept, pending
  <2>4. CASE ctxDone /\ outbox' = <<>>
    <3>1. pending' = <<>>
      BY <1>0, <2>1, <2>4, PendingIsCachePrimed
    <3> QED
      BY <1>4, <2>2, <2>4, <3>1 DEF SendsChunk, Gate!Refuse, pending
  <2> QED
    BY <1>0, <1>4, <2>3, <2>4, SendNewChunk
<1>5. CASE ReleasesCache
  <2>1. /\ cachedChunks \in Seq(Chunks) /\ cachedChunks' = <<>>
        /\ ChunksIn(outbox) = {}
    BY <1>0, <1>5 DEF ReleasesCache, AudioTypes
  <2>2. pending = cachedChunks
    BY <1>0, <2>1, PendingIsCache
  <2>3. CASE ~ctxDone /\ outbox' = AudioPackets(cachedChunks)
    <3>1. pending' = pending
      BY <1>0, <2>1, <2>2, <2>3, AudioPacketsShape, PendingIsOutboxPrimed,
         ChunkSeqOfAudioPackets
    <3> QED
      BY <1>5, <3>1 DEF ReleasesCache
  <2>4. CASE ctxDone /\ outbox' = <<>>
    <3>1. pending' = <<>>
      BY <1>0, <2>1, <2>4, PendingIsCachePrimed
    <3> QED
      BY <1>5, <2>2, <2>4, <3>1 DEF ReleasesCache, Gate!Discard, pending
  <2> QED
    BY <1>0, <1>5, <2>3, <2>4, SendCache
<1>6. CASE DeliversPacket
  <2>1. /\ outbox \in Seq(Packets) /\ outbox # <<>> /\ outbox' = Tail(outbox)
        /\ cachedChunks' = cachedChunks /\ ~ctxDone /\ ctxDone' = ctxDone
        /\ accepted' = accepted
    BY <1>0, <1>6 DEF DeliversPacket, AudioTypes
  <2>2. /\ Head(outbox) = outbox[1] /\ 1 \in DOMAIN outbox
        /\ DOMAIN outbox = 1..Len(outbox) /\ Len(outbox) \in Nat \ {0}
        /\ Tail(outbox) \in Seq(Packets) /\ Len(Tail(outbox)) = Len(outbox) - 1
        /\ \A i \in DOMAIN Tail(outbox) :
              i + 1 \in DOMAIN outbox /\ Tail(outbox)[i] = outbox[i + 1]
    BY <2>1, ChunksInHeadTail, LenProperties
  <2>3. CASE outbox \in Seq(ControlPackets)
    <3>1. /\ ChunksIn(outbox) = {} /\ ChunksIn(outbox') = {}
          /\ Head(outbox).event # "TTSOutput"
      <4>1. Tail(outbox) \in Seq(ControlPackets) /\ Head(outbox) \in ControlPackets
        BY <2>1, <2>3, HeadTailProperties
      <4> QED
        BY <2>1, <2>3, <4>1, NoChunksInControl DEF ControlPackets
    <3> QED
      BY <1>0, <1>6, <2>1, <3>1, PendingIsCache, PendingIsCachePrimed
      DEF DeliversPacket
  <2>4. CASE IsAudio(outbox)
    <3>1. Head(outbox).event = "TTSOutput" /\ Head(outbox).chunk # 0
      BY <2>2, <2>4 DEF IsAudio
    <3>2. cachedChunks = <<>>
      <4>1. Head(outbox).chunk \in ChunksIn(outbox)
        BY <2>1, <3>1, ChunksInHeadTail
      <4> QED
        BY <1>0, <4>1 DEF CacheInv
    <3>3. IsAudio(Tail(outbox))
      BY <2>2, <2>4 DEF IsAudio
    <3>4. pending = ChunkSeq(outbox) /\ pending' = ChunkSeq(Tail(outbox))
      BY <1>0, <2>1, <2>4, <3>2, <3>3, PendingIsOutbox, PendingIsOutboxPrimed
    <3>5. /\ ChunkSeq(outbox) \in Seq(Chunks) /\ Len(ChunkSeq(outbox)) = Len(outbox)
          /\ \A i \in 1..Len(outbox) : ChunkSeq(outbox)[i] = outbox[i].chunk
          /\ ChunkSeq(Tail(outbox)) \in Seq(Chunks)
          /\ Len(ChunkSeq(Tail(outbox))) = Len(outbox) - 1
          /\ \A i \in 1..(Len(outbox) - 1) :
                ChunkSeq(Tail(outbox))[i] = Tail(outbox)[i].chunk
      BY <2>1, <2>2, <2>4, <3>3, ChunkSeqOfAudio
    <3>6. pending # <<>> /\ Head(pending) = Head(outbox).chunk
      BY <2>2, <3>4, <3>5, EmptySeq
    <3>7. /\ Tail(pending) \in Seq(Chunks) /\ Len(Tail(pending)) = Len(outbox) - 1
          /\ \A i \in 1..(Len(outbox) - 1) : Tail(pending)[i] = outbox[i + 1].chunk
      <4>1. /\ Tail(pending) \in Seq(Chunks)
            /\ Len(Tail(pending)) = Len(pending) - 1
            /\ \A i \in 1..Len(Tail(pending)) : Tail(pending)[i] = pending[i + 1]
        BY <3>4, <3>5, <3>6, HeadTailProperties
      <4>2. \A i \in 1..(Len(outbox) - 1) : i + 1 \in 1..Len(outbox)
        BY <2>2
      <4> QED
        BY <3>4, <3>5, <4>1, <4>2
    <3>8. pending' = Tail(pending)
      <4>1. DOMAIN Tail(outbox) = 1..(Len(outbox) - 1)
        BY <2>2, LenProperties
      <4>2. \A i \in 1..(Len(outbox) - 1) : Tail(pending)[i] = ChunkSeq(Tail(outbox))[i]
        BY <2>2, <3>5, <3>7, <4>1
      <4>3. ChunkSeq(Tail(outbox)) = Tail(pending)
        BY <3>5, <3>7, <4>2, SeqEqual
      <4> QED
        BY <3>4, <4>3
    <3> QED
      BY <1>6, <2>1, <3>1, <3>6, <3>8 DEF DeliversPacket, Gate!Play, pending
  <2> QED
    BY <1>0, <2>3, <2>4 DEF OutboxShape
<1>7. CASE AbandonsPackets
  <2>1. outbox' = <<>> /\ cachedChunks' = cachedChunks /\ pending' = cachedChunks
    BY <1>0, <1>7, PendingIsCachePrimed DEF AbandonsPackets
  <2>2. CASE ChunksIn(outbox) = {}
    BY <1>0, <1>7, <2>1, <2>2, PendingIsCache DEF AbandonsPackets
  <2>3. CASE ChunksIn(outbox) # {}
    <3>1. cachedChunks = <<>>
      BY <1>0, <2>3 DEF CacheInv
    <3> QED
      BY <1>7, <2>1, <3>1 DEF AbandonsPackets, Gate!Discard, pending
  <2> QED
    BY <2>2, <2>3
<1>8. CASE KeepsAudio
  <2>1. pending' = pending
    BY <1>8 DEF KeepsAudio, pending, OutgoingChunks, ChunksIn
  <2>2. ctxDone \in BOOLEAN /\ ctxDone' \in BOOLEAN
    BY DEF IInv, TypeOK
  <2>3. CASE ctxDone' = ctxDone
    BY <1>8, <2>1, <2>3 DEF KeepsAudio
  <2>4. CASE ctxDone' # ctxDone
    <3>1. ~ctxDone /\ ctxDone'
      BY <1>8, <2>2, <2>4 DEF KeepsAudio
    <3> QED
      BY <1>8, <2>1, <3>1 DEF KeepsAudio, Gate!Close, pending
  <2> QED
    BY <2>3, <2>4
<1> QED
  BY <1>1, <1>2, <1>3, <1>4, <1>5, <1>6, <1>7, <1>8, StepEffects

\* The handler implements the gate: for any number of chunks, suspensions and
\* spurious or late timers the rest of the pipeline sees an AudioGate.
THEOREM Refinement == Spec => ImplementsAudioGate
<1>1. Init => Gate!GateInit
  <2> SUFFICES ASSUME Init PROVE Gate!GateInit
    OBVIOUS
  <2>1. AudioTypes /\ ChunksIn(outbox) = {}
    BY InitIInv, TypeHalves, EmptyFacts DEF Init, IInv
  <2>2. pending = <<>>
    BY <2>1, PendingIsCache DEF Init
  <2> QED
    BY <2>2 DEF Init, Gate!GateInit, pending
<1>2. IInv /\ IInv' /\ [Next]_vars => [Gate!GateNext]_(Gate!gateVars)
  <2> SUFFICES ASSUME IInv, IInv', [Next]_vars
               PROVE  Gate!GateNext \/ UNCHANGED Gate!gateVars
    BY DEF Gate!gateVars
  <2>1. CASE Next
    <3>1. CASE UNCHANGED <<accepted, pending, played, ctxDone>>
      BY <3>1 DEF Gate!gateVars, pending
    <3> QED
      BY <2>1, <3>1, GateStep
  <2>2. CASE UNCHANGED vars
    BY <2>2 DEF vars, Gate!gateVars, OutgoingChunks, ChunksIn
  <2> QED
    BY <2>1, <2>2
<1> QED
  BY <1>1, <1>2, Invariant, PTL DEF Spec, ImplementsAudioGate, Gate!GateSpec
=============================================================================
