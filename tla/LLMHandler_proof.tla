-------------------------- MODULE LLMHandler_proof --------------------------
(***************************************************************************)
(* Proofs about the two modules of handlers/llm: LLMHandler, for every     *)
(* capacity of messageOutChan and any number of responses and of chunks in *)
(* a stream, and FillerState, for any number of requests, utterances and   *)
(* generations.                                                            *)
(***************************************************************************)
EXTENDS LLMHandler, FillerState, SequenceTheorems, TLAPS

-----------------------------------------------------------------------------
(* The inductive invariant of LLMHandler.                                  *)

GenStates ==
  {"none", "waiting", "resetting", "resettingFiller", "filler", "run",
   "opening", "creating", "streaming", "chunk", "tool", "ending", "done", "lost"}

\* The types of everything but the packet.
Types ==
  /\ ctxDone \in BOOLEAN /\ initialized \in BOOLEAN /\ live \in BOOLEAN
  /\ handle \in {"select", "started"} /\ discarding \in BOOLEAN
  /\ generations \in 0..MaxGenerations
  /\ gen \in [Generations -> GenStates]
  /\ genCtx \in [Generations -> {"none", "live", "cancelled"}]
  /\ items \in [Generations -> 0..MaxItems]
  /\ messages \in Seq(Chunks) /\ Len(messages) <= MessageCapacity
  /\ startSignal \in BOOLEAN /\ endSignal \in BOOLEAN
  /\ relay \in {"select", "sending", "exited"}
  /\ fullText \in Seq(Chunks)
  /\ forwarded \in [Generations -> 0..MaxItems]
  /\ interrupted \in BOOLEAN /\ open \in BOOLEAN
  /\ awaiting \subseteq Generations
  /\ since \subseteq Chunks \cup {FillerChunk(g) : g \in Generations}

IsChunkPacket(p) == \E c \in Chunks : p = ChunkPacket(c)
IsPacket(p) ==
  \/ p = NoPacket \/ p = ToolPacket
  \/ IsChunkPacket(p)
  \/ \E t \in Seq(Chunks) : p = CompletedPacket(t)

\* The packet in the hands of eventLoop.
PacketInv == IsPacket(packet) /\ (relay # "sending" => packet = NoPacket)

\* There is room for a generation that was announced and for an item that was
\* received.
BoundInv ==
  /\ handle = "started" => generations < MaxGenerations
  /\ \A g \in Generations : gen[g] \in {"chunk", "tool"} => items[g] < MaxItems

\* The chunks in the channel are newer than what was delivered, of those of one
\* stream an older one comes first, and eventLoop holds one that is older still.
OrderInv ==
  /\ \A g \in Generations : forwarded[g] <= items[g]
  /\ \A i \in DOMAIN messages :
       /\ forwarded[messages[i][1]] < messages[i][2]
       /\ messages[i][2] <= items[messages[i][1]]
  /\ \A i, j \in DOMAIN messages :
       i < j /\ messages[i][1] = messages[j][1] => messages[i][2] < messages[j][2]
  /\ \A c \in Chunks : packet = ChunkPacket(c) =>
       /\ forwarded[c[1]] < c[2] /\ c[2] <= items[c[1]]
       /\ \A i \in DOMAIN messages : messages[i][1] = c[1] => c[2] < messages[i][2]

\* A generation that may still send a filler.
MayFill(g) == gen[g] \in {"waiting", "resettingFiller", "filler"}

\* Since an interruption, which sets discarding, one chunk of a stream was
\* delivered, and then none is on its way; the fillers that were, and those
\* that still may be, are of generations that had yet to send theirs.
QuietInv ==
  /\ interrupted => discarding /\ handle = "select"
  /\ ~interrupted => since = {}
  /\ \/ since \cap Chunks = {}
     \/ (\E c \in Chunks : since \cap Chunks = {c}) /\ ~IsChunkPacket(packet)
  /\ \A g \in Generations : FillerChunk(g) \in since => g \in awaiting
  /\ interrupted => \A g \in Generations : MayFill(g) => g \in awaiting

IInv == Types /\ PacketInv /\ BoundInv /\ OrderInv /\ QuietInv

-----------------------------------------------------------------------------
(* Packets and chunks.                                                     *)

\* The kinds of packet are told apart by their event.
LEMMA PacketKinds ==
  /\ NoPacket.event = "none"
  /\ ToolPacket.event = "LLMToolInvocationRequested"
  /\ \A c : /\ ChunkPacket(c).event = "LLMResponseChunk"
            /\ ChunkPacket(c).chunk = c
  /\ \A t : /\ CompletedPacket(t).event = "LLMResponseCompleted"
            /\ CompletedPacket(t).FullText = t
BY DEF NoPacket, ToolPacket, ChunkPacket, CompletedPacket

\* A packet of the chunk event carries a chunk, the others are none.
LEMMA ChunkEvent ==
  ASSUME NEW p, IsPacket(p)
  PROVE  /\ p.event = "LLMResponseChunk" =>
              p.chunk \in Chunks /\ p = ChunkPacket(p.chunk)
         /\ p.event # "LLMResponseChunk" => ~IsChunkPacket(p)
         /\ p.event = "LLMResponseCompleted" =>
              p.FullText \in Seq(Chunks) /\ p = CompletedPacket(p.FullText)
BY PacketKinds DEF IsPacket, IsChunkPacket

\* Only the packet of a chunk is the packet of that chunk.
LEMMA NotChunk ==
  /\ ~IsChunkPacket(NoPacket) /\ ~IsChunkPacket(ToolPacket)
  /\ \A t : ~IsChunkPacket(CompletedPacket(t))
  /\ \A c, d : ChunkPacket(c) = ChunkPacket(d) => c = d
<1>1. "none" # "LLMResponseChunk" /\ "LLMToolInvocationRequested" # "LLMResponseChunk"
      /\ "LLMResponseCompleted" # "LLMResponseChunk"
  OBVIOUS
<1> QED
  BY <1>1, PacketKinds DEF IsChunkPacket

\* A chunk names its generation and its place in the stream.
LEMMA ChunkParts ==
  ASSUME NEW c \in Chunks
  PROVE  c[1] \in Generations /\ c[2] \in 1..MaxItems /\ c[1] \in Nat /\ c[2] \in Nat
BY LLMHandlerAssumption DEF Chunks, Generations

\* What the invariant says of types is what TypeOK says.
LEMMA TypesSuffice == Types /\ PacketInv => TypeOK
<1> SUFFICES ASSUME Types, PacketInv PROVE TypeOK
  OBVIOUS
<1>1. \/ packet \in {NoPacket, ToolPacket} \cup {ChunkPacket(c) : c \in Chunks}
      \/ packet = CompletedPacket(packet.FullText) /\ packet.FullText \in Seq(Chunks)
  BY PacketKinds DEF PacketInv, IsPacket, IsChunkPacket
<1> QED
  BY <1>1 DEF Types, TypeOK, GenStates

-----------------------------------------------------------------------------
(* Types.                                                                  *)

\* The context of a stream stays one of the three when streams are cancelled.
LEMMA CancelTypes ==
  ASSUME Types, CancelStreams
  PROVE  genCtx' \in [Generations -> {"none", "live", "cancelled"}]
BY DEF Types, CancelStreams

\* A filler is not a chunk of a stream, and names its generation.
LEMMA FillerParts ==
  ASSUME NEW g \in Generations
  PROVE  /\ FillerChunk(g) \notin Chunks
         /\ \A h \in Generations : FillerChunk(h) = FillerChunk(g) => h = g
<1>1. FillerChunk(g)[1] = g /\ FillerChunk(g)[2] = 0
  BY DEF FillerChunk
<1>2. \A h \in Generations : FillerChunk(h)[1] = h
  BY DEF FillerChunk
<1>3. \A c \in Chunks : c[2] # 0
  BY ChunkParts
<1> QED
  BY <1>1, <1>2, <1>3

\* Service.Reset moves the generations as it is told, and may end completions.
LEMMA ResetGens ==
  ASSUME NEW next \in [Generations -> GenStates], Reset(next)
  PROVE  /\ gen' \in [Generations -> GenStates]
         /\ \A g \in Generations : gen'[g] = next[g] \/ gen'[g] = "done"
<1>1. "done" \in GenStates
  BY DEF GenStates
<1>2. PICK cut \in SUBSET {g \in Generations : initialized /\ gen[g] = "run"} :
        gen' = [g \in Generations |-> IF g \in cut THEN "done" ELSE next[g]]
  BY DEF Reset
<1> QED
  BY <1>1, <1>2

\* The history of an interruption names generations.
LEMMA InterruptTypes ==
  ASSUME Types, Interrupt
  PROVE  interrupted' \in BOOLEAN /\ awaiting' \subseteq Generations
BY DEF Types, Interrupt

\* A step of HandleEvent or of the runner keeps the types.
LEMMA EventTypes ==
  ASSUME Types, BoundInv,
         \/ HandleGenerate \/ HandleSuspected \/ HandleConfirmed
         \/ SpawnGeneration \/ Cancel \/ Cleanup
  PROVE  Types'
<1> USE DEF serviceVars, eventVars, streamVars, channelVars, relayVars, historyVars
<1>1. CASE HandleGenerate
  BY <1>1 DEF HandleGenerate, Types
<1>2. CASE HandleSuspected
  BY <1>2, InterruptTypes DEF HandleSuspected, Types
<1>3. CASE HandleConfirmed
  <2>1. gen' \in [Generations -> GenStates]
    BY <1>3, ResetGens DEF HandleConfirmed, Types
  <2> QED
    BY <1>3, <2>1, CancelTypes, InterruptTypes DEF HandleConfirmed, Reset, Types
<1>4. CASE SpawnGeneration
  <2>1. generations' \in 0..MaxGenerations /\ generations + 1 \in Generations
    BY <1>4, LLMHandlerAssumption DEF SpawnGeneration, BoundInv, Types, Generations
  <2>2. gen' \in [Generations -> GenStates]
    BY <1>4, <2>1 DEF SpawnGeneration, Types, GenStates
  <2>3. open' \in BOOLEAN
    BY <1>4 DEF SpawnGeneration
  <2> QED
    BY <1>4, <2>1, <2>2, <2>3 DEF SpawnGeneration, Types
<1>5. CASE Cancel
  BY <1>5 DEF Cancel, Types
<1>6. CASE Cleanup
  BY <1>6, CancelTypes DEF Cleanup, Types
<1> QED
  BY <1>1, <1>2, <1>3, <1>4, <1>5, <1>6

\* A generation moves to a place that it has.
LEMMA GotoTypes ==
  ASSUME Types, NEW g \in Generations, NEW s \in GenStates, Goto(g, s)
  PROVE  gen' \in [Generations -> GenStates]
BY DEF Types, Goto

\* A step that only moves a generation keeps the types.
LEMMA GoesTypes ==
  ASSUME Types, NEW g \in Generations, NEW s \in GenStates, NEW t, Goes(g, t, s)
  PROVE  Types'
BY DEF Types, Goes, otherVars, serviceVars, eventVars, streamVars, channelVars,
       relayVars, historyVars

\* A step of a generation keeps the types.
LEMMA GenerationTypes ==
  ASSUME Types, BoundInv, NEW g \in Generations, GenerationStep(g)
  PROVE  Types'
<1> USE DEF serviceVars, eventVars, streamVars, channelVars, relayVars, historyVars
<1>0. {"resetting", "resettingFiller", "filler", "run", "opening", "creating",
       "streaming", "chunk", "tool", "ending", "done", "lost"} \subseteq GenStates
  BY DEF GenStates
<1>1. CASE \E s \in GenStates, t \in GenStates : Goes(g, t, s)
  BY <1>1, GoesTypes
<1>2. CASE GenerationResets(g)
  <2>1. PICK t \in {"run", "filler"} : Reset([gen EXCEPT ![g] = t])
    BY <1>2 DEF GenerationResets
  <2>2. [gen EXCEPT ![g] = t] \in [Generations -> GenStates]
    BY <1>0 DEF Types
  <2>3. gen' \in [Generations -> GenStates]
    BY <2>1, <2>2, ResetGens
  <2> QED
    BY <1>2, <2>1, <2>3, CancelTypes DEF GenerationResets, Reset, Types
<1>3. CASE RunCompletion(g) /\ startSignal' = TRUE /\ Goto(g, "opening")
           /\ UNCHANGED <<serviceVars, eventVars, streamVars, messages, endSignal,
                          relayVars, historyVars>>
  <2>1. gen' \in [Generations -> GenStates]
    BY <1>0, <1>3, GotoTypes
  <2> QED
    BY <1>3, <2>1 DEF Types
<1>4. CASE CaptureContext(g) /\ Goto(g, "creating")
           /\ genCtx' = [genCtx EXCEPT ![g] = "live"]
           /\ UNCHANGED <<serviceVars, eventVars, generations, items, channelVars,
                          relayVars, historyVars>>
  <2>1. gen' \in [Generations -> GenStates]
    BY <1>0, <1>4, GotoTypes
  <2>2. genCtx' \in [Generations -> {"none", "live", "cancelled"}]
    BY <1>4 DEF Types
  <2> QED
    BY <1>4, <2>1, <2>2 DEF Types
<1>5. CASE SendChunk(g)
  <2>1. gen' \in [Generations -> GenStates]
    BY <1>0, <1>5, GotoTypes DEF SendChunk
  <2>2. items[g] \in 0..MaxItems /\ items[g] < MaxItems /\ items[g] + 1 \in 1..MaxItems
    BY <1>5, LLMHandlerAssumption DEF SendChunk, At, BoundInv, Types
  <2>3. items' \in [Generations -> 0..MaxItems]
    BY <1>5, <2>2, LLMHandlerAssumption DEF SendChunk, Types
  <2>4. <<g, items[g] + 1>> \in Chunks
    BY <2>2 DEF Chunks
  <2>5. messages' \in Seq(Chunks) /\ Len(messages') = Len(messages) + 1
    BY <1>5, <2>4, AppendProperties DEF SendChunk, Types
  <2>6. Len(messages') <= MessageCapacity
    BY <1>5, <2>5, LenProperties, LLMHandlerAssumption DEF SendChunk, Types
  <2> QED
    BY <1>5, <2>1, <2>3, <2>5, <2>6 DEF SendChunk, Types
<1>6. CASE CompletionEnds(g)
  <2>1. gen' \in [Generations -> GenStates]
    BY <1>0, <1>6, GotoTypes DEF CompletionEnds
  <2> QED
    BY <1>6, <2>1 DEF CompletionEnds, Types
<1>7. CASE FillerSent(g)
  <2>1. gen' \in [Generations -> GenStates]
    BY <1>0, <1>7, GotoTypes DEF FillerSent
  <2>2. since' \subseteq since \cup {FillerChunk(g)}
    BY <1>7 DEF FillerSent, Delivered
  <2>3. since' \subseteq Chunks \cup {FillerChunk(h) : h \in Generations}
    BY <2>2 DEF Types
  <2> QED
    BY <1>7, <2>1, <2>3 DEF FillerSent, Types
<1> QED
  BY <1>0, <1>1, <1>2, <1>3, <1>4, <1>5, <1>6, <1>7
     DEF GenerationStep, WaitForFiller, RunCompletion, CaptureContext,
         CreateStream, Recv, AbandonItem, GenStates

\* What the select of eventLoop hands to SendPacket.
LEMMA RelaysPackets ==
  ASSUME PacketInv, relay = "select", NEW p, IsPacket(p), Relays(p)
  PROVE  /\ relay' \in {"select", "sending"} /\ PacketInv'
         /\ discarding => packet' = packet
         /\ ~discarding => packet' = p
BY DEF PacketInv, Relays

\* The oldest message, with the rest of them.
LEMMA HeadAndRest ==
  ASSUME NEW s \in Seq(Chunks), s # <<>>
  PROVE  /\ Len(s) \in Nat /\ Len(s) > 0 /\ 1 \in DOMAIN s
         /\ Head(s) \in Chunks /\ Head(s) = s[1]
         /\ Tail(s) \in Seq(Chunks) /\ Len(Tail(s)) = Len(s) - 1
         /\ DOMAIN Tail(s) = 1..(Len(s) - 1)
         /\ \A i \in DOMAIN Tail(s) : i \in Nat /\ i + 1 \in DOMAIN s
              /\ Tail(s)[i] = s[i + 1]
<1>1. Len(s) \in Nat /\ DOMAIN s = 1..Len(s) /\ Len(s) # 0
  BY LenProperties, EmptySeq
<1>2. Head(s) \in Chunks /\ Tail(s) \in Seq(Chunks) /\ Len(Tail(s)) = Len(s) - 1
      /\ \A i \in 1..Len(Tail(s)) : Tail(s)[i] = s[i + 1]
  BY HeadTailProperties
<1>3. DOMAIN Tail(s) = 1..(Len(s) - 1)
  BY <1>2, LenProperties
<1> QED
  BY <1>1, <1>2, <1>3

\* A step of eventLoop keeps the types.
LEMMA RelayTypes ==
  ASSUME Types, BoundInv, PacketInv, RelayStep
  PROVE  Types'
<1> USE DEF serviceVars, eventVars, streamVars, channelVars, relayVars, historyVars
<1>1. CASE RelayMessage
  <2>1. Head(messages) \in Chunks /\ Tail(messages) \in Seq(Chunks)
        /\ Len(Tail(messages)) = Len(messages) - 1 /\ Len(messages) \in Nat
    BY <1>1, HeadAndRest DEF RelayMessage, Types
  <2>2. messages' \in Seq(Chunks) /\ Len(messages') <= MessageCapacity
    BY <1>1, <2>1, LLMHandlerAssumption DEF RelayMessage, Types
  <2>3. fullText' \in Seq(Chunks)
    BY <1>1, <2>1, AppendProperties DEF RelayMessage, Types
  <2>4. relay' \in {"select", "sending", "exited"}
    BY <1>1 DEF RelayMessage, Relays, AtSelect
  <2> QED
    BY <1>1, <2>2, <2>3, <2>4 DEF RelayMessage, Types
<1>2. CASE RelayStart
  <2>1. fullText' \in Seq(Chunks)
    BY <1>2, EmptySeq DEF RelayStart, Types
  <2> QED
    BY <1>2, <2>1 DEF RelayStart, Types
<1>3. CASE RelayEnd
  <2>1. fullText' \in Seq(Chunks)
    BY <1>3, EmptySeq DEF RelayEnd, Types
  <2>2. relay' \in {"select", "sending", "exited"}
    BY <1>3 DEF RelayEnd, Relays, AtSelect
  <2> QED
    BY <1>3, <2>1, <2>2 DEF RelayEnd, Types
<1>4. CASE ItemSent
  <2>1. /\ forwarded' \in [Generations -> 0..MaxItems]
        /\ since' \subseteq Chunks \cup {FillerChunk(g) : g \in Generations}
    <3>1. CASE packet.event = "LLMResponseChunk" /\ ~ctxDone
      <4>1. packet.chunk \in Chunks
        BY <3>1, ChunkEvent DEF PacketInv
      <4>2. packet.chunk[1] \in Generations /\ packet.chunk[2] \in 0..MaxItems
        BY <4>1, ChunkParts
      <4>3. forwarded' = [forwarded EXCEPT ![packet.chunk[1]] = packet.chunk[2]]
            /\ since' \subseteq since \cup {packet.chunk}
        BY <1>4, <3>1 DEF ItemSent, Delivered
      <4> QED
        BY <4>1, <4>2, <4>3 DEF Types
    <3>2. CASE ~(packet.event = "LLMResponseChunk" /\ ~ctxDone)
      BY <1>4, <3>2 DEF ItemSent, Types
    <3> QED
      BY <3>1, <3>2
  <2> QED
    BY <1>4, <2>1 DEF ItemSent, Types
<1>5. CASE CompletionSent
  <2>1. open' \in BOOLEAN
    BY <1>5 DEF CompletionSent
  <2> QED
    BY <1>5, <2>1 DEF CompletionSent, Types
<1>6. CASE EventLoopExits
  BY <1>6 DEF EventLoopExits, Types
<1>7. ASSUME NEW g \in Generations, RelayTool(g) PROVE Types'
  <2>1. gen' \in [Generations -> GenStates]
    BY <1>7, GotoTypes DEF RelayTool, GenStates
  <2>2. items[g] \in 0..MaxItems /\ items[g] < MaxItems
    BY <1>7, LLMHandlerAssumption DEF RelayTool, At, BoundInv, Types
  <2>3. items' \in [Generations -> 0..MaxItems]
    BY <1>7, <2>2, LLMHandlerAssumption DEF RelayTool, Types
  <2>4. relay' \in {"select", "sending", "exited"}
    BY <1>7 DEF RelayTool, Relays, AtSelect
  <2> QED
    BY <1>7, <2>1, <2>3, <2>4 DEF RelayTool, Types
<1> QED
  BY <1>1, <1>2, <1>3, <1>4, <1>5, <1>6, <1>7 DEF RelayStep

\* Every step keeps the types.
LEMMA NextTypes ==
  ASSUME Types, BoundInv, PacketInv, Next
  PROVE  Types'
BY EventTypes, GenerationTypes, RelayTypes DEF Next

-----------------------------------------------------------------------------
(* The packet of eventLoop.                                                *)

\* A step of HandleEvent or of the runner touches neither the streams' items nor
\* what is on its way to the TTS handler.
LEMMA EventFrame ==
  ASSUME \/ HandleGenerate \/ HandleSuspected \/ HandleConfirmed
         \/ SpawnGeneration \/ Cancel \/ Cleanup
  PROVE  UNCHANGED <<messages, items, relay, packet, forwarded>>
BY DEF HandleGenerate, HandleSuspected, HandleConfirmed, SpawnGeneration, Cancel,
       Cleanup, serviceVars, eventVars, streamVars, channelVars, relayVars, historyVars

\* A step of a generation leaves eventLoop and the interruptions alone, one that
\* hands over no chunk the channel too, and one that sends no filler what was
\* delivered.
LEMMA GenerationFrame ==
  ASSUME NEW g \in Generations, GenerationStep(g)
  PROVE  /\ UNCHANGED <<relay, packet, forwarded, handle, generations, discarding,
                        interrupted, awaiting>>
         /\ SendChunk(g) \/ UNCHANGED <<messages, items>>
         /\ FillerSent(g) \/ UNCHANGED since
<1> USE DEF serviceVars, eventVars, streamVars, channelVars, relayVars, historyVars
<1>1. \A s, t : Goes(g, s, t) =>
        UNCHANGED <<relay, packet, forwarded, handle, generations, discarding,
                    interrupted, awaiting, since, messages, items>>
  BY DEF Goes, otherVars
<1>2. CASE WaitForFiller(g) \/ CreateStream(g) \/ Recv(g) \/ AbandonItem(g)
  BY <1>1, <1>2 DEF WaitForFiller, CreateStream, Recv, AbandonItem
<1>8. CASE FillerSent(g)
  BY <1>8 DEF FillerSent
<1>3. CASE GenerationResets(g)
  BY <1>3 DEF GenerationResets
<1>4. CASE RunCompletion(g)
  BY <1>1, <1>4 DEF RunCompletion
<1>5. CASE CaptureContext(g)
  BY <1>1, <1>5 DEF CaptureContext
<1>6. CASE SendChunk(g)
  BY <1>6 DEF SendChunk
<1>7. CASE CompletionEnds(g)
  BY <1>7 DEF CompletionEnds
<1> QED
  BY <1>2, <1>3, <1>4, <1>5, <1>6, <1>7, <1>8 DEF GenerationStep

\* eventLoop holds a packet exactly while it sends one.
LEMMA NextPacket ==
  ASSUME Types, PacketInv, Next
  PROVE  PacketInv'
<1> USE DEF relayVars, historyVars, channelVars
<1>1. CASE HandleGenerate \/ HandleSuspected \/ HandleConfirmed
           \/ SpawnGeneration \/ Cancel \/ Cleanup
  BY <1>1, EventFrame DEF PacketInv
<1>2. ASSUME NEW g \in Generations, GenerationStep(g) PROVE PacketInv'
  BY <1>2, GenerationFrame DEF PacketInv
<1>3. CASE RelayMessage
  <2>1. IsPacket(ChunkPacket(Head(messages)))
    BY <1>3, HeadAndRest DEF RelayMessage, Types, IsPacket, IsChunkPacket
  <2> QED
    BY <1>3, <2>1, RelaysPackets DEF RelayMessage, AtSelect
<1>4. CASE RelayStart
  BY <1>4 DEF RelayStart, PacketInv
<1>5. CASE RelayEnd
  <2>1. IsPacket(CompletedPacket(fullText))
    BY DEF Types, IsPacket
  <2> QED
    BY <1>5, <2>1, RelaysPackets DEF RelayEnd, AtSelect
<1>6. CASE ItemSent
  BY <1>6 DEF ItemSent, PacketInv, IsPacket
<1>7. CASE CompletionSent
  BY <1>7 DEF CompletionSent, PacketInv, IsPacket
<1>8. CASE EventLoopExits
  BY <1>8 DEF EventLoopExits, PacketInv, AtSelect
<1>9. ASSUME NEW g \in Generations, RelayTool(g) PROVE PacketInv'
  <2>1. IsPacket(ToolPacket)
    BY DEF IsPacket
  <2> QED
    BY <1>9, <2>1, RelaysPackets DEF RelayTool, AtSelect
<1> QED
  BY <1>1, <1>2, <1>3, <1>4, <1>5, <1>6, <1>7, <1>8, <1>9 DEF Next, RelayStep

-----------------------------------------------------------------------------
(* Bounds.                                                                 *)

\* A generation that moves keeps within its items unless it has an item in hand.
LEMMA MoveBound ==
  ASSUME Types, BoundInv, NEW g \in Generations, NEW s \in GenStates, Goto(g, s),
         UNCHANGED <<handle, generations>>,
         \A h \in Generations : h # g => items'[h] = items[h],
         s \in {"chunk", "tool"} => items'[g] < MaxItems
  PROVE  BoundInv'
<1>1. (handle = "started" => generations < MaxGenerations)'
  BY DEF BoundInv
<1>2. ASSUME NEW h \in Generations, gen'[h] \in {"chunk", "tool"}
      PROVE  items'[h] < MaxItems
  <2>1. CASE h = g
    BY <1>2, <2>1 DEF Goto, Types
  <2>2. CASE h # g
    BY <1>2, <2>2 DEF Goto, Types, BoundInv
  <2> QED
    BY <2>1, <2>2
<1> QED
  BY <1>1, <1>2 DEF BoundInv

\* A step of a generation keeps the bounds.
LEMMA GenerationBound ==
  ASSUME Types, BoundInv, NEW g \in Generations, GenerationStep(g)
  PROVE  BoundInv'
<1>1. UNCHANGED <<handle, generations>>
  BY GenerationFrame
<1>2. \A s, t : Goes(g, s, t) => Goto(g, t) /\ items' = items
  BY DEF Goes, Goto, otherVars, streamVars
<1>3. ASSUME NEW s \in GenStates, Goto(g, s), items' = items, s \notin {"chunk", "tool"}
      PROVE  BoundInv'
  BY <1>1, <1>3, MoveBound
<1>4. CASE WaitForFiller(g) \/ CreateStream(g) \/ AbandonItem(g)
  BY <1>2, <1>3, <1>4 DEF WaitForFiller, CreateStream, AbandonItem, GenStates
<1>11. CASE FillerSent(g)
  BY <1>3, <1>11 DEF FillerSent, GenStates, streamVars
<1>5. CASE GenerationResets(g)
  <2>1. items' = items
    BY <1>5 DEF GenerationResets
  <2>2. PICK t \in {"run", "filler"} : Reset([gen EXCEPT ![g] = t])
    BY <1>5 DEF GenerationResets
  <2>3. [gen EXCEPT ![g] = t] \in [Generations -> GenStates]
    BY DEF Types, GenStates
  <2>4. \A h \in Generations : gen'[h] \in {gen[h], t, "done"}
    BY <2>2, <2>3, ResetGens DEF Types
  <2> QED
    BY <1>1, <2>1, <2>4 DEF BoundInv
<1>6. CASE RunCompletion(g)
  BY <1>2, <1>3, <1>6 DEF RunCompletion, GenStates, streamVars
<1>7. CASE CaptureContext(g)
  BY <1>2, <1>3, <1>7 DEF CaptureContext, GenStates
<1>8. CASE Recv(g)
  <2>1. CASE Goes(g, "streaming", "ending")
    BY <1>2, <1>3, <2>1 DEF GenStates
  <2>2. CASE items[g] < MaxItems /\ Goes(g, "streaming", "chunk")
    BY <1>1, <1>2, <2>2, MoveBound DEF GenStates
  <2>3. CASE items[g] < MaxItems /\ Goes(g, "streaming", "tool")
    BY <1>1, <1>2, <2>3, MoveBound DEF GenStates
  <2> QED
    BY <1>8, <2>1, <2>2, <2>3 DEF Recv
<1>9. CASE SendChunk(g)
  <2>1. Goto(g, "streaming") /\ \A h \in Generations : h # g => items'[h] = items[h]
    BY <1>9 DEF SendChunk, Types
  <2> QED
    BY <1>1, <2>1, MoveBound DEF GenStates
<1>10. CASE CompletionEnds(g)
  BY <1>3, <1>10 DEF CompletionEnds, GenStates, streamVars
<1> QED
  BY <1>4, <1>5, <1>6, <1>7, <1>8, <1>9, <1>10, <1>11 DEF GenerationStep

\* Every step keeps the bounds.
LEMMA NextBound ==
  ASSUME Types, BoundInv, Next
  PROVE  BoundInv'
<1> USE DEF serviceVars, eventVars, streamVars, channelVars, relayVars, historyVars
<1>1. CASE HandleGenerate
  BY <1>1 DEF HandleGenerate, BoundInv
<1>2. CASE HandleSuspected \/ Cancel \/ Cleanup
  BY <1>2 DEF HandleSuspected, Cancel, Cleanup, BoundInv
<1>7. CASE HandleConfirmed
  <2>1. \A g \in Generations : gen'[g] \in {"chunk", "tool"} => gen'[g] = gen[g]
    BY <1>7, ResetGens DEF HandleConfirmed, Types
  <2> QED
    BY <1>7, <2>1 DEF HandleConfirmed, AtEvent, BoundInv
<1>3. CASE SpawnGeneration
  <2>1. \A g \in Generations : gen'[g] \in {"chunk", "tool"} => gen'[g] = gen[g]
    BY <1>3 DEF SpawnGeneration, Types
  <2> QED
    BY <1>3, <2>1 DEF SpawnGeneration, BoundInv
<1>4. ASSUME NEW g \in Generations, GenerationStep(g) PROVE BoundInv'
  BY <1>4, GenerationBound
<1>5. CASE RelayMessage \/ RelayStart \/ RelayEnd \/ ItemSent \/ CompletionSent
           \/ EventLoopExits
  BY <1>5 DEF RelayMessage, RelayStart, RelayEnd, ItemSent, CompletionSent,
              EventLoopExits, BoundInv
<1>6. ASSUME NEW g \in Generations, RelayTool(g) PROVE BoundInv'
  <2>1. Goto(g, "streaming") /\ UNCHANGED <<handle, generations>>
        /\ \A h \in Generations : h # g => items'[h] = items[h]
    BY <1>6 DEF RelayTool, Types
  <2> QED
    BY <2>1, MoveBound DEF GenStates
<1> QED
  BY <1>1, <1>2, <1>3, <1>4, <1>5, <1>6, <1>7 DEF Next, RelayStep

-----------------------------------------------------------------------------
(* The order of chunks.                                                    *)

\* The order stays while streams only grow and eventLoop takes no other chunk.
LEMMA OrderFrame ==
  ASSUME Types, OrderInv, Types', UNCHANGED <<messages, forwarded>>,
         \A g \in Generations : items[g] <= items'[g],
         packet' = packet \/ ~IsChunkPacket(packet')
  PROVE  OrderInv'
<1>0. /\ \A g \in Generations :
           items[g] \in Nat /\ items'[g] \in Nat /\ forwarded[g] \in Nat
      /\ \A i \in DOMAIN messages : messages[i] \in Chunks
  BY ElementOfSeq, LenProperties DEF Types
<1>1. \A g \in Generations : forwarded'[g] <= items'[g]
  BY <1>0 DEF OrderInv
<1>2. \A i \in DOMAIN messages' :
        /\ forwarded'[messages'[i][1]] < messages'[i][2]
        /\ messages'[i][2] <= items'[messages'[i][1]]
  BY <1>0, ChunkParts DEF OrderInv
<1>3. ASSUME NEW c \in Chunks, packet' = ChunkPacket(c)
      PROVE  /\ forwarded'[c[1]] < c[2] /\ c[2] <= items'[c[1]]
             /\ \A i \in DOMAIN messages' :
                  messages'[i][1] = c[1] => c[2] < messages'[i][2]
  <2>1. packet = ChunkPacket(c)
    BY <1>3 DEF IsChunkPacket
  <2>2. /\ forwarded[c[1]] < c[2] /\ c[2] <= items[c[1]]
        /\ \A i \in DOMAIN messages : messages[i][1] = c[1] => c[2] < messages[i][2]
    BY <2>1 DEF OrderInv
  <2> QED
    BY <1>0, <2>2, ChunkParts
<1>4. \A i, j \in DOMAIN messages' :
        i < j /\ messages'[i][1] = messages'[j][1] => messages'[i][2] < messages'[j][2]
  BY DEF OrderInv
<1> QED
  BY <1>1, <1>2, <1>3, <1>4 DEF OrderInv

\* A chunk that a stream hands over is newer than all the others of the stream.
LEMMA OrderSend ==
  ASSUME Types, OrderInv, Types', NEW g \in Generations, SendChunk(g)
  PROVE  OrderInv'
<1> DEFINE new == <<g, items[g] + 1>>
           n == Len(messages)
<1>0. /\ \A h \in Generations : items[h] \in Nat /\ forwarded[h] \in Nat
      /\ \A i \in DOMAIN messages : messages[i] \in Chunks /\ messages[i][1] \in Generations
                                    /\ messages[i][2] \in Nat
      /\ n \in Nat /\ DOMAIN messages = 1..n
  <2>1. \A i \in DOMAIN messages : messages[i] \in Chunks
    BY ElementOfSeq, LenProperties DEF Types
  <2>2. n \in Nat /\ DOMAIN messages = 1..n
    BY LenProperties DEF Types
  <2>3. \A h \in Generations : items[h] \in Nat /\ forwarded[h] \in Nat
    BY DEF Types
  <2> QED
    BY <2>1, <2>2, <2>3, ChunkParts
<1>1. messages' = Append(messages, new) /\ items' = [items EXCEPT ![g] = items[g] + 1]
      /\ UNCHANGED <<packet, forwarded>>
  BY DEF SendChunk, relayVars, historyVars
<1>2. new[1] = g /\ new[2] = items[g] + 1
  OBVIOUS
<1> HIDE DEF new
<1>3. items'[g] = items[g] + 1 /\ \A h \in Generations : h # g => items'[h] = items[h]
  BY <1>1 DEF Types
<1>4. \A h \in Generations : items[h] <= items'[h]
  BY <1>0, <1>3
<1>5. DOMAIN messages' = 1..(n + 1) /\ messages'[n + 1] = new
      /\ \A i \in 1..n : messages'[i] = messages[i]
  <2>1. new \in Chunks
    BY <1>0, <1>3 DEF new, Chunks, Types
  <2>2. /\ messages' \in Seq(Chunks) /\ Len(messages') = n + 1
        /\ \A i \in 1..n : messages'[i] = messages[i]
        /\ messages'[n + 1] = new
    BY <1>1, <2>1, AppendProperties DEF Types
  <2> QED
    BY <2>2, LenProperties
<1>6. \A i \in DOMAIN messages' : i \in 1..n \/ i = n + 1
  BY <1>0, <1>5
<1>7. \A i \in 1..n : /\ forwarded[messages[i][1]] < messages[i][2]
                      /\ messages[i][2] <= items[messages[i][1]]
  BY <1>0 DEF OrderInv
<1>8. \A h \in Generations : forwarded'[h] <= items'[h]
  BY <1>0, <1>1, <1>4 DEF OrderInv, Types
<1>9. ASSUME NEW i \in DOMAIN messages'
      PROVE  /\ forwarded'[messages'[i][1]] < messages'[i][2]
             /\ messages'[i][2] <= items'[messages'[i][1]]
  <2>1. CASE i \in 1..n
    <3>1. messages[i][1] \in Generations /\ messages[i][2] \in Nat
            /\ messages'[i] = messages[i]
      BY <1>0, <1>5, <2>1
    <3>2. items[messages[i][1]] <= items'[messages[i][1]]
          /\ items[messages[i][1]] \in Nat /\ items'[messages[i][1]] \in Nat
      BY <1>0, <1>3, <1>4, <3>1
    <3> QED
      BY <1>1, <1>7, <2>1, <3>1, <3>2
  <2>2. CASE i = n + 1
    <3>1. forwarded[g] <= items[g]
      BY DEF OrderInv
    <3> QED
      BY <1>0, <1>1, <1>2, <1>3, <1>5, <2>2, <3>1
  <2> QED
    BY <1>6, <2>1, <2>2
<1>10. ASSUME NEW i \in DOMAIN messages', NEW j \in DOMAIN messages',
              i < j, messages'[i][1] = messages'[j][1]
       PROVE  messages'[i][2] < messages'[j][2]
  <2>1. i \in 1..n
    BY <1>0, <1>5, <1>10
  <2>2. CASE j \in 1..n
    BY <1>0, <1>5, <1>10, <2>1, <2>2 DEF OrderInv
  <2>3. CASE j = n + 1
    <3>1. messages[i][1] = g /\ messages[i][2] \in Nat
      BY <1>0, <1>2, <1>5, <1>10, <2>1, <2>3
    <3>2. messages[i][2] <= items[g]
      BY <1>7, <2>1, <3>1
    <3> QED
      BY <1>0, <1>2, <1>5, <2>1, <2>3, <3>1, <3>2
  <2> QED
    BY <1>6, <2>2, <2>3
<1>11. ASSUME NEW c \in Chunks, packet' = ChunkPacket(c)
       PROVE  /\ forwarded'[c[1]] < c[2] /\ c[2] <= items'[c[1]]
              /\ \A i \in DOMAIN messages' :
                   messages'[i][1] = c[1] => c[2] < messages'[i][2]
  <2>1. /\ forwarded[c[1]] < c[2] /\ c[2] <= items[c[1]]
        /\ \A i \in DOMAIN messages : messages[i][1] = c[1] => c[2] < messages[i][2]
    BY <1>1, <1>11 DEF OrderInv
  <2>2. c[1] \in Generations /\ c[2] \in Nat
    BY ChunkParts
  <2>3. items[c[1]] <= items'[c[1]] /\ items[c[1]] \in Nat /\ items'[c[1]] \in Nat
    BY <1>0, <1>3, <1>4, <2>2
  <2>4. forwarded'[c[1]] < c[2] /\ c[2] <= items'[c[1]]
    BY <1>1, <2>1, <2>2, <2>3
  <2>5. ASSUME NEW i \in DOMAIN messages', messages'[i][1] = c[1]
        PROVE  c[2] < messages'[i][2]
    <3>1. CASE i \in 1..n
      BY <1>0, <1>5, <2>1, <2>5, <3>1
    <3>2. CASE i = n + 1
      <4>1. c[1] = g
        BY <1>2, <1>5, <2>5, <3>2
      <4> QED
        BY <1>0, <1>2, <1>5, <2>1, <2>2, <3>2, <4>1
    <3> QED
      BY <1>6, <3>1, <3>2
  <2> QED
    BY <2>4, <2>5
<1> QED
  BY <1>8, <1>9, <1>10, <1>11 DEF OrderInv

\* The chunk that eventLoop takes, to discard it or to send it, is the oldest of
\* its stream.
LEMMA OrderRelay ==
  ASSUME Types, PacketInv, OrderInv, RelayMessage
  PROVE  OrderInv'
<1> DEFINE head == Head(messages)
           rest == Tail(messages)
<1>1. /\ messages \in Seq(Chunks) /\ messages # <<>>
      /\ messages' = rest /\ UNCHANGED <<items, forwarded>>
      /\ \A i \in DOMAIN messages : messages[i] \in Chunks
  <2>1. \A i \in DOMAIN messages : messages[i] \in Chunks
    BY ElementOfSeq, LenProperties DEF Types
  <2> QED
    BY <2>1 DEF RelayMessage, streamVars, historyVars, Types
<1>2. /\ 1 \in DOMAIN messages /\ head \in Chunks /\ head = messages[1]
      /\ \A i \in DOMAIN rest : i \in Nat /\ i + 1 \in DOMAIN messages
           /\ rest[i] = messages[i + 1]
      /\ \A i \in DOMAIN rest : 1 < i + 1
  <2>1. /\ 1 \in DOMAIN messages /\ head \in Chunks /\ head = messages[1]
        /\ DOMAIN rest = 1..(Len(messages) - 1) /\ Len(messages) \in Nat
        /\ \A i \in DOMAIN rest : i \in Nat /\ i + 1 \in DOMAIN messages
                                  /\ rest[i] = messages[i + 1]
    BY <1>1, HeadAndRest
  <2>2. \A i \in DOMAIN rest : 1 < i + 1
    BY <2>1
  <2> QED
    BY <2>1, <2>2
<1>3. packet = NoPacket /\ (packet' = NoPacket \/ packet' = ChunkPacket(head))
  BY DEF RelayMessage, Relays, AtSelect, PacketInv
<1> HIDE DEF head, rest
<1>4. \A i \in DOMAIN messages' :
        /\ forwarded'[messages'[i][1]] < messages'[i][2]
        /\ messages'[i][2] <= items'[messages'[i][1]]
  BY <1>1, <1>2 DEF OrderInv
<1>5. ASSUME NEW i \in DOMAIN messages', NEW j \in DOMAIN messages',
             i < j, messages'[i][1] = messages'[j][1]
      PROVE  messages'[i][2] < messages'[j][2]
  <2>1. i + 1 < j + 1
    BY <1>1, <1>2, <1>5
  <2> QED
    BY <1>1, <1>2, <1>5, <2>1 DEF OrderInv
<1>6. ASSUME NEW c \in Chunks, packet' = ChunkPacket(c)
      PROVE  /\ forwarded'[c[1]] < c[2] /\ c[2] <= items'[c[1]]
             /\ \A i \in DOMAIN messages' :
                  messages'[i][1] = c[1] => c[2] < messages'[i][2]
  <2>1. c = messages[1]
    BY <1>2, <1>3, <1>6, NotChunk DEF IsChunkPacket
  <2>2. forwarded[c[1]] < c[2] /\ c[2] <= items[c[1]]
    BY <1>2, <2>1 DEF OrderInv
  <2>3. \A i \in DOMAIN rest : rest[i][1] = c[1] => c[2] < rest[i][2]
    BY <1>2, <2>1 DEF OrderInv
  <2> QED
    BY <1>1, <2>2, <2>3
<1> QED
  BY <1>1, <1>4, <1>5, <1>6 DEF OrderInv

\* A chunk that is delivered is older than those still in the channel.
LEMMA OrderSent ==
  ASSUME Types, PacketInv, OrderInv, ItemSent
  PROVE  OrderInv'
<1>1. UNCHANGED <<messages, items>> /\ packet' = NoPacket /\ ~IsChunkPacket(packet')
  BY NotChunk DEF ItemSent, channelVars, streamVars
<1>2. CASE packet.event = "LLMResponseChunk" /\ ~ctxDone
  <2>1. PICK c \in Chunks : packet = ChunkPacket(c) /\ packet.chunk = c
    BY <1>2, ChunkEvent DEF PacketInv
  <2>2. forwarded' = [forwarded EXCEPT ![c[1]] = c[2]]
    BY <1>2, <2>1 DEF ItemSent
  <2>3. c[1] \in Generations /\ c[2] \in Nat
    BY ChunkParts
  <2>4. /\ c[2] <= items[c[1]]
        /\ \A i \in DOMAIN messages : messages[i][1] = c[1] => c[2] < messages[i][2]
    BY <2>1 DEF OrderInv
  <2>5. forwarded'[c[1]] = c[2]
        /\ \A g \in Generations : g # c[1] => forwarded'[g] = forwarded[g]
    BY <2>2, <2>3 DEF Types
  <2>6. \A i \in DOMAIN messages : messages[i][1] \in Generations
    <3>1. \A i \in DOMAIN messages : messages[i] \in Chunks
      BY ElementOfSeq, LenProperties DEF Types
    <3> QED
      BY <3>1, ChunkParts
  <2>7. \A g \in Generations : forwarded'[g] <= items'[g]
    <3> TAKE g \in Generations
    <3>1. CASE g = c[1]
      BY <1>1, <2>4, <2>5, <3>1
    <3>2. CASE g # c[1]
      BY <1>1, <2>5, <3>2 DEF OrderInv
    <3> QED
      BY <3>1, <3>2
  <2>8. \A i \in DOMAIN messages' :
          /\ forwarded'[messages'[i][1]] < messages'[i][2]
          /\ messages'[i][2] <= items'[messages'[i][1]]
    <3> SUFFICES ASSUME NEW i \in DOMAIN messages
                 PROVE  /\ forwarded'[messages[i][1]] < messages[i][2]
                        /\ messages[i][2] <= items[messages[i][1]]
      BY <1>1
    <3>1. CASE messages[i][1] = c[1]
      BY <2>4, <2>5, <3>1 DEF OrderInv
    <3>2. CASE messages[i][1] # c[1]
      BY <2>5, <2>6, <3>2 DEF OrderInv
    <3> QED
      BY <3>1, <3>2
  <2> QED
    BY <1>1, <2>7, <2>8 DEF OrderInv, IsChunkPacket
<1>3. CASE ~(packet.event = "LLMResponseChunk" /\ ~ctxDone)
  BY <1>1, <1>3 DEF ItemSent, OrderInv, IsChunkPacket
<1> QED
  BY <1>2, <1>3

\* Every step keeps the order.
LEMMA NextOrder ==
  ASSUME Types, PacketInv, OrderInv, Next, Types'
  PROVE  OrderInv'
<1> USE DEF serviceVars, eventVars, streamVars, channelVars, relayVars, historyVars
<1>0. items' = items => \A g \in Generations : items[g] <= items'[g]
  BY DEF Types
<1>1. CASE HandleGenerate \/ HandleSuspected \/ HandleConfirmed
           \/ SpawnGeneration \/ Cancel \/ Cleanup
  BY <1>0, <1>1, EventFrame, OrderFrame
<1>2. ASSUME NEW g \in Generations, GenerationStep(g) PROVE OrderInv'
  BY <1>0, <1>2, GenerationFrame, OrderFrame, OrderSend
<1>3. CASE RelayMessage
  BY <1>3, OrderRelay
<1>4. CASE RelayStart \/ EventLoopExits
  BY <1>0, <1>4, OrderFrame DEF RelayStart, EventLoopExits
<1>5. CASE RelayEnd
  BY <1>0, <1>5, OrderFrame, NotChunk DEF RelayEnd, Relays
<1>6. CASE ItemSent
  BY <1>6, OrderSent
<1>7. CASE CompletionSent
  BY <1>0, <1>7, OrderFrame, NotChunk DEF CompletionSent
<1>8. ASSUME NEW g \in Generations, RelayTool(g) PROVE OrderInv'
  <2>1. \A h \in Generations : items[h] <= items'[h]
    BY <1>8 DEF RelayTool, Types
  <2> QED
    BY <1>8, <2>1, OrderFrame, NotChunk DEF RelayTool, Relays
<1> QED
  BY <1>1, <1>2, <1>3, <1>4, <1>5, <1>6, <1>7, <1>8 DEF Next, RelayStep

-----------------------------------------------------------------------------
(* Interruptions.                                                          *)

\* No generation comes to a place from which it may send a filler, but by a step
\* towards it.
LEMMA FillersPass ==
  ASSUME Types, NEW g \in Generations, GenerationStep(g), NEW h \in Generations,
         MayFill(h)'
  PROVE  MayFill(h)
<1>1. ASSUME NEW t \in GenStates, Goto(g, t),
             t \notin {"waiting", "resettingFiller", "filler"}
      PROVE  MayFill(h)
  BY <1>1 DEF Goto, MayFill, Types
<1>2. CASE WaitForFiller(g)
  BY <1>2 DEF WaitForFiller, Goes, At, MayFill, Types
<1>3. CASE FillerSent(g) \/ SendChunk(g) \/ CompletionEnds(g)
  BY <1>1, <1>3 DEF FillerSent, SendChunk, CompletionEnds, GenStates
<1>4. CASE RunCompletion(g) \/ CaptureContext(g)
  BY <1>1, <1>4 DEF RunCompletion, CaptureContext, Goes, Goto, GenStates
<1>5. CASE CreateStream(g) \/ Recv(g) \/ AbandonItem(g)
  BY <1>1, <1>5 DEF CreateStream, Recv, AbandonItem, Goes, Goto, GenStates
<1>6. CASE GenerationResets(g)
  <2>1. PICK t \in {"run", "filler"} : /\ Reset([gen EXCEPT ![g] = t])
                                       /\ t = "filler" => gen[g] = "resettingFiller"
    BY <1>6 DEF GenerationResets, At
  <2>2. [gen EXCEPT ![g] = t] \in [Generations -> GenStates]
    BY DEF Types, GenStates
  <2>3. \/ gen'[h] = gen[h] \/ gen'[h] = "done"
        \/ h = g /\ gen'[h] = t
    BY <2>1, <2>2, ResetGens DEF Types
  <2> QED
    BY <2>1, <2>3 DEF MayFill
<1> QED
  BY <1>2, <1>3, <1>4, <1>5, <1>6 DEF GenerationStep

\* After an interruption eventLoop sends what it holds and takes up no chunk.
LEMMA NextQuiet ==
  ASSUME Types, PacketInv, BoundInv, QuietInv, Next
  PROVE  QuietInv'
<1> USE DEF serviceVars, eventVars, streamVars, channelVars, relayVars, historyVars
<1>1. CASE HandleGenerate
  BY <1>1 DEF HandleGenerate, QuietInv
<1>2. CASE HandleSuspected \/ HandleConfirmed
  <2>1. /\ discarding' /\ handle' = "select" /\ interrupted'
        /\ UNCHANGED <<since, packet>>
    BY <1>2 DEF HandleSuspected, HandleConfirmed, AtEvent, Interrupt
  <2>2. \A g \in Generations : MayFill(g)' => MayFill(g)
    <3>1. CASE HandleSuspected
      BY <3>1 DEF HandleSuspected, MayFill
    <3>2. CASE HandleConfirmed
      BY <3>2, ResetGens DEF HandleConfirmed, MayFill, Types
    <3> QED
      BY <1>2, <3>1, <3>2
  <2>3. CASE interrupted
    <3>1. awaiting' = awaiting
      BY <1>2, <2>3 DEF HandleSuspected, HandleConfirmed, Interrupt
    <3> QED
      BY <2>1, <2>2, <2>3, <3>1 DEF QuietInv
  <2>4. CASE ~interrupted
    <3>1. awaiting' = {g \in Generations : MayFill(g)}
      BY <1>2, <2>4 DEF HandleSuspected, HandleConfirmed, Interrupt, MayFill
    <3>2. since' = {}
      BY <2>1, <2>4 DEF QuietInv
    <3> QED
      BY <2>1, <2>2, <3>1, <3>2 DEF QuietInv
  <2> QED
    BY <2>3, <2>4
<1>3. CASE SpawnGeneration
  <2>1. ~interrupted /\ UNCHANGED <<interrupted, awaiting, since, packet>>
    BY <1>3 DEF SpawnGeneration, QuietInv
  <2> QED
    BY <2>1 DEF QuietInv
<1>11. CASE Cancel \/ Cleanup
  BY <1>11 DEF Cancel, Cleanup, QuietInv, MayFill
<1>4. ASSUME NEW g \in Generations, GenerationStep(g) PROVE QuietInv'
  <2>1. /\ UNCHANGED <<packet, discarding, handle, interrupted, awaiting>>
        /\ FillerSent(g) \/ UNCHANGED since
    BY <1>4, GenerationFrame
  <2>2. \A h \in Generations : MayFill(h)' => MayFill(h)
    BY <1>4, FillersPass
  <2>3. CASE UNCHANGED since
    BY <2>1, <2>2, <2>3 DEF QuietInv
  <2>4. CASE FillerSent(g) /\ since' = since \cup {FillerChunk(g)} /\ interrupted
    <3>1. g \in awaiting
      BY <2>4 DEF FillerSent, At, MayFill, QuietInv
    <3>2. since' \cap Chunks = since \cap Chunks
      BY <2>4, FillerParts
    <3>3. \A h \in Generations : FillerChunk(h) \in since' => h \in awaiting
      BY <2>4, <3>1, FillerParts DEF QuietInv
    <3> QED
      BY <2>1, <2>2, <2>4, <3>2, <3>3 DEF QuietInv
  <2> QED
    BY <2>1, <2>3, <2>4 DEF FillerSent, Delivered
<1>5. CASE RelayMessage
  <2>1. UNCHANGED <<interrupted, discarding, handle, gen, awaiting, since>>
    BY <1>5 DEF RelayMessage
  <2>2. CASE discarding
    BY <1>5, <2>1, <2>2 DEF RelayMessage, Relays, QuietInv, MayFill
  <2>3. CASE ~discarding
    BY <2>1, <2>3 DEF QuietInv
  <2> QED
    BY <2>2, <2>3
<1>6. CASE RelayStart \/ EventLoopExits
  BY <1>6 DEF RelayStart, EventLoopExits, QuietInv, MayFill
<1>7. CASE RelayEnd
  <2>1. packet' = packet \/ ~IsChunkPacket(packet')
    BY <1>7, NotChunk DEF RelayEnd, Relays
  <2> QED
    BY <1>7, <2>1 DEF RelayEnd, QuietInv, MayFill
<1>8. CASE ItemSent
  <2>1. /\ UNCHANGED <<interrupted, discarding, handle, gen, awaiting>>
        /\ ~IsChunkPacket(packet')
    BY <1>8, NotChunk DEF ItemSent
  <2>2. CASE packet.event = "LLMResponseChunk" /\ ~ctxDone /\ interrupted
    <3>1. packet.chunk \in Chunks /\ IsChunkPacket(packet)
      BY <2>2, ChunkEvent DEF PacketInv, IsChunkPacket
    <3>2. since \cap Chunks = {}
      BY <3>1 DEF QuietInv
    <3>3. since' = since \cup {packet.chunk}
      BY <1>8, <2>2 DEF ItemSent, Delivered
    <3>4. since' \cap Chunks = {packet.chunk}
      BY <3>1, <3>2, <3>3
    <3>5. \A g \in Generations : FillerChunk(g) \in since' => FillerChunk(g) \in since
      BY <3>1, <3>3, FillerParts
    <3> QED
      BY <2>1, <2>2, <3>1, <3>4, <3>5 DEF QuietInv, MayFill
  <2>3. CASE ~(packet.event = "LLMResponseChunk" /\ ~ctxDone /\ interrupted)
    <3>1. since' = since
      BY <1>8, <2>3 DEF ItemSent, Delivered
    <3> QED
      BY <2>1, <3>1 DEF QuietInv, MayFill
  <2> QED
    BY <2>2, <2>3
<1>9. CASE CompletionSent
  <2>1. ~IsChunkPacket(packet')
    BY <1>9, NotChunk DEF CompletionSent
  <2> QED
    BY <1>9, <2>1 DEF CompletionSent, QuietInv, MayFill
<1>10. ASSUME NEW g \in Generations, RelayTool(g) PROVE QuietInv'
  <2>1. packet' = packet \/ ~IsChunkPacket(packet')
    BY <1>10, NotChunk DEF RelayTool, Relays
  <2>2. \A h \in Generations : MayFill(h)' => MayFill(h)
    BY <1>10 DEF RelayTool, Goto, MayFill, Types
  <2>3. UNCHANGED <<interrupted, discarding, handle, awaiting, since>>
    BY <1>10 DEF RelayTool
  <2> QED
    BY <2>1, <2>2, <2>3 DEF QuietInv
<1> QED
  BY <1>1, <1>2, <1>3, <1>4, <1>5, <1>6, <1>7, <1>8, <1>9, <1>10, <1>11
  DEF Next, RelayStep

-----------------------------------------------------------------------------
(* The theorems.                                                           *)

\* The initial states satisfy the invariant.
LEMMA InitInvariant == Init => IInv
<1> SUFFICES ASSUME Init PROVE IInv
  OBVIOUS
<1>1. Types
  <2>1. <<>> \in Seq(Chunks) /\ Len(<<>>) <= MessageCapacity
    BY EmptySeq, LLMHandlerAssumption
  <2>2. 0 \in 0..MaxGenerations /\ 0 \in 0..MaxItems /\ 0 \in Nat
    BY LLMHandlerAssumption
  <2>3. "none" \in GenStates
    BY DEF GenStates
  <2> QED
    BY <2>1, <2>2, <2>3 DEF Init, Types
<1>2. PacketInv
  BY DEF Init, PacketInv, IsPacket
<1>3. BoundInv
  BY DEF Init, BoundInv
<1>4. DOMAIN messages = {}
  BY DEF Init
<1>5. OrderInv
  BY <1>4, NotChunk DEF Init, OrderInv, IsChunkPacket
<1>6. QuietInv
  BY DEF Init, QuietInv, MayFill
<1> QED
  BY <1>1, <1>2, <1>3, <1>5, <1>6 DEF IInv

\* Every step keeps the invariant.
LEMMA NextInvariant == IInv /\ [Next]_vars => IInv'
<1>1. ASSUME IInv, Next PROVE IInv'
  <2>1. Types'
    BY <1>1, NextTypes DEF IInv
  <2> QED
    BY <1>1, <2>1, NextPacket, NextBound, NextOrder, NextQuiet DEF IInv
<1>2. ASSUME IInv, UNCHANGED vars PROVE IInv'
  BY <1>2 DEF IInv, Types, PacketInv, BoundInv, OrderInv, QuietInv, MayFill, vars,
       otherVars,
              serviceVars, eventVars, streamVars, channelVars, relayVars, historyVars
<1> QED
  BY <1>1, <1>2

\* Every reachable state satisfies the invariant: the types, a packet exactly
\* while eventLoop sends one, room for what a stream announced, the chunks on
\* their way in order, and silence after an interruption.
THEOREM LLMHandlerInvariant == Spec => []IInv
BY InitInvariant, NextInvariant, PTL DEF Spec

\* Every variable of the handler keeps its type, and messageOutChan its capacity.
THEOREM TypeCorrect == Spec => []TypeOK
<1>1. IInv => TypeOK
  BY TypesSuffice DEF IInv
<1> QED
  BY <1>1, LLMHandlerInvariant, PTL

\* What eventLoop holds and then messageOutChan, as one queue, are in the order
\* that ChunksInOrder asks for.
LEMMA QueueInOrder == IInv => ChunksInOrder
<1> SUFFICES ASSUME IInv PROVE ChunksInOrder
  OBVIOUS
<1> DEFINE sending == IF packet.event = "LLMResponseChunk" THEN <<packet.chunk>> ELSE <<>>
           queue == sending \o messages
           n == Len(messages)
           Ordered(q) == \A i \in DOMAIN q :
                           /\ q[i][2] > forwarded[q[i][1]]
                           /\ q[i][2] <= items[q[i][1]]
                           /\ \A j \in DOMAIN q :
                                i < j /\ q[i][1] = q[j][1] => q[i][2] < q[j][2]
<1>1. /\ messages \in Seq(Chunks) /\ n \in Nat /\ DOMAIN messages = 1..n
      /\ \A i \in 1..n : messages[i] \in Chunks
  BY LenProperties, ElementOfSeq DEF IInv, Types
<1>2. \A g \in Generations : forwarded[g] \in Nat /\ items[g] \in Nat
  BY DEF IInv, Types
<1>3. \A i \in 1..n : messages[i][1] \in Generations /\ messages[i][2] \in Nat
  BY <1>1, ChunkParts
<1>4. Ordered(messages)
  <2>1. \A i \in 1..n : /\ forwarded[messages[i][1]] < messages[i][2]
                        /\ messages[i][2] <= items[messages[i][1]]
    BY <1>1 DEF IInv, OrderInv
  <2>2. \A i \in 1..n : messages[i][2] > forwarded[messages[i][1]]
    BY <1>2, <1>3, <2>1
  <2>3. \A i, j \in 1..n :
          i < j /\ messages[i][1] = messages[j][1] => messages[i][2] < messages[j][2]
    BY <1>1 DEF IInv, OrderInv
  <2> QED
    BY <1>1, <2>1, <2>2, <2>3
<1>5. CASE packet.event # "LLMResponseChunk"
  <2>1. queue = messages
    BY <1>1, <1>5, ConcatEmptySeq
  <2> QED
    BY <1>4, <2>1 DEF ChunksInOrder
<1>6. CASE packet.event = "LLMResponseChunk"
  <2>1. PICK c \in Chunks : packet = ChunkPacket(c) /\ packet.chunk = c
    BY <1>6, ChunkEvent DEF IInv, PacketInv
  <2>2. /\ forwarded[c[1]] < c[2] /\ c[2] <= items[c[1]]
        /\ \A i \in 1..n : messages[i][1] = c[1] => c[2] < messages[i][2]
    BY <1>1, <2>1 DEF IInv, OrderInv
  <2>3. c[1] \in Generations /\ c[2] \in Nat
    BY ChunkParts
  <2>4. queue = <<c>> \o messages
    BY <1>6, <2>1
  <2>5. /\ queue \in Seq(Chunks) /\ Len(queue) = n + 1
        /\ queue[1] = c
        /\ \A i \in 2..(n + 1) : queue[i] = messages[i - 1]
    <3>1. <<c>> \in Seq(Chunks) /\ Len(<<c>>) = 1 /\ <<c>>[1] = c
      OBVIOUS
    <3>2. /\ queue \in Seq(Chunks) /\ Len(queue) = 1 + n
          /\ \A i \in 1..(1 + n) :
               queue[i] = IF i <= 1 THEN <<c>>[i] ELSE messages[i - 1]
      BY <1>1, <2>4, <3>1, ConcatProperties
    <3> QED
      BY <1>1, <3>1, <3>2
  <2> HIDE DEF queue
  <2>6. DOMAIN queue = 1..(n + 1)
    BY <2>5, LenProperties
  <2>7. \A i \in DOMAIN queue :
          \/ i = 1 /\ queue[i] = c
          \/ i - 1 \in 1..n /\ i # 1 /\ queue[i] = messages[i - 1]
    BY <1>1, <2>5, <2>6
  <2>8. ASSUME NEW i \in DOMAIN queue
        PROVE  /\ queue[i][2] > forwarded[queue[i][1]]
               /\ queue[i][2] <= items[queue[i][1]]
    <3>1. CASE queue[i] = c
      BY <1>2, <2>2, <2>3, <3>1
    <3>2. CASE i - 1 \in 1..n /\ queue[i] = messages[i - 1]
      BY <1>1, <1>4, <3>2
    <3> QED
      BY <2>7, <3>1, <3>2
  <2>9. ASSUME NEW i \in DOMAIN queue, NEW j \in DOMAIN queue,
               i < j, queue[i][1] = queue[j][1]
        PROVE  queue[i][2] < queue[j][2]
    <3>0. i \in Nat /\ j \in Nat /\ j # 1
      BY <1>1, <2>6, <2>9
    <3>1. j - 1 \in 1..n /\ queue[j] = messages[j - 1]
      BY <2>7, <3>0
    <3>2. CASE queue[i] = c
      BY <2>2, <2>9, <3>1, <3>2
    <3>3. CASE i - 1 \in 1..n /\ queue[i] = messages[i - 1]
      <4>1. i - 1 < j - 1
        BY <2>9, <3>0
      <4> QED
        BY <1>1, <1>4, <2>9, <3>1, <3>3, <4>1
    <3> QED
      BY <2>7, <3>2, <3>3
  <2>10. Ordered(queue)
    BY <2>8, <2>9
  <2> QED
    BY <2>10 DEF ChunksInOrder, queue
<1> QED
  BY <1>5, <1>6

\* Chunks of a stream reach the TTS handler in the order of the stream and none
\* twice, for every capacity of messageOutChan and however many streams overlap
\* in it.
THEOREM ChunksInOrderHolds == Spec => []ChunksInOrder
BY QueueInOrder, LLMHandlerInvariant, PTL

\* Once an interruption is suspected, at most the chunk of a stream that eventLoop
\* is sending reaches the TTS handler before a new response is asked for, and
\* besides it only fillers of generations that had yet to send theirs.
THEOREM QuietAfterInterruptionHolds == Spec => []QuietAfterInterruption
<1>1. IInv => QuietAfterInterruption
  BY DEF IInv, QuietInv, QuietAfterInterruption
<1> QED
  BY <1>1, LLMHandlerInvariant, PTL

-----------------------------------------------------------------------------
(* FillerState.  The inductive invariant says where the last token can be: *)
(* on its way (activeRequestToken), ready (pendingFiller) or spoken, and   *)
(* that every earlier token that was spoken belongs to a turn that has     *)
(* ended.                                                                  *)

\* The part of TypeOK about flags.
FillerFlags ==
  /\ listening \in BOOLEAN /\ fillerRequested \in BOOLEAN
  /\ fillerReady \in BOOLEAN /\ fillerConsumed \in BOOLEAN
  /\ bridging \in BOOLEAN

\* Between turns nothing is awaited, ready or consumed; in a turn there is an
\* utterance.
NothingBetweenTurns ==
  /\ listening => currentUtteranceID # 0
  /\ ~listening => /\ ~fillerConsumed /\ pendingFiller = 0
                   /\ consumedFiller = 0 /\ activeRequestToken = 0

\* A request whose answer is awaited is the last one, of the current turn.
ActiveIsLast ==
  /\ turn <= nextRequestToken
  /\ activeRequestToken # 0 =>
       /\ activeRequestToken = nextRequestToken /\ activeRequestToken > turn
       /\ pendingFiller = 0 /\ ~fillerConsumed

\* A filler that was spoken belongs to an earlier turn, or is the last one and
\* marked as consumed.
SpokenIsMarked ==
  \A g \in FillerGenerations :
    genFiller[g] # 0 => \/ genFiller[g] <= turn
                        \/ genFiller[g] = nextRequestToken /\ fillerConsumed

ConsumedIsMarked == consumedFiller # 0 => fillerConsumed

FillerInv ==
  /\ FillerTypeOK /\ NothingBetweenTurns /\ ActiveIsLast /\ FillerIsCurrent
  /\ SpokenIsMarked /\ ConsumedIsMarked /\ FillerSpokenOnce

\* The initial state satisfies the invariant: newFillerState is empty.
LEMMA FillerInvInit == FillerInit => FillerInv
<1> SUFFICES ASSUME FillerInit PROVE FillerInv
  OBVIOUS
<1>1. FillerTypeOK
  BY DEF FillerInit, FillerTypeOK, Tokens, Fillers
<1>2. NothingBetweenTurns /\ ActiveIsLast /\ FillerIsCurrent /\ ConsumedIsMarked
  BY DEF FillerInit, NothingBetweenTurns, ActiveIsLast, FillerIsCurrent, ConsumedIsMarked
<1>3. SpokenIsMarked /\ FillerSpokenOnce
  BY DEF FillerInit, SpokenIsMarked, FillerSpokenOnce
<1> QED
  BY <1>1, <1>2, <1>3 DEF FillerInv

\* An interim transcript preserves the invariant: a new request is made only
\* while no filler of the turn has been consumed, and replaces what was awaited.
LEMMA InterimPreserves == FillerInv /\ onInterim => FillerInv'
<1> SUFFICES ASSUME FillerInv, onInterim PROVE FillerInv'
  OBVIOUS
<1> USE DEF FillerInv
<1>1. CASE ShortInterim
  <2>0. FillerFlags'
    BY <1>1, Zenon DEF FillerTypeOK, FillerFlags, onInterim, ShortInterim, Listens,
                BeginsUtterance, resetUtterance, requestVars
  <2>1. FillerTypeOK'
    <3>1. CASE listening
      BY <1>1, <2>0, <3>1 DEF FillerTypeOK, FillerFlags, onInterim, ShortInterim, Listens,
                BeginsUtterance, requestVars, Fillers
    <3>2. CASE ~listening
      BY <1>1, <2>0, <3>2 DEF FillerTypeOK, FillerFlags, onInterim, ShortInterim, Listens,
                BeginsUtterance, resetUtterance, Fillers
    <3> QED
      BY <3>1, <3>2
  <2>2. NothingBetweenTurns' /\ ConsumedIsMarked'
    BY <1>1 DEF FillerTypeOK, NothingBetweenTurns, ConsumedIsMarked, ShortInterim,
                Listens, BeginsUtterance, resetUtterance, requestVars
  <2>3. ActiveIsLast' /\ FillerIsCurrent'
    BY <1>1 DEF FillerTypeOK, onInterim, NothingBetweenTurns, ActiveIsLast, FillerIsCurrent,
                ShortInterim, BeginsUtterance, resetUtterance, requestVars
  <2>4. SpokenIsMarked' /\ FillerSpokenOnce'
    BY <1>1 DEF FillerTypeOK, onInterim, NothingBetweenTurns, SpokenIsMarked,
                FillerSpokenOnce, ShortInterim, BeginsUtterance, resetUtterance,
                requestVars
  <2> QED
    BY <2>1, <2>2, <2>3, <2>4
<1>2. CASE RequestFiller
  <2>1. ~fillerConsumed /\ consumedFiller = 0
    BY <1>2 DEF RequestFiller, BeginsUtterance, NothingBetweenTurns, ConsumedIsMarked
  <2>2. /\ currentUtteranceID' \in Tokens /\ nextRequestToken' = nextRequestToken + 1
        /\ nextRequestToken' \in Tokens
    <3>1. CASE listening
      BY <1>2, <3>1 DEF FillerTypeOK, RequestFiller, Listens, BeginsUtterance,
                NothingBetweenTurns, Tokens
    <3>2. CASE ~listening
      BY <1>2, <3>2 DEF FillerTypeOK, RequestFiller, Listens, BeginsUtterance, Tokens
    <3> QED
      BY <3>1, <3>2
  <2>3. FillerTypeOK'
    <3>1. FillerFlags'
      BY <1>2, Zenon DEF FillerTypeOK, FillerFlags, onInterim, RequestFiller, Listens
    <3>2. inflight' \subseteq [token : Tokens, utterance : Tokens]
      BY <1>2, <2>2 DEF FillerTypeOK, RequestFiller
    <3>3. consumedFiller' = 0
      BY <1>2, <2>1 DEF RequestFiller
    <3> QED
      BY <1>2, <2>2, <3>1, <3>2, <3>3 DEF FillerTypeOK, FillerFlags, onInterim,
           RequestFiller, Fillers, Tokens
  <2>4. NothingBetweenTurns' /\ ConsumedIsMarked'
    BY <1>2, <2>1, <2>2 DEF NothingBetweenTurns, ConsumedIsMarked, RequestFiller,
                            Listens, Tokens
  <2>5. ActiveIsLast' /\ FillerIsCurrent'
    BY <1>2, <2>2 DEF FillerTypeOK, onInterim, ActiveIsLast, FillerIsCurrent,
         RequestFiller
  <2>6. SpokenIsMarked' /\ FillerSpokenOnce'
    BY <2>1 DEF onInterim, SpokenIsMarked, FillerSpokenOnce
  <2> QED
    BY <2>3, <2>4, <2>5, <2>6
<1> QED
  BY <1>1, <1>2 DEF onInterim

\* An answer preserves the invariant: it is stored only if it carries the token
\* that is awaited, which is the last one.
LEMMA AnswerPreserves ==
  ASSUME NEW r \in inflight, FillerInv, generateFiller(r) PROVE FillerInv'
<1> USE DEF FillerInv
<1>1. r.token \in Nat /\ r.token # 0
  BY DEF FillerTypeOK, Tokens
<1>2. FillerTypeOK'
  <2>1. FillerFlags'
    BY Zenon DEF FillerTypeOK, FillerFlags, generateFiller, storeResult, requestFailed
  <2>2. activeRequestToken' \in Nat /\ pendingFiller' \in Fillers
    BY <1>1 DEF FillerTypeOK, generateFiller, storeResult, requestFailed, Fillers
  <2> QED
    BY <2>1, <2>2 DEF FillerTypeOK, FillerFlags, generateFiller
<1>3. SpokenIsMarked' /\ FillerSpokenOnce' /\ ConsumedIsMarked'
  BY DEF generateFiller, SpokenIsMarked, FillerSpokenOnce, ConsumedIsMarked
<1>4. CASE IsActive(r)
  <2>1. /\ activeRequestToken = r.token /\ r.token = nextRequestToken
        /\ r.token > turn /\ listening /\ currentUtteranceID # 0
    BY <1>1, <1>4 DEF IsActive, ActiveIsLast, NothingBetweenTurns
  <2>2. /\ activeRequestToken' = 0 /\ pendingFiller' \in {0, r.token, pendingFiller}
        /\ listening' = listening /\ turn' = turn
        /\ nextRequestToken' = nextRequestToken
        /\ currentUtteranceID' = currentUtteranceID
    BY <1>4 DEF generateFiller, storeResult, requestFailed
  <2> QED
    BY <1>2, <1>3, <2>1, <2>2 DEF NothingBetweenTurns, ActiveIsLast, FillerIsCurrent
<1>5. CASE ~IsActive(r)
  BY <1>2, <1>3, <1>5 DEF generateFiller, NothingBetweenTurns, ActiveIsLast,
                          FillerIsCurrent
<1> QED
  BY <1>4, <1>5

\* The end of a turn preserves the invariant: all tokens are of the past.
LEMMA ClearPreserves ==
  ASSUME FillerInv, clearAfterResponse, UNCHANGED <<inflight, waitGen, genFiller>>,
         bridging' \in BOOLEAN
  PROVE  FillerInv'
<1> USE DEF FillerInv
<1>1. FillerTypeOK'
  BY DEF FillerTypeOK, clearAfterResponse, Fillers
<1>2. NothingBetweenTurns' /\ ActiveIsLast' /\ FillerIsCurrent' /\ ConsumedIsMarked'
  BY DEF FillerTypeOK, clearAfterResponse, NothingBetweenTurns, ActiveIsLast,
         FillerIsCurrent, ConsumedIsMarked
<1>3. SpokenIsMarked'
  BY DEF FillerTypeOK, clearAfterResponse, SpokenIsMarked, ActiveIsLast, Fillers
<1>4. FillerSpokenOnce'
  BY DEF FillerSpokenOnce
<1> QED
  BY <1>1, <1>2, <1>3, <1>4

\* A generation that takes the filler preserves the invariant: the filler is the
\* last one, of this turn and not marked, so no other generation has it.
LEMMA WaitPreserves ==
  ASSUME NEW g \in FillerGenerations, FillerInv, waitForFiller(g) PROVE FillerInv'
<1> USE DEF FillerInv
<1>1. CASE Ready /\ TakeFiller(g)
  <2>1. /\ pendingFiller = nextRequestToken /\ pendingFiller > turn
        /\ pendingFiller # 0 /\ ~fillerConsumed /\ activeRequestToken = 0
        /\ listening /\ currentUtteranceID # 0
    BY <1>1 DEF Ready, FillerIsCurrent, ActiveIsLast, NothingBetweenTurns
  <2>2. genFiller' = [genFiller EXCEPT ![g] = pendingFiller]
    BY <1>1 DEF TakeFiller
  <2>3. FillerTypeOK'
    BY <1>1, <2>2 DEF FillerTypeOK, waitForFiller, TakeFiller, Fillers
  <2>4. /\ NothingBetweenTurns' /\ ActiveIsLast' /\ FillerIsCurrent'
        /\ ConsumedIsMarked'
    BY <1>1, <2>1 DEF waitForFiller, TakeFiller, NothingBetweenTurns,
                      ActiveIsLast, FillerIsCurrent, ConsumedIsMarked
  <2>5. \A k \in FillerGenerations : genFiller[k] # pendingFiller
    BY <2>1 DEF FillerTypeOK, SpokenIsMarked, Fillers
  <2>6. SpokenIsMarked'
    BY <1>1, <2>1, <2>2 DEF FillerTypeOK, waitForFiller, TakeFiller, SpokenIsMarked
  <2>7. FillerSpokenOnce'
    BY <2>2, <2>5 DEF FillerTypeOK, FillerSpokenOnce
  <2> QED
    BY <2>3, <2>4, <2>6, <2>7
<1>2. CASE ~Ready /\ UNCHANGED <<genFiller, consumedFiller, fillerConsumed>>
  <2>1. FillerTypeOK'
    BY <1>2 DEF FillerTypeOK, waitForFiller, Fillers
  <2> QED
    BY <1>2, <2>1 DEF waitForFiller, NothingBetweenTurns, ActiveIsLast,
         FillerIsCurrent, SpokenIsMarked, ConsumedIsMarked, FillerSpokenOnce
<1> QED
  BY <1>1, <1>2 DEF waitForFiller

\* Every step preserves the invariant.
LEMMA FillerInvNext == FillerInv /\ [FillerNext]_fillerVars => FillerInv'
<1> SUFFICES ASSUME FillerInv, [FillerNext]_fillerVars PROVE FillerInv'
  OBVIOUS
<1>1. CASE onInterim
  BY <1>1, InterimPreserves
<1>2. CASE Clear
  <2>1. bridging' \in BOOLEAN
    BY <1>2 DEF Clear, FillerInv, FillerTypeOK
  <2> QED
    BY <1>2, <2>1, ClearPreserves DEF Clear
<1>3. ASSUME NEW r \in inflight, generateFiller(r) PROVE FillerInv'
  BY <1>3, AnswerPreserves
<1>4. CASE HandleConfirmRequest
  BY <1>4 DEF HandleConfirmRequest, stateVars, requestVars, FillerInv, FillerTypeOK,
       NothingBetweenTurns, ActiveIsLast, FillerIsCurrent, SpokenIsMarked,
       ConsumedIsMarked, FillerSpokenOnce
<1>5. CASE ConfirmClears
  <2>1. bridging' \in BOOLEAN
    BY <1>5 DEF ConfirmClears
  <2> QED
    BY <1>5, <2>1, ClearPreserves DEF ConfirmClears
<1>6. ASSUME NEW g \in FillerGenerations, Begin(g) PROVE FillerInv'
  <2>1. FillerTypeOK'
    BY <1>6 DEF Begin, stateVars, requestVars, FillerInv, FillerTypeOK
  <2> QED
    BY <1>6, <2>1 DEF Begin, stateVars, requestVars, FillerInv, NothingBetweenTurns,
         ActiveIsLast, FillerIsCurrent, SpokenIsMarked, ConsumedIsMarked,
         FillerSpokenOnce
<1>7. ASSUME NEW g \in FillerGenerations, waitForFiller(g) PROVE FillerInv'
  BY <1>7, WaitPreserves
<1>8. CASE UNCHANGED fillerVars
  BY <1>8 DEF fillerVars, stateVars, requestVars, FillerInv, FillerTypeOK,
       NothingBetweenTurns,
       ActiveIsLast, FillerIsCurrent, SpokenIsMarked, ConsumedIsMarked,
       FillerSpokenOnce
<1> QED
  BY <1>1, <1>2, <1>3, <1>4, <1>5, <1>6, <1>7, <1>8 DEF FillerNext

\* The state of the fillers always satisfies the inductive invariant, its types
\* among it, however many interim transcripts and responses there are.
THEOREM FillerInvariant == FillerSpec => [](FillerInv /\ FillerTypeOK)
<1>1. FillerInv => FillerTypeOK
  BY DEF FillerInv
<1> QED
  BY <1>1, FillerInvInit, FillerInvNext, PTL DEF FillerSpec

\* No filler is spoken twice (waitForFiller), for any number of generations.
THEOREM FillerSpokenOnceHolds == FillerSpec => []FillerSpokenOnce
<1>1. FillerInv => FillerSpokenOnce
  BY DEF FillerInv
<1> QED
  BY <1>1, FillerInvInit, FillerInvNext, PTL DEF FillerSpec

\* A filler that can be spoken answers the last request of the current turn
\* (storeResult), for any number of requests and late answers.
THEOREM FillerIsCurrentHolds == FillerSpec => []FillerIsCurrent
<1>1. FillerInv => FillerIsCurrent
  BY DEF FillerInv
<1> QED
  BY <1>1, FillerInvInit, FillerInvNext, PTL DEF FillerSpec

\* The filler that was spoken is kept until the end of the turn (onInterim,
\* storeResult and waitForFiller do not replace it).
THEOREM SpokenFillerIsKeptHolds == FillerSpec => SpokenFillerIsKept
<1> DEFINE Kept == consumedFiller # 0 =>
                     \/ consumedFiller' = consumedFiller
                     \/ consumedFiller' = 0 /\ turn' = nextRequestToken
<1>1. FillerInv /\ [FillerNext]_fillerVars => [Kept]_fillerVars
  <2> SUFFICES ASSUME FillerInv, FillerNext, consumedFiller # 0
               PROVE  \/ consumedFiller' = consumedFiller
                      \/ consumedFiller' = 0 /\ turn' = nextRequestToken
    OBVIOUS
  <2>1. fillerConsumed /\ listening
    BY DEF FillerInv, ConsumedIsMarked, NothingBetweenTurns
  <2>2. CASE onInterim
    BY <2>1, <2>2 DEF onInterim, ShortInterim, RequestFiller, BeginsUtterance,
                      requestVars
  <2>3. CASE Clear \/ ConfirmClears
    BY <2>3 DEF Clear, ConfirmClears, clearAfterResponse
  <2>4. ASSUME NEW r \in inflight, generateFiller(r)
        PROVE  consumedFiller' = consumedFiller
    BY <2>4 DEF generateFiller
  <2>5. CASE HandleConfirmRequest
    BY <2>5 DEF HandleConfirmRequest, stateVars, requestVars
  <2>6. ASSUME NEW g \in FillerGenerations, Begin(g)
        PROVE  consumedFiller' = consumedFiller
    BY <2>6 DEF Begin, stateVars, requestVars
  <2>7. ASSUME NEW g \in FillerGenerations, waitForFiller(g)
        PROVE  consumedFiller' = consumedFiller
    BY <2>1, <2>7 DEF waitForFiller, Ready
  <2> QED
    BY <2>2, <2>3, <2>4, <2>5, <2>6, <2>7 DEF FillerNext
<1> QED
  BY <1>1, FillerInvInit, FillerInvNext, PTL DEF FillerSpec, SpokenFillerIsKept
=============================================================================
