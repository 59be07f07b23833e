----------------------------- MODULE LLMHandler -----------------------------
(***************************************************************************)
(* handlers/llm with services/openai/llm: from an LLMGenerateResponseEvent *)
(* to the chunks, the tool calls and the completion that go to the TTS     *)
(* handler.                                                                *)
(*                                                                         *)
(* Actors: HandleEvent; one goroutine per generation (wait for a filler,   *)
(* reset the service, speak the filler, run the completion); the relay,    *)
(* eventLoop, a random select over what the completions produce; and the   *)
(* runner that cancels and cleans up.                                      *)
(*                                                                         *)
(* Nothing on the channels says which generation it comes from; here a     *)
(* chunk is <<its generation, its place in the stream>> so that properties *)
(* can.  A packet that HandleEvent passes on is part of the step that      *)
(* handles it; the response-started event, delivered before the generation *)
(* is spawned, is not.  The state of the fillers is FillerState, where     *)
(* turns end at any time; here a generation finds a filler or finds none,  *)
(* and the filler that the collected text begins with is left out.         *)
(***************************************************************************)
EXTENDS Naturals, Sequences

CONSTANTS
  MessageCapacity,  \* of messageOutChan; 10 in the code
  MaxGenerations,   \* bound: responses asked for in one behaviour
  MaxItems          \* bound: chunks and tool calls in one stream

ASSUME LLMHandlerAssumption ==
  MessageCapacity \in Nat \ {0} /\ MaxGenerations \in Nat /\ MaxItems \in Nat

Generations == 1..MaxGenerations

VARIABLES
  ctxDone,      \* the session's context is done
  initialized,  \* isInitialized of the service: FALSE after Cleanup
  live,         \* the service has a client and a context that is not done
  handle,       \* HandleEvent: "select", or "started" while it sends that event
  discarding,
  generations,  \* generations 1..generations have been spawned
  gen,          \* gen[g]: what the goroutine of g does next
  genCtx,       \* genCtx[g]: the context its stream was opened with
  items,        \* items[g]: chunks and tool calls its stream has handed over
  messages,     \* messageOutChan
  startSignal, endSignal,  \* completionStartChan, completionEndChan: capacity 1
  relay,        \* eventLoop: "select", "sending" or "exited"
  packet,       \* the packet it is sending
  fullText,     \* the chunks it has passed on
  \* History: the last chunk delivered of each generation; an interruption came
  \* after the last request for a response, and these generations could still
  \* send a filler then; chunks delivered since then; a response has started
  \* and not completed.
  forwarded, interrupted, awaiting, since, open

serviceVars == <<ctxDone, initialized, live>>
eventVars   == <<handle, discarding>>
streamVars  == <<generations, genCtx, items>>
channelVars == <<messages, startSignal, endSignal>>
relayVars   == <<relay, packet, fullText>>
historyVars == <<forwarded, interrupted, awaiting, since, open>>
\* All but gen.
otherVars == <<serviceVars, eventVars, streamVars, channelVars, relayVars,
               historyVars>>
vars == <<gen, otherVars>>

\* The filler of g comes before the chunks of its stream.
FillerChunk(g) == <<g, 0>>

NoPacket == [event |-> "none"]
ChunkPacket(c) == [event |-> "LLMResponseChunk", chunk |-> c]
ToolPacket == [event |-> "LLMToolInvocationRequested"]
CompletedPacket(t) == [event |-> "LLMResponseCompleted", FullText |-> t]

Init ==
  /\ ctxDone = FALSE /\ initialized = TRUE /\ live = TRUE
  /\ handle = "select" /\ discarding = FALSE
  /\ generations = 0
  /\ gen = [g \in Generations |-> "none"]
  /\ genCtx = [g \in Generations |-> "none"]
  /\ items = [g \in Generations |-> 0]
  /\ messages = <<>> /\ startSignal = FALSE /\ endSignal = FALSE
  /\ relay = "select" /\ packet = NoPacket /\ fullText = <<>>
  /\ forwarded = [g \in Generations |-> 0]
  /\ interrupted = FALSE /\ awaiting = {} /\ since = {} /\ open = FALSE

-----------------------------------------------------------------------------
(* HandleEvent.                                                            *)

\* What Service.Reset and Service.Cleanup do to the streams.
CancelStreams ==
  genCtx' = [g \in Generations |->
               IF genCtx[g] = "live" THEN "cancelled" ELSE genCtx[g]]

\* Service.Reset: a new client and context take the place of the old, and the
\* generations go on as next says.  A completion that looks at the context
\* without the lock, while it is being replaced, finds it done, reports that
\* and returns without a signal.
Reset(next) ==
  /\ CancelStreams
  /\ live' = TRUE
  /\ \E cut \in SUBSET {g \in Generations : initialized /\ gen[g] = "run"} :
       gen' = [g \in Generations |-> IF g \in cut THEN "done" ELSE next[g]]
  /\ UNCHANGED <<ctxDone, initialized>>

AtEvent == handle = "select" /\ ~ctxDone

HandleGenerate ==
  /\ AtEvent /\ generations < MaxGenerations
  /\ discarding' = FALSE
  /\ handle' = "started"
  /\ interrupted' = FALSE /\ awaiting' = {} /\ since' = {}
  /\ UNCHANGED <<gen, serviceVars, streamVars, channelVars, relayVars,
                 forwarded, open>>

\* SendPacket(LLMResponseStartedEvent) returns and the generation is spawned.
SpawnGeneration ==
  /\ handle = "started"
  /\ handle' = "select"
  /\ generations' = generations + 1
  /\ gen' = [gen EXCEPT ![generations + 1] = "waiting"]
  /\ open' = (open \/ ~ctxDone)
  /\ UNCHANGED <<serviceVars, discarding, genCtx, items, channelVars, relayVars,
                 forwarded, interrupted, awaiting, since>>

\* History only: generations that have yet to send a filler, or to find none.
Interrupt ==
  /\ interrupted' = TRUE
  /\ awaiting' = IF interrupted THEN awaiting
                 ELSE {g \in Generations :
                         gen[g] \in {"waiting", "resettingFiller", "filler"}}

\* Faulty variant: discarding is left to the confirmation.
HandleSuspectedStillForwarding ==
  /\ AtEvent
  /\ Interrupt
  /\ UNCHANGED <<gen, serviceVars, eventVars, streamVars, channelVars, relayVars,
                 forwarded, since, open>>

HandleSuspected ==
  /\ AtEvent
  /\ discarding' = TRUE
  /\ Interrupt
  /\ UNCHANGED <<gen, serviceVars, handle, streamVars, channelVars, relayVars,
                 forwarded, since, open>>

\* The flag and the Reset can be seen apart by other goroutines, but what each
\* does does not depend on the other.
HandleConfirmed ==
  /\ AtEvent
  /\ discarding' = TRUE
  /\ Reset(gen)
  /\ Interrupt
  /\ UNCHANGED <<handle, generations, items, channelVars, relayVars,
                 forwarded, since, open>>

-----------------------------------------------------------------------------
(* A generation.                                                           *)

At(g, here) == gen[g] = here

\* A step of g that changes nothing but where it is.
Goes(g, here, next) ==
  /\ At(g, here)
  /\ gen' = [gen EXCEPT ![g] = next]
  /\ UNCHANGED otherVars

Goto(g, next) == gen' = [gen EXCEPT ![g] = next]

\* waitForFiller returns a filler, or none (FillerState).
WaitForFiller(g) ==
  Goes(g, "waiting", "resetting") \/ Goes(g, "waiting", "resettingFiller")

GenerationResets(g) ==
  /\ \/ At(g, "resetting") /\ Reset([gen EXCEPT ![g] = "run"])
     \/ At(g, "resettingFiller") /\ Reset([gen EXCEPT ![g] = "filler"])
  /\ UNCHANGED <<eventVars, generations, items, channelVars, relayVars,
                 historyVars>>

\* A chunk reaches the TTS handler.
Delivered(c) == since' = IF interrupted THEN since \cup {c} ELSE since

\* SendPacket of the filler, to be spoken at once, returns.  It does not look at
\* discarding, and delivers the filler unless the context is done.
FillerSent(g) ==
  /\ At(g, "filler")
  /\ Goto(g, "run")
  /\ \/ ~ctxDone /\ Delivered(FillerChunk(g))
     \/ ctxDone /\ UNCHANGED since
  /\ UNCHANGED <<serviceVars, eventVars, streamVars, channelVars, relayVars,
                 forwarded, interrupted, awaiting, open>>

\* completionStartChan is written without blocking; messages that cannot be
\* converted end the completion like a stream that cannot be created, below.
\* A service that is not initialised writes an error to a channel that
\* BaseHandler.Cleanup has closed (a panic) or set to nil (for ever).
RunCompletion(g) ==
  \/ /\ initialized /\ At(g, "run")
     /\ Goto(g, "opening")
     /\ startSignal' = TRUE
     /\ UNCHANGED <<serviceVars, eventVars, streamVars, messages, endSignal,
                    relayVars, historyVars>>
  \/ ~initialized /\ Goes(g, "run", "lost")

\* The context is captured under the lock, and looked at.
CaptureContext(g) ==
  \/ /\ live /\ At(g, "opening")
     /\ Goto(g, "creating")
     /\ genCtx' = [genCtx EXCEPT ![g] = "live"]
     /\ UNCHANGED <<serviceVars, eventVars, generations, items, channelVars,
                    relayVars, historyVars>>
  \/ ~live /\ Goes(g, "opening", "ending")

\* CreateChatCompletionStream, on the client of the moment: a stream, or an
\* error (fatal unless the context was cancelled); with the client gone, a panic.
CreateStream(g) ==
  \/ live /\ genCtx[g] = "live" /\ Goes(g, "creating", "streaming")
  \/ live /\ Goes(g, "creating", "ending")
  \/ ~live /\ Goes(g, "creating", "lost")

\* stream.Recv: content, the end of a tool call, or an end of the stream.  A
\* completion that is not streamed is a stream of one chunk and its tool calls.
Recv(g) ==
  \/ /\ genCtx[g] = "live" /\ items[g] < MaxItems
     /\ Goes(g, "streaming", "chunk") \/ Goes(g, "streaming", "tool")
  \/ Goes(g, "streaming", "ending")

\* Faulty variant: the chunk is handed over and kept for another attempt.
SendChunkAgain(g) ==
  /\ At(g, "chunk") /\ Len(messages) < MessageCapacity
  /\ messages' = Append(messages, <<g, items[g] + 1>>)
  /\ UNCHANGED <<gen, serviceVars, eventVars, streamVars, startSignal,
                 endSignal, relayVars, historyVars>>

\* The chunk goes into messageOutChan when there is room, even if the context
\* is done: the select is random.
SendChunk(g) ==
  /\ At(g, "chunk") /\ Len(messages) < MessageCapacity
  /\ messages' = Append(messages, <<g, items[g] + 1>>)
  /\ items' = [items EXCEPT ![g] = @ + 1]
  /\ Goto(g, "streaming")
  /\ UNCHANGED <<serviceVars, eventVars, generations, genCtx, startSignal,
                 endSignal, relayVars, historyVars>>

\* The other case of that select, and of the one for a tool call.
AbandonItem(g) ==
  /\ genCtx[g] = "cancelled"
  /\ Goes(g, "chunk", "ending") \/ Goes(g, "tool", "ending")

\* Faulty variant: a completion ends without the deferred signal.
CompletionEndsSilently(g) == Goes(g, "ending", "done")

\* The deferred, non-blocking send on completionEndChan.
CompletionEnds(g) ==
  /\ At(g, "ending")
  /\ Goto(g, "done")
  /\ endSignal' = TRUE
  /\ UNCHANGED <<serviceVars, eventVars, streamVars, messages, startSignal,
                 relayVars, historyVars>>

GenerationStep(g) ==
  \/ WaitForFiller(g) \/ GenerationResets(g) \/ FillerSent(g)
  \/ RunCompletion(g) \/ CaptureContext(g) \/ CreateStream(g) \/ Recv(g)
  \/ SendChunk(g) \/ AbandonItem(g) \/ CompletionEnds(g)

-----------------------------------------------------------------------------
(* eventLoop.  Its select takes whatever is ready, in any order.           *)

AtSelect == relay = "select"

\* SendPacket begins, unless what was received is to be discarded.
Relays(p) ==
  \/ discarding /\ UNCHANGED <<relay, packet>>
  \/ ~discarding /\ relay' = "sending" /\ packet' = p

RelayMessage ==
  /\ AtSelect /\ messages # <<>>
  /\ messages' = Tail(messages)
  /\ Relays(ChunkPacket(Head(messages)))
  /\ fullText' = IF discarding THEN fullText ELSE Append(fullText, Head(messages))
  /\ UNCHANGED <<gen, serviceVars, eventVars, streamVars, startSignal,
                 endSignal, historyVars>>

\* toolInvocationOutChan is unbuffered: the two goroutines meet.
RelayTool(g) ==
  /\ AtSelect /\ At(g, "tool")
  /\ Goto(g, "streaming")
  /\ items' = [items EXCEPT ![g] = @ + 1]
  /\ Relays(ToolPacket)
  /\ UNCHANGED <<serviceVars, eventVars, generations, genCtx, channelVars,
                 fullText, historyVars>>

\* fullText begins anew.
RelayStart ==
  /\ AtSelect /\ startSignal
  /\ startSignal' = FALSE
  /\ fullText' = IF discarding THEN fullText ELSE <<>>
  /\ UNCHANGED <<gen, serviceVars, eventVars, streamVars, messages, endSignal,
                 relay, packet, historyVars>>

RelayEnd ==
  /\ AtSelect /\ endSignal
  /\ endSignal' = FALSE
  /\ Relays(CompletedPacket(fullText))
  /\ fullText' = <<>>
  /\ UNCHANGED <<gen, serviceVars, eventVars, streamVars, messages, startSignal,
                 historyVars>>

\* SendPacket returns: the packet is delivered unless the context is done.
ItemSent ==
  /\ relay = "sending" /\ packet.event # "LLMResponseCompleted"
  /\ relay' = "select" /\ packet' = NoPacket
  /\ IF packet.event = "LLMResponseChunk" /\ ~ctxDone
     THEN /\ forwarded' = [forwarded EXCEPT ![packet.chunk[1]] = packet.chunk[2]]
          /\ Delivered(packet.chunk)
     ELSE UNCHANGED <<forwarded, since>>
  /\ UNCHANGED <<gen, serviceVars, eventVars, streamVars, channelVars,
                 fullText, interrupted, awaiting, open>>

CompletionSent ==
  /\ relay = "sending" /\ packet.event = "LLMResponseCompleted"
  /\ relay' = "select" /\ packet' = NoPacket
  /\ open' = (open /\ ctxDone)
  /\ UNCHANGED <<gen, serviceVars, eventVars, streamVars, channelVars, fullText,
                 forwarded, interrupted, awaiting, since>>

EventLoopExits ==
  /\ AtSelect /\ ctxDone
  /\ relay' = "exited"
  /\ UNCHANGED <<gen, serviceVars, eventVars, streamVars, channelVars,
                 packet, fullText, historyVars>>

RelayStep ==
  \/ RelayMessage \/ RelayStart \/ RelayEnd \/ ItemSent \/ CompletionSent \/ EventLoopExits
  \/ \E g \in Generations : RelayTool(g)

-----------------------------------------------------------------------------
(* The runner.                                                             *)

Cancel ==
  /\ ~ctxDone
  /\ ctxDone' = TRUE
  /\ UNCHANGED <<gen, initialized, live, eventVars, streamVars,
                 channelVars, relayVars, historyVars>>

\* Service.Cleanup: streams and context are cancelled, the client is gone.
Cleanup ==
  /\ ctxDone /\ initialized
  /\ initialized' = FALSE /\ live' = FALSE
  /\ CancelStreams
  /\ UNCHANGED <<gen, ctxDone, eventVars, generations, items,
                 channelVars, relayVars, historyVars>>

Next ==
  \/ HandleGenerate \/ HandleSuspected \/ HandleConfirmed
  \/ SpawnGeneration
  \/ \E g \in Generations : GenerationStep(g)
  \/ RelayStep
  \/ Cancel \/ Cleanup

Spec == Init /\ [][Next]_vars

(* The goroutines of a session go on when they can; the deadline of        *)
(* waitForFiller passes; streams end; the TTS handler accepts packets.     *)
(* Nothing is assumed of the events that arrive.                           *)
Fairness ==
  /\ WF_vars(SpawnGeneration)
  /\ \A g \in Generations : WF_vars(GenerationStep(g))
  /\ WF_vars(RelayStep)

FairSpec == Spec /\ Fairness
-----------------------------------------------------------------------------
(* Properties.                                                             *)

Chunks == Generations \X (1..MaxItems)

TypeOK ==
  /\ ctxDone \in BOOLEAN /\ initialized \in BOOLEAN /\ live \in BOOLEAN
  /\ handle \in {"select", "started"} /\ discarding \in BOOLEAN
  /\ generations \in 0..MaxGenerations
  /\ gen \in [Generations ->
                {"none", "waiting", "resetting", "resettingFiller", "filler", "run",
                 "opening",
                 "creating", "streaming", "chunk", "tool", "ending", "done",
                 "lost"}]
  /\ genCtx \in [Generations -> {"none", "live", "cancelled"}]
  /\ items \in [Generations -> 0..MaxItems]
  /\ messages \in Seq(Chunks) /\ Len(messages) <= MessageCapacity
  /\ startSignal \in BOOLEAN /\ endSignal \in BOOLEAN
  /\ relay \in {"select", "sending", "exited"}
  /\ \/ packet \in {NoPacket, ToolPacket} \cup {ChunkPacket(c) : c \in Chunks}
     \/ packet = CompletedPacket(packet.FullText) /\ packet.FullText \in Seq(Chunks)
  /\ fullText \in Seq(Chunks)
  /\ forwarded \in [Generations -> 0..MaxItems]
  /\ interrupted \in BOOLEAN /\ open \in BOOLEAN
  /\ awaiting \subseteq Generations
  /\ since \subseteq Chunks \cup {FillerChunk(g) : g \in Generations}

\* Chunks of a stream reach the TTS handler in the order of the stream and none
\* twice, whatever was discarded in between and however streams overlap.
ChunksInOrder ==
  LET sending == IF packet.event = "LLMResponseChunk"
                 THEN <<packet.chunk>> ELSE <<>>
      queue == sending \o messages
  IN  \A i \in DOMAIN queue :
        /\ queue[i][2] > forwarded[queue[i][1]]
        /\ queue[i][2] <= items[queue[i][1]]
        /\ \A j \in DOMAIN queue :
             i < j /\ queue[i][1] = queue[j][1] => queue[i][2] < queue[j][2]

\* Between a suspected interruption and the next request for a response, the TTS
\* handler gets at most one chunk of a stream, the one that was being sent,
\* although streams keep filling the channel; besides it only fillers, and of
\* those only the ones of generations that had yet to send theirs.
QuietAfterInterruption ==
  /\ \A c, d \in since \cap Chunks : c = d
  /\ \A g \in Generations : FillerChunk(g) \in since => g \in awaiting

\* A response that was announced as started is completed, unless the user
\* interrupts or the session ends.
ResponseEnds == open ~> (~open \/ interrupted \/ ctxDone)

\* A completion of g is under way that nobody has cancelled.
InFlight(g) ==
  /\ genCtx[g] = "live"
  /\ gen[g] \in {"creating", "streaming", "chunk", "tool"}

\* HandleEvent: "Ensure any in-flight generation is cancelled when starting a new
\* one", so that two replies never fill the channel together.
\* The code does not keep to this: a generation that has reset the service and
\* has not yet asked for its stream, as while it sends its filler, opens it
\* with the context that the next generation's reset has made; TLC refutes it
\* (README, section 3).
InFlightCancelled ==
  \A g, h \in Generations : InFlight(g) /\ InFlight(h) => g = h

\* "The complete LLM response text." (LLMResponseCompletedEvent.FullText): when
\* the only response so far ran to its end and was not interrupted, no chunk of
\* it is still to come, and the last one that went to the TTS handler is there.
\* The code does not keep to this: TLC refutes it (README, section 3).
CompletedIsComplete ==
  /\ packet.event = "LLMResponseCompleted" /\ ~interrupted
  /\ generations = 1 /\ gen[1] = "done" /\ genCtx[1] = "live"
  => /\ messages = <<>>
     /\ forwarded[1] # 0 => \E i \in DOMAIN packet.FullText :
                               packet.FullText[i] = <<1, forwarded[1]>>
=============================================================================
