# A TLA+ model of the InteractKit SDK

InteractKit runs voice agents. A *session* is a pipeline of handlers, each with
goroutines of its own, that exchange packets over unbuffered Go channels; a
*runner* starts the pipeline, watches it and takes it down. This directory holds
TLA+ models of the parts that carry the session's own logic, TLC runs that check
them on small instances, and TLAPS proofs for all instances.

## 1. Inventory

### The pipeline

`main.go` builds, in this order:

    TransportInput -> VAD -> STT -> UserContext -> LLM -> AssistantContext
                   -> TTS -> ActivityControl -> TransportOutput

A handler receives packets on its `InputChan`, and sends them *down* (to the next
handler) or to the *top*. What leaves the last handler, and what is sent to the
top, reaches the runner's listener; the listener stops the runner on a
`CriticalErrorEvent` (top) or an `EndCallEvent` (bottom), broadcasts other events
to websocket clients, and relays each event for the top to the first handler from
a goroutine of its own.

| Component | State it keeps | Operations | What is hard | What makes it correct |
|---|---|---|---|---|
| Runner, Pipeline (`core/runner.go`, `factories/pipeline.go`) | `Started`, context, `Finished`, channels | Start, listenToOutputs, Stop, Run | several goroutines call Stop; handlers fail to start; channels are closed under running goroutines | each handler cleaned up once and in order; a session that should end does; nobody outlives it |
| BaseHandler (`core/handler.go`) | service, backups, error channels | HandlerLoop, SendPacket, SwitchToBackupService, error loops | errors after cleanup; error loop gone after a failed switch | a fatal error is answered by a backup or ends the session |
| ActivityControlHandler | `isSuspended`, cached chunks, confirmation timer, `resumeChan` | one case per event, false positive, Cleanup | timer callbacks race confirmations | audio in order, none twice, none stuck, none after it was discarded |
| DynamicContextManager, task groups | completed tasks, collected variables, instruction message, tool list | LoadTaskGroup, set_* tools, completion | late tool calls; three views of progress | tasks unlock in order, branches exclude each other, prompt and tools agree with progress |
| TTSHandler | text buffer, flush flag, word simulation | text chunks, speak, completion, interruptions, Start, Cleanup | two goroutines, two channels, one mutex, a service that may fail | words in order inside an announced utterance, text flushed, clean-up ends |
| LLMHandler | current generation, `discarding`, filler state | generate, interrupt, filler | generations in goroutines of their own | no token of a discarded generation is spoken |
| Context aggregators | message list, false-positive timer, turn state | transcripts, replies, tool calls | unsynchronised appends from several goroutines | history matches what was said; tool calls are answered |
| VAD handler | speech, grace period, patience, bot-speaking flag | audio chunks, speaking events | the grace period changes while it is measured | speech starts with speech and is ended |
| STT handler, Deepgram STT | session, connection, channels | audio in, transcripts out, Finalize, reconnect, Cleanup | errors handled late, channels closed by the handler | utterances are finalised, a working connection is used, the session ends |
| TTS services (Deepgram, ElevenLabs, Cartesia) | session, connection, character count, context id | BufferText, Flush, Reset, reader, heartbeat, reconnect | three goroutines replace one connection under two locks | no connection is forgotten, a lost one is replaced or reported |
| OpenAI LLM | stream, partial tool calls | stream a completion | cancellation in mid-stream | tool calls are complete |
| LiveKit provider | connection, worker state, active jobs | connect, availability, assignment, Stop | reconnection and new jobs race Stop | a worker keeps reconnecting; Stop leaves no job and no connection |
| Transports (LiveKit, Daily, Twilio, websocket) | room, participants, tracks, channels | connect, media in and out, disconnect | callbacks of the media stack race Cleanup | readers end before the room is left, the loss of the participant is reported |
| Control plane client | send queue, connection | Send, Close, Wait | queue at its limit | newest messages survive |
| ExternalEventHandler | websocket clients | Broadcast, SendInput | concurrent writes, input during Stop | no send on a closed channel |

Loggers, configuration, text normalisation, audio codecs, phrase wording and the
type generator keep no protocol state. `PROJECT.json` lists every component with
its status, and the hazards with the lines where they bite.

### What is modelled now

| Module | Models | Composition |
|---|---|---|
| `Runner` | `Runner`, `Pipeline.Run`, the loops and fatal-error goroutines as the runner sees them | composes any number of handlers with the listener, the top relay and Stop |
| `ActivityControl` | `ActivityControlHandler` | implements `AudioGate` |
| `AudioGate` | the promise about bot audio (abstract) | instantiated by `ActivityControl` |
| `TaskGroup` | `DynamicContextManager` and the task group it drives | |
| `FillerState` | the fillers of `LLMHandler`: interim transcripts, answers, ends of turns, waiting generations | |
| `LLMHandler` | generations, `discarding`, the relay `eventLoop`, with the OpenAI service | its fillers are `FillerState`, see below |
| `TTSHandler` | `TTSHandler` with its simulation goroutine, Start and Cleanup | |
| `TTSConnection` | what the three TTS services share: connection, reader, heartbeat, Start, Cleanup | |
| `DeepgramTTS`, `ElevenLabsTTS`, `CartesiaTTS` | the calls of each service | extend `TTSConnection` |
| `TTSServices` | one of the three services, chosen initially | composes the four above |
| `LiveKitProvider` | the worker that takes jobs | |
| `LiveKitTransport` | a room: participants, tracks, data, sending, Cleanup, with the handler that receives | |
| `DeepgramSTT` | the STT service with the STT handler's channels | |
| `VADHandler` | the VAD handler | |
| `SpeechInput` | the two over the STT handler's inbox | composes `VADHandler` and `DeepgramSTT` |
| `ContextAggregators` | both aggregators and the tool goroutines over one message list | the LLM handler between them is reduced to what they see |
| `*_proof` | proofs | extend the modules they are about |
| `MC_*` | TLC instances | |

## 2. Modules and code

### Runner

Handler 1 is the input transport, handler `N` the output transport. A goroutine is
a state (`loop[h]`, `listener`, `relay`, `start[h]`, `run`, `stop`): *parked* in a
select, *busy* outside it, *checked* between the two context checks of
`SendPacket`, *sending* in a rendezvous, *exited*, or *crashed* by a panic. The
distinction matters at shutdown: cancellation wakes what is parked, while a busy
goroutine comes to its select when `Stop` may already have closed its channels.

* `InitializeHandler`, `InitializeFails`, `StartReturns`: `Runner.Start`.
  `StartHandler`, `StartHandlerFails`, `CancelAfterFailedStart`: the goroutine per
  handler that calls `handler.Start`.
* `Deliver`, `PassContextCheck`, `EnterSend`, `PassOn`, `LoopLeaves`,
  `SendEventFails`: the loops. `Plain` is the set of handlers whose loop uses a
  packet without looking at the context first.
* `ServiceFails`, `SwitchToBackupService`, `ReportCriticalError`:
  `fatalErrorHandlerLoop`.
* `ListenerFinishes`, `RelaySends`, `RelayDelivers`, `EndCall`, `DeliverTop`: the
  listener, the end-call tool and the relay to the first handler.
* `EnterStop`/`SkipStop`, `StopCancels`, `StopCleansUp`, `StopCloses`,
  `StopFinishes`: `Runner.Stop`, callable by `Run` and by any number of goroutines. A
  Cleanup may also never return (`CleanupHangs`: `TTSHandler.Cleanup` can deadlock
  with its simulation, `MCPManager.Close` waits for calls without a timeout) or panic
  (`CleanupPanics`: `Stop` recovers, its deferred functions run, the other handlers
  stay as they are); the constants say whose. `RunStops`, `RunTimesOut`,
  `RunSeesFinished`, `RunSkipsJob`: `Pipeline.Run`.

Packets carry only what the listener tells apart: data, an end of call, a critical
error.

### ActivityControl and AudioGate

A handler body runs on the event loop and is one step; the packets it has to send
are its `outbox`, and the loop takes nothing else until they are accepted or the
context is done. A timer is known by the suspension that armed it: `running`
timers may expire, an expired one is `firing` until its callback has tried to put a
signal into `resumeChan` (capacity 1). `stopConfirmTimer` stops only the timer the
handler refers to.  A chunk is its place in the order of synthesis. Durations that
reach only a log line are left out.

`AudioGate` is the abstract promise: chunks are accepted, pass in order, or are
discarded as a whole; only a session that is shutting down refuses one.
`ActivityControl` implements it with `pending` mapped to the chunks in the outbox
followed by the cache.

### TaskGroup

All operations run under `d.mu`, one step each: `LoadTaskGroup`, `SetVariable` (a
set_* call that is accepted, with the completion it may cause, including tool list
and instruction message), `RejectSetVariable`, `CompleteCurrentTask`. A value is
checked by `Validate` (empty string, allow-list, regular expression; a malformed
expression accepts everything). A set_* call may come at any time for any name: the
code ties it neither to the visible tasks nor to the tool list that the LLM was
shown. The constants describe the group, as the YAML file does.

### FillerState and LLMHandler

The handler is split where its state splits. `FillerState` has the fields of
`fillerState` as variables and one action per method, each a critical section of
its mutex; when generations begin and turns end is left open. `LLMHandler` has the
rest: `HandleGenerate` and `SpawnGeneration` (the response-started event is
delivered in between), `HandleSuspected`, `HandleConfirmed`; the goroutine of a
generation as a state per call (`waiting`, `resetting`, `filler`, `run`, `opening`,
`creating`, `streaming`, `chunk`, `tool`, `ending`); the relay, whose select takes
from four channels in any order; `Cancel` and `Cleanup`. Whether a generation finds
a filler is left open. Each module thus allows everything the other can do, and
what is shown of one holds of both together.

The service is the OpenAI one: `Reset` cancels the context of every open stream and
makes a new one (also after `Cleanup`), `RunCompletion` captures the context of the
moment; it looks at `s.ctx` before that, without the lock, and gives up if a `Reset`
of another generation is just cancelling it (`cut` in `Reset`). The filler of a
generation goes to the TTS handler without a look at `discarding`; `since` counts it
among the chunks that follow an interruption. A generation that panics or blocks for
ever after `Cleanup`, on a closed or nil error channel or a missing client, is
`lost`. Left out: the switch to a backup service on a fatal error, and
`generateConfirmBridge`, which only sends one packet.

### TTSHandler

Words are numbered in the order in which they reach the handler. The event loop
buffers text (`textBuffer`), calls the service (`BufferText`, `Flush`, `Reset`: each
call returns in a step of its own and may fail), and hands texts to the simulation
through `textToSpeak` (capacity 100 in the code, `QueueCapacity` here) and resets
through `resetSim` (capacity 1). The simulation goroutine takes texts, resets or
its word timer by a random select, takes `h.mu` where the code does, and announces
start, words and end. `StartLocks` and `StartReturns` are `Start`;
`CleanupLocks`, `CleanupCloses`, `CleanupReturns` are `Cleanup`, which keeps the
mutex throughout.

### TTSConnection, DeepgramTTS, ElevenLabsTTS, CartesiaTTS, TTSServices

The services are written after one pattern, and `TTSConnection` is that pattern:
connections are numbered, `status` and `wire` say what became of each and what the
server has received on it. `StartLocks`/`StartEstablishes`/`StartFails` are
`StartTTSSession`, `ReaderChecksContext` to `ReaderLeaves` are
`handleIncomingMessages` with `reconnect`, `Heartbeat*` is `heartbeat`,
`CleanupCancels` and `CleanupCloses` are `Cleanup`. `mu` and `reconnectMu` are
modelled where they are held across steps. The three other modules add what a call
sends: Deepgram cuts long texts and counts characters, ElevenLabs opens a stream per
reply and replaces the connection in `Reset`, Cartesia sends to a context that
`Flush` and `Reset` rotate. `establishConnection` with its attempts is one step that
succeeds or fails. A write either reaches the server or fails. The error of a failed
reconnection is always reported: the code drops it when `errorChan` is full, which
it is not, as the handler drains it, or gone, after Cleanup.

### LiveKitProvider

One connector at a time (`connect`, from `Start` or `scheduleReconnect`), a
`readLoop` per connection, jobs, `Stop` in four steps, and the wait group. A backoff
lasts at least a second, within which a loop that has returned has run its deferred
functions: this is the guard of `BackoffEnds`. `runJob` waits for the job's handler
"regardless of context cancellation", and the handler may hang in a Cleanup
(`HandlerHangs`, see Runner). The server may offer, assign and terminate jobs at any
time, and the network break any connection.

### LiveKitTransport

`Connect` is followed step by step: the room is joined and its callbacks begin
(`Connect`), the client is stored (`OnRoomConnected`), the track is published, if
audio output is on, or fails to be (`CreateAudioTrackFails`; the agent then stays in
the room), those present are listed (`ListParticipants`) and linked one by one
(`LinkPresent`), while others come and go. Participants may be in the room before the
agent; a job may link one beforehand, of whatever kind. Callbacks of the room
(`ParticipantConnected`, `ParticipantDisconnected`, `TrackSubscribed`,
`TrackUnsubscribed`, `DataPacket`), a reader per track with the list of cancel
functions it is entered in (loaded and stored in two steps, as the code does),
`StartReceiving` and its goroutine, `SendEvent` (checked, then acted on: `Cleanup`
may have set client or track to nil in between, and the process has then crashed),
and `Cleanup` in the order of its comments. Errors go into a channel of `ErrorCap`
(10 in the code) and are dropped when it is full.

### DeepgramSTT, VADHandler, SpeechInput

`DeepgramSTT` has `runSession`/`connectAndListen` as a state per step, audio and
`Finalize` from the handler, the goroutines of `handleConnectionError`, the
keep-alive goroutines, and the two Cleanups: the handler's, which closes the
channels, before the service's. `VADHandler` counts time in units: ages of the last
speech and the last interruption up to `MaxAge`, grace period and patience as
constants. `SpeechInput` lets the VAD handler's chunks and its end of speech reach
the STT handler one by one. What was spoken and not finalised at the server is
`unflushed`. Between two connections the session pauses for five seconds; a goroutine
of `handleConnectionError` is taken to have run by then (the guard of
`SessionRetries`). The session's look at `done` and its send of an error are two
steps (`SessionFails`, `SessionReports`): the handler may have closed the channel in
between, as it may with a result. An error of `ConvertAudioChunk`, after which the
chunk is not sent, is left out.

### ContextAggregators

An append to `context.Messages` is two steps, reading the slice and writing it back;
whoever writes last wins, which is what the unsynchronised code can do. `HandleFinal`,
`UserAppends`, `UserGenerates` are one case of the user aggregator's `HandleEvent`,
`HandleCompleted`, `HandleResult`, `AssistantAppends`, `AssistantGenerates` those of
the assistant's. `HandleToolCall` runs per call, in one of seven ways; a tool server
and an MCP server (whose tools are registered as standard handlers, in
`factories/session.go`, and called without a timeout) answer when they like. Events for the
top are a set that comes back in any order. The pipeline order matters: the TTS
handler comes after the aggregator, so spoken words do not reach it.

## 3. Runs

State counts are distinct states.

| Run | Instance | Checks | Shows |
|---|---|---|---|
| activity_control | 3 chunks, 3 suspensions; 58 906 states | SuspensionHasEnd, AudioAccounted, DiscardedStaysSilent, ImplementsAudioGate, AudioLeaves | the gate keeps its promise for every race of timers, callbacks, signals and events, and holds no chunk for ever |
| task_group | the example group of `TASKS.md` and a parallel root with a malformed regular expression; 5 292 | TasksUnlockInOrder, CompletionMatchesVariables, PromptMatchesProgress | sequences, exclusive branches and parallel tasks under every order of tool calls |
| runner | 3 handlers: the last may fail at start, later (with a backup) or when it sends, the middle one may hang or panic in Cleanup; a timeout; 162 183 | ShutdownInOrder, RunReturns, GoroutinesEnd, EndCallStopsHealthySession | Stop is safe however often it is called; sessions end unless a Cleanup hangs, and so do their goroutines; the end of the call gets past busy handlers and ends the session |
| filler_state | 2 generations, 3 requests; 8 676 | FillerSpokenOnce, FillerIsCurrent | late answers are never spoken, no filler is spoken twice |
| llm_handler | 2 generations of 2 items, channel of 2; 1 630 000 | ChunksInOrder, QuietAfterInterruption, ResponseEnds | overlapping generations, fillers, interruptions and shutdown leave the stream ordered, little is heard after an interruption, and every response ends |
| tts_handler | 2 words, buffer 2, queue 2, service may fail; 301 442 | SpeakingBracketsWords, WordsInOrder, CompletedIsFlushed, WordsLeave | words and utterances stay whole, responses are flushed, no word is stuck |
| tts_services | each service, 3 connections, 2 calls, limit 3; 375 418 | BufferBelowLimit, ContextsNotReused, NoOrphanConnection, LostConnectionHandled, GoroutinesEnd | reader, heartbeat, calls and Cleanup replace connections without losing one; a session is never left silent |
| livekit_provider | 2 jobs, which may hang, 3 connections, limit of 1 job; 380 000 | Supervised, NoJobAfterStop, ConnectionsClosed, StopCompletes | the worker reconnects until it is stopped; Stop leaves nothing behind, and ends unless a job hangs |
| livekit_transport | a user with a track, a guest and an agent, every kind of event; 1 280 330 | NoReaderAfterDisconnect, CleanupCompletes, ParticipantLossReported | Cleanup ends and outlasts the readers; the session learns that its participant left, whoever else is there and whenever it was |
| speech_input | 2 connections, 1 write error, grace 1, patience 1 for 2 units; 583 470 | UtteranceFinalised, OpenConnectionIsUsed, SpeechStartsWithSpeech, SessionEnds | what was said is finalised over reconnections and interruptions |
| context_aggregators | 2 utterances, 2 suspicions, 1 tool call of any kind; 2 165 878 | ConfirmedOncePerSuspicion, SoloAppendsStay, ToolCallsAnswered | a suspicion is confirmed once, a message that met no other append stays, tool calls are answered |
| context_false_positive | 1 utterance, 1 suspicion | *violated*: FalsePositiveRegenerates | the reply cut off by a false positive is not generated again |

The violated property states what a comment of the code says; the quotation is in
`PROJECT.json` under `findings`.

**Bounds.** Three suspensions are the smallest number in which a timer can be
running, another firing and a signal waiting at once; three chunks let one be played,
one held and one arrive. A queue of one or two is full after one or two texts, which
makes the dropping and blocking branches of the code happen. Three handlers are an
input, an output and one in the middle that an end of call has to pass; the safety
properties are proved for any number. With three, a session has one of a failing
service, an end of call and a timeout (`Together = FALSE`), beside whatever else may
stop it; with two and `Together = TRUE`, where they meet, the same properties hold
(146 837 states, both Cleanups may panic, one may hang). `stopCalls` and `Finished`
need no bound: each source of a stop fires a bounded number of times, and `Finished`
has capacity 5 in the code. Two generations are what it takes for one to reset the
other; three requests let an answer be late by two. Three connections of a TTS
service or a provider are one that is lost, one that replaces it and one that is
dialled while the second is being closed; two calls let one meet the state the other
left. A limit of 3 characters with texts of 2 and 3 makes chunking and automatic
flushing happen. With a second track of one user alone in the room, so that one is
listed while the other is cancelled, Cleanup ends as well (757 000 states). Two
participants of an accepted kind let one be linked after the other has left, or leave
while `participantDisconnectCh` (capacity 1) is full; the agent is linked only by a
job. The track of one of them fills an error channel of one. Two utterances let the
second be appended while the tool call of the first is running.

**Deadlock.** Sessions end, so `CHECK_DEADLOCK FALSE` is set for every model of a
session or a connection; in `FillerState` and `ContextAggregators` the bounded
counters run out. The task group runs with deadlock checking.

**Fairness.** Goroutines that can proceed do (weak fairness). Strong fairness is
used where Go's runtime justifies it: a `select` picks at random among ready cases,
blocked senders are queued first come first served, and a mutex does not starve a
waiter. Timers expire, service calls return, streams end, the next handler and the
transport accept packets. Dials end, and a read on a broken connection fails: the
code sets read deadlines, or reads from a socket the kernel reports. A Cleanup of a
handler, and the handler of a job, return *or hang*: RunReturns,
EndCallStopsHealthySession and StopCompletes except a session in which one hangs, and
nothing else. Handlers of tools return, with the exception of tool servers and MCP
servers, which need not answer (ToolCallsAnswered excepts them, and tools that nobody
has registered, which the code does not answer). Nothing is assumed of the
environment: no event need arrive, no session need end, and the session timeout,
which is optional, need not come.

**Statements the code does not keep to.** The modules state some promises of
comments that TLC refutes; given to a run in place of its properties, each yields a
counterexample.

* `ActivityControl!FalsePositiveOnlyAfterOwnTimeout` ("ConfirmationTimeout is how
  long to wait"): a signal left over from an earlier suspension ends a later one.
* `Runner!FailedStartEndsSession` (Run "blocks until completion"): a handler that
  fails to start cancels the context and tells nobody.
* `Runner!CleanupBeforeReturn` ("ensures Pipeline.Run() completes its runner.Stop()
  / Cleanup() cycle"): Run returns during another goroutine's clean-up.
* `Runner!StopsGracefully`: a goroutine that is busy while Stop closes the channels
  reads nil from a closed channel, or sends on one.
* `Runner!EndCallStopsSession` (`base_events.go:19-20`, "The runner handles it by
  stopping the pipeline gracefully"; with `StartMayFail = {}`): the output transport
  returns the error of `SendEvent` and does not pass the event on
  (`transport_handler.go:196-200`), so the runner never sees it and the call goes on.
* `LLMHandler!InFlightCancelled` (`llm_handler.go:185`, "Ensure any in-flight
  generation is cancelled when starting a new one"): a generation that has reset the
  service and not yet opened its stream opens it with the context that the next
  generation's `Reset` has made; both stream at once.
* `LLMHandler!CompletedIsComplete` ("The complete LLM response text"): the end of a
  completion overtakes chunks in another channel.
* `TTSHandler!CleanupCompletes`: Cleanup waits for the simulation while it holds the
  mutex the simulation needs to end.
* `LiveKitTransport!LinkedSessionCloses` (`transport.go:121`, "Close session on
  participant disconnect"): a participant whose leaving is handled between the
  listing and the loop's look at him found nobody linked; the loop then links him,
  and the session waits for ever.
* `ContextAggregators!CompletedReplyKept` (`context_handler.go:463-464`, "use the
  authoritative full text so timing gaps in the word-by-word simulation can never
  cause a miss"): `hasActiveTurn` is one flag for every response; of two under way
  the first to complete clears it, and the text of the second is dropped, though
  nobody interrupted.
* `SpeechInput!NeverSendsOnClosed` (`stt.go:110`, "avoid sending on closed
  channels"): the STT handler closes the channels before the service lets go of them.

**Seen while modelling.** A task group is announced final when no task is visible,
also when tasks behind a branch that was not taken are still open (`existing_job` in
the example of `TASKS.md`). A new request to the LLM handler clears `discarding`
before its goroutine resets the service: what the cancelled stream still delivers in
between passes as part of the new response. The aggregators' `Init` methods are never
called (the runner calls `Initialize`): besides the regeneration, `eventEmitter`
stays nil, so no `TaskVariablesEvent` is ever emitted. Spoken words never reach the
assistant aggregator, so an interrupted reply is missing from the context, and a
reply whose text is complete is committed as a whole however little of it was spoken.
Deepgram's first chunk of a long text is sent on top of what was buffered before it
("Each chunk is flushed immediately so Deepgram's buffer never fills up"). The TTS
services' Cleanup always waits its full 5 s for the heartbeat, whose last act needs
the mutex Cleanup holds; a reconnection that is late installs a connection after
Cleanup. Heartbeats write to a websocket that another goroutine may be writing to.
The provider checks its job limit when a job is offered, not when it is assigned, and
reports a failed job as failed and then as successful. `SendEvent` of the LiveKit
transport and `SendTranscriptionAudio` of the Deepgram STT check a pointer that
Cleanup or a reconnection may set to nil before it is used; with audio output off the
track is nil from the start, and any interruption panics in `ClearQueue`. A Cleanup
that panics keeps Stop from cleaning up the handlers after it. Participants of a kind
that is not accepted are heard as long as nobody is linked. Transcripts are dropped
when the STT handler is busy.

## 4. Proofs

TLAPS proves these for every value of the constants that satisfies the modules'
named assumptions (`BoundsAssumption`, `TaskGroupAssumption`, `RunnerAssumption`,
`FillerAssumption`, `LLMHandlerAssumption`, `TTSAssumption`,
`TTSConnectionAssumption`, `DeepgramAssumption`, `STTAssumption`, `VADAssumption`,
`ProviderAssumption`, `TransportAssumption`, and `Bounds` of `ContextAggregators`).
Every safety property that a run checks is also a theorem. Each inductive invariant
was checked by TLC, as an invariant of the run of its module, before it was proved.

A proof module extends what it is about; there is one per package of the code, so
that three of them have two modules side by side (`handlers/llm`,
`handlers/context`, `transports/livekit`), whose definitions have names of their own
for this reason (`FillerSpec`, `AggregatorSpec`, `TransportSpec`).

* **ActivityControl_proof.** `TypeCorrect`, `SuspensionHasEndHolds`,
  `AudioInOrderHolds`, `AudioAccountedHolds`, `DiscardedStaysSilentHolds`. The
  inductive invariant is `TypeOK /\ OutboxShape /\ AudioInv /\ SuspensionHasEnd`.
  `OutboxShape` says that the outbox is a run of control packets or of audio packets,
  which is what makes "first in the outbox" mean "oldest chunk not yet played";
  `AudioInv` strengthens the order of what was played with the order of what is still
  to be played, and ties cache, outbox, discarded and lost chunks to the number
  accepted. `Refinement`: `Spec => ImplementsAudioGate`. `GateStep` has one case per
  action, each shown to be `Accept`, `Play`, `Discard`, `Close`, `Refuse` or a
  stutter of the gate, from the same invariant.
* **Runner_proof.** `RunnerInvariant`, `CleanupOnceHolds`, `ShutdownInOrderHolds`,
  for any number of handlers. `StopInv` relates the position of the one Stop that
  passed the guard to `Started`, the clean-up counters and the closed channels; no
  single part of it is inductive, because the guard `Started` is set by the
  initialisation and reset by Stop, and only the rest says that the first comes
  before the second.
* **Context_proof, the task group.** `TypeCorrect` and one theorem for each of
  TasksUnlockInOrder, BranchesExclusive, CompletionMatchesVariables,
  PromptMatchesProgress, CompletedTasksFrozen. The invariant is their conjunction
  with `LockedTasksEmpty` (a task that is not unlocked has collected nothing): a
  completion may show tasks, and only this says that those are incomplete.
* **Context_proof, the aggregators.** `AggregatorInvariant`, `AggregatorTypeCorrect`,
  `ConfirmedOncePerSuspicionHolds`, `SoloAppendsStayHolds`, for any set of tool
  calls. That a later append cannot lose a message which met no other needs
  `SavedInv`: not only the list but every slice that an append has read and not yet
  written back holds all such messages; a slice read before the message was written
  would be an append that it met. That it repeats nothing needs that every message is
  new when it is written, and this is a matter of the whole path: `ReplyInv` and
  `ResultOnce` say that a reply and the result of a call are in one place at a time
  (on the way to the top, to the LLM handler, to the aggregator, in its hands, or in
  the context), `CallOrder` how far the goroutine of the call is then, `UserInv` that
  utterances are numbered. `ContextStep` reduces the steps of five goroutines to
  three: nothing, the first half of an append, the second half with a message never
  written before. `ConfirmedOncePerSuspicion` is inductive with the types.
* **LLMHandler_proof, the handler.** `LLMHandlerInvariant`, `TypeCorrect`,
  `ChunksInOrderHolds`, `QuietAfterInterruptionHolds`, for every capacity of
  `messageOutChan`. `OrderInv` extends the order of what was delivered to the packet
  in the hands of `eventLoop` and to the channel, in which the chunks of several
  streams are mixed; `QuietInv` ties `discarding` to what is still on its way, chunks
  and fillers; `BoundInv` keeps the chunk numbers inside the bound.
* **LLMHandler_proof, the fillers.** `FillerInvariant`, `FillerSpokenOnceHolds`,
  `FillerIsCurrentHolds`, `SpokenFillerIsKeptHolds`, for any number of requests and
  generations. The invariant says where the last token can be (awaited, ready or
  spoken and marked), that every other token that was spoken belongs to an ended
  turn, and that between turns nothing is left over: without the last part, the reset
  at the beginning of an utterance could take back the mark of a filler that was
  spoken.
* **TTSHandler_proof.** `TTSHandlerInvariant`, `TypeCorrect`,
  `SpeakingBracketsWordsHolds`, `WordsInOrderHolds`, `CompletedIsFlushedHolds`,
  `TimerDrivesWordsHolds`, `ChannelsOutliveSimulationHolds`. `LockInv` says who holds
  `h.mu` and that nobody starts the simulation while Cleanup has it; `SpeakInv` and
  `AnnounceInv` connect `isSpeaking`, the timer, the words left and the last
  announcement; `OrderInv` puts what was spoken, the word being spoken, the text just
  taken and the texts in the channel into one order, `NumberInv` bounds it by the
  words queued; `FlushInv` lists the ways in which unflushed text is accounted for.
* **TTSServices_proof.** `TTSServicesInvariant`, `TypeCorrect`,
  `NoOrphanConnectionHolds`, `BufferBelowLimitHolds`, `ContextsNotReusedHolds`, for
  all three services at once. `ConnInv` says who may replace the connection (reader,
  Start and Reset never at the same time), `CallInv` which connection a call writes
  to, `BufferInv` what Deepgram's counter means in the middle of a call, `ContextInv`
  that nothing follows the end of a Cartesia context. What the server keeps
  (`KeptChars`) is a recursive function of the wire; that it depends only on the
  messages read so far, and what one more message does to it, is proved with the
  least place at which two countings would differ.
* **SpeechInput_proof.** `SpeechInputInvariant`, `TypeCorrect`,
  `UtteranceFinalisedHolds`, `OpenConnectionIsUsedHolds`,
  `SpeechStartsWithSpeechHolds`. `ConnectionInv` says that the session dials only
  after the errors of the last connection were handled, `UtteranceInv` that speech
  the server was not told to finalise goes on or its end is on the way, `GraceInv`
  that ended speech is older than the grace period in force.
* **LiveKit_proof, the provider.** `ProviderInvariant`, `ProviderTypeCorrect`,
  `OneReadLoopHolds`, `SupervisedHolds`, `NoJobAfterStopHolds`, for any number of
  connections and jobs. `LoopInv`: one `readLoop` at a time, none while `connect` is
  under way; it rests on the time a retry waits, in which the loop that has asked for
  it ends (the guard of `BackoffEnds`). `StopInv` says that after Stop no loop gets
  past its look at the context, which is why a loop started late takes no job.
* **LiveKit_proof, the transport.** `TransportInvariant`, `TransportTypeCorrect`,
  `NoReaderAfterDisconnectHolds`, `CrashOnlyInCleanupHolds`, for any participants and
  tracks, wherever they are when the agent joins. `ReaderInv` separates the readers
  Cleanup waited for from the ones a callback starts later, which leave at their
  first look at the context; `ClientInv` says from when to when client and track are
  there. `CrashOnlyInCleanup` is about sessions with audio output: without it an
  interruption crashes at any time.

Proved and not repeated in a run: the type invariants, AudioInOrder,
BranchesExclusive, CompletedTasksFrozen, CleanupOnce, SpokenFillerIsKept,
TimerDrivesWords, ChannelsOutliveSimulation, OneReadLoop, CrashOnlyInCleanup.

Only model-checked: all liveness (AudioLeaves, CleanupCompletes, ConnectionsClosed,
EndCallStopsHealthySession, GoroutinesEnd, LostConnectionHandled,
ParticipantLossReported, ResponseEnds, RunReturns, SessionEnds, StopCompletes,
ToolCallsAnswered, WordsLeave): TLAPS reasons neither about fairness nor about
ENABLED. What is refuted has no theorem.

## 5. Not modelled

See `components` in `PROJECT.json`. Wording, formatting, logging, codecs, numerical
inference and configuration are left out for good, and with them the text
normalisation, which rewrites strings. Of the modelled components, what is left out
is named there too: switching an LLM, STT or TTS handler to a backup service, pacing
of playback, message contents. The Daily, Twilio and websocket transports, the
control plane client, `ExternalEventHandler` and the MCP manager are not modelled yet.

## 6. Plan

In this order:

1. Proofs of what the liveness properties rest on: in each module, that the state
   from which a goroutine could not go on is not reachable (as SuspensionHasEnd and
   Supervised say for theirs): `Runner` at shutdown, `TTSHandler` in Cleanup, the
   calls of the tools in `ContextAggregators`.
2. `ContextAggregators` composed with `TaskGroup` (the instruction message among the
   appenders) and with the full `LLMHandler`.
3. `BaseHandler`: error channels and their capacity, backup switching with the
   sessions of the services; `ExternalEventHandler`.
4. The Daily, Twilio and websocket transports; the control plane client.
