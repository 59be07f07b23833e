----------------------------- MODULE TTSHandler -----------------------------
(***************************************************************************)
(* handlers/tts: text from the LLM is buffered, handed to the TTS service  *)
(* and, in parallel, to a simulation that reports word by word what the    *)
(* bot is saying and announces when it starts and stops speaking.          *)
(*                                                                         *)
(* Actors: the goroutine of HandlerLoop, which runs HandleEvent; the       *)
(* simulation goroutine; the goroutine that runs Start; and the runner,    *)
(* which cancels the context and then calls Cleanup.  They share two       *)
(* channels (textToSpeak, buffered; resetSim, of capacity 1) and the mutex *)
(* h.mu, which Start and Cleanup hold across calls that block.             *)
(*                                                                         *)
(* A text is the sequence of its words (strings.Fields), a word its number *)
(* in the order in which words entered textToSpeak.  Break words, minimum  *)
(* lengths and normalisation decide nondeterministically when the buffer   *)
(* is handed on and how many of its words are left.  enableSimulation is   *)
(* TRUE, as nothing in the repository turns it off.  The relay of audio    *)
(* from the service is the input of ActivityControl and is left out here.  *)
(***************************************************************************)
EXTENDS Naturals, Sequences

CONSTANTS
  QueueCapacity,  \* capacity of textToSpeak (100 in the code)
  MaxBuffer,      \* bound: words in textBuffer
  MaxWords,       \* bound: words that enter textToSpeak in one behaviour
  ServiceMayFail  \* calls of the TTS service can return an error

ASSUME TTSAssumption ==
  /\ QueueCapacity \in Nat \ {0}
  /\ MaxBuffer \in Nat \ {0}
  /\ MaxWords \in Nat
  /\ ServiceMayFail \in BOOLEAN

VARIABLES
  ctxDone,      \* the session context, and with it simCtx, is done
  mu,           \* who holds h.mu across steps: "free", "start" or "cleanup"
  start,        \* Start: "pending", "calling", "ok" or "failed"
  cleanup,      \* Cleanup: "none", "waiting", "closing" or "done"
  \* HandleEvent.
  loop,         \* what the goroutine of HandlerLoop is doing
  event,        \* the event it handles
  text,         \* number of words of the text it handles
  textBuffer,   \* number of words in textBuffer
  hasBufferedSinceLastFlush,
  unflushed,    \* external: the service has text that it was not told to flush
  leftover,     \* history: ... because a call failed or a new response began
  \* The simulation.
  textToSpeak,  \* the channel of texts
  resetSim,     \* there is a signal in the channel of capacity 1
  sim,          \* what the simulation goroutine is doing
  newWords,     \* the text it has just taken
  words,        \* the words still to be reported
  timer,        \* a word timer is running
  isSpeaking,
  \* History: words queued; words reported; words thrown away; the event last
  \* announced to the top.
  queued, spoken, cleared, announced

runnerVars  == <<ctxDone, mu, start, cleanup>>
serviceVars == <<textBuffer, hasBufferedSinceLastFlush, unflushed, leftover>>
handleVars  == <<loop, event, text>>
channelVars == <<textToSpeak, resetSim, queued>>
simVars     == <<sim, newWords, words, timer, isSpeaking, spoken, announced>>
vars == <<ctxDone, mu, start, cleanup, loop, event, text, textBuffer,
          hasBufferedSinceLastFlush, unflushed, leftover, textToSpeak,
          resetSim, sim, newWords, words, timer, isSpeaking, queued, spoken,
          cleared, announced>>

Elems(s) == {s[i] : i \in DOMAIN s}
InQueue == UNION {Elems(textToSpeak[i]) : i \in DOMAIN textToSpeak}

-----------------------------------------------------------------------------
\* Initialize has made the channels and spawned HandlerLoop.
Init ==
  /\ ctxDone = FALSE /\ mu = "free"
  /\ start = "pending" /\ cleanup = "none"
  /\ loop = "select" /\ event = "none" /\ text = 0
  /\ textBuffer = 0
  /\ hasBufferedSinceLastFlush = FALSE
  /\ unflushed = FALSE /\ leftover = FALSE
  /\ textToSpeak = <<>> /\ resetSim = FALSE
  /\ sim = "none" /\ newWords = <<>> /\ words = <<>>
  /\ timer = FALSE /\ isSpeaking = FALSE
  /\ queued = 0 /\ spoken = <<>> /\ cleared = {}
  /\ announced = "ended"

-----------------------------------------------------------------------------
(* HandleEvent: first the case of the type switch up to its first call of  *)
(* the service, then a step per call, then SendPacket of the event.        *)
(* HandlerLoop does not begin with an event once the context is done.      *)

Receive(e) ==
  /\ loop = "select" /\ ~ctxDone
  /\ event' = e

\* The non-blocking send to resetSim.  Cleanup closes the channel and then sets
\* it to nil: in between a send panics, afterwards it is never ready.
SignalReset(next) ==
  IF cleanup = "closing"
  THEN loop' = "crashed" /\ UNCHANGED resetSim
  ELSE /\ loop' = next
       /\ resetSim' = (resetSim \/ cleanup # "done")

\* The non-blocking send to textToSpeak: a full channel drops the text.
SendToSimulation(next) ==
  IF cleanup = "closing"
  THEN loop' = "crashed" /\ UNCHANGED <<textToSpeak, queued>>
  ELSE /\ loop' = next
       /\ IF Len(textToSpeak) < QueueCapacity /\ cleanup # "done"
          THEN /\ textToSpeak' = Append(textToSpeak,
                                        [i \in 1..text |-> queued + i])
               /\ queued' = queued + text
          ELSE UNCHANGED <<textToSpeak, queued>>

\* n more words fit into the bounds.
Room(n) == queued + textBuffer + n <= MaxWords

\* LLMResponseChunkEvent that is buffered; it brings n words.
HandleChunk(n) ==
  /\ Receive("chunk") /\ mu = "free"
  /\ Room(n) /\ textBuffer + n <= MaxBuffer
  /\ textBuffer' = textBuffer + n
  /\ loop' = "sending"
  /\ UNCHANGED <<runnerVars, text, hasBufferedSinceLastFlush, unflushed, leftover,
                 channelVars, simVars, cleared>>

\* One that completes a phrase: the buffer is taken, and normalisation leaves
\* m of its words.
HandleChunkWithBreak(n, m) ==
  /\ Receive("chunk") /\ mu = "free"
  /\ Room(n) /\ textBuffer + n <= MaxBuffer /\ m <= textBuffer + n
  /\ textBuffer' = 0
  /\ text' = m
  /\ loop' = "buffering"
  /\ UNCHANGED <<runnerVars, hasBufferedSinceLastFlush, unflushed, leftover,
                 channelVars, simVars, cleared>>

\* TTSSpeakEvent, and LLMResponseChunkEvent with ConsumeImmediately.
HandleSpeak(n) ==
  /\ Receive("speak")
  /\ Room(n)
  /\ text' = n
  /\ loop' = "buffering"
  /\ UNCHANGED <<runnerVars, serviceVars, channelVars, simVars, cleared>>

HandleResponseCompleted ==
  /\ Receive("completed") /\ mu = "free"
  /\ text' = textBuffer
  /\ textBuffer' = 0
  /\ loop' = IF textBuffer > 0 THEN "buffering"
             ELSE IF hasBufferedSinceLastFlush THEN "flushing" ELSE "sending"
  /\ UNCHANGED <<runnerVars, hasBufferedSinceLastFlush, unflushed, leftover,
                 channelVars, simVars, cleared>>

HandleSuspected ==
  /\ Receive("suspected")
  /\ SignalReset("sending")
  /\ UNCHANGED <<runnerVars, text, serviceVars, textToSpeak, queued, simVars,
                 cleared>>

HandleConfirmed ==
  /\ Receive("confirmed") /\ mu = "free"
  /\ textBuffer' = 0
  /\ hasBufferedSinceLastFlush' = FALSE
  /\ SignalReset("resetting")
  /\ UNCHANGED <<runnerVars, text, unflushed, leftover, textToSpeak, queued, simVars,
                 cleared>>

HandleResponseStarted ==
  /\ Receive("started") /\ mu = "free"
  /\ textBuffer' = 0
  /\ hasBufferedSinceLastFlush' = FALSE
  /\ leftover' = unflushed
  /\ SignalReset("sending")
  /\ UNCHANGED <<runnerVars, text, unflushed, textToSpeak, queued, simVars,
                 cleared>>

\* A call of the service returns nil (TRUE) or an error.
ServiceResults == IF ServiceMayFail THEN BOOLEAN ELSE {TRUE}

\* Faulty variant: a text of the response is not flagged.
BufferTextReturnsUnflagged(ok) ==
  /\ loop = "buffering"
  /\ unflushed' = (ok \/ unflushed)
  /\ UNCHANGED leftover
  /\ UNCHANGED hasBufferedSinceLastFlush
  /\ IF event = "speak"
     THEN loop' = "flushing" /\ UNCHANGED <<textToSpeak, queued>>
     ELSE SendToSimulation("sending")
  /\ UNCHANGED <<runnerVars, event, text, textBuffer, resetSim, simVars,
                 cleared>>

\* Service.BufferText returns.  A text to be spoken at once is flushed before
\* the simulation gets it, any other text before it is flushed.  An error goes
\* to FatalServiceErrorChan.
BufferTextReturns(ok) ==
  /\ loop = "buffering"
  /\ unflushed' = (ok \/ unflushed)
  /\ UNCHANGED leftover
  /\ \/ /\ event = "speak"
        /\ \/ ok /\ loop' = "flushing" /\ UNCHANGED <<textToSpeak, queued>>
           \/ ~ok /\ SendToSimulation("sending")
        /\ UNCHANGED hasBufferedSinceLastFlush
     \/ /\ event = "chunk"
        /\ ok => mu = "free"
        /\ hasBufferedSinceLastFlush' = (ok \/ hasBufferedSinceLastFlush)
        /\ SendToSimulation("sending")
     \/ /\ event = "completed"
        /\ ok => mu = "free"
        /\ hasBufferedSinceLastFlush' = (ok \/ hasBufferedSinceLastFlush)
        /\ SendToSimulation(IF ok \/ hasBufferedSinceLastFlush THEN "flushing"
                                                               ELSE "sending")
  /\ UNCHANGED <<runnerVars, event, text, textBuffer, resetSim, simVars,
                 cleared>>

\* Service.Flush returns.
FlushReturns(ok) ==
  /\ loop = "flushing"
  /\ unflushed' = (~ok /\ unflushed)
  /\ leftover' = (~ok /\ unflushed)
  /\ \/ /\ event = "speak"
        /\ SendToSimulation("sending")
        /\ UNCHANGED hasBufferedSinceLastFlush
     \/ /\ event = "completed"
        /\ ok => mu = "free"
        /\ hasBufferedSinceLastFlush' = (~ok /\ hasBufferedSinceLastFlush)
        /\ loop' = "sending"
        /\ UNCHANGED <<textToSpeak, queued>>
  /\ UNCHANGED <<runnerVars, event, text, textBuffer, resetSim, simVars,
                 cleared>>

\* Service.Reset returns.
ResetReturns(ok) ==
  /\ loop = "resetting"
  /\ unflushed' = (~ok /\ unflushed)
  /\ leftover' = (~ok /\ unflushed)
  /\ loop' = "sending"
  /\ UNCHANGED <<runnerVars, event, text, textBuffer,
                 hasBufferedSinceLastFlush, channelVars, simVars, cleared>>

\* SendPacket of the event itself: accepted, or the context is done.
PacketForwarded ==
  /\ loop = "sending"
  /\ loop' = "select" /\ event' = "none" /\ text' = 0
  /\ UNCHANGED <<runnerVars, serviceVars, channelVars, simVars, cleared>>

LoopExits ==
  /\ loop = "select" /\ ctxDone
  /\ loop' = "exited"
  /\ UNCHANGED <<runnerVars, event, text, serviceVars, channelVars, simVars,
                 cleared>>

HandlerProcess ==
  \/ \E n \in 0..MaxBuffer : HandleChunk(n) \/ HandleSpeak(n)
  \/ \E n, m \in 0..MaxBuffer : HandleChunkWithBreak(n, m)
  \/ HandleResponseCompleted
  \/ HandleSuspected \/ HandleConfirmed \/ HandleResponseStarted
  \/ \E ok \in ServiceResults :
       BufferTextReturns(ok) \/ FlushReturns(ok) \/ ResetReturns(ok)
  \/ PacketForwarded \/ LoopExits

-----------------------------------------------------------------------------
(* simulationLoop.                                                         *)

\* case text := <-h.textToSpeak; a blank text is skipped.
SimTakesText ==
  /\ sim = "select" /\ textToSpeak # <<>>
  /\ newWords' = Head(textToSpeak)
  /\ textToSpeak' = Tail(textToSpeak)
  /\ sim' = IF newWords' = <<>> THEN "select" ELSE "gotText"
  /\ UNCHANGED <<runnerVars, handleVars, serviceVars, resetSim, queued, words,
                 timer, isSpeaking, spoken, announced, cleared>>

\* The new words are appended; without a timer the first is sent at once.
AppendWords ==
  /\ words' = words \o newWords
  /\ newWords' = <<>>
  /\ sim' = IF timer THEN "select" ELSE "sendWord"

\* Whether speaking starts with this text is decided under h.mu.
SimLocksForText ==
  /\ sim = "gotText" /\ mu = "free"
  /\ \/ /\ ~isSpeaking /\ words = <<>>
        /\ isSpeaking' = TRUE
        /\ sim' = "sendStarted"
        /\ UNCHANGED <<words, newWords>>
     \/ /\ isSpeaking \/ words # <<>>
        /\ AppendWords
        /\ UNCHANGED isSpeaking
  /\ UNCHANGED <<runnerVars, handleVars, serviceVars, channelVars, timer,
                 spoken, announced, cleared>>

\* SendPacket(TTSSpeakingStartedEvent) to the top returns.
SimSendsStarted ==
  /\ sim = "sendStarted"
  /\ announced' = IF ctxDone THEN announced ELSE "started"
  /\ AppendWords
  /\ UNCHANGED <<runnerVars, handleVars, serviceVars, channelVars, timer,
                 isSpeaking, spoken, cleared>>

\* Faulty variant: the timer is not armed for the next word.
sendNextWordWithoutTimer ==
  /\ sim = "sendWord"
  /\ words' = Tail(words)
  /\ timer' = FALSE
  /\ sim' = IF Tail(words) # <<>> THEN "select" ELSE "lockEnded"
  /\ IF ctxDone
     THEN cleared' = cleared \cup {Head(words)} /\ UNCHANGED spoken
     ELSE spoken' = Append(spoken, Head(words)) /\ UNCHANGED cleared
  /\ UNCHANGED <<runnerVars, handleVars, serviceVars, channelVars, newWords,
                 isSpeaking, announced>>

\* Faulty variant: the word sent stays at the head of the list.
sendNextWordKeepingHead ==
  /\ sim = "sendWord"
  /\ timer' = (Tail(words) # <<>>)
  /\ sim' = IF Tail(words) # <<>> THEN "select" ELSE "lockEnded"
  /\ spoken' = IF ctxDone THEN spoken ELSE Append(spoken, Head(words))
  /\ UNCHANGED <<runnerVars, handleVars, serviceVars, channelVars, newWords,
                 words, isSpeaking, announced, cleared>>

\* sendNextWord: SendPacket(TTSSpokenTextChunkEvent) returns; the timer is
\* armed for the next word or, after the last, stopped.
sendNextWord ==
  /\ sim = "sendWord"
  /\ words' = Tail(words)
  /\ timer' = (Tail(words) # <<>>)
  /\ sim' = IF Tail(words) # <<>> THEN "select" ELSE "lockEnded"
  /\ IF ctxDone
     THEN cleared' = cleared \cup {Head(words)} /\ UNCHANGED spoken
     ELSE spoken' = Append(spoken, Head(words)) /\ UNCHANGED cleared
  /\ UNCHANGED <<runnerVars, handleVars, serviceVars, channelVars, newWords,
                 isSpeaking, announced>>

\* Faulty variant: the end is announced whether or not the bot was speaking.
SimLocksForEndUnconditionally ==
  /\ sim = "lockEnded" /\ mu = "free"
  /\ isSpeaking' = FALSE
  /\ sim' = "sendEnded"
  /\ UNCHANGED <<runnerVars, handleVars, serviceVars, channelVars, newWords,
                 words, timer, spoken, announced, cleared>>

\* The end of speaking is decided under h.mu and announced to the top.
SimLocksForEnd ==
  /\ sim = "lockEnded" /\ mu = "free"
  /\ isSpeaking' = FALSE
  /\ sim' = IF isSpeaking THEN "sendEnded" ELSE "select"
  /\ UNCHANGED <<runnerVars, handleVars, serviceVars, channelVars, newWords,
                 words, timer, spoken, announced, cleared>>

SimSendsEnded ==
  /\ sim = "sendEnded"
  /\ announced' = IF ctxDone THEN announced ELSE "ended"
  /\ sim' = "select"
  /\ UNCHANGED <<runnerVars, handleVars, serviceVars, channelVars, newWords,
                 words, timer, isSpeaking, spoken, cleared>>

\* case <-h.resetSim: the words and everything in the channel are thrown away.
SimResets ==
  /\ sim = "select" /\ resetSim
  /\ resetSim' = FALSE
  /\ words' = <<>>
  /\ textToSpeak' = <<>>
  /\ cleared' = cleared \cup Elems(words) \cup InQueue
  /\ timer' = FALSE
  /\ sim' = "lockEnded"
  /\ UNCHANGED <<runnerVars, handleVars, serviceVars, queued, newWords,
                 isSpeaking, spoken, announced>>

\* case <-timerC.
SimTimerFires ==
  /\ sim = "select" /\ timer
  /\ sim' = IF words # <<>> THEN "sendWord" ELSE "lockEnded"
  /\ timer' = (words # <<>>)
  /\ UNCHANGED <<runnerVars, handleVars, serviceVars, channelVars, newWords,
                 words, isSpeaking, spoken, announced, cleared>>

\* case <-h.simCtx.Done().
SimLeaves ==
  /\ sim = "select" /\ ctxDone
  /\ sim' = "lockExit"
  /\ timer' = FALSE
  /\ UNCHANGED <<runnerVars, handleVars, serviceVars, channelVars, newWords,
                 words, isSpeaking, spoken, announced, cleared>>

\* The deferred function takes h.mu and, if still speaking, sends the ended
\* event, which SendPacket drops because the context is done; only then does
\* the deferred simWg.Done run.
SimExits ==
  /\ sim = "lockExit" /\ mu = "free"
  /\ isSpeaking' = FALSE
  /\ announced' = IF isSpeaking /\ ~ctxDone THEN "ended" ELSE announced
  /\ sim' = "done"
  /\ UNCHANGED <<runnerVars, handleVars, serviceVars, channelVars, newWords,
                 words, timer, spoken, cleared>>

SimProcess ==
  \/ SimTakesText \/ SimLocksForText \/ SimSendsStarted \/ sendNextWord
  \/ SimLocksForEnd \/ SimSendsEnded \/ SimResets \/ SimTimerFires
  \/ SimLeaves \/ SimExits

-----------------------------------------------------------------------------
(* Start and Cleanup hold h.mu from beginning to end.                      *)

\* Start spawns the simulation and calls StartTTSSession ...
StartLocks ==
  /\ start = "pending" /\ mu = "free"
  /\ mu' = "start" /\ start' = "calling"
  /\ sim' = "select"
  /\ UNCHANGED <<ctxDone, cleanup, handleVars, serviceVars, channelVars,
                 newWords, words, timer, isSpeaking, spoken, announced,
                 cleared>>

\* ... which returns.
StartReturns(ok) ==
  /\ start = "calling"
  /\ mu' = "free" /\ start' = IF ok THEN "ok" ELSE "failed"
  /\ UNCHANGED <<ctxDone, cleanup, handleVars, serviceVars, channelVars,
                 simVars, cleared>>

\* The runner cancels the context before it cleans up.
Cancel ==
  /\ ~ctxDone
  /\ ctxDone' = TRUE
  /\ UNCHANGED <<mu, start, cleanup, handleVars, serviceVars, channelVars,
                 simVars, cleared>>

CleanupLocks ==
  /\ ctxDone /\ cleanup = "none" /\ mu = "free"
  /\ mu' = "cleanup" /\ cleanup' = "waiting"
  /\ UNCHANGED <<ctxDone, start, handleVars, serviceVars, channelVars,
                 simVars, cleared>>

\* simWg.Wait returns; the channels are closed, and what is left in them is
\* never read.
CleanupCloses ==
  /\ cleanup = "waiting" /\ sim \in {"none", "done"}
  /\ cleanup' = "closing"
  /\ textToSpeak' = <<>> /\ resetSim' = FALSE
  /\ cleared' = cleared \cup InQueue
  /\ UNCHANGED <<ctxDone, mu, start, handleVars, serviceVars, queued, simVars>>

\* The channels are nil and BaseHandler.Cleanup returns.
CleanupReturns ==
  /\ cleanup = "closing"
  /\ cleanup' = "done" /\ mu' = "free"
  /\ UNCHANGED <<ctxDone, start, handleVars, serviceVars, channelVars,
                 simVars, cleared>>

CleanupProcess == CleanupLocks \/ CleanupCloses \/ CleanupReturns

Next ==
  \/ HandlerProcess
  \/ SimProcess
  \/ StartLocks
  \/ \E ok \in ServiceResults : StartReturns(ok)
  \/ Cancel
  \/ CleanupProcess

Spec == Init /\ [][Next]_vars

(* Every goroutine that can go on does, and calls of the service return.   *)
(* The simulation's select and the mutex choose among ready cases without  *)
(* starving one, hence strong fairness.  No event need ever arrive, and    *)
(* the session need not end.                                               *)
Fairness ==
  /\ WF_vars(StartLocks) /\ WF_vars(\E ok \in ServiceResults : StartReturns(ok))
  /\ WF_vars(\E ok \in ServiceResults :
               BufferTextReturns(ok) \/ FlushReturns(ok) \/ ResetReturns(ok))
  /\ WF_vars(PacketForwarded)
  /\ SF_vars(SimTakesText) /\ SF_vars(SimTimerFires) /\ SF_vars(SimLeaves)
  /\ SF_vars(SimProcess)
  /\ SF_vars(CleanupProcess)

FairSpec == Spec /\ Fairness
-----------------------------------------------------------------------------
(* Properties.                                                             *)

SimStates == {"none", "select", "gotText", "sendStarted", "sendWord",
              "lockEnded", "sendEnded", "lockExit", "done"}

TypeOK ==
  /\ ctxDone \in BOOLEAN /\ mu \in {"free", "start", "cleanup"}
  /\ start \in {"pending", "calling", "ok", "failed"}
  /\ cleanup \in {"none", "waiting", "closing", "done"}
  /\ loop \in {"select", "buffering", "flushing", "resetting", "sending",
               "exited", "crashed"}
  /\ event \in {"none", "chunk", "speak", "completed", "suspected",
                "confirmed", "started"}
  /\ text \in 0..MaxBuffer /\ textBuffer \in 0..MaxBuffer
  /\ hasBufferedSinceLastFlush \in BOOLEAN
  /\ unflushed \in BOOLEAN /\ leftover \in BOOLEAN
  /\ textToSpeak \in Seq(Seq(1..MaxWords)) /\ Len(textToSpeak) <= QueueCapacity
  /\ resetSim \in BOOLEAN
  /\ sim \in SimStates
  /\ newWords \in Seq(1..MaxWords) /\ words \in Seq(1..MaxWords)
  /\ timer \in BOOLEAN /\ isSpeaking \in BOOLEAN
  /\ queued \in 0..MaxWords
  /\ spoken \in Seq(1..MaxWords) /\ cleared \subseteq 1..MaxWords
  /\ announced \in {"started", "ended"}

\* "Should not happen, but safety." (simulationLoop): the word timer runs
\* exactly while there are words to report, and the bot counts as speaking
\* exactly then, however texts, resets and expirations interleave.
TimerDrivesWords ==
  sim = "select" => (timer <=> words # <<>>) /\ (isSpeaking <=> words # <<>>)

\* The other handlers see whole utterances: a word is reported only between
\* an announced start and its end, starts and ends alternate, and the
\* simulation does not rest with a start that is never followed by an end.
SpeakingBracketsWords ==
  ~ctxDone =>
    /\ sim = "sendStarted" => announced = "ended"
    /\ sim \in {"sendWord", "sendEnded"} => announced = "started"
    /\ sim = "select" => (announced = "started" <=> words # <<>>)

\* Words are reported in the order of the text and never twice, across any
\* number of resets.
WordsInOrder ==
  /\ \A i, j \in DOMAIN spoken : i < j => spoken[i] < spoken[j]
  /\ \A w \in Elems(spoken) : \A x \in Elems(words) \cup Elems(newWords) : w < x
  /\ \A w \in Elems(words) : \A x \in Elems(newWords) \cup InQueue : w < x
  /\ cleared \cap (Elems(spoken) \cup Elems(words) \cup Elems(newWords)
                     \cup InQueue) = {}

\* When a response is complete the service has been told to flush all of its
\* text, unless a call failed or the text belongs to a response that was
\* abandoned for this one.
CompletedIsFlushed ==
  loop = "sending" /\ event = "completed" /\ unflushed => leftover

\* Cleanup closes the simulation's channels only when the simulation no longer
\* reads them: a receive from a closed channel would look like a blank text
\* or a reset for ever.
ChannelsOutliveSimulation == cleanup = "closing" => sim \in {"none", "done"}

\* Every word handed to the simulation is eventually reported or thrown away,
\* while the session lives.
WordsLeave ==
  \A w \in 1..MaxWords :
    (w \in InQueue \cup Elems(newWords) \cup Elems(words))
      ~> (ctxDone \/ w \in Elems(spoken) \cup cleared)

\* "The handler (Pipeline.Run) listens to ctx internally and will clean up +
\* return." (transports/livekit/provider.go): Cleanup of this handler, once
\* called, returns.
\* The code does not keep to this: TLC refutes it (README, section 3).
CleanupCompletes == (cleanup = "waiting") ~> (cleanup = "done")
=============================================================================
