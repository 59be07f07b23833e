--------------------------- MODULE ActivityControl ---------------------------
(***************************************************************************)
(* handlers/activity_control: the gate between the TTS handler and the     *)
(* output transport.  A suspected interruption suspends audio delivery and *)
(* arms a confirmation timer; a confirmed one drops the held audio; a      *)
(* timer that runs out first releases it.                                  *)
(*                                                                         *)
(* Actors: the event loop goroutine (one select over ctx.Done, InputChan   *)
(* and resumeChan), one goroutine per expired time.AfterFunc timer, and    *)
(* the runner that cancels the context and then calls Cleanup.  Every      *)
(* handler body runs on the event loop, so a body is one step that ends    *)
(* with the packets it has to send in `outbox`; the loop takes nothing     *)
(* else until the downstream handler has accepted them (the channels are   *)
(* unbuffered) or the context is done.                                     *)
(*                                                                         *)
(* A chunk is its number in the order of synthesis and a timer the number  *)
(* of the suspension that armed it.  Durations (totalSentDuration,         *)
(* speakingStartTime, the rollback estimate) only reach a log line and are *)
(* left out.                                                               *)
(***************************************************************************)
EXTENDS Naturals, Sequences

CONSTANTS
  MaxChunks,        \* bound: audio chunks synthesised in one behaviour
  MaxSuspensions    \* bound: suspensions (timers armed) in one behaviour

ASSUME BoundsAssumption == MaxChunks \in Nat /\ MaxSuspensions \in Nat

VARIABLES
  ctxDone,        \* the runner has cancelled the session context
  loop,           \* the event loop goroutine: "running" or "exited"
  isSpeaking,
  isSuspended,
  cachedChunks,   \* chunks held back while suspended
  confirmTimer,   \* the timer the handler refers to; 0 is nil
  running,        \* timers armed and neither stopped nor expired
  firing,         \* timers expired whose callback has not yet signalled
  resumeChan,     \* the buffered channel of capacity 1
  outbox,         \* packets the current handler body still has to send
  \* History: what became of the audio, and how many suspensions began.
  accepted, played, discarded, lost, suspensions

timerVars == <<confirmTimer, running, firing>>
historyVars == <<accepted, played, discarded, lost, suspensions>>
vars == <<ctxDone, loop, isSpeaking, isSuspended, cachedChunks, confirmTimer,
          running, firing, resumeChan, outbox, accepted, played, discarded,
          lost, suspensions>>

Chunks == 1..MaxChunks
Timers == 1..MaxSuspensions

Controls == {"TTSSpeakingStarted", "TTSSpeakingEnded", "LLMResponseStarted",
             "VadInterruptionSuspected", "VadInterruptionConfirmed", "other"}

\* A packet on its way out: its event, its destination and, for audio, which
\* chunk it carries (0 for any other event).
Packets == [event : Controls \cup {"TTSOutput"}, dest : {"next", "top"},
            chunk : 0..MaxChunks]
Forward(e) == [event |-> e, dest |-> "next", chunk |-> 0]
Audio(c)   == [event |-> "TTSOutput", dest |-> "next", chunk |-> c]
SpeakingEndedToTop ==
  [event |-> "TTSSpeakingEnded", dest |-> "top", chunk |-> 0]

AudioPackets(cs) == [i \in DOMAIN cs |-> Audio(cs[i])]
ChunksIn(ps) == {ps[i].chunk : i \in DOMAIN ps} \ {0}
Elems(s) == {s[i] : i \in DOMAIN s}

-----------------------------------------------------------------------------
(* Initialize and Start: resumeChan is made, the event loop is spawned.    *)
Init ==
  /\ ctxDone = FALSE
  /\ loop = "running"
  /\ isSpeaking = FALSE
  /\ isSuspended = FALSE
  /\ cachedChunks = <<>>
  /\ confirmTimer = 0
  /\ running = {}
  /\ firing = {}
  /\ resumeChan = <<>>
  /\ outbox = <<>>
  /\ accepted = 0
  /\ played = <<>>
  /\ discarded = {}
  /\ lost = {}
  /\ suspensions = 0

\* The select of the event loop can be reached.  With the context done the
\* select may still pick another ready case: Go chooses among them at random.
AtSelect == loop = "running" /\ outbox = <<>>

\* SendPacket for each packet of ps in turn.  It returns without sending once
\* the context is done; otherwise it blocks, which `outbox` stands for.
SendPackets(ps) ==
  /\ outbox' = IF ctxDone THEN <<>> ELSE ps
  /\ lost' = IF ctxDone THEN lost \cup ChunksIn(ps) ELSE lost

SendPacket(p) == SendPackets(<<p>>)

-----------------------------------------------------------------------------
(* The timer.  startConfirmTimer overwrites the reference to the previous  *)
(* timer without stopping it; stopConfirmTimer stops only the timer it     *)
(* refers to, and neither a callback already started nor a signal already  *)
(* in resumeChan.                                                          *)

startConfirmTimer ==
  /\ suspensions < MaxSuspensions
  /\ suspensions' = suspensions + 1
  /\ confirmTimer' = suspensions + 1
  /\ running' = running \cup {suspensions + 1}
  /\ UNCHANGED firing

stopConfirmTimer ==
  /\ running' = running \ {confirmTimer}
  /\ confirmTimer' = 0
  /\ UNCHANGED <<firing, suspensions>>

\* All timers have the same duration, so they expire in the order armed.
TimerExpires(t) ==
  /\ t \in running
  /\ \A u \in running : t <= u
  /\ running' = running \ {t}
  /\ firing' = firing \cup {t}
  /\ UNCHANGED <<ctxDone, loop, isSpeaking, isSuspended, cachedChunks,
                 confirmTimer, resumeChan, outbox, historyVars>>

\* The callback: a non-blocking send, so a second signal is dropped.
TimerSignals(t) ==
  /\ t \in firing
  /\ firing' = firing \ {t}
  /\ resumeChan' = IF resumeChan = <<>> THEN <<t>> ELSE resumeChan
  /\ UNCHANGED <<ctxDone, loop, isSpeaking, isSuspended, cachedChunks,
                 confirmTimer, running, outbox, historyVars>>

-----------------------------------------------------------------------------
(* HandleEvent, one action per case of its type switch.                    *)

HandleSpeakingStarted ==
  /\ AtSelect
  /\ isSpeaking' = TRUE
  /\ SendPacket(Forward("TTSSpeakingStarted"))
  /\ UNCHANGED <<ctxDone, loop, isSuspended, cachedChunks, timerVars,
                 resumeChan, accepted, played, discarded, suspensions>>

HandleSpeakingEnded ==
  /\ AtSelect
  /\ isSpeaking' = FALSE
  /\ SendPacket(Forward("TTSSpeakingEnded"))
  /\ UNCHANGED <<ctxDone, loop, isSuspended, cachedChunks, timerVars,
                 resumeChan, accepted, played, discarded, suspensions>>

HandleResponseStarted ==
  /\ AtSelect
  /\ cachedChunks' = <<>>
  /\ discarded' = discarded \cup Elems(cachedChunks)
  /\ SendPacket(Forward("LLMResponseStarted"))
  /\ UNCHANGED <<ctxDone, loop, isSpeaking, isSuspended, timerVars,
                 resumeChan, accepted, played, suspensions>>

\* Two faulty variants: audio is put in front of the cache; audio is dropped
\* while suspended instead of cached.
HandleAudioInFrontOfCache ==
  /\ AtSelect
  /\ accepted < MaxChunks
  /\ accepted' = accepted + 1
  /\ \/ /\ isSuspended
        /\ cachedChunks' = <<accepted + 1>> \o cachedChunks
        /\ UNCHANGED <<outbox, lost>>
     \/ /\ ~isSuspended
        /\ SendPacket(Audio(accepted + 1))
        /\ UNCHANGED cachedChunks
  /\ UNCHANGED <<ctxDone, loop, isSpeaking, isSuspended, timerVars,
                 resumeChan, played, discarded, suspensions>>
HandleAudioDroppedWhileSuspended ==
  /\ AtSelect
  /\ accepted < MaxChunks
  /\ accepted' = accepted + 1
  /\ IF isSuspended THEN UNCHANGED <<outbox, lost>>
                    ELSE SendPacket(Audio(accepted + 1))
  /\ UNCHANGED <<ctxDone, loop, isSpeaking, isSuspended, cachedChunks,
                 timerVars, resumeChan, played, discarded, suspensions>>

HandleAudio ==
  /\ AtSelect
  /\ accepted < MaxChunks
  /\ accepted' = accepted + 1
  /\ \/ /\ isSuspended
        /\ cachedChunks' = Append(cachedChunks, accepted + 1)
        /\ UNCHANGED <<outbox, lost>>
     \/ /\ ~isSuspended
        /\ SendPacket(Audio(accepted + 1))
        /\ UNCHANGED cachedChunks
  /\ UNCHANGED <<ctxDone, loop, isSpeaking, isSuspended, timerVars,
                 resumeChan, played, discarded, suspensions>>

\* Faulty variant: the timer is armed only when the last reference is nil, and
\* onFalsePositive does not set it to nil.
HandleSuspectedReusingTimer ==
  /\ AtSelect
  /\ isSuspended' = TRUE
  /\ IF isSuspended \/ confirmTimer # 0
     THEN UNCHANGED <<timerVars, suspensions>> ELSE startConfirmTimer
  /\ SendPacket(Forward("VadInterruptionSuspected"))
  /\ UNCHANGED <<ctxDone, loop, isSpeaking, cachedChunks, resumeChan,
                 accepted, played, discarded>>

HandleSuspected ==
  /\ AtSelect
  /\ isSuspended' = TRUE
  /\ \/ /\ ~isSuspended
        /\ startConfirmTimer
     \/ /\ isSuspended
        /\ UNCHANGED <<timerVars, suspensions>>
  /\ SendPacket(Forward("VadInterruptionSuspected"))
  /\ UNCHANGED <<ctxDone, loop, isSpeaking, cachedChunks, resumeChan,
                 accepted, played, discarded>>

\* Faulty variant: the cache survives the confirmed interruption.
HandleConfirmedKeepingCache ==
  /\ AtSelect
  /\ stopConfirmTimer
  /\ discarded' = discarded \cup Elems(cachedChunks)
  /\ isSuspended' = FALSE
  /\ isSpeaking' = FALSE
  /\ SendPacket(Forward("VadInterruptionConfirmed"))
  /\ UNCHANGED <<ctxDone, loop, cachedChunks, resumeChan, accepted, played>>

HandleConfirmed ==
  /\ AtSelect
  /\ stopConfirmTimer
  /\ discarded' = discarded \cup Elems(cachedChunks)
  /\ cachedChunks' = <<>>
  /\ isSuspended' = FALSE
  /\ isSpeaking' = FALSE
  /\ LET confirmed == Forward("VadInterruptionConfirmed")
     IN SendPackets(IF isSpeaking THEN <<SpeakingEndedToTop, confirmed>>
                                  ELSE <<confirmed>>)
  /\ UNCHANGED <<ctxDone, loop, resumeChan, accepted, played>>

HandleOther ==
  /\ AtSelect
  /\ SendPacket(Forward("other"))
  /\ UNCHANGED <<ctxDone, loop, isSpeaking, isSuspended, cachedChunks,
                 timerVars, resumeChan, accepted, played, discarded,
                 suspensions>>

\* Faulty variant: the cache is replayed but not cleared.
onFalsePositiveKeepingCache ==
  /\ AtSelect
  /\ resumeChan # <<>>
  /\ resumeChan' = <<>>
  /\ isSuspended' = FALSE
  /\ SendPackets(AudioPackets(cachedChunks))
  /\ UNCHANGED <<ctxDone, loop, isSpeaking, cachedChunks, timerVars, accepted,
                 played, discarded, suspensions>>

\* The third case of the event loop's select: a resume signal is received.
onFalsePositive ==
  /\ AtSelect
  /\ resumeChan # <<>>
  /\ resumeChan' = <<>>
  /\ isSuspended' = FALSE
  /\ cachedChunks' = <<>>
  /\ SendPackets(AudioPackets(cachedChunks))
  /\ UNCHANGED <<ctxDone, loop, isSpeaking, timerVars, accepted, played,
                 discarded, suspensions>>

-----------------------------------------------------------------------------
(* The blocked SendPacket: the receiver takes the packet, or the context   *)
(* ends and it and the ones after it are dropped.  A packet received in    *)
(* the instant after cancellation counts as dropped, because the receiving *)
(* loop checks the context again before it handles anything.               *)

PacketAccepted ==
  /\ ~ctxDone
  /\ outbox # <<>>
  /\ outbox' = Tail(outbox)
  /\ played' = IF Head(outbox).event = "TTSOutput"
               THEN Append(played, Head(outbox).chunk) ELSE played
  /\ UNCHANGED <<ctxDone, loop, isSpeaking, isSuspended, cachedChunks,
                 timerVars, resumeChan, accepted, discarded, lost,
                 suspensions>>

SendAbandoned ==
  /\ ctxDone
  /\ outbox # <<>>
  /\ outbox' = <<>>
  /\ lost' = lost \cup ChunksIn(outbox)
  /\ UNCHANGED <<ctxDone, loop, isSpeaking, isSuspended, cachedChunks,
                 timerVars, resumeChan, accepted, played, discarded,
                 suspensions>>

(* Shutdown by the runner: cancel, then Cleanup, from another goroutine.   *)
Cancel ==
  /\ ~ctxDone
  /\ ctxDone' = TRUE
  /\ UNCHANGED <<loop, isSpeaking, isSuspended, cachedChunks, timerVars,
                 resumeChan, outbox, historyVars>>

Cleanup ==
  /\ ctxDone
  /\ confirmTimer # 0
  /\ stopConfirmTimer
  /\ UNCHANGED <<ctxDone, loop, isSpeaking, isSuspended, cachedChunks,
                 resumeChan, outbox, accepted, played, discarded, lost>>

EventLoopExits ==
  /\ AtSelect
  /\ ctxDone
  /\ loop' = "exited"
  /\ UNCHANGED <<ctxDone, isSpeaking, isSuspended, cachedChunks, timerVars,
                 resumeChan, outbox, historyVars>>

-----------------------------------------------------------------------------
HandleEvent ==
  \/ HandleSpeakingStarted
  \/ HandleSpeakingEnded
  \/ HandleResponseStarted
  \/ HandleAudio
  \/ HandleSuspected
  \/ HandleConfirmed
  \/ HandleOther

Next ==
  \/ HandleEvent
  \/ onFalsePositive
  \/ PacketAccepted
  \/ SendAbandoned
  \/ \E t \in Timers : TimerExpires(t) \/ TimerSignals(t)
  \/ Cancel
  \/ Cleanup
  \/ EventLoopExits

Spec == Init /\ [][Next]_vars

(* Timers expire and their callbacks run; the transport keeps accepting;   *)
(* the goroutine notices the end of the context.  A ready resumeChan is    *)
(* eventually chosen although InputChan may be ready every time: the       *)
(* select is random, hence strong fairness.  Nothing is assumed of the     *)
(* events that arrive or of a shutdown.                                    *)
Fairness ==
  /\ SF_vars(onFalsePositive)
  /\ WF_vars(PacketAccepted)
  /\ WF_vars(SendAbandoned)
  /\ \A t \in Timers : WF_vars(TimerExpires(t)) /\ WF_vars(TimerSignals(t))
  /\ SF_vars(EventLoopExits)

FairSpec == Spec /\ Fairness
-----------------------------------------------------------------------------
(* Properties.                                                             *)

TypeOK ==
  /\ ctxDone \in BOOLEAN
  /\ loop \in {"running", "exited"}
  /\ isSpeaking \in BOOLEAN
  /\ isSuspended \in BOOLEAN
  /\ cachedChunks \in Seq(Chunks)
  /\ confirmTimer \in 0..MaxSuspensions
  /\ running \subseteq Timers
  /\ firing \subseteq Timers
  /\ resumeChan \in Seq(Timers)
  /\ Len(resumeChan) <= 1
  /\ outbox \in Seq(Packets)
  /\ accepted \in 0..MaxChunks
  /\ played \in Seq(Chunks)
  /\ discarded \subseteq Chunks
  /\ lost \subseteq Chunks
  /\ suspensions \in 0..MaxSuspensions

\* A suspension always has something left that will end it: a timer running,
\* a callback about to signal, or a signal waiting in resumeChan.  This is
\* what the non-blocking send into a channel of capacity 1, and a timer
\* reference that is overwritten and sometimes stale, put at risk.
SuspensionHasEnd ==
  isSuspended /\ ~ctxDone =>
    running # {} \/ firing # {} \/ resumeChan # <<>>

\* Audio reaches the transport in the order of synthesis and never twice,
\* across any number of suspensions: what was played, what is being sent and
\* what is cached follow one another.
Increasing(s) == \A i, j \in DOMAIN s : i < j => s[i] < s[j]
AudioInOrder ==
  /\ Increasing(played)
  /\ Increasing(cachedChunks)
  /\ \A i, j \in DOMAIN outbox :
        i < j /\ outbox[i].chunk # 0 /\ outbox[j].chunk # 0
          => outbox[i].chunk < outbox[j].chunk
  /\ \A p \in Elems(played) :
        /\ \A c \in Elems(cachedChunks) : p < c
        /\ \A c \in ChunksIn(outbox) : p < c
  /\ \A o \in ChunksIn(outbox), c \in Elems(cachedChunks) : o < c

\* Every chunk the handler took is played, on its way, held back, thrown away
\* by a confirmed interruption or a new response, or lost to shutdown; and
\* only a shutdown loses any.
AudioAccounted ==
  /\ Elems(played) \cup ChunksIn(outbox) \cup Elems(cachedChunks)
       \cup discarded \cup lost = 1..accepted
  /\ lost # {} => ctxDone

\* Audio thrown away by an interruption is never heard afterwards.
DiscardedStaysSilent ==
  discarded \cap (Elems(played) \cup ChunksIn(outbox)
                    \cup Elems(cachedChunks)) = {}

\* No chunk stays in the handler for ever, however often the user seems to
\* interrupt, while the session lives.
AudioLeaves ==
  \A c \in Chunks :
    (c \in ChunksIn(outbox) \cup Elems(cachedChunks))
      ~> (ctxDone \/ c \in Elems(played) \cup discarded)

\* The gate as the rest of the pipeline sees it: pending are the chunks being
\* sent, followed by the cached ones.
OutgoingChunks ==
  IF ChunksIn(outbox) = {} THEN <<>>
                           ELSE [i \in DOMAIN outbox |-> outbox[i].chunk]
Gate == INSTANCE AudioGate
          WITH pending <- OutgoingChunks \o cachedChunks, open <- ~ctxDone
\* ActivityControl implements AudioGate.
ImplementsAudioGate == Gate!GateSpec

\* Config.ConfirmationTimeout: a suspension that is not confirmed is treated
\* as a false positive when the timeout it armed has run out, not before.
\* The code does not keep to this: TLC refutes it (README, section 3).
FalsePositiveOnlyAfterOwnTimeout ==
  [][~ctxDone /\ isSuspended /\ resumeChan # <<>> /\ resumeChan' = <<>>
       => Head(resumeChan) = suspensions]_vars
=============================================================================
