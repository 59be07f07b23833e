----------------------------- MODULE VADHandler -----------------------------
(***************************************************************************)
(* handlers/vad: where user speech starts and ends.  Time is counted in    *)
(* ticks; the times since the last chunk with speech and since the last    *)
(* interruption stop at MaxAge, which is longer than every period they are *)
(* compared with.  isInGracePeriod is never read and is left out.  An      *)
(* error of the VAD service ends the handling of a chunk.                  *)
(***************************************************************************)
EXTENDS Naturals

CONSTANTS
  BaseGrace,              \* 300 ms in the code
  PatienceIncrease,       \* VadPatienceIncreaseOnInterruption
  PatienceResetDuration,  \* 5 s in the code
  AllowInterruptions,
  MaxAge                  \* bound: where the ages stop

ASSUME VADAssumption ==
  /\ {BaseGrace, PatienceIncrease, PatienceResetDuration} \subseteq Nat
  /\ AllowInterruptions \in BOOLEAN
  /\ MaxAge \in Nat
  /\ MaxAge > BaseGrace + PatienceIncrease /\ MaxAge > PatienceResetDuration

VARIABLES
  sinceSpeech,         \* MaxAge stands for lastSpeechTime.IsZero() too
  sinceInterruption,   \* or Never, for lastInterruptionTime.IsZero()
  currentGracePeriod,
  isSpeechActive, botSpeaking,
  vadEvents            \* what the last chunk was answered with

vadVars == <<sinceSpeech, sinceInterruption, currentGracePeriod, isSpeechActive,
             botSpeaking, vadEvents>>

Never == MaxAge + 1

VADInit ==
  /\ sinceSpeech = MaxAge /\ sinceInterruption = Never
  /\ currentGracePeriod = BaseGrace
  /\ isSpeechActive = FALSE /\ botSpeaking = FALSE /\ vadEvents = {}

\* The age of an event one tick later.
Older(age) == IF age < MaxAge THEN age + 1 ELSE age

TimePasses ==
  /\ sinceSpeech' = Older(sinceSpeech)
  /\ sinceInterruption' = Older(sinceInterruption)
  /\ vadEvents' = {}
  /\ UNCHANGED <<currentGracePeriod, isSpeechActive, botSpeaking>>

\* Faulty variant: the bot is given more patience whenever it begins to speak.
BotSpeaksPatiently(speaks) ==
  /\ botSpeaking' = speaks /\ vadEvents' = {}
  /\ currentGracePeriod' = BaseGrace + PatienceIncrease
  /\ UNCHANGED <<sinceSpeech, sinceInterruption, isSpeechActive>>

\* TTSSpeakingStartedEvent and TTSSpeakingEndedEvent
BotSpeaks(speaks) ==
  /\ botSpeaking' = speaks /\ vadEvents' = {}
  /\ UNCHANGED <<sinceSpeech, sinceInterruption, currentGracePeriod, isSpeechActive>>

\* The grace period that is in force when a chunk arrives.
PatienceOver == sinceInterruption # Never /\ sinceInterruption > PatienceResetDuration
Grace == IF PatienceOver THEN BaseGrace ELSE currentGracePeriod

\* ProcessAudio fails: nothing but the patience is touched.
ChunkFails ==
  /\ currentGracePeriod' = Grace
  /\ sinceInterruption' = IF PatienceOver THEN Never ELSE sinceInterruption
  /\ vadEvents' = {}
  /\ UNCHANGED <<sinceSpeech, isSpeechActive, botSpeaking>>

\* A chunk with speech.
SpeechChunk ==
  LET interrupts == ~isSpeechActive /\ botSpeaking /\ AllowInterruptions IN
  /\ sinceSpeech' = 0 /\ isSpeechActive' = TRUE
  /\ vadEvents' = {"speaking"}
                    \cup (IF isSpeechActive THEN {} ELSE {"started"})
                    \cup (IF interrupts THEN {"interruption"} ELSE {})
  /\ IF interrupts
     THEN /\ currentGracePeriod' = BaseGrace + PatienceIncrease
          /\ sinceInterruption' = 0
     ELSE /\ currentGracePeriod' = Grace
          /\ sinceInterruption' = IF PatienceOver THEN Never ELSE sinceInterruption
  /\ UNCHANGED botSpeaking

\* Faulty variant: the end is not announced while the bot speaks.
SilentChunkWhileBotSpeaks ==
  LET inGrace == sinceSpeech <= Grace IN
  /\ isSpeechActive' = inGrace
  /\ vadEvents' =
       IF inGrace
       THEN {"speaking"} \cup (IF isSpeechActive THEN {} ELSE {"started"})
       ELSE {"silence"} \cup (IF isSpeechActive /\ ~botSpeaking THEN {"ended"} ELSE {})
  /\ currentGracePeriod' = Grace
  /\ sinceInterruption' = IF PatienceOver THEN Never ELSE sinceInterruption
  /\ UNCHANGED <<sinceSpeech, botSpeaking>>

\* A chunk without speech: still speech within the grace period, and silence
\* after it.
SilentChunk ==
  LET inGrace == sinceSpeech <= Grace IN
  /\ isSpeechActive' = inGrace
  /\ vadEvents' =
       IF inGrace
       THEN {"speaking"} \cup (IF isSpeechActive THEN {} ELSE {"started"})
       ELSE {"silence"} \cup (IF isSpeechActive THEN {"ended"} ELSE {})
  /\ currentGracePeriod' = Grace
  /\ sinceInterruption' = IF PatienceOver THEN Never ELSE sinceInterruption
  /\ UNCHANGED <<sinceSpeech, botSpeaking>>

\* The variables have their types.
VADTypeOK ==
  /\ sinceSpeech \in 0..MaxAge /\ sinceInterruption \in 0..Never
  /\ currentGracePeriod \in {BaseGrace, BaseGrace + PatienceIncrease}
  /\ {isSpeechActive, botSpeaking} \subseteq BOOLEAN
  /\ vadEvents \subseteq {"started", "ended", "speaking", "silence", "interruption"}
=============================================================================
