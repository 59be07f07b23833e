--------------------------- MODULE TTSHandler_proof ---------------------------
(***************************************************************************)
(* Proofs about TTSHandler, for every capacity of textToSpeak, every bound *)
(* on the words and a service that may or may not fail.                    *)
(***************************************************************************)
EXTENDS TTSHandler, SequenceTheorems, TLAPS

-----------------------------------------------------------------------------
(* The inductive invariant.                                                *)

\* The words of the text being handled that may still go to the simulation.
Pending ==
  IF loop = "buffering" \/ (loop = "flushing" /\ event = "speak") THEN text ELSE 0

\* They fit into the bound, together with what waits in the buffer.
BoundInv == queued + textBuffer + Pending <= MaxWords

\* Who holds h.mu, and that nobody starts the simulation while Cleanup does.
LockInv ==
  /\ mu = "start" <=> start = "calling"
  /\ mu = "cleanup" <=> cleanup \in {"waiting", "closing"}
  /\ start = "pending" <=> sim = "none"
  /\ cleanup = "closing" => sim \in {"none", "done"}

\* Text that the service was not told to flush is flagged, or is just about to be
\* flushed or thrown away, or was left over by a failure or by a new response.
FlushInv ==
  /\ unflushed => \/ hasBufferedSinceLastFlush \/ leftover
                  \/ loop = "flushing" /\ event = "speak"
                  \/ loop \in {"resetting", "crashed"}
  /\ CompletedIsFlushed

\* Where the simulation has words, a timer, and counts as speaking.
SpeakInv ==
  /\ sim \notin {"gotText", "sendStarted"} => newWords = <<>>
  /\ sim \in {"none", "lockEnded", "sendEnded", "sendStarted"} => words = <<>> /\ ~timer
  /\ sim \in {"select", "gotText"} =>
       (timer <=> words # <<>>) /\ (isSpeaking <=> words # <<>>)
  /\ sim = "sendWord" => words # <<>> /\ isSpeaking
  /\ sim \in {"gotText", "sendStarted"} => newWords # <<>>
  /\ sim = "sendStarted" => isSpeaking
  /\ sim \in {"none", "sendEnded"} => ~isSpeaking

\* While the session lives the announcements follow isSpeaking, but for the one
\* that is on its way.
AnnounceInv ==
  ~ctxDone => /\ sim # "lockExit" /\ sim # "done"
              /\ announced = IF sim = "sendStarted" THEN "ended"
                             ELSE IF sim = "sendEnded" \/ isSpeaking THEN "started"
                             ELSE "ended"

\* The words of a queue of texts.
WordsOf(q) == UNION {Elems(q[i]) : i \in DOMAIN q}

Before(S, T) == \A x \in S : \A y \in T : x < y
Increasing(s) == \A i, j \in DOMAIN s : i < j => s[i] < s[j]

\* The texts of a queue are in order, each and one after the other.
QueueOrdered(q) ==
  /\ \A i \in DOMAIN q : Increasing(q[i])
  /\ \A i, j \in DOMAIN q : i < j => Before(Elems(q[i]), Elems(q[j]))

\* What was spoken, what is being spoken, the text just taken and the texts in
\* the channel follow each other, and nothing of it has been thrown away.
OrderInv ==
  /\ Increasing(spoken) /\ Increasing(words) /\ Increasing(newWords)
  /\ QueueOrdered(textToSpeak)
  /\ Before(Elems(spoken), Elems(words) \cup Elems(newWords) \cup WordsOf(textToSpeak))
  /\ Before(Elems(words), Elems(newWords) \cup WordsOf(textToSpeak))
  /\ Before(Elems(newWords), WordsOf(textToSpeak))
  /\ cleared \cap (Elems(spoken) \cup Elems(words) \cup Elems(newWords)
                     \cup WordsOf(textToSpeak)) = {}

\* The words that have entered the channel are numbered up to queued.
NumberInv ==
  /\ queued \in Nat
  /\ spoken \in Seq(1..queued) /\ words \in Seq(1..queued)
  /\ newWords \in Seq(1..queued) /\ textToSpeak \in Seq(Seq(1..queued))
  /\ cleared \subseteq 1..queued
  /\ Len(textToSpeak) <= QueueCapacity

\* The types of the variables that hold no words.
ControlTypes ==
  /\ ctxDone \in BOOLEAN /\ mu \in {"free", "start", "cleanup"}
  /\ start \in {"pending", "calling", "ok", "failed"}
  /\ cleanup \in {"none", "waiting", "closing", "done"}
  /\ loop \in {"select", "buffering", "flushing", "resetting", "sending",
               "exited", "crashed"}
  /\ event \in {"none", "chunk", "speak", "completed", "suspected",
                "confirmed", "started"}
  /\ text \in 0..MaxBuffer /\ textBuffer \in 0..MaxBuffer
  /\ hasBufferedSinceLastFlush \in BOOLEAN
  /\ unflushed \in BOOLEAN /\ leftover \in BOOLEAN
  /\ resetSim \in BOOLEAN
  /\ sim \in SimStates
  /\ timer \in BOOLEAN /\ isSpeaking \in BOOLEAN
  /\ announced \in {"started", "ended"}

IInv == /\ ControlTypes /\ BoundInv /\ LockInv /\ FlushInv /\ SpeakInv
        /\ AnnounceInv /\ OrderInv /\ NumberInv

-----------------------------------------------------------------------------
(* Sequences of words and of texts.                                        *)

\* An empty text has no words, and an empty channel no texts.
LEMMA EmptyText ==
  /\ Elems(<<>>) = {} /\ WordsOf(<<>>) = {}
  /\ Increasing(<<>>) /\ QueueOrdered(<<>>)
BY DEF Elems, WordsOf, Increasing, QueueOrdered

\* What comes before something is something else.
LEMMA BeforeDisjoint ==
  ASSUME NEW S \in SUBSET Nat, NEW T, Before(S, T) PROVE S \cap T = {}
<1> SUFFICES ASSUME NEW x \in S, x \in T PROVE FALSE
  OBVIOUS
<1>1. x \in Nat /\ x < x
  BY DEF Before
<1> QED
  BY <1>1

\* The words of a text are where its sequence says.
LEMMA ElemsType ==
  ASSUME NEW S, NEW s \in Seq(S) PROVE Elems(s) \subseteq S
BY LenProperties, ElementOfSeq DEF Elems

\* Taking the first word of a text: it is before the others.
LEMMA TextTail ==
  ASSUME NEW S, S \subseteq Nat, NEW s \in Seq(S), s # <<>>
  PROVE  /\ Head(s) \in S /\ Tail(s) \in Seq(S)
         /\ Elems(s) = {Head(s)} \cup Elems(Tail(s))
         /\ Increasing(s) => /\ Increasing(Tail(s))
                             /\ Before({Head(s)}, Elems(Tail(s)))
<1>1. /\ Head(s) \in S /\ Tail(s) \in Seq(S) /\ Head(s) = s[1]
      /\ Len(s) \in Nat \ {0} /\ DOMAIN s = 1..Len(s)
      /\ Len(Tail(s)) = Len(s) - 1 /\ DOMAIN Tail(s) = 1..(Len(s) - 1)
      /\ \A i \in 1..(Len(s) - 1) : Tail(s)[i] = s[i + 1]
  BY HeadTailProperties, EmptySeq, LenProperties
<1>2. Elems(s) \subseteq {Head(s)} \cup Elems(Tail(s))
  <2> SUFFICES ASSUME NEW i \in 1..Len(s), i # 1
               PROVE  s[i] \in Elems(Tail(s))
    BY <1>1 DEF Elems
  <2>1. i - 1 \in 1..(Len(s) - 1) /\ s[i] = Tail(s)[i - 1]
    BY <1>1
  <2> QED
    BY <1>1, <2>1 DEF Elems
<1>3. {Head(s)} \cup Elems(Tail(s)) \subseteq Elems(s)
  BY <1>1 DEF Elems
<1>4. ASSUME Increasing(s)
      PROVE  Increasing(Tail(s)) /\ Before({Head(s)}, Elems(Tail(s)))
  <2>1. Increasing(Tail(s))
    BY <1>1, <1>4 DEF Increasing
  <2>2. Before({Head(s)}, Elems(Tail(s)))
    <3> SUFFICES ASSUME NEW i \in 1..(Len(s) - 1) PROVE s[1] < Tail(s)[i]
      BY <1>1 DEF Before, Elems
    <3>1. 1 \in DOMAIN s /\ i + 1 \in DOMAIN s /\ 1 < i + 1
      BY <1>1
    <3> QED
      BY <1>1, <1>4, <3>1 DEF Increasing
  <2> QED
    BY <2>1, <2>2
<1> QED
  BY <1>1, <1>2, <1>3, <1>4

\* Appending a text behind another.
LEMMA TextConcat ==
  ASSUME NEW S, S \subseteq Nat, NEW s \in Seq(S), NEW t \in Seq(S)
  PROVE  /\ s \o t \in Seq(S)
         /\ Elems(s \o t) = Elems(s) \cup Elems(t)
         /\ Increasing(s) /\ Increasing(t) /\ Before(Elems(s), Elems(t))
              => Increasing(s \o t)
<1> DEFINE u == s \o t
<1>1. /\ u \in Seq(S) /\ Len(s) \in Nat /\ Len(t) \in Nat
      /\ DOMAIN s = 1..Len(s) /\ DOMAIN t = 1..Len(t)
      /\ DOMAIN u = 1..(Len(s) + Len(t))
      /\ \A i \in DOMAIN u : u[i] = IF i <= Len(s) THEN s[i] ELSE t[i - Len(s)]
  BY ConcatProperties, LenProperties
<1> HIDE DEF u
<1>2. Elems(u) \subseteq Elems(s) \cup Elems(t)
  <2> SUFFICES ASSUME NEW i \in DOMAIN u PROVE u[i] \in Elems(s) \cup Elems(t)
    BY DEF Elems
  <2>1. CASE i <= Len(s)
    BY <1>1, <2>1 DEF Elems
  <2>2. CASE ~(i <= Len(s))
    <3>1. i - Len(s) \in DOMAIN t
      BY <1>1, <2>2
    <3> QED
      BY <1>1, <2>2, <3>1 DEF Elems
  <2> QED
    BY <2>1, <2>2
<1>3. Elems(s) \subseteq Elems(u)
  BY <1>1 DEF Elems
<1>4. Elems(t) \subseteq Elems(u)
  <2> SUFFICES ASSUME NEW i \in DOMAIN t PROVE t[i] \in Elems(u)
    BY DEF Elems
  <2>1. i + Len(s) \in DOMAIN u /\ u[i + Len(s)] = t[i]
    BY <1>1
  <2> QED
    BY <2>1 DEF Elems
<1>5. ASSUME Increasing(s), Increasing(t), Before(Elems(s), Elems(t))
      PROVE  Increasing(u)
  <2> SUFFICES ASSUME NEW i \in DOMAIN u, NEW j \in DOMAIN u, i < j
               PROVE  u[i] < u[j]
    BY DEF Increasing
  <2>1. CASE j <= Len(s)
    BY <1>1, <1>5, <2>1 DEF Increasing
  <2>2. CASE i <= Len(s) /\ ~(j <= Len(s))
    <3>1. u[i] \in Elems(s)
      BY <1>1, <2>2 DEF Elems
    <3>2. j - Len(s) \in DOMAIN t /\ u[j] = t[j - Len(s)]
      BY <1>1, <2>2
    <3>3. u[j] \in Elems(t)
      BY <3>2 DEF Elems
    <3> QED
      BY <1>5, <3>1, <3>3 DEF Before
  <2>3. CASE ~(i <= Len(s))
    <3>1. /\ i - Len(s) \in DOMAIN t /\ u[i] = t[i - Len(s)]
          /\ j - Len(s) \in DOMAIN t /\ u[j] = t[j - Len(s)]
          /\ i - Len(s) < j - Len(s)
      BY <1>1, <2>3
    <3> QED
      BY <1>5, <3>1 DEF Increasing
  <2> QED
    BY <1>1, <2>1, <2>2, <2>3
<1> QED
  BY <1>1, <1>2, <1>3, <1>4, <1>5 DEF u

\* A word behind the others.
LEMMA TextAppend ==
  ASSUME NEW S, S \subseteq Nat, NEW s \in Seq(S), NEW w \in S
  PROVE  /\ Append(s, w) \in Seq(S)
         /\ Elems(Append(s, w)) = Elems(s) \cup {w}
         /\ Increasing(s) /\ Before(Elems(s), {w}) => Increasing(Append(s, w))
<1>1. /\ Append(s, w) \in Seq(S) /\ Len(s) \in Nat /\ DOMAIN s = 1..Len(s)
      /\ DOMAIN Append(s, w) = 1..(Len(s) + 1)
      /\ \A i \in 1..Len(s) : Append(s, w)[i] = s[i]
      /\ Append(s, w)[Len(s) + 1] = w
  BY AppendProperties, LenProperties
<1>2. Elems(Append(s, w)) \subseteq Elems(s) \cup {w}
  BY <1>1 DEF Elems
<1>3. Elems(s) \cup {w} \subseteq Elems(Append(s, w))
  BY <1>1 DEF Elems
<1>4. ASSUME Increasing(s), Before(Elems(s), {w}) PROVE Increasing(Append(s, w))
  <2> SUFFICES ASSUME NEW i \in 1..(Len(s) + 1), NEW j \in 1..(Len(s) + 1), i < j
               PROVE  Append(s, w)[i] < Append(s, w)[j]
    BY <1>1 DEF Increasing
  <2>1. i \in DOMAIN s /\ s[i] \in Elems(s) /\ Append(s, w)[i] = s[i]
    BY <1>1 DEF Elems
  <2>2. CASE j \in DOMAIN s
    BY <1>1, <1>4, <2>1, <2>2 DEF Increasing
  <2>3. CASE j = Len(s) + 1
    BY <1>1, <1>4, <2>1, <2>3 DEF Before
  <2> QED
    BY <1>1, <2>2, <2>3
<1> QED
  BY <1>1, <1>2, <1>3, <1>4

\* Taking the first text of the channel.
LEMMA QueueTail ==
  ASSUME NEW S, NEW q \in Seq(Seq(S)), q # <<>>
  PROVE  /\ Head(q) \in Seq(S) /\ Tail(q) \in Seq(Seq(S)) /\ Len(Tail(q)) <= Len(q)
         /\ WordsOf(q) = Elems(Head(q)) \cup WordsOf(Tail(q))
         /\ QueueOrdered(q) => /\ Increasing(Head(q)) /\ QueueOrdered(Tail(q))
                               /\ Before(Elems(Head(q)), WordsOf(Tail(q)))
<1>1. /\ Head(q) \in Seq(S) /\ Tail(q) \in Seq(Seq(S)) /\ Head(q) = q[1]
      /\ Len(q) \in Nat \ {0} /\ DOMAIN q = 1..Len(q)
      /\ Len(Tail(q)) = Len(q) - 1 /\ DOMAIN Tail(q) = 1..(Len(q) - 1)
      /\ \A i \in 1..(Len(q) - 1) : Tail(q)[i] = q[i + 1]
  BY HeadTailProperties, EmptySeq, LenProperties
<1>2. WordsOf(q) \subseteq Elems(Head(q)) \cup WordsOf(Tail(q))
  <2> SUFFICES ASSUME NEW i \in 1..Len(q), i # 1
               PROVE  Elems(q[i]) \subseteq WordsOf(Tail(q))
    BY <1>1 DEF WordsOf
  <2>1. i - 1 \in DOMAIN Tail(q) /\ q[i] = Tail(q)[i - 1]
    BY <1>1
  <2> QED
    BY <2>1 DEF WordsOf
<1>3. Elems(Head(q)) \subseteq WordsOf(q)
  BY <1>1 DEF WordsOf
<1>4. WordsOf(Tail(q)) \subseteq WordsOf(q)
  <2> SUFFICES ASSUME NEW i \in 1..(Len(q) - 1)
               PROVE  Elems(Tail(q)[i]) \subseteq WordsOf(q)
    BY <1>1 DEF WordsOf
  <2>1. i + 1 \in DOMAIN q /\ q[i + 1] = Tail(q)[i]
    BY <1>1
  <2> QED
    BY <2>1 DEF WordsOf
<1>5. ASSUME QueueOrdered(q)
      PROVE  /\ Increasing(Head(q)) /\ QueueOrdered(Tail(q))
             /\ Before(Elems(Head(q)), WordsOf(Tail(q)))
  <2>1. Increasing(Head(q))
    BY <1>1, <1>5 DEF QueueOrdered
  <2>2. ASSUME NEW i \in DOMAIN Tail(q)
        PROVE  Increasing(Tail(q)[i]) /\ Before(Elems(Head(q)), Elems(Tail(q)[i]))
    <3>1. i + 1 \in DOMAIN q /\ 1 \in DOMAIN q /\ 1 < i + 1 /\ Tail(q)[i] = q[i + 1]
      BY <1>1
    <3> QED
      BY <1>1, <1>5, <3>1 DEF QueueOrdered
  <2>3. ASSUME NEW i \in DOMAIN Tail(q), NEW j \in DOMAIN Tail(q), i < j
        PROVE  Before(Elems(Tail(q)[i]), Elems(Tail(q)[j]))
    <3>1. /\ i + 1 \in DOMAIN q /\ j + 1 \in DOMAIN q /\ i + 1 < j + 1
          /\ Tail(q)[i] = q[i + 1] /\ Tail(q)[j] = q[j + 1]
      BY <1>1, <2>3
    <3> QED
      BY <1>5, <3>1 DEF QueueOrdered
  <2>4. Before(Elems(Head(q)), WordsOf(Tail(q)))
    BY <2>2 DEF Before, WordsOf
  <2> QED
    BY <2>1, <2>2, <2>3, <2>4 DEF QueueOrdered
<1> QED
  BY <1>1, <1>2, <1>3, <1>4, <1>5

\* A text behind the others in the channel.
LEMMA QueueAppend ==
  ASSUME NEW S, NEW q \in Seq(Seq(S)), NEW t \in Seq(S)
  PROVE  /\ Append(q, t) \in Seq(Seq(S)) /\ Len(Append(q, t)) = Len(q) + 1
         /\ WordsOf(Append(q, t)) = WordsOf(q) \cup Elems(t)
         /\ QueueOrdered(q) /\ Increasing(t) /\ Before(WordsOf(q), Elems(t))
              => QueueOrdered(Append(q, t))
<1> DEFINE r == Append(q, t)
<1>1. /\ r \in Seq(Seq(S)) /\ Len(q) \in Nat /\ DOMAIN q = 1..Len(q)
      /\ Len(r) = Len(q) + 1 /\ DOMAIN r = 1..(Len(q) + 1)
      /\ \A i \in 1..Len(q) : r[i] = q[i]
      /\ r[Len(q) + 1] = t
  BY AppendProperties, LenProperties
<1> HIDE DEF r
<1>2. WordsOf(r) \subseteq WordsOf(q) \cup Elems(t)
  <2> SUFFICES ASSUME NEW i \in DOMAIN r
               PROVE  Elems(r[i]) \subseteq WordsOf(q) \cup Elems(t)
    BY DEF WordsOf
  <2>1. CASE i \in DOMAIN q
    BY <1>1, <2>1 DEF WordsOf
  <2>2. CASE i = Len(q) + 1
    BY <1>1, <2>2
  <2> QED
    BY <1>1, <2>1, <2>2
<1>3. WordsOf(q) \cup Elems(t) \subseteq WordsOf(r)
  <2>1. ASSUME NEW i \in DOMAIN q PROVE Elems(q[i]) \subseteq WordsOf(r)
    BY <1>1 DEF WordsOf
  <2>2. Len(q) + 1 \in DOMAIN r
    BY <1>1
  <2>3. Elems(t) \subseteq WordsOf(r)
    BY <1>1, <2>2 DEF WordsOf
  <2> QED
    BY <2>1, <2>3 DEF WordsOf
<1>4. ASSUME QueueOrdered(q), Increasing(t), Before(WordsOf(q), Elems(t))
      PROVE  QueueOrdered(r)
  <2>1. ASSUME NEW i \in DOMAIN q PROVE Before(Elems(q[i]), Elems(t))
    BY <1>4 DEF Before, WordsOf
  <2>2. ASSUME NEW i \in DOMAIN r PROVE Increasing(r[i])
    <3>1. CASE i \in DOMAIN q
      BY <1>1, <1>4, <3>1 DEF QueueOrdered
    <3>2. CASE i = Len(q) + 1
      BY <1>1, <1>4, <3>2
    <3> QED
      BY <1>1, <3>1, <3>2
  <2>3. ASSUME NEW i \in DOMAIN r, NEW j \in DOMAIN r, i < j
        PROVE  Before(Elems(r[i]), Elems(r[j]))
    <3>1. i \in DOMAIN q
      BY <1>1, <2>3
    <3>2. CASE j \in DOMAIN q
      BY <1>1, <1>4, <2>3, <3>1, <3>2 DEF QueueOrdered
    <3>3. CASE j = Len(q) + 1
      BY <1>1, <2>1, <3>1, <3>3
    <3> QED
      BY <1>1, <3>2, <3>3
  <2> QED
    BY <2>2, <2>3 DEF QueueOrdered
<1> QED
  BY <1>1, <1>2, <1>3, <1>4 DEF r

\* A new text gets the numbers that follow those already used.
LEMMA NewText ==
  ASSUME NEW n \in Nat, NEW k \in Nat
  PROVE  /\ [i \in 1..n |-> k + i] \in Seq(1..(k + n))
         /\ Increasing([i \in 1..n |-> k + i])
         /\ Elems([i \in 1..n |-> k + i]) \subseteq (k + 1)..(k + n)
<1> DEFINE t == [i \in 1..n |-> k + i]
<1>1. t \in [1..n -> 1..(k + n)]
  OBVIOUS
<1>2. t \in Seq(1..(k + n))
  BY <1>1, SeqDef
<1>3. Increasing(t)
  BY DEF Increasing
<1>4. Elems(t) \subseteq (k + 1)..(k + n)
  BY DEF Elems
<1> QED
  BY <1>2, <1>3, <1>4

\* A channel of texts stays one when more words are in use.
LEMMA QueueMonotonic ==
  ASSUME NEW S, NEW T, S \subseteq T, NEW q \in Seq(Seq(S))
  PROVE  q \in Seq(Seq(T)) /\ WordsOf(q) \subseteq S
<1>1. Seq(S) \subseteq Seq(T)
  BY SeqMonotonic
<1>2. q \in Seq(Seq(T))
  BY <1>1, SeqMonotonic
<1>3. \A i \in DOMAIN q : q[i] \in Seq(S)
  BY LenProperties, ElementOfSeq
<1>4. \A i \in DOMAIN q : Elems(q[i]) \subseteq S
  BY <1>3, ElemsType
<1> QED
  BY <1>2, <1>4 DEF WordsOf

-----------------------------------------------------------------------------
(* What a step may do to the words.                                        *)

wordVars == <<textToSpeak, queued, newWords, words, spoken, cleared>>

QueuesText ==
  /\ loop = "buffering" \/ (loop = "flushing" /\ event = "speak")
  /\ Len(textToSpeak) < QueueCapacity
  /\ textToSpeak' = Append(textToSpeak, [i \in 1..text |-> queued + i])
  /\ queued' = queued + text
  /\ UNCHANGED <<newWords, words, spoken, cleared>>

TakesText ==
  /\ sim = "select" /\ textToSpeak # <<>>
  /\ newWords' = Head(textToSpeak) /\ textToSpeak' = Tail(textToSpeak)
  /\ UNCHANGED <<queued, words, spoken, cleared>>

AppendsWords ==
  /\ words' = words \o newWords /\ newWords' = <<>>
  /\ UNCHANGED <<textToSpeak, queued, spoken, cleared>>

ReportsWord ==
  /\ sim = "sendWord" /\ words' = Tail(words)
  /\ \/ spoken' = Append(spoken, Head(words)) /\ UNCHANGED cleared
     \/ cleared' = cleared \cup {Head(words)} /\ UNCHANGED spoken
  /\ UNCHANGED <<textToSpeak, queued, newWords>>

ThrowsAway ==
  /\ textToSpeak' = <<>>
  /\ \/ words' = <<>> /\ cleared' = cleared \cup Elems(words) \cup WordsOf(textToSpeak)
     \/ words' = words /\ cleared' = cleared \cup WordsOf(textToSpeak)
  /\ UNCHANGED <<queued, newWords, spoken>>

WordEffects ==
  \/ QueuesText \/ TakesText \/ AppendsWords \/ ReportsWord \/ ThrowsAway
  \/ UNCHANGED wordVars

\* The send to textToSpeak adds the text, or leaves the channel as it is.
LEMMA SendEffect ==
  ASSUME NEW next, SendToSimulation(next)
  PROVE  \/ /\ Len(textToSpeak) < QueueCapacity
            /\ textToSpeak' = Append(textToSpeak, [i \in 1..text |-> queued + i])
            /\ queued' = queued + text
         \/ UNCHANGED <<textToSpeak, queued>>
BY DEF SendToSimulation

\* Every step of HandleEvent, of the simulation, of Start and of Cleanup has one
\* of these effects.
LEMMA StepEffects ==
  ASSUME Next PROVE WordEffects
<1> USE DEF runnerVars, serviceVars, handleVars, channelVars, simVars
<1>1. ASSUME NEW n \in 0..MaxBuffer, HandleChunk(n) \/ HandleSpeak(n)
      PROVE  WordEffects
  BY <1>1 DEF HandleChunk, HandleSpeak, WordEffects, wordVars
<1>2. ASSUME NEW n \in 0..MaxBuffer, NEW m \in 0..MaxBuffer, HandleChunkWithBreak(n, m)
      PROVE  WordEffects
  BY <1>2 DEF HandleChunkWithBreak, WordEffects, wordVars
<1>3. CASE HandleResponseCompleted
  BY <1>3 DEF HandleResponseCompleted, WordEffects, wordVars
<1>4. CASE HandleSuspected \/ HandleConfirmed \/ HandleResponseStarted
  BY <1>4 DEF HandleSuspected, HandleConfirmed, HandleResponseStarted, WordEffects,
     wordVars
<1>5. ASSUME NEW ok \in ServiceResults, BufferTextReturns(ok)
      PROVE  WordEffects
  <2>1. UNCHANGED <<newWords, words, spoken, cleared>> /\ loop = "buffering"
    BY <1>5 DEF BufferTextReturns
  <2>2. UNCHANGED <<textToSpeak, queued>> \/ \E next : SendToSimulation(next)
    BY <1>5 DEF BufferTextReturns
  <2>3. \/ UNCHANGED <<textToSpeak, queued>>
        \/ /\ Len(textToSpeak) < QueueCapacity
           /\ textToSpeak' = Append(textToSpeak, [i \in 1..text |-> queued + i])
           /\ queued' = queued + text
    BY <2>2, SendEffect
  <2>4. CASE UNCHANGED <<textToSpeak, queued>>
    BY <2>1, <2>4 DEF WordEffects, wordVars
  <2>5. CASE ~UNCHANGED <<textToSpeak, queued>>
    <3>1. QueuesText
      BY <2>1, <2>3, <2>5 DEF QueuesText
    <3> QED
      BY <3>1 DEF WordEffects
  <2> QED
    BY <2>4, <2>5
<1>6. ASSUME NEW ok \in ServiceResults, FlushReturns(ok)
      PROVE  WordEffects
  <2>1. UNCHANGED <<newWords, words, spoken, cleared>> /\ loop = "flushing"
    BY <1>6 DEF FlushReturns
  <2>2. \/ UNCHANGED <<textToSpeak, queued>>
        \/ event = "speak" /\ \E next : SendToSimulation(next)
    BY <1>6 DEF FlushReturns
  <2> QED
    BY <2>1, <2>2, SendEffect DEF WordEffects, QueuesText, wordVars
<1>7. ASSUME NEW ok \in ServiceResults, ResetReturns(ok) \/ StartReturns(ok)
      PROVE  WordEffects
  BY <1>7 DEF ResetReturns, StartReturns, WordEffects, wordVars
<1>8. CASE PacketForwarded \/ LoopExits
  BY <1>8 DEF PacketForwarded, LoopExits, WordEffects, wordVars
<1>9. CASE SimTakesText
  BY <1>9 DEF SimTakesText, WordEffects, TakesText
<1>10. CASE SimLocksForText \/ SimSendsStarted
  BY <1>10 DEF SimLocksForText, SimSendsStarted, AppendWords, WordEffects,
     AppendsWords, wordVars
<1>11. CASE sendNextWord
  BY <1>11 DEF sendNextWord, WordEffects, ReportsWord
<1>12. CASE SimLocksForEnd \/ SimSendsEnded \/ SimTimerFires \/ SimLeaves \/ SimExits
  BY <1>12 DEF SimLocksForEnd, SimSendsEnded, SimTimerFires, SimLeaves, SimExits,
     WordEffects, wordVars
<1>13. CASE SimResets
  BY <1>13 DEF SimResets, WordEffects, ThrowsAway, InQueue, WordsOf
<1>14. CASE StartLocks \/ Cancel \/ CleanupLocks \/ CleanupReturns
  BY <1>14 DEF StartLocks, Cancel, CleanupLocks, CleanupReturns, WordEffects, wordVars
<1>15. CASE CleanupCloses
  BY <1>15 DEF CleanupCloses, WordEffects, ThrowsAway, InQueue, WordsOf
<1> QED
  BY <1>1, <1>2, <1>3, <1>4, <1>5, <1>6, <1>7, <1>8, <1>9, <1>10, <1>11, <1>12,
     <1>13, <1>14, <1>15 DEF Next, HandlerProcess, SimProcess, CleanupProcess

\* The words stay in their order and are numbered up to queued.
LEMMA OrderStep ==
  ASSUME ControlTypes, SpeakInv, OrderInv, NumberInv, Next
  PROVE  OrderInv' /\ NumberInv'
<1> DEFINE S == 1..queued
<1>0. S \subseteq Nat /\ queued \in Nat /\ text \in Nat /\ QueueCapacity \in Nat
  BY TTSAssumption DEF NumberInv, ControlTypes
<1>a. /\ spoken \in Seq(S) /\ words \in Seq(S) /\ newWords \in Seq(S)
      /\ textToSpeak \in Seq(Seq(S)) /\ cleared \subseteq S
      /\ Len(textToSpeak) <= QueueCapacity /\ Len(textToSpeak) \in Nat
  BY LenProperties DEF NumberInv
<1>b. /\ Elems(spoken) \subseteq S /\ Elems(words) \subseteq S
      /\ Elems(newWords) \subseteq S /\ WordsOf(textToSpeak) \subseteq S
  BY <1>a, ElemsType, QueueMonotonic
<1>c. <<>> \in Seq(S) /\ <<>> \in Seq(Seq(S)) /\ Len(<<>>) = 0
  BY EmptySeq
<1>1. CASE QueuesText
  <2> DEFINE t == [i \in 1..text |-> queued + i]
             T == 1..(queued + text)
  <2>1. t \in Seq(T) /\ Increasing(t) /\ Elems(t) \subseteq (queued + 1)..(queued + text)
    BY <1>0, NewText
  <2>2. S \subseteq T /\ queued' \in Nat /\ queued' = queued + text
    BY <1>0, <1>1 DEF QueuesText
  <2>3. /\ spoken' \in Seq(T) /\ words' \in Seq(T) /\ newWords' \in Seq(T)
        /\ cleared' \subseteq T
    BY <1>1, <1>a, <2>2, SeqMonotonic DEF QueuesText
  <2> HIDE DEF t
  <2>4. textToSpeak \in Seq(Seq(T))
    BY <1>a, <2>2, QueueMonotonic
  <2>5. Before(S, Elems(t))
    BY <1>0, <2>1 DEF Before
  <2>6. textToSpeak' = Append(textToSpeak, t)
    BY <1>1 DEF QueuesText, t
  <2>7. /\ textToSpeak' \in Seq(Seq(T)) /\ Len(textToSpeak') = Len(textToSpeak) + 1
        /\ WordsOf(textToSpeak') = WordsOf(textToSpeak) \cup Elems(t)
        /\ QueueOrdered(textToSpeak')
    <3>1. Before(WordsOf(textToSpeak), Elems(t))
      BY <1>b, <2>5 DEF Before
    <3> HIDE DEF T
    <3> QED
      BY <2>1, <2>4, <2>6, <3>1, QueueAppend DEF OrderInv
  <2>8. NumberInv'
    BY <1>0, <1>1, <1>a, <2>2, <2>3, <2>7 DEF NumberInv, QueuesText
  <2>9. cleared \cap Elems(t) = {}
    BY <1>0, <1>a, <2>1
  <2>10. OrderInv'
    <3>1. UNCHANGED <<newWords, words, spoken, cleared>>
      BY <1>1 DEF QueuesText
    <3> HIDE DEF S, T
    <3> QED
      BY <3>1, <2>5, <2>7, <2>9, <1>b DEF OrderInv, Before
  <2> QED
    BY <2>8, <2>10
<1>2. CASE TakesText
  <2> HIDE DEF S
  <2>1. /\ Head(textToSpeak) \in Seq(S) /\ Tail(textToSpeak) \in Seq(Seq(S))
        /\ Len(Tail(textToSpeak)) <= Len(textToSpeak)
        /\ WordsOf(textToSpeak) = Elems(Head(textToSpeak)) \cup WordsOf(Tail(textToSpeak))
        /\ Increasing(Head(textToSpeak)) /\ QueueOrdered(Tail(textToSpeak))
        /\ Before(Elems(Head(textToSpeak)), WordsOf(Tail(textToSpeak)))
    BY <1>2, <1>a, QueueTail DEF TakesText, OrderInv
  <2>2. Len(Tail(textToSpeak)) \in Nat
    BY <2>1, LenProperties
  <2>3. NumberInv'
    BY <1>0, <1>2, <1>a, <2>1, <2>2 DEF NumberInv, TakesText, S
  <2>4. OrderInv'
    BY <1>2, <2>1 DEF OrderInv, TakesText, Before
  <2> QED
    BY <2>3, <2>4
<1>3. CASE AppendsWords
  <2> HIDE DEF S
  <2>1. Before(Elems(words), Elems(newWords))
    BY DEF OrderInv, Before
  <2>2. /\ words' \in Seq(S) /\ Elems(words') = Elems(words) \cup Elems(newWords)
        /\ Increasing(words')
    <3>1. /\ words \o newWords \in Seq(S)
          /\ Elems(words \o newWords) = Elems(words) \cup Elems(newWords)
          /\ Increasing(words) /\ Increasing(newWords) => Increasing(words \o newWords)
      BY <1>0, <1>a, <2>1, TextConcat
    <3>2. words' = words \o newWords /\ Increasing(words) /\ Increasing(newWords)
      BY <1>3 DEF AppendsWords, OrderInv
    <3> QED
      BY <3>1, <3>2
  <2>3. newWords' = <<>> /\ Elems(newWords') = {} /\ Increasing(newWords')
    BY <1>3, EmptyText DEF AppendsWords
  <2>4. NumberInv'
    BY <1>3, <1>a, <1>c, <2>2, <2>3 DEF NumberInv, AppendsWords, S
  <2>5. OrderInv'
    BY <1>3, <2>2, <2>3 DEF OrderInv, AppendsWords, Before
  <2> QED
    BY <2>4, <2>5
<1>4. CASE ReportsWord
  <2> HIDE DEF S
  <2> DEFINE w == Head(words)
  <2>1. words # <<>> /\ words' = Tail(words)
    BY <1>4 DEF SpeakInv, ReportsWord
  <2>2. /\ w \in S /\ words' \in Seq(S) /\ Elems(words) = {w} \cup Elems(words')
        /\ Increasing(words') /\ Before({w}, Elems(words'))
    BY <1>0, <1>a, <2>1, TextTail DEF OrderInv
  <2>3. Before(Elems(spoken), {w})
    BY <2>2 DEF OrderInv, Before
  <2>4. /\ Append(spoken, w) \in Seq(S)
        /\ Elems(Append(spoken, w)) = Elems(spoken) \cup {w}
        /\ Increasing(Append(spoken, w))
    <3>1. Increasing(spoken)
      BY DEF OrderInv
    <3> HIDE DEF w
    <3> QED
      <4>1. S \subseteq Nat /\ spoken \in Seq(S) /\ w \in S
        BY <1>0, <1>a, <2>2
      <4> QED
        BY <2>3, <3>1, <4>1, TextAppend
  <2> HIDE DEF w
  <2>5. /\ UNCHANGED <<textToSpeak, queued, newWords>>
        /\ \/ spoken' = Append(spoken, w) /\ cleared' = cleared
           \/ cleared' = cleared \cup {w} /\ spoken' = spoken
    BY <1>4 DEF ReportsWord, w
  <2>6. NumberInv'
    <3>1. spoken' \in Seq(S) /\ cleared' \subseteq S
      BY <1>a, <2>2, <2>4, <2>5
    <3>2. S' = S
      BY <2>5 DEF S
    <3> QED
      BY <1>a, <2>2, <2>5, <3>1, <3>2 DEF NumberInv, S
  <2>7. ~(w \in Elems(words')) /\ ~(w \in Elems(spoken))
    <3>1. {w} \in SUBSET Nat /\ Elems(spoken) \in SUBSET Nat
      BY <1>0, <1>b, <2>2
    <3>2. {w} \cap Elems(words') = {} /\ Elems(spoken) \cap {w} = {}
      BY <2>2, <2>3, <3>1, BeforeDisjoint
    <3> QED
      BY <3>2
  <2>8. ~(w \in Elems(newWords)) /\ ~(w \in WordsOf(textToSpeak))
    <3>1. Before({w}, Elems(newWords) \cup WordsOf(textToSpeak))
      BY <2>2 DEF OrderInv, Before
    <3> QED
      BY <1>0, <2>2, <3>1, BeforeDisjoint
  <2>9. CASE spoken' = Append(spoken, w) /\ cleared' = cleared
    BY <2>9, <2>2, <2>4, <2>5, <2>6 DEF OrderInv, Before
  <2>10. CASE cleared' = cleared \cup {w} /\ spoken' = spoken
    BY <2>10, <2>2, <2>5, <2>6, <2>7, <2>8 DEF OrderInv, Before
  <2> QED
    BY <2>5, <2>9, <2>10
<1>5. CASE ThrowsAway
  <2> HIDE DEF S
  <2>1. /\ Elems(words) \cap Elems(spoken) = {} /\ Elems(words) \cap Elems(newWords) = {}
        /\ WordsOf(textToSpeak) \cap Elems(spoken) = {}
        /\ WordsOf(textToSpeak) \cap Elems(newWords) = {}
        /\ WordsOf(textToSpeak) \cap Elems(words) = {}
    <3>1. /\ Before(Elems(spoken), Elems(words)) /\ Before(Elems(words), Elems(newWords))
          /\ Before(Elems(spoken), WordsOf(textToSpeak))
          /\ Before(Elems(newWords), WordsOf(textToSpeak))
          /\ Before(Elems(words), WordsOf(textToSpeak))
      BY DEF OrderInv, Before
    <3>2. /\ Elems(spoken) \subseteq Nat /\ Elems(words) \subseteq Nat
          /\ Elems(newWords) \subseteq Nat
      BY <1>0, <1>b
    <3> QED
      BY <3>1, <3>2, BeforeDisjoint
  <2>2. /\ WordsOf(textToSpeak') = {} /\ QueueOrdered(textToSpeak')
        /\ words' \in Seq(S) /\ Increasing(words') /\ Elems(words') \subseteq Elems(words)
    <3>1. CASE words' = words
      BY <1>5, <1>a, <3>1, EmptyText DEF ThrowsAway, OrderInv
    <3>2. CASE words' = <<>>
      BY <1>5, <1>c, <3>2, EmptyText DEF ThrowsAway
    <3> QED
      BY <1>5, <3>1, <3>2 DEF ThrowsAway
  <2>3. NumberInv'
    <3>1. textToSpeak' = <<>> /\ UNCHANGED <<queued, newWords, spoken>>
      BY <1>5 DEF ThrowsAway
    <3>2. cleared' \subseteq S
      BY <1>5, <1>a, <1>b DEF ThrowsAway
    <3>3. textToSpeak' \in Seq(Seq(S)) /\ Len(textToSpeak') <= QueueCapacity
      BY <1>0, <1>c, <3>1
    <3> QED
      BY <1>0, <1>a, <2>2, <3>1, <3>2, <3>3 DEF NumberInv, S
  <2>4. CASE words' = <<>> /\ cleared' = cleared \cup Elems(words) \cup WordsOf(textToSpeak)
    <3>1. Elems(words') = {}
      BY <2>4, EmptyText
    <3> QED
      BY <1>5, <2>1, <2>2, <2>3, <2>4, <3>1 DEF OrderInv, ThrowsAway, Before
  <2>5. CASE words' = words /\ cleared' = cleared \cup WordsOf(textToSpeak)
    BY <1>5, <2>1, <2>2, <2>3, <2>5 DEF OrderInv, ThrowsAway, Before
  <2> QED
    BY <1>5, <2>4, <2>5 DEF ThrowsAway
<1>6. CASE UNCHANGED wordVars
  BY <1>6 DEF OrderInv, NumberInv, wordVars
<1> QED
  BY <1>1, <1>2, <1>3, <1>4, <1>5, <1>6, StepEffects DEF WordEffects

-----------------------------------------------------------------------------
(* Types.                                                                  *)

\* The results of a call of the service are Booleans.
LEMMA ServiceResultsBoolean == ServiceResults \subseteq BOOLEAN
BY DEF ServiceResults

\* The type of a send to a channel of the simulation.
LEMMA SignalResetType ==
  ASSUME NEW next, SignalReset(next), resetSim \in BOOLEAN
  PROVE  loop' \in {next, "crashed"} /\ resetSim' \in BOOLEAN
BY DEF SignalReset

\* The same for the channel of texts.
LEMMA SendToSimulationType ==
  ASSUME NEW next, SendToSimulation(next)
  PROVE  loop' \in {next, "crashed"}
BY DEF SendToSimulation

\* HandleEvent keeps the types.
LEMMA HandlerTypes ==
  ASSUME ControlTypes, HandlerProcess PROVE ControlTypes'
<1> USE TTSAssumption DEF runnerVars, serviceVars, handleVars, channelVars, simVars
<1>1. ASSUME NEW n \in 0..MaxBuffer, HandleChunk(n) PROVE ControlTypes'
  BY <1>1 DEF HandleChunk, Receive, ControlTypes
<1>2. ASSUME NEW n \in 0..MaxBuffer, HandleSpeak(n) PROVE ControlTypes'
  BY <1>2 DEF HandleSpeak, Receive, ControlTypes
<1>3. ASSUME NEW n \in 0..MaxBuffer, NEW m \in 0..MaxBuffer, HandleChunkWithBreak(n, m)
      PROVE  ControlTypes'
  BY <1>3 DEF HandleChunkWithBreak, Receive, ControlTypes
<1>4. CASE HandleResponseCompleted
  BY <1>4 DEF HandleResponseCompleted, Receive, ControlTypes
<1>5. CASE HandleSuspected
  <2>1. loop' \in {"sending", "crashed"} /\ resetSim' \in BOOLEAN
    BY <1>5, SignalResetType DEF HandleSuspected, ControlTypes
  <2> QED
    BY <1>5, <2>1 DEF HandleSuspected, Receive, ControlTypes
<1>6. CASE HandleConfirmed
  <2>1. loop' \in {"resetting", "crashed"} /\ resetSim' \in BOOLEAN
    BY <1>6, SignalResetType DEF HandleConfirmed, ControlTypes
  <2>2. hasBufferedSinceLastFlush' \in BOOLEAN
    BY <1>6 DEF HandleConfirmed
  <2> QED
    BY <1>6, <2>1, <2>2 DEF HandleConfirmed, Receive, ControlTypes
<1>7. CASE HandleResponseStarted
  <2>1. loop' \in {"sending", "crashed"} /\ resetSim' \in BOOLEAN
    BY <1>7, SignalResetType DEF HandleResponseStarted, ControlTypes
  <2>2. hasBufferedSinceLastFlush' \in BOOLEAN /\ leftover' \in BOOLEAN
    BY <1>7 DEF HandleResponseStarted, ControlTypes
  <2> QED
    BY <1>7, <2>1, <2>2 DEF HandleResponseStarted, Receive, ControlTypes
<1>8. ASSUME NEW ok \in ServiceResults, BufferTextReturns(ok) PROVE ControlTypes'
  <2>1. loop' \in {"sending", "flushing", "crashed"}
    BY <1>8, SendToSimulationType DEF BufferTextReturns
  <2>2. hasBufferedSinceLastFlush' \in BOOLEAN /\ unflushed' \in BOOLEAN
    BY <1>8, ServiceResultsBoolean DEF BufferTextReturns, ControlTypes
  <2> QED
    BY <1>8, <2>1, <2>2 DEF BufferTextReturns, ControlTypes
<1>9. ASSUME NEW ok \in ServiceResults, FlushReturns(ok) PROVE ControlTypes'
  <2>1. loop' \in {"sending", "crashed"}
    BY <1>9, SendToSimulationType DEF FlushReturns
  <2>2. hasBufferedSinceLastFlush' \in BOOLEAN /\ unflushed' \in BOOLEAN
        /\ leftover' \in BOOLEAN
    BY <1>9, ServiceResultsBoolean DEF FlushReturns, ControlTypes
  <2> QED
    BY <1>9, <2>1, <2>2 DEF FlushReturns, ControlTypes
<1>10. ASSUME NEW ok \in ServiceResults, ResetReturns(ok) PROVE ControlTypes'
  <2>1. unflushed' \in BOOLEAN /\ leftover' \in BOOLEAN
    BY <1>10, ServiceResultsBoolean DEF ResetReturns, ControlTypes
  <2> QED
    BY <1>10, <2>1 DEF ResetReturns, ControlTypes
<1>11. CASE PacketForwarded \/ LoopExits
  BY <1>11 DEF PacketForwarded, LoopExits, ControlTypes
<1> QED
  BY <1>1, <1>2, <1>3, <1>4, <1>5, <1>6, <1>7, <1>8, <1>9, <1>10, <1>11
     DEF HandlerProcess

\* So does the simulation.
LEMMA SimTypes ==
  ASSUME ControlTypes, SimProcess PROVE ControlTypes'
<1> USE DEF runnerVars, serviceVars, handleVars, channelVars, simVars, SimStates
<1>1. CASE SimTakesText
  BY <1>1 DEF SimTakesText, ControlTypes
<1>2. CASE SimLocksForText
  <2>1. isSpeaking' \in BOOLEAN
    BY <1>2 DEF SimLocksForText, ControlTypes
  <2> QED
    BY <1>2, <2>1 DEF SimLocksForText, AppendWords, ControlTypes
<1>3. CASE SimSendsStarted
  BY <1>3 DEF SimSendsStarted, AppendWords, ControlTypes
<1>4. CASE sendNextWord
  <2>1. timer' \in BOOLEAN
    BY <1>4 DEF sendNextWord
  <2> QED
    BY <1>4, <2>1 DEF sendNextWord, ControlTypes
<1>5. CASE SimLocksForEnd
  <2>1. isSpeaking' \in BOOLEAN
    BY <1>5 DEF SimLocksForEnd
  <2> QED
    BY <1>5, <2>1 DEF SimLocksForEnd, ControlTypes
<1>6. CASE SimSendsEnded
  BY <1>6 DEF SimSendsEnded, ControlTypes
<1>7. CASE SimResets
  <2>1. timer' \in BOOLEAN /\ resetSim' \in BOOLEAN
    BY <1>7 DEF SimResets
  <2> QED
    BY <1>7, <2>1 DEF SimResets, ControlTypes
<1>8. CASE SimTimerFires
  <2>1. timer' \in BOOLEAN
    BY <1>8 DEF SimTimerFires
  <2> QED
    BY <1>8, <2>1 DEF SimTimerFires, ControlTypes
<1>9. CASE SimLeaves
  <2>1. timer' \in BOOLEAN
    BY <1>9 DEF SimLeaves
  <2> QED
    BY <1>9, <2>1 DEF SimLeaves, ControlTypes
<1>10. CASE SimExits
  <2>1. isSpeaking' \in BOOLEAN
    BY <1>10 DEF SimExits
  <2> QED
    BY <1>10, <2>1 DEF SimExits, ControlTypes
<1> QED
  BY <1>1, <1>2, <1>3, <1>4, <1>5, <1>6, <1>7, <1>8, <1>9, <1>10 DEF SimProcess

\* So do Start, the runner and Cleanup.
LEMMA RunnerTypes ==
  ASSUME ControlTypes,
         \/ StartLocks \/ Cancel \/ CleanupProcess
         \/ \E ok \in ServiceResults : StartReturns(ok)
  PROVE  ControlTypes'
<1> USE DEF runnerVars, serviceVars, handleVars, channelVars, simVars, SimStates
<1>1. CASE StartLocks
  BY <1>1 DEF StartLocks, ControlTypes
<1>2. CASE Cancel
  <2>1. ctxDone' \in BOOLEAN
    BY <1>2 DEF Cancel
  <2> QED
    BY <1>2, <2>1 DEF Cancel, ControlTypes
<1>3. CASE CleanupLocks \/ CleanupReturns
  BY <1>3 DEF CleanupLocks, CleanupReturns, ControlTypes
<1>4. CASE CleanupCloses
  <2>1. resetSim' \in BOOLEAN
    BY <1>4 DEF CleanupCloses
  <2> QED
    BY <1>4, <2>1 DEF CleanupCloses, ControlTypes
<1>5. ASSUME NEW ok \in ServiceResults, StartReturns(ok) PROVE ControlTypes'
  BY <1>5 DEF StartReturns, ControlTypes
<1> QED
  BY <1>1, <1>2, <1>3, <1>4, <1>5 DEF CleanupProcess

\* Every step keeps the types.
LEMMA TypesStep == ASSUME ControlTypes, Next PROVE ControlTypes'
BY HandlerTypes, SimTypes, RunnerTypes DEF Next

-----------------------------------------------------------------------------
(* HandleEvent: the bound on the words and the flush.                      *)

\* Only the goroutine of HandlerLoop writes what these invariants speak about.
LEMMA OthersLeaveHandler ==
  ASSUME \/ SimProcess \/ StartLocks \/ Cancel \/ CleanupProcess
         \/ \E ok \in ServiceResults : StartReturns(ok)
  PROVE  /\ UNCHANGED <<loop, event, text, queued>>
         /\ UNCHANGED <<textBuffer, hasBufferedSinceLastFlush, unflushed, leftover>>
<1> USE DEF runnerVars, serviceVars, handleVars, channelVars, simVars
<1>1. CASE SimProcess
  BY <1>1 DEF SimProcess, SimTakesText, SimLocksForText, SimSendsStarted, sendNextWord,
       SimLocksForEnd, SimSendsEnded, SimResets, SimTimerFires, SimLeaves, SimExits
<1>2. CASE StartLocks \/ Cancel
  BY <1>2 DEF StartLocks, Cancel
<1>3. CASE CleanupProcess
  BY <1>3 DEF CleanupProcess, CleanupLocks, CleanupCloses, CleanupReturns
<1>4. CASE \E ok \in ServiceResults : StartReturns(ok)
  BY <1>4 DEF StartReturns
<1> QED
  BY <1>1, <1>2, <1>3, <1>4

\* A send to the simulation gives the text its numbers, or drops it.
LEMMA SendBound ==
  ASSUME NEW next, next \in {"sending", "flushing"}, SendToSimulation(next)
  PROVE  /\ loop' \in {next, "crashed"}
         /\ (queued' = queued \/ queued' = queued + text)
BY DEF SendToSimulation

\* HandleEvent does not exceed the bound.
LEMMA BoundStep ==
  ASSUME ControlTypes, NumberInv, BoundInv, Next PROVE BoundInv'
<1> USE DEF runnerVars, serviceVars, handleVars, channelVars, simVars
<1>0. /\ queued \in Nat /\ text \in Nat /\ textBuffer \in Nat
      /\ MaxWords \in Nat /\ MaxBuffer \in Nat
      /\ queued + textBuffer <= MaxWords
  BY TTSAssumption DEF ControlTypes, NumberInv, BoundInv, Pending
<1>1. ASSUME NEW n \in 0..MaxBuffer, HandleChunk(n) PROVE BoundInv'
  BY <1>0, <1>1 DEF HandleChunk, Room, BoundInv, Pending
<1>2. ASSUME NEW n \in 0..MaxBuffer, HandleSpeak(n) PROVE BoundInv'
  BY <1>0, <1>2 DEF HandleSpeak, Room, BoundInv, Pending
<1>3. ASSUME NEW n \in 0..MaxBuffer, NEW m \in 0..MaxBuffer, HandleChunkWithBreak(n, m)
      PROVE  BoundInv'
  BY <1>0, <1>3 DEF HandleChunkWithBreak, Room, BoundInv, Pending
<1>4. CASE HandleResponseCompleted
  BY <1>0, <1>4 DEF HandleResponseCompleted, Receive, BoundInv, Pending
<1>5. CASE HandleSuspected \/ HandleConfirmed \/ HandleResponseStarted
  <2>1. /\ loop' \in {"sending", "resetting", "crashed"}
        /\ textBuffer' \in {0, textBuffer} /\ UNCHANGED queued
    BY <1>5 DEF HandleSuspected, HandleConfirmed, HandleResponseStarted, SignalReset
  <2> QED
    BY <1>0, <2>1 DEF BoundInv, Pending
<1>6. ASSUME NEW ok \in ServiceResults, BufferTextReturns(ok) PROVE BoundInv'
  <2>1. queued + textBuffer + text <= MaxWords /\ UNCHANGED <<text, textBuffer, event>>
    BY <1>6 DEF BufferTextReturns, BoundInv, Pending
  <2>2. CASE event = "speak" /\ loop' = "flushing" /\ UNCHANGED queued
    BY <1>0, <2>1, <2>2 DEF BoundInv, Pending
  <2>3. CASE \E next \in {"sending", "flushing"} :
               SendToSimulation(next) /\ (event = "speak" => next = "sending")
    <3>1. /\ ~(loop' = "buffering" \/ (loop' = "flushing" /\ event' = "speak"))
          /\ (queued' = queued \/ queued' = queued + text)
      BY <2>1, <2>3, SendBound
    <3>2. Pending' = 0
      BY <3>1 DEF Pending
    <3>3. queued' + textBuffer <= MaxWords
      BY <1>0, <2>1, <3>1
    <3> QED
      BY <1>0, <2>1, <3>1, <3>2, <3>3 DEF BoundInv
  <2> QED
    BY <1>6, <2>2, <2>3 DEF BufferTextReturns
<1>7. ASSUME NEW ok \in ServiceResults, FlushReturns(ok) PROVE BoundInv'
  <2>1. UNCHANGED <<text, textBuffer, event>>
    BY <1>7 DEF FlushReturns
  <2>2. CASE loop' = "sending" /\ UNCHANGED queued
    BY <1>0, <2>1, <2>2 DEF BoundInv, Pending
  <2>3. CASE event = "speak" /\ SendToSimulation("sending")
    <3>1. queued + textBuffer + text <= MaxWords
      BY <1>7, <2>3 DEF FlushReturns, BoundInv, Pending
    <3>2. loop' \in {"sending", "crashed"} /\ (queued' = queued \/ queued' = queued + text)
      BY <2>3, SendBound
    <3>3. Pending' = 0
      BY <3>2 DEF Pending
    <3>4. queued' + textBuffer <= MaxWords
      BY <1>0, <3>1, <3>2
    <3> QED
      BY <1>0, <2>1, <3>2, <3>3, <3>4 DEF BoundInv
  <2> QED
    BY <1>7, <2>2, <2>3 DEF FlushReturns
<1>8. ASSUME NEW ok \in ServiceResults, ResetReturns(ok) PROVE BoundInv'
  BY <1>0, <1>8 DEF ResetReturns, BoundInv, Pending
<1>9. CASE PacketForwarded \/ LoopExits
  BY <1>0, <1>9 DEF PacketForwarded, LoopExits, BoundInv, Pending
<1>10. CASE UNCHANGED <<loop, event, text, queued, textBuffer>>
  BY <1>10 DEF BoundInv, Pending
<1> QED
  BY <1>1, <1>2, <1>3, <1>4, <1>5, <1>6, <1>7, <1>8, <1>9, <1>10, OthersLeaveHandler
     DEF Next, HandlerProcess

\* HandleEvent keeps track of what the service has not been told to flush.
LEMMA FlushStep ==
  ASSUME ControlTypes, FlushInv, Next PROVE FlushInv'
<1> USE DEF runnerVars, serviceVars, handleVars, channelVars, simVars
<1>1. ASSUME NEW n \in 0..MaxBuffer, HandleChunk(n) \/ HandleSpeak(n) PROVE FlushInv'
  BY <1>1 DEF HandleChunk, HandleSpeak, Receive, FlushInv, CompletedIsFlushed
<1>2. ASSUME NEW n \in 0..MaxBuffer, NEW m \in 0..MaxBuffer, HandleChunkWithBreak(n, m)
      PROVE  FlushInv'
  BY <1>2 DEF HandleChunkWithBreak, Receive, FlushInv, CompletedIsFlushed
<1>3. CASE HandleResponseCompleted
  BY <1>3 DEF HandleResponseCompleted, Receive, FlushInv, CompletedIsFlushed
<1>4. CASE HandleSuspected
  BY <1>4 DEF HandleSuspected, SignalReset, Receive, FlushInv, CompletedIsFlushed
<1>5. CASE HandleConfirmed
  BY <1>5 DEF HandleConfirmed, SignalReset, Receive, FlushInv, CompletedIsFlushed
<1>6. CASE HandleResponseStarted
  BY <1>6 DEF HandleResponseStarted, SignalReset, Receive, FlushInv, CompletedIsFlushed
<1>7. ASSUME NEW ok \in ServiceResults, BufferTextReturns(ok) PROVE FlushInv'
  <2>1. ok \in BOOLEAN /\ UNCHANGED <<event, leftover>> /\ unflushed' = (ok \/ unflushed)
    BY <1>7, ServiceResultsBoolean DEF BufferTextReturns
  <2>2. CASE event = "speak"
    <3>1. CASE ok
      BY <1>7, <2>1, <2>2, <3>1 DEF BufferTextReturns, FlushInv, CompletedIsFlushed
    <3>2. CASE ~ok
      BY <1>7, <2>1, <2>2, <3>2 DEF BufferTextReturns, FlushInv, CompletedIsFlushed
    <3> QED
      BY <3>1, <3>2
  <2>3. CASE event = "chunk"
    BY <1>7, <2>1, <2>3 DEF BufferTextReturns, FlushInv, CompletedIsFlushed
  <2>4. CASE event = "completed"
    <3>1. hasBufferedSinceLastFlush' = (ok \/ hasBufferedSinceLastFlush)
      BY <1>7, <2>4 DEF BufferTextReturns
    <3>2. loop' \in {IF ok \/ hasBufferedSinceLastFlush THEN "flushing" ELSE "sending",
                     "crashed"}
      BY <1>7, <2>4, SendToSimulationType DEF BufferTextReturns
    <3> QED
      BY <1>7, <2>1, <2>4, <3>1, <3>2 DEF BufferTextReturns, FlushInv, CompletedIsFlushed
  <2> QED
    BY <1>7, <2>2, <2>3, <2>4 DEF BufferTextReturns
<1>8. ASSUME NEW ok \in ServiceResults, FlushReturns(ok) PROVE FlushInv'
  <2>1. unflushed' => leftover'
    BY <1>8 DEF FlushReturns
  <2> QED
    BY <2>1 DEF FlushInv, CompletedIsFlushed
<1>9. ASSUME NEW ok \in ServiceResults, ResetReturns(ok) PROVE FlushInv'
  <2>1. unflushed' => leftover'
    BY <1>9 DEF ResetReturns
  <2> QED
    BY <2>1 DEF FlushInv, CompletedIsFlushed
<1>10. CASE PacketForwarded \/ LoopExits
  BY <1>10 DEF PacketForwarded, LoopExits, FlushInv, CompletedIsFlushed
<1>11. CASE UNCHANGED <<loop, event, hasBufferedSinceLastFlush, unflushed, leftover>>
  BY <1>11 DEF FlushInv, CompletedIsFlushed
<1> QED
  BY <1>1, <1>2, <1>3, <1>4, <1>5, <1>6, <1>7, <1>8, <1>9, <1>10, <1>11,
     OthersLeaveHandler DEF Next, HandlerProcess

-----------------------------------------------------------------------------
(* The mutex, the simulation and its announcements.                        *)

\* HandleEvent neither takes the mutex across steps nor runs the simulation.
LEMMA HandlerLeavesSimulation ==
  ASSUME HandlerProcess
  PROVE  /\ UNCHANGED <<ctxDone, mu, start, cleanup>>
         /\ UNCHANGED <<sim, newWords, words, timer, isSpeaking, announced>>
BY DEF HandlerProcess, HandleChunk, HandleSpeak, HandleChunkWithBreak,
   HandleResponseCompleted, HandleSuspected, HandleConfirmed, HandleResponseStarted,
   BufferTextReturns, FlushReturns, ResetReturns, PacketForwarded, LoopExits,
   runnerVars, simVars

\* The simulation starts and ends, and the mutex is taken and released, in step
\* with Start and Cleanup.
LEMMA LockStep ==
  ASSUME ControlTypes, LockInv, Next PROVE LockInv'
<1> USE DEF runnerVars, serviceVars, handleVars, channelVars, simVars
<1>1. CASE HandlerProcess
  BY <1>1, HandlerLeavesSimulation DEF LockInv
<1>2. CASE SimProcess
  <2>1. /\ UNCHANGED <<mu, start, cleanup>> /\ sim \notin {"none", "done"}
        /\ sim' # "none"
    <3>1. CASE SimTakesText \/ SimLocksForText \/ SimSendsStarted \/ sendNextWord
      BY <3>1 DEF SimTakesText, SimLocksForText, SimSendsStarted, sendNextWord, AppendWords
    <3>2. CASE SimLocksForEnd \/ SimSendsEnded \/ SimResets \/ SimTimerFires
               \/ SimLeaves \/ SimExits
      BY <3>2 DEF SimLocksForEnd, SimSendsEnded, SimResets, SimTimerFires, SimLeaves,
           SimExits
    <3> QED
      BY <1>2, <3>1, <3>2 DEF SimProcess
  <2> QED
    BY <2>1 DEF LockInv
<1>3. CASE StartLocks
  BY <1>3 DEF StartLocks, LockInv, ControlTypes
<1>4. ASSUME NEW ok \in ServiceResults, StartReturns(ok) PROVE LockInv'
  BY <1>4 DEF StartReturns, LockInv, ControlTypes
<1>5. CASE Cancel
  BY <1>5 DEF Cancel, LockInv
<1>6. CASE CleanupLocks
  BY <1>6 DEF CleanupLocks, LockInv, ControlTypes
<1>7. CASE CleanupCloses
  BY <1>7 DEF CleanupCloses, LockInv, ControlTypes
<1>8. CASE CleanupReturns
  BY <1>8 DEF CleanupReturns, LockInv, ControlTypes
<1> QED
  BY <1>1, <1>2, <1>3, <1>4, <1>5, <1>6, <1>7, <1>8 DEF Next, CleanupProcess

\* Words put behind others are not nothing.
LEMMA ConcatNonempty ==
  ASSUME NEW S, NEW s \in Seq(S), NEW t \in Seq(S), t # <<>>
  PROVE  s \o t # <<>>
BY ConcatProperties, EmptySeq, LenProperties

\* The timer and the state of speaking follow the words.
LEMMA SpeakStep ==
  ASSUME ControlTypes, NumberInv, LockInv, SpeakInv, Next PROVE SpeakInv'
<1> USE DEF runnerVars, serviceVars, handleVars, channelVars, simVars
<1>1. CASE HandlerProcess
  BY <1>1, HandlerLeavesSimulation DEF SpeakInv
<1>2. CASE SimTakesText
  BY <1>2 DEF SimTakesText, SpeakInv
<1>3. CASE SimLocksForText \/ SimSendsStarted
  <2>1. words \o newWords # <<>>
    <3>1. newWords # <<>>
      BY <1>3 DEF SimLocksForText, SimSendsStarted, SpeakInv
    <3> QED
      BY <3>1, ConcatNonempty DEF NumberInv
  <2>2. CASE SimLocksForText /\ ~isSpeaking /\ words = <<>>
    BY <2>2 DEF SimLocksForText, SpeakInv, AppendWords
  <2>3. CASE SimLocksForText /\ ~(~isSpeaking /\ words = <<>>)
    BY <2>1, <2>3 DEF SimLocksForText, SpeakInv, AppendWords, ControlTypes
  <2>4. CASE SimSendsStarted
    BY <2>1, <2>4 DEF SimSendsStarted, SpeakInv, AppendWords, ControlTypes
  <2> QED
    BY <1>3, <2>2, <2>3, <2>4
<1>4. CASE sendNextWord
  <2>1. /\ sim = "sendWord" /\ isSpeaking /\ newWords = <<>> /\ newWords' = newWords
        /\ isSpeaking' = isSpeaking /\ words' = Tail(words)
    BY <1>4 DEF sendNextWord, SpeakInv
  <2>2. CASE Tail(words) # <<>>
    <3>1. timer' /\ sim' = "select"
      BY <1>4, <2>2 DEF sendNextWord
    <3> QED
      BY <2>1, <2>2, <3>1 DEF SpeakInv
  <2>3. CASE Tail(words) = <<>>
    <3>1. ~timer' /\ sim' = "lockEnded"
      BY <1>4, <2>3 DEF sendNextWord
    <3> QED
      BY <2>1, <2>3, <3>1 DEF SpeakInv
  <2> QED
    BY <2>2, <2>3
<1>5. CASE SimLocksForEnd
  BY <1>5 DEF SimLocksForEnd, SpeakInv
<1>6. CASE SimSendsEnded
  BY <1>6 DEF SimSendsEnded, SpeakInv
<1>7. CASE SimResets
  BY <1>7 DEF SimResets, SpeakInv
<1>8. CASE SimTimerFires
  BY <1>8 DEF SimTimerFires, SpeakInv
<1>9. CASE SimLeaves
  BY <1>9 DEF SimLeaves, SpeakInv
<1>10. CASE SimExits
  BY <1>10 DEF SimExits, SpeakInv
<1>11. CASE StartLocks
  <2>1. sim = "none"
    BY <1>11 DEF StartLocks, LockInv
  <2> QED
    BY <1>11, <2>1 DEF StartLocks, SpeakInv
<1>12. CASE UNCHANGED <<sim, newWords, words, timer, isSpeaking>>
  BY <1>12 DEF SpeakInv
<1>13. CASE Cancel \/ CleanupProcess \/ \E ok \in ServiceResults : StartReturns(ok)
  <2>1. UNCHANGED <<sim, newWords, words, timer, isSpeaking>>
    BY <1>13 DEF Cancel, CleanupProcess, CleanupLocks, CleanupCloses, CleanupReturns,
       StartReturns
  <2> QED
    BY <1>12, <2>1
<1> QED
  BY <1>1, <1>2, <1>3, <1>4, <1>5, <1>6, <1>7, <1>8, <1>9, <1>10, <1>11, <1>13
     DEF Next, SimProcess

\* The announcements follow isSpeaking until the context is done.
LEMMA AnnounceStep ==
  ASSUME ControlTypes, LockInv, SpeakInv, AnnounceInv, Next PROVE AnnounceInv'
<1> USE DEF runnerVars, serviceVars, handleVars, channelVars, simVars
<1> SUFFICES ASSUME ~ctxDone'
             PROVE  /\ sim' # "lockExit" /\ sim' # "done"
                    /\ announced' = IF sim' = "sendStarted" THEN "ended"
                                    ELSE IF sim' = "sendEnded" \/ isSpeaking' THEN "started"
                                    ELSE "ended"
  BY DEF AnnounceInv
<1>0. ~Cancel
  BY DEF Cancel
<1>1. CASE HandlerProcess
  BY <1>1, HandlerLeavesSimulation DEF AnnounceInv
<1>2. CASE SimTakesText
  BY <1>2 DEF SimTakesText, AnnounceInv
<1>3. CASE SimLocksForText
  <2>1. CASE ~isSpeaking /\ words = <<>>
    BY <1>3, <2>1 DEF SimLocksForText, AnnounceInv, AppendWords
  <2>2. CASE ~(~isSpeaking /\ words = <<>>)
    BY <1>3, <2>2 DEF SimLocksForText, AnnounceInv, AppendWords
  <2> QED
    BY <2>1, <2>2
<1>4. CASE SimSendsStarted
  BY <1>4 DEF SimSendsStarted, AnnounceInv, AppendWords, SpeakInv
<1>5. CASE sendNextWord
  BY <1>5 DEF sendNextWord, AnnounceInv
<1>6. CASE SimLocksForEnd
  BY <1>6 DEF SimLocksForEnd, AnnounceInv
<1>7. CASE SimSendsEnded
  BY <1>7 DEF SimSendsEnded, AnnounceInv, SpeakInv
<1>8. CASE SimResets
  BY <1>8 DEF SimResets, AnnounceInv
<1>9. CASE SimTimerFires
  BY <1>9 DEF SimTimerFires, AnnounceInv
<1>10. CASE SimLeaves \/ SimExits
  BY <1>10 DEF SimLeaves, SimExits, AnnounceInv
<1>11. CASE StartLocks
  <2>1. sim = "none"
    BY <1>11 DEF StartLocks, LockInv
  <2> QED
    BY <1>11, <2>1 DEF StartLocks, AnnounceInv
<1>12. CASE CleanupProcess \/ \E ok \in ServiceResults : StartReturns(ok)
  BY <1>12 DEF CleanupProcess, CleanupLocks, CleanupCloses, CleanupReturns,
     StartReturns, AnnounceInv
<1> QED
  BY <1>0, <1>1, <1>2, <1>3, <1>4, <1>5, <1>6, <1>7, <1>8, <1>9, <1>10, <1>11, <1>12
     DEF Next, SimProcess

-----------------------------------------------------------------------------
(* The invariant and what it says.                                         *)

\* It holds when Initialize returns.
LEMMA InitInv == Init => IInv
<1> SUFFICES ASSUME Init PROVE IInv
  OBVIOUS
<1> USE TTSAssumption DEF Init
<1>1. ControlTypes
  <2>1. /\ ctxDone \in BOOLEAN /\ hasBufferedSinceLastFlush \in BOOLEAN
        /\ unflushed \in BOOLEAN /\ leftover \in BOOLEAN /\ resetSim \in BOOLEAN
        /\ timer \in BOOLEAN /\ isSpeaking \in BOOLEAN
    OBVIOUS
  <2>2. text \in 0..MaxBuffer /\ textBuffer \in 0..MaxBuffer
    OBVIOUS
  <2> QED
    BY <2>1, <2>2 DEF ControlTypes, SimStates
<1>2. BoundInv
  BY DEF BoundInv, Pending
<1>3. LockInv /\ FlushInv /\ SpeakInv /\ AnnounceInv
  BY DEF LockInv, FlushInv, CompletedIsFlushed, SpeakInv, AnnounceInv
<1>4. OrderInv
  BY EmptyText DEF OrderInv, Before
<1>5. NumberInv
  BY EmptySeq DEF NumberInv
<1> QED
  BY <1>1, <1>2, <1>3, <1>4, <1>5 DEF IInv

\* Every step keeps it.
LEMMA NextInv == ASSUME IInv, [Next]_vars PROVE IInv'
<1>1. CASE Next
  BY <1>1, TypesStep, BoundStep, LockStep, FlushStep, SpeakStep, AnnounceStep, OrderStep
     DEF IInv
<1>2. CASE UNCHANGED vars
  <2> USE <1>2 DEF IInv, vars
  <2>1. ControlTypes'
    BY DEF ControlTypes
  <2>2. BoundInv' /\ LockInv'
    BY DEF BoundInv, Pending, LockInv
  <2>3. FlushInv' /\ SpeakInv' /\ AnnounceInv'
    BY DEF FlushInv, CompletedIsFlushed, SpeakInv, AnnounceInv
  <2>4. OrderInv' /\ NumberInv'
    BY DEF OrderInv, NumberInv
  <2> QED
    BY <2>1, <2>2, <2>3, <2>4
<1> QED
  BY <1>1, <1>2

\* The goroutine of HandlerLoop, the simulation, Start and Cleanup keep the
\* invariant, whatever the order of their steps and of the service's errors.
THEOREM TTSHandlerInvariant == Spec => []IInv
BY InitInv, NextInv, PTL DEF Spec

\* Every variable keeps its type, and the words fit the bound.
THEOREM TypeCorrect == Spec => []TypeOK
<1>1. IInv => TypeOK
  <2> SUFFICES ASSUME IInv PROVE TypeOK
    OBVIOUS
  <2>1. queued \in 0..MaxWords /\ 1..queued \subseteq 1..MaxWords
    BY TTSAssumption DEF IInv, BoundInv, Pending, NumberInv, ControlTypes
  <2>2. /\ spoken \in Seq(1..MaxWords) /\ words \in Seq(1..MaxWords)
        /\ newWords \in Seq(1..MaxWords) /\ textToSpeak \in Seq(Seq(1..MaxWords))
        /\ cleared \subseteq 1..MaxWords
    BY <2>1, SeqMonotonic, QueueMonotonic DEF IInv, NumberInv
  <2> QED
    BY <2>1, <2>2 DEF IInv, ControlTypes, NumberInv, TypeOK
<1> QED
  BY <1>1, TTSHandlerInvariant, PTL

\* Start and end of speaking alternate and bracket every reported word, for any
\* interleaving of texts, resets, expirations of the timer, Start and Cleanup.
THEOREM SpeakingBracketsWordsHolds == Spec => []SpeakingBracketsWords
<1>1. IInv => SpeakingBracketsWords
  BY DEF IInv, SpeakInv, AnnounceInv, SpeakingBracketsWords
<1> QED
  BY <1>1, TTSHandlerInvariant, PTL

\* Words are reported in order and at most once, and what was thrown away is
\* not reported, whatever the capacity of the channel and the number of resets.
THEOREM WordsInOrderHolds == Spec => []WordsInOrder
<1>1. IInv => WordsInOrder
  <2>1. InQueue = WordsOf(textToSpeak)
    BY DEF InQueue, WordsOf
  <2> QED
    BY <2>1 DEF IInv, OrderInv, WordsInOrder, Before, Increasing
<1> QED
  BY <1>1, TTSHandlerInvariant, PTL

\* A completed response leaves no text of its own unflushed in the service.
THEOREM CompletedIsFlushedHolds == Spec => []CompletedIsFlushed
<1>1. IInv => CompletedIsFlushed
  BY DEF IInv, FlushInv
<1> QED
  BY <1>1, TTSHandlerInvariant, PTL

\* The branch of simulationLoop that "should not happen" does not: where the
\* simulation waits, the timer runs and the bot speaks exactly if words are left.
THEOREM TimerDrivesWordsHolds == Spec => []TimerDrivesWords
<1>1. IInv => TimerDrivesWords
  BY DEF IInv, SpeakInv, TimerDrivesWords
<1> QED
  BY <1>1, TTSHandlerInvariant, PTL

\* Cleanup closes the channels only once the simulation is over or was never
\* started, and Start cannot start it in between.
THEOREM ChannelsOutliveSimulationHolds == Spec => []ChannelsOutliveSimulation
<1>1. IInv => ChannelsOutliveSimulation
  BY DEF IInv, LockInv, ChannelsOutliveSimulation
<1> QED
  BY <1>1, TTSHandlerInvariant, PTL
=============================================================================
