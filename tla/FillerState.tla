---------------------------- MODULE FillerState ----------------------------
(***************************************************************************)
(* The fillers of handlers/llm: while the user speaks, interim transcripts *)
(* ask a model for a short phrase; the response that follows waits up to   *)
(* 300 ms for it and speaks it first.                                      *)
(*                                                                         *)
(* Actors: HandleEvent (interim transcripts, clears, confirmations), one   *)
(* goroutine per filler request, one per generation, and the relay, which  *)
(* clears the state after a response.  Every method of fillerState runs    *)
(* under its mutex and is one step.  A filler is the token of the request  *)
(* that it answers, 0 for "".                                              *)
(*                                                                         *)
(* The rest of the handler, LLMHandler, asks for responses, interrupts and *)
(* completes them; here generations begin and turns end at any time.       *)
(***************************************************************************)
EXTENDS Naturals

CONSTANTS
  MaxFillerGenerations,  \* bound: responses asked for in one behaviour
  MaxRequests            \* bound: filler requests, and utterances

ASSUME FillerAssumption == MaxFillerGenerations \in Nat /\ MaxRequests \in Nat

FillerGenerations == 1..MaxFillerGenerations

VARIABLES
  \* The fields of fillerState.
  listening, currentUtteranceID, fillerUtteranceID, fillerRequested,
  fillerReady, fillerConsumed, pendingFiller, consumedFiller,
  activeRequestToken, nextRequestToken,
  inflight,     \* requests that generateFiller has not come back from
  waitGen,      \* where generation g is: "none", "waiting", or waitForFiller
                \* has "returned"
  genFiller,    \* genFiller[g]: the filler that g took
  bridging,     \* HandleEvent is between the two steps of a confirmation
  turn          \* history: requests made before the state was last cleared

requestVars == <<fillerUtteranceID, fillerRequested, fillerReady,
                 fillerConsumed, pendingFiller, consumedFiller,
                 activeRequestToken>>
stateVars   == <<listening, currentUtteranceID, requestVars, nextRequestToken,
                 turn>>
fillerVars == <<stateVars, inflight, waitGen, genFiller, bridging>>

FillerInit ==
  /\ listening = FALSE /\ currentUtteranceID = 0 /\ fillerUtteranceID = 0
  /\ fillerRequested = FALSE /\ fillerReady = FALSE /\ fillerConsumed = FALSE
  /\ pendingFiller = 0 /\ consumedFiller = 0
  /\ activeRequestToken = 0 /\ nextRequestToken = 0
  /\ inflight = {} /\ turn = 0
  /\ waitGen = [g \in FillerGenerations |-> "none"]
  /\ genFiller = [g \in FillerGenerations |-> 0]
  /\ bridging = FALSE

-----------------------------------------------------------------------------
(* Interim transcripts.                                                    *)

\* The part of an interim transcript that its words do not matter to: the first
\* one after a clear begins an utterance.
Listens(newUtterance) ==
  /\ listening' = TRUE
  /\ currentUtteranceID' = IF newUtterance THEN currentUtteranceID + 1
                                           ELSE currentUtteranceID

\* resetUtteranceLocked, when an utterance begins.
resetUtterance ==
  /\ fillerRequested' = FALSE /\ fillerReady' = FALSE /\ fillerConsumed' = FALSE
  /\ pendingFiller' = 0 /\ consumedFiller' = 0
  /\ activeRequestToken' = 0 /\ fillerUtteranceID' = 0

BeginsUtterance == ~listening

\* An interim transcript of at most three words, or one that comes when a filler
\* has been spoken already.
ShortInterim ==
  /\ Listens(BeginsUtterance)
  /\ IF BeginsUtterance THEN resetUtterance ELSE UNCHANGED requestVars
  /\ UNCHANGED <<nextRequestToken, inflight>>

\* One with more words asks for a new filler; an answer to an earlier request is
\* no longer wanted.
RequestFiller ==
  LET token == nextRequestToken + 1 IN
  /\ BeginsUtterance \/ ~fillerConsumed
  /\ Listens(BeginsUtterance)
  /\ fillerReady' = FALSE /\ pendingFiller' = 0
  /\ fillerRequested' = TRUE /\ fillerConsumed' = FALSE
  /\ consumedFiller' = IF BeginsUtterance THEN 0 ELSE consumedFiller
  /\ fillerUtteranceID' = currentUtteranceID'
  /\ nextRequestToken' = token /\ activeRequestToken' = token
  /\ inflight' = inflight \cup {[token |-> token, utterance |-> currentUtteranceID']}

onInterim ==
  /\ ~bridging
  /\ listening \/ currentUtteranceID < MaxRequests
  /\ ShortInterim \/ (nextRequestToken < MaxRequests /\ RequestFiller)
  /\ UNCHANGED <<waitGen, genFiller, bridging, turn>>

-----------------------------------------------------------------------------
(* Answers.                                                                *)

\* Faulty variant: any answer is taken for the answer to the last request.
IsActiveAlways(r) == TRUE

\* The guard of storeResult and requestFailed.
IsActive(r) ==
  r.token = activeRequestToken /\ r.utterance = fillerUtteranceID

storeResult(r) ==
  /\ activeRequestToken' = 0
  /\ \/ pendingFiller' = r.token /\ fillerReady' = TRUE
     \/ pendingFiller' = 0 /\ fillerReady' = FALSE        \* skip
  /\ UNCHANGED fillerRequested

requestFailed ==
  /\ activeRequestToken' = 0 /\ fillerRequested' = FALSE
  /\ UNCHANGED <<pendingFiller, fillerReady>>

\* generateFiller comes back with a filler, with skip, or with an error.
generateFiller(r) ==
  /\ inflight' = inflight \ {r}
  /\ \/ IsActive(r) /\ (storeResult(r) \/ requestFailed)
     \/ /\ ~IsActive(r)
        /\ UNCHANGED <<activeRequestToken, pendingFiller, fillerReady,
                       fillerRequested>>
  /\ UNCHANGED <<listening, currentUtteranceID, fillerUtteranceID,
                 fillerConsumed, consumedFiller, nextRequestToken, turn, waitGen,
                 genFiller, bridging>>

-----------------------------------------------------------------------------
(* The end of a turn: an interruption, a confirmation, or a response that  *)
(* has been completed.                                                     *)

clearAfterResponse ==
  /\ listening' = FALSE
  /\ fillerRequested' = FALSE /\ fillerReady' = FALSE /\ fillerConsumed' = FALSE
  /\ pendingFiller' = 0 /\ consumedFiller' = 0
  /\ activeRequestToken' = 0 /\ fillerUtteranceID' = 0
  /\ turn' = nextRequestToken
  /\ UNCHANGED <<currentUtteranceID, nextRequestToken>>

\* LLMVariableConfirmRequestEvent: the filler that was spoken is read, ...
HandleConfirmRequest ==
  /\ ~bridging
  /\ bridging' = TRUE
  /\ UNCHANGED <<stateVars, inflight, waitGen, genFiller>>

\* ... and the state is cleared.  generateConfirmBridge, spawned with what was
\* read, asks the model for a continuation and sends one TTSSpeakEvent: it
\* touches nothing of the handler.
ConfirmClears ==
  /\ bridging
  /\ clearAfterResponse
  /\ bridging' = FALSE
  /\ UNCHANGED <<inflight, waitGen, genFiller>>

-----------------------------------------------------------------------------
(* A generation and its filler.                                            *)

\* Faulty variant: the filler is taken and not marked as consumed.
TakeFillerUnmarked(g) ==
  /\ genFiller' = [genFiller EXCEPT ![g] = pendingFiller]
  /\ consumedFiller' = pendingFiller
  /\ UNCHANGED fillerConsumed

TakeFiller(g) ==
  /\ genFiller' = [genFiller EXCEPT ![g] = pendingFiller]
  /\ consumedFiller' = pendingFiller
  /\ fillerConsumed' = TRUE

Ready == fillerRequested /\ fillerReady /\ ~fillerConsumed /\ pendingFiller # 0

\* waitForFiller returns: a filler is ready, or none was requested, or the
\* deadline has passed without one.
waitForFiller(g) ==
  /\ waitGen[g] = "waiting"
  /\ waitGen' = [waitGen EXCEPT ![g] = "returned"]
  /\ \/ Ready /\ TakeFiller(g)
     \/ ~Ready /\ UNCHANGED <<genFiller, consumedFiller, fillerConsumed>>
  /\ UNCHANGED <<listening, currentUtteranceID, fillerUtteranceID,
                 fillerRequested, fillerReady, pendingFiller,
                 activeRequestToken, nextRequestToken, turn, inflight,
                 bridging>>

-----------------------------------------------------------------------------
(* The rest of the handler.                                                *)

Begin(g) ==
  /\ waitGen[g] = "none"
  /\ waitGen' = [waitGen EXCEPT ![g] = "waiting"]
  /\ UNCHANGED <<stateVars, inflight, genFiller, bridging>>

Clear ==
  /\ clearAfterResponse
  /\ UNCHANGED <<inflight, waitGen, genFiller, bridging>>

FillerNext ==
  \/ onInterim \/ Clear
  \/ \E r \in inflight : generateFiller(r)
  \/ HandleConfirmRequest \/ ConfirmClears
  \/ \E g \in FillerGenerations : Begin(g) \/ waitForFiller(g)

FillerSpec == FillerInit /\ [][FillerNext]_fillerVars
-----------------------------------------------------------------------------
(* Properties.                                                             *)

Tokens == Nat \ {0}
Fillers == Nat

FillerTypeOK ==
  /\ listening \in BOOLEAN /\ fillerRequested \in BOOLEAN
  /\ fillerReady \in BOOLEAN /\ fillerConsumed \in BOOLEAN
  /\ currentUtteranceID \in Nat /\ fillerUtteranceID \in Nat
  /\ pendingFiller \in Fillers /\ consumedFiller \in Fillers
  /\ activeRequestToken \in Nat /\ nextRequestToken \in Nat /\ turn \in Nat
  /\ inflight \subseteq [token : Tokens, utterance : Tokens]
  /\ waitGen \in [FillerGenerations -> {"none", "waiting", "returned"}]
  /\ genFiller \in [FillerGenerations -> Fillers]
  /\ bridging \in BOOLEAN

\* No filler is spoken twice: of several generations that wait for one, at most
\* one takes it, whatever clears and requests come in between.
FillerSpokenOnce ==
  \A g, k \in FillerGenerations :
    genFiller[g] # 0 /\ genFiller[g] = genFiller[k] => g = k

\* A filler that can be spoken answers the last request, made since the state
\* was last cleared: an answer that comes late, after a newer interim
\* transcript, an interruption or a response, is never used.
FillerIsCurrent ==
  pendingFiller # 0 =>
    pendingFiller = nextRequestToken /\ pendingFiller > turn

\* The text of the filler that was spoken, which the confirmation continues and
\* the response's full text begins with, is kept until the end of the turn:
\* neither interim transcripts, late answers nor other generations replace it.
SpokenFillerIsKept ==
  [][consumedFiller # 0 =>
       \/ consumedFiller' = consumedFiller
       \/ consumedFiller' = 0 /\ turn' = nextRequestToken]_fillerVars
=============================================================================
