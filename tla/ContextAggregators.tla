------------------------- MODULE ContextAggregators -------------------------
(***************************************************************************)
(* The two handlers that keep the context of the conversation, and what    *)
(* runs between them in the pipeline                                       *)
(*                                                                         *)
(*    ... STT -> user aggregator -> LLM -> assistant aggregator -> TTS ... *)
(*                                                                         *)
(* Their loops, and a goroutine for every tool call, append to             *)
(* context.Messages without a lock: an append reads the slice and writes   *)
(* it back in two steps, so of two that overlap the last one wins.         *)
(*                                                                         *)
(* The LLM handler is module LLMHandler; here it answers a generation with *)
(* LLMResponseStarted and may then ask for tools and complete, late too.   *)
(* The TTS handler sends its TTSSpokenTextChunkEvents onwards, away from   *)
(* the assistant aggregator, whose spokenBuffer therefore stays empty: a   *)
(* confirmed interruption commits nothing.  What is sent to the top comes  *)
(* back through the pipeline, in any order (Runner.processTopOutput).      *)
(* Events that change nothing here and the end of the session are left     *)
(* out.                                                                    *)
(***************************************************************************)
EXTENDS Naturals, Sequences, SequencesExt

CONSTANTS
  Calls,           \* the tool calls the LLM may make
  MaxFinals,       \* bound: utterances of the user
  MaxSuspicions    \* bound: interruptions the VAD suspects

\* A generation that is not for the result of a call has 0 in its place.
ASSUME Bounds == MaxFinals \in Nat /\ MaxSuspicions \in Nat /\ 0 \notin Calls

(* How HandleToolCall deals with a tool: an event tool (end_call), one with *)
(* a ServerURL, one with a handler, which may be that of an MCP server, a   *)
(* variable with AutoConfirm, one nobody has registered, or                 *)
(* continue_listening, which HandleEvent answers.                           *)
Remote == {"server", "mcp"}
Kinds == {"event", "standard", "autoconfirm", "unknown", "listen"} \cup Remote

Appenders == {"user", "assistant"} \cup Calls
NoKind == "none"
Idle == <<"idle", 0>>

VARIABLES
  messages,      \* contextManager.context.Messages
  saved,         \* the slice an append under way has read, if any
  written,       \* history: every message ever appended
  solo,          \* history: those appended while no other append was under way
  timer,         \* falsePositiveTimer: "nil", "running", "fired" (not nil)
  user,          \* the user aggregator: "idle", "append", "generate"
  finals,        \* utterances so far
  suspected,     \* interruptions suspected so far
  confirmed,     \* history: VadInterruptionConfirmedEvents sent
  toLLM,         \* events on their way to the LLM handler
  generating,    \* completions that have not ended
  discarding,    \* the LLM handler drops what the completions send
  completions,   \* completions so far: they number the replies
  toAssistant,   \* events on their way to the assistant aggregator
  hasActiveTurn, interrupted,
  assistant,     \* the assistant aggregator: Idle, or the event whose
                 \* message it appends, or the result it generates for
  call,          \* each call: what its goroutine does next
  kind,          \* each call: the kind of its tool
  relayed        \* events sent to the top, on their way down again

contextVars == <<messages, saved, written, solo>>
userVars == <<timer, user, finals, suspected, confirmed>>
llmVars == <<generating, discarding, completions>>
turnVars == <<hasActiveTurn, interrupted, assistant>>
callVars == <<call, kind>>
aggregatorVars ==
  <<contextVars, userVars, toLLM, llmVars, toAssistant, turnVars, callVars,
    relayed>>

AggregatorInit ==
  /\ messages = <<>> /\ saved = [a \in Appenders |-> {}]
  /\ written = {} /\ solo = {}
  /\ timer = "nil" /\ user = "idle"
  /\ finals = 0 /\ suspected = 0 /\ confirmed = 0
  /\ toLLM = <<>> /\ toAssistant = <<>> /\ relayed = {}
  /\ generating = 0 /\ discarding = FALSE /\ completions = 0
  /\ hasActiveTurn = FALSE /\ interrupted = FALSE /\ assistant = Idle
  /\ call = [c \in Calls |-> "none"] /\ kind = [c \in Calls |-> NoKind]

-----------------------------------------------------------------------------
(* append(context.Messages, m)                                             *)
AppendReads(a) ==
  /\ saved' = [saved EXCEPT ![a] = {messages}]
  /\ UNCHANGED <<messages, written, solo>>

\* History: message m of a is written, and nobody else has read the slice for an
\* append of its own.
Recorded(a, m) ==
  /\ written' = written \cup {m}
  /\ solo' = IF \A b \in Appenders \ {a} : saved[b] = {} THEN solo \cup {m}
             ELSE solo

AppendWrites(a, m) ==
  /\ \E slice \in saved[a] : messages' = Append(slice, m)
  /\ saved' = [saved EXCEPT ![a] = {}]
  /\ Recorded(a, m)

-----------------------------------------------------------------------------
(* The user aggregator.                                                    *)

\* Faulty variant: a timer that has fired is not forgotten.
stopUnlessFired == timer' = IF timer = "running" THEN "nil" ELSE timer

\* The drain of falsePositiveRegenerateChan takes nothing: see TimerFires.
stopFalsePositiveTimer == timer' = "nil"

(* The context is never nil, so the timer is always started.               *)
HandleSuspected ==
  /\ user = "idle" /\ suspected < MaxSuspicions
  /\ suspected' = suspected + 1
  /\ timer' = "running"
  /\ toLLM' = Append(toLLM, <<"suspected", 0>>)
  /\ UNCHANGED <<contextVars, user, finals, confirmed, llmVars, toAssistant,
                 turnVars, callVars, relayed>>

(* The channel the timer writes to is made by Init, which nobody calls: the *)
(* runner calls Initialize, which the aggregator inherits.  It is nil, the  *)
(* select takes its default branch, and the event loop never receives.      *)
TimerFires ==
  /\ timer = "running" /\ timer' = "fired"
  /\ UNCHANGED <<contextVars, user, finals, suspected, confirmed, toLLM,
                 llmVars, toAssistant, turnVars, callVars, relayed>>

(* Without a timer the interim transcript only concerns the filler.        *)
HandleInterim ==
  /\ user = "idle" /\ timer # "nil"
  /\ stopFalsePositiveTimer
  /\ confirmed' = confirmed + 1
  /\ toLLM' = Append(toLLM, <<"confirmed", 0>>)
  /\ UNCHANGED <<contextVars, user, finals, suspected, llmVars, toAssistant,
                 turnVars, callVars, relayed>>

HandleFinal ==
  /\ user = "idle" /\ finals < MaxFinals
  /\ stopFalsePositiveTimer
  /\ finals' = finals + 1
  /\ AppendReads("user") /\ user' = "append"
  /\ UNCHANGED <<suspected, confirmed, toLLM, llmVars, toAssistant, turnVars,
                 callVars, relayed>>

UserAppends ==
  /\ user = "append" /\ user' = "generate"
  /\ AppendWrites("user", <<"user", finals>>)
  /\ UNCHANGED <<timer, finals, suspected, confirmed, toLLM, llmVars,
                 toAssistant, turnVars, callVars, relayed>>

UserGenerates ==
  /\ user = "generate" /\ user' = "idle"
  /\ toLLM' = Append(toLLM, <<"generate", 0>>)
  /\ UNCHANGED <<contextVars, timer, finals, suspected, confirmed, llmVars,
                 toAssistant, turnVars, callVars, relayed>>

(* An event that was sent to the top passes by.                            *)
HandleRelayed ==
  /\ user = "idle"
  /\ \E e \in relayed : toLLM' = Append(toLLM, e) /\ relayed' = relayed \ {e}
  /\ UNCHANGED <<contextVars, userVars, llmVars, toAssistant, turnVars,
                 callVars>>

-----------------------------------------------------------------------------
(* The LLM handler.  A generation for the result of a call ends the call.  *)
LLMHandles ==
  /\ toLLM # <<>> /\ toLLM' = Tail(toLLM)
  /\ LET e == Head(toLLM) IN
     CASE e[1] = "generate" ->
            /\ generating' = generating + 1 /\ discarding' = FALSE
            /\ toAssistant' = Append(toAssistant, <<"started", 0>>)
            /\ call' = IF e[2] \in Calls
                       THEN [call EXCEPT ![e[2]] = "done"] ELSE call
       [] e[1] = "suspected" ->
            discarding' = TRUE /\ UNCHANGED <<generating, call, toAssistant>>
       [] e[1] = "confirmed" ->
            /\ discarding' = TRUE /\ toAssistant' = Append(toAssistant, e)
            /\ UNCHANGED <<generating, call>>
       [] e[1] = "result" ->
            /\ toAssistant' = Append(toAssistant, e)
            /\ UNCHANGED <<generating, discarding, call>>
  /\ UNCHANGED <<contextVars, userVars, completions, turnVars, kind, relayed>>

RequestTool(c) ==
  /\ generating > 0 /\ ~discarding /\ call[c] = "none"
  /\ call' = [call EXCEPT ![c] = "asked"]
  /\ \E k \in Kinds : kind' = [kind EXCEPT ![c] = k]
  /\ toAssistant' = Append(toAssistant, <<"request", c>>)
  /\ UNCHANGED <<contextVars, userVars, toLLM, llmVars, turnVars, relayed>>

(* The reply 0 has no text.                                                *)
CompletionEnds ==
  /\ generating > 0 /\ generating' = generating - 1
  /\ completions' = completions + 1
  /\ toAssistant' \in IF discarding THEN {toAssistant}
                      ELSE {Append(toAssistant, <<"completed", r>>) :
                              r \in {0, completions + 1}}
  /\ UNCHANGED <<contextVars, userVars, toLLM, discarding, turnVars, callVars,
                 relayed>>

-----------------------------------------------------------------------------
(* The assistant aggregator's loop takes the next event.                   *)
Takes(type) ==
  /\ assistant = Idle /\ toAssistant # <<>>
  /\ Head(toAssistant)[1] = type
  /\ toAssistant' = Tail(toAssistant)

HandleStarted ==
  /\ Takes("started")
  /\ hasActiveTurn' = TRUE /\ interrupted' = FALSE
  /\ UNCHANGED <<contextVars, userVars, toLLM, llmVars, assistant, callVars,
                 relayed>>

HandleConfirmed ==
  /\ Takes("confirmed")
  /\ interrupted' = (interrupted \/ hasActiveTurn) /\ hasActiveTurn' = FALSE
  /\ UNCHANGED <<contextVars, userVars, toLLM, llmVars, assistant, callVars,
                 relayed>>

HandleCompleted ==
  /\ Takes("completed")
  /\ LET e == Head(toAssistant) IN
     \/ /\ hasActiveTurn /\ ~interrupted /\ e[2] # 0
        /\ AppendReads("assistant") /\ assistant' = e
     \/ /\ ~(hasActiveTurn /\ ~interrupted /\ e[2] # 0)
        /\ UNCHANGED <<contextVars, assistant>>
  /\ hasActiveTurn' = FALSE
  /\ UNCHANGED <<userVars, toLLM, llmVars, interrupted, callVars, relayed>>

\* A tool other than continue_listening runs in a goroutine of its own.
HandleRequest ==
  /\ Takes("request")
  /\ LET c == Head(toAssistant)[2] IN
     call' = [call EXCEPT ![c] = IF kind[c] = "listen" THEN "done"
                                 ELSE "started"]
  /\ UNCHANGED <<contextVars, userVars, toLLM, llmVars, turnVars, kind,
                 relayed>>

\* Faulty variant: an empty result is not reported to the LLM.
ResultWithoutTextIgnored(c) == UNCHANGED <<contextVars, assistant>>

ResultWithoutText(c) ==
  assistant' = <<"generate", c>> /\ UNCHANGED contextVars

HandleResult ==
  /\ Takes("result")
  /\ LET e == Head(toAssistant) IN
     \/ AppendReads("assistant") /\ assistant' = e
     \/ ResultWithoutText(e[2])
  /\ UNCHANGED <<userVars, toLLM, llmVars, hasActiveTurn, interrupted,
                 callVars, relayed>>

AssistantAppends ==
  /\ assistant # Idle /\ assistant[1] \in {"completed", "result"}
  /\ AppendWrites("assistant", assistant)
  /\ assistant' = IF assistant[1] = "completed" THEN Idle
                  ELSE <<"generate", assistant[2]>>
  /\ UNCHANGED <<userVars, toLLM, llmVars, toAssistant, hasActiveTurn,
                 interrupted, callVars, relayed>>

AssistantGenerates ==
  /\ assistant # Idle /\ assistant[1] = "generate"
  /\ relayed' = relayed \cup {assistant} /\ assistant' = Idle
  /\ UNCHANGED <<contextVars, userVars, toLLM, llmVars, toAssistant,
                 hasActiveTurn, interrupted, callVars>>

-----------------------------------------------------------------------------
(* HandleToolCall, in the goroutine of call c.                             *)
ToolOnly == <<userVars, toLLM, llmVars, toAssistant, turnVars, kind>>

(* The handler of a variable changes the task group and returns; the       *)
(* result goes to the top as an event.                                     *)
ToolReturns(c) ==
  /\ call[c] = "started"
  /\ \/ kind[c] = "standard"
     \/ kind[c] = "autoconfirm"    \* isVariableToolError
  /\ call' = [call EXCEPT ![c] = "answered"]
  /\ relayed' = relayed \cup {<<"result", c>>}
  /\ UNCHANGED <<ToolOnly, contextVars>>

(* http.Post and MCPManager.CallTool have no timeout: the server may never *)
(* answer.                                                                 *)
ServerAnswers(c) ==
  /\ call[c] = "started" /\ kind[c] \in Remote
  /\ call' = [call EXCEPT ![c] = "answered"]
  /\ relayed' = relayed \cup {<<"result", c>>}
  /\ UNCHANGED <<ToolOnly, contextVars>>

(* The call is logged and forgotten: the LLM gets no result.               *)
ToolUnknown(c) ==
  /\ call[c] = "started" /\ kind[c] = "unknown"
  /\ call' = [call EXCEPT ![c] = "unanswered"]
  /\ UNCHANGED <<ToolOnly, contextVars, relayed>>

(* An event tool appends its result, and its event ends the call; an       *)
(* AutoConfirm variable speaks its phrase, commits it, then appends.       *)
ToolStartsAppend(c) ==
  /\ \/ call[c] = "started" /\ kind[c] \in {"event", "autoconfirm"}
     \/ call[c] = "committed"
  /\ AppendReads(c)
  /\ call' = [call EXCEPT ![c] =
       IF call[c] = "started" /\ kind[c] = "autoconfirm" THEN "commit"
       ELSE "append"]
  /\ UNCHANGED <<ToolOnly, relayed>>

\* Faulty variant: the slice read for the phrase is used for the result too.
ToolCommitsStale(c) ==
  /\ call[c] = "commit"
  /\ \E slice \in saved[c] : messages' = Append(slice, <<"phrase", c>>)
  /\ Recorded(c, <<"phrase", c>>)
  /\ call' = [call EXCEPT ![c] = "append"]
  /\ UNCHANGED <<ToolOnly, saved, relayed>>

ToolCommits(c) ==
  /\ call[c] = "commit"
  /\ AppendWrites(c, <<"phrase", c>>)
  /\ call' = [call EXCEPT ![c] = "committed"]
  /\ UNCHANGED <<ToolOnly, relayed>>

ToolAppends(c) ==
  /\ call[c] = "append"
  /\ AppendWrites(c, <<"result", c>>)
  /\ call' = [call EXCEPT ![c] = "done"]
  /\ UNCHANGED <<ToolOnly, relayed>>

ToolStep(c) ==
  \/ ToolReturns(c) \/ ToolUnknown(c)
  \/ ToolStartsAppend(c) \/ ToolCommits(c) \/ ToolAppends(c)

-----------------------------------------------------------------------------
UserLoop == UserAppends \/ UserGenerates \/ HandleRelayed

AssistantLoop ==
  \/ HandleStarted \/ HandleConfirmed \/ HandleCompleted
  \/ HandleRequest \/ HandleResult
  \/ AssistantAppends \/ AssistantGenerates

AggregatorNext ==
  \/ HandleSuspected \/ TimerFires \/ HandleInterim \/ HandleFinal
  \/ UserLoop \/ LLMHandles \/ CompletionEnds \/ AssistantLoop
  \/ \E c \in Calls : RequestTool(c) \/ ServerAnswers(c) \/ ToolStep(c)

AggregatorSpec == AggregatorInit /\ [][AggregatorNext]_aggregatorVars

(* The loops go on, timers fire, and the handlers of tools return that     *)
(* call no server: those of set_* tools, which change the task group, and  *)
(* the event tool end_call, which logs.  Nothing is assumed of the user,   *)
(* of the model, and of the servers of tools, MCP servers among them.      *)
AggregatorFairness ==
  /\ WF_aggregatorVars(UserLoop)
  /\ WF_aggregatorVars(LLMHandles)
  /\ WF_aggregatorVars(AssistantLoop)
  /\ WF_aggregatorVars(TimerFires)
  /\ \A c \in Calls : WF_aggregatorVars(ToolStep(c))

AggregatorFairSpec == AggregatorSpec /\ AggregatorFairness

-----------------------------------------------------------------------------
\* The variables have their types.
AggregatorTypeOK ==
  /\ timer \in {"nil", "running", "fired"}
  /\ user \in {"idle", "append", "generate"}
  /\ call \in [Calls -> {"none", "asked", "started", "commit", "committed",
                         "append", "answered", "done", "unanswered"}]
  /\ kind \in [Calls -> Kinds \cup {NoKind}]
  /\ hasActiveTurn \in BOOLEAN /\ interrupted \in BOOLEAN

\* One suspicion of the VAD is confirmed at most once, by the first transcript
\* after it (falsePositiveTimer tells), however late the timer has fired.
ConfirmedOncePerSuspicion ==
  confirmed + (IF timer = "nil" THEN 0 ELSE 1) <= suspected

\* The context loses a message only by an append that overlapped its own: one
\* that was appended while no other append was under way stays for good, whatever
\* the event loops and the goroutines of tools race for later, and none of them
\* brings a message twice.
SoloAppendsStay == solo \subseteq ToSet(messages) /\ IsInjective(messages)

\* A tool call of the LLM is dealt with: an event tool and a confirmation have
\* their result in the context, any other handler that returns has the LLM
\* generate again.  A tool server or an MCP server may keep its call waiting for
\* ever, and a tool that nobody has registered is never answered.
ToolCallsAnswered ==
  \A c \in Calls :
    (call[c] = "asked") ~>
      \/ call[c] = "done"
      \/ call[c] = "started" /\ kind[c] \in Remote
      \/ call[c] = "unanswered" /\ kind[c] = "unknown"

\* HandleEvent: "Response finished without interruption -- use the authoritative
\* full text so timing gaps in the word-by-word simulation can never cause a miss"
\* (context_handler.go:463-464): the text of a response that completes is committed
\* unless its turn was interrupted.  TLC refutes it: of two responses under way the first
\* to complete ends the turn, and the text of the second is dropped (README,
\* section 3).
CompletedReplyKept ==
  [][ \A r \in 1..completions :
        HandleCompleted /\ Head(toAssistant) = <<"completed", r>> /\ ~interrupted
          => assistant' = <<"completed", r>> ]_aggregatorVars

\* HandleEvent: "If no STT interim arrives within that window we assume it was
\* a false positive (background noise) and regenerate the response": the reply
\* the LLM handler drops since the suspicion.
FalsePositiveRegenerates ==
  (timer = "fired" /\ discarding /\ generating > 0) ~>
    \/ timer # "fired"
    \/ \E i \in DOMAIN toLLM : toLLM[i][1] = "generate"
=============================================================================
