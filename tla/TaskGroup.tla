------------------------------ MODULE TaskGroup ------------------------------
(***************************************************************************)
(* handlers/context: DynamicContextManager and the task group it drives.   *)
(* The LLM fills the variables of the visible tasks by calling set_<name>; *)
(* a task completes when all its variables are collected; completing a     *)
(* task shows some tasks and hides others; the system message and the tool *)
(* list the LLM gets are kept in step.                                     *)
(*                                                                         *)
(* Every operation runs under d.mu and is one step.  Tool calls arrive     *)
(* from goroutines of their own (`go p.HandleToolCall`), so a set_* call   *)
(* may come when its task is no longer visible: nothing ties the call to   *)
(* the tool list the LLM was shown.                                        *)
(***************************************************************************)
EXTENDS Naturals, FiniteSets

CONSTANTS
  Tasks,            \* task IDs
  Rank,             \* Rank[t]: the place of t in config.Tasks
  InitialTaskID,
  Variables,        \* Variables[t]: names of the variables of t
  VisibleAfter,     \* VisibleAfter[t]: a task ID or None
  DisappearAfter,   \* DisappearAfter[t]: a task ID or None
  VisibleToolIDs,   \* VisibleToolIDs[t]: tools shown while t is visible
  GlobalTools,      \* tools shown during every task
  ToolRegistry,     \* tools registered with RegisterTool
  PermanentTools,   \* tools already in the context when the group is loaded
  Values,           \* the strings the LLM may pass to a set_* tool
  EmptyString,      \* the member of Values that stands for ""
  Enum,             \* Enum[t][v]: allow-list of v in t, {} when it has none
  Regex,            \* Regex[t][v]: the values its regex matches, or None
  None

Names == UNION {Variables[t] : t \in Tasks}

ASSUME TaskGroupAssumption ==
  /\ InitialTaskID \in Tasks
  /\ None \notin Tasks
  /\ None \notin Values
  /\ EmptyString \in Values
  /\ Rank \in [Tasks -> Nat]
  /\ \A t, u \in Tasks : Rank[t] = Rank[u] => t = u
  /\ VisibleAfter \in [Tasks -> Tasks \cup {None}]
  /\ DisappearAfter \in [Tasks -> Tasks \cup {None}]

VARIABLES
  loaded,           \* LoadTaskGroup has returned
  completedTasks,
  collectedVars,    \* collectedVars[t][v]: the value task t has for v, or None
  instructions,     \* the tasks the instruction message describes
  tools,            \* context.Tools: ordinary tools and set_* tools
  \* History: tasks completed by CompleteCurrentTask; the task whose
  \* completion was announced with IsFinal.
  forced, finalTask

vars == <<loaded, completedTasks, collectedVars, instructions, tools, forced,
          finalTask>>

-----------------------------------------------------------------------------
isVisible(t, done) == VisibleAfter[t] = None \/ VisibleAfter[t] \in done
isDisappeared(t, done) ==
  DisappearAfter[t] # None /\ DisappearAfter[t] \in done

\* Faulty variant: visible_after_task_id is not looked at.
visibleTasksIgnoringDependency(done) ==
  {t \in Tasks \ done : ~isDisappeared(t, done)}

visibleTasks(done) ==
  {t \in Tasks \ done : isVisible(t, done) /\ ~isDisappeared(t, done)}

\* The first task of S in config order.
FirstOf(S) == CHOOSE t \in S : \A u \in S : Rank[t] <= Rank[u]

SetTool(v) == [set |-> v]
Tool(id)   == [id |-> id]

\* rebuildToolsLocked for the visible tasks vis and the values in coll.
rebuildTools(vis, coll) ==
  {Tool(id) : id \in PermanentTools}
    \cup {Tool(id) : id \in GlobalTools \cap ToolRegistry}
    \cup {Tool(id) : id \in ToolRegistry
                              \cap (UNION {VisibleToolIDs[t] : t \in vis})}
    \cup {SetTool(v) : v \in UNION {{w \in Variables[t] : coll[t][w] = None} :
                                       t \in vis}}

clearDynamicTools == {Tool(id) : id \in PermanentTools}

\* TaskVariable.Validate for variable v of task t.  A malformed regex accepts
\* anything: Regex[t][v] is then the set of all values.
Validate(t, v, value) ==
  IF Enum[t][v] # {} THEN value \in Enum[t][v]
  ELSE IF Regex[t][v] # None THEN value \in Regex[t][v]
  ELSE value # EmptyString

\* Faulty variant: a single collected variable is enough.
someVarCollected(t, coll) == \E v \in Variables[t] : coll[t][v] # None

allVarsCollected(t, coll) == \A v \in Variables[t] : coll[t][v] # None

-----------------------------------------------------------------------------
Init ==
  /\ loaded = FALSE
  /\ completedTasks = {}
  /\ collectedVars = [t \in Tasks |-> [v \in Names |-> None]]
  /\ instructions = {}
  /\ tools = {Tool(id) : id \in PermanentTools}
  /\ forced = {}
  /\ finalTask = None

\* BuildHandlers calls it once, before the session starts.
LoadTaskGroup ==
  /\ ~loaded
  /\ loaded' = TRUE
  /\ completedTasks' = {}
  /\ collectedVars' = [t \in Tasks |-> [v \in Names |-> None]]
  /\ instructions' = visibleTasks({})
  /\ tools' = rebuildTools(visibleTasks({}), collectedVars')
  /\ UNCHANGED <<forced, finalTask>>

\* Faulty variant: the next visible set is computed before the completion is
\* recorded.
onTaskCompleteStaleVisible(t, coll) ==
  LET next == visibleTasks(completedTasks) \ {t}
  IN /\ completedTasks' = completedTasks \cup {t}
     /\ instructions' = next
     /\ tools' = IF next = {} THEN clearDynamicTools
                              ELSE rebuildTools(next, coll)
     /\ finalTask' = IF next = {} THEN t ELSE finalTask

\* Marks t complete and recalculates what the LLM sees.  When nothing is
\* visible any more the tools are cleared and the final event is announced.
onTaskComplete(t, coll) ==
  LET done == completedTasks \cup {t}
      next == visibleTasks(done)
  IN /\ completedTasks' = done
     /\ instructions' = next
     /\ tools' = IF next = {} THEN clearDynamicTools
                              ELSE rebuildTools(next, coll)
     /\ finalTask' = IF next = {} THEN t ELSE finalTask

CompleteCurrentTask ==
  /\ loaded
  /\ visibleTasks(completedTasks) # {}
  /\ LET t == FirstOf(visibleTasks(completedTasks))
     IN /\ onTaskComplete(t, collectedVars)
        /\ forced' = forced \cup {t}
  /\ UNCHANGED <<loaded, collectedVars>>

\* The visible tasks that own v.
Owners(v) == {t \in visibleTasks(completedTasks) : v \in Variables[t]}

\* handleSetVariable.  Without a visible owner, or with a value that does not
\* pass validation, only a message goes back to the LLM.
SetVariable(v, value) ==
  /\ loaded
  /\ Owners(v) # {}
  /\ Validate(FirstOf(Owners(v)), v, value)
  /\ LET t == FirstOf(Owners(v))
         coll == [collectedVars EXCEPT ![t][v] = value]
     IN /\ collectedVars' = coll
        /\ \/ /\ allVarsCollected(t, coll)
              /\ onTaskComplete(t, coll)
           \/ /\ ~allVarsCollected(t, coll)
              /\ tools' = rebuildTools(visibleTasks(completedTasks), coll)
              /\ UNCHANGED <<completedTasks, instructions, finalTask>>
  /\ UNCHANGED <<loaded, forced>>

RejectSetVariable(v, value) ==
  /\ loaded /\ Owners(v) # {} => ~Validate(FirstOf(Owners(v)), v, value)
  /\ UNCHANGED vars

Next ==
  \/ LoadTaskGroup
  \/ CompleteCurrentTask
  \/ \E v \in Names, value \in Values :
       SetVariable(v, value) \/ RejectSetVariable(v, value)

Spec == Init /\ [][Next]_vars
-----------------------------------------------------------------------------
(* Properties.                                                             *)

TypeOK ==
  /\ loaded \in BOOLEAN
  /\ completedTasks \subseteq Tasks
  /\ collectedVars \in [Tasks -> [Names -> Values \cup {None}]]
  /\ instructions \subseteq Tasks
  /\ tools \subseteq {Tool(id) : id \in PermanentTools \cup ToolRegistry}
                       \cup {SetTool(v) : v \in Names}
  /\ forced \subseteq Tasks
  /\ finalTask \in Tasks \cup {None}

\* A task completes only after the task it waits for (visible_after_task_id).
TasksUnlockInOrder ==
  \A t \in completedTasks :
    VisibleAfter[t] = None \/ VisibleAfter[t] \in completedTasks

\* TASKS.md, "Branching - mutually exclusive paths": of two tasks that each
\* disappear after the other, at most one ever completes, even when variables
\* of both have been collected in between.
BranchesExclusive ==
  \A t, u \in Tasks :
    t # u /\ DisappearAfter[t] = u /\ DisappearAfter[u] = t
      => ~(t \in completedTasks /\ u \in completedTasks)

\* A task completes exactly when its last variable is captured: one that still
\* misses a variable is complete only if the application forced it, and one
\* that misses nothing is not left visible.
Missing(t) == {v \in Variables[t] : collectedVars[t][v] = None}
CompletionMatchesVariables ==
  loaded =>
    /\ \A t \in completedTasks \ forced : Missing(t) = {}
    /\ \A t \in visibleTasks(completedTasks) :
          Variables[t] # {} => Missing(t) # {}

\* What the LLM is shown agrees with where the group stands after every
\* operation: the instruction message describes the visible tasks, and a
\* set_* tool is offered exactly for the variables still missing in them.
PromptMatchesProgress ==
  loaded =>
    /\ instructions = visibleTasks(completedTasks)
    /\ {v \in Names : SetTool(v) \in tools} =
         {v \in Names : \E t \in Owners(v) : collectedVars[t][v] = None}
    /\ {Tool(id) : id \in PermanentTools} \subseteq tools

\* The values of a completed task are final: no late or repeated set_* call
\* changes them, and no task becomes incomplete again.
CompletedTasksFrozen ==
  [][loaded =>
       /\ completedTasks \subseteq completedTasks'
       /\ \A t \in completedTasks : collectedVars'[t] = collectedVars[t]]_vars
=============================================================================
