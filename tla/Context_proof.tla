---------------------------- MODULE Context_proof ----------------------------
(***************************************************************************)
(* Proofs about the two modules of handlers/context: TaskGroup, for every  *)
(* configuration of tasks, branches, variables and tools that              *)
(* TaskGroupAssumption admits, and ContextAggregators, for any set of tool *)
(* calls and any number of utterances and of suspected interruptions.      *)
(***************************************************************************)
EXTENDS TaskGroup, ContextAggregators, SequenceTheorems, WellFoundedInduction, TLAPS

-----------------------------------------------------------------------------
(* The first task in config order.                                         *)

\* The well-known fact that a non-empty set of natural numbers has a least
\* element.
LEMMA LeastNatural ==
  ASSUME NEW S, S \subseteq Nat, S # {}
  PROVE  \E m \in S : \A n \in S : m <= n
<1>1. PICK m \in S : \A n \in S : ~(<<n, m>> \in OpToRel(<, Nat))
  BY NatLessThanWellFounded, WFMin
<1>2. \A n \in S : ~(n < m)
  BY <1>1 DEF OpToRel
<1>3. \A n \in S : m <= n
  BY <1>2
<1> QED
  BY <1>3

\* FirstOf picks one of the tasks it is given.
LEMMA FirstOfIn ==
  ASSUME NEW S, S \subseteq Tasks, S # {} PROVE FirstOf(S) \in S
<1>0. Rank \in [Tasks -> Nat]
  BY TaskGroupAssumption
<1> DEFINE R == {Rank[t] : t \in S}
<1>1. R \subseteq Nat /\ R # {}
  BY <1>0
<1>2. PICK m \in R : \A n \in R : m <= n
  BY <1>1, LeastNatural
<1>3. \E t \in S : \A u \in S : Rank[t] <= Rank[u]
  BY <1>2
<1> QED
  BY <1>3 DEF FirstOf

-----------------------------------------------------------------------------
(* Tools.                                                                  *)

\* Tools with different names are different, and a set_* tool is no ordinary
\* tool.
LEMMA ToolsDiffer ==
  /\ \A v, w : SetTool(v) = SetTool(w) => v = w
  /\ \A v, id : SetTool(v) # Tool(id)
<1>1. \A v, w : SetTool(v) = SetTool(w) => v = w
  BY DEF SetTool
<1>2. ASSUME NEW v, NEW id PROVE SetTool(v) # Tool(id)
  <2>1. DOMAIN SetTool(v) = {"set"} /\ DOMAIN Tool(id) = {"id"}
    BY DEF SetTool, Tool
  <2>2. {"set"} # {"id"}
    OBVIOUS
  <2> QED
    BY <2>1, <2>2
<1> QED
  BY <1>1, <1>2

\* The variables that are still missing in the tasks vis.
MissingOf(vis, coll) ==
  {v \in Names : \E t \in vis : v \in Variables[t] /\ coll[t][v] = None}

\* A set_* tool is offered by rebuildToolsLocked exactly for the variables that
\* are missing in the visible tasks.
LEMMA SetToolsRebuilt ==
  ASSUME NEW vis \in SUBSET Tasks, NEW coll, NEW v \in Names
  PROVE  SetTool(v) \in rebuildTools(vis, coll) <=> v \in MissingOf(vis, coll)
<1>1. ASSUME v \in MissingOf(vis, coll)
      PROVE  SetTool(v) \in rebuildTools(vis, coll)
  <2>1. PICK t \in vis : v \in Variables[t] /\ coll[t][v] = None
    BY <1>1 DEF MissingOf
  <2>2. v \in {w \in Variables[t] : coll[t][w] = None}
    BY <2>1
  <2>3. v \in UNION {{w \in Variables[u] : coll[u][w] = None} : u \in vis}
    BY <2>2, Zenon
  <2> QED
    BY <2>3, Zenon DEF rebuildTools
<1>2. ASSUME SetTool(v) \in rebuildTools(vis, coll)
      PROVE  v \in MissingOf(vis, coll)
  <2>1. SetTool(v) \in {SetTool(x) : x \in
                UNION {{w \in Variables[u] : coll[u][w] = None} : u \in vis}}
    BY <1>2, ToolsDiffer, Zenon DEF rebuildTools
  <2>2. PICK x \in UNION {{w \in Variables[u] : coll[u][w] = None} : u \in vis} :
          SetTool(v) = SetTool(x)
    BY <2>1, Zenon
  <2>3. v = x
    BY <2>2, ToolsDiffer, Zenon
  <2>4. PICK u \in vis : x \in {w \in Variables[u] : coll[u][w] = None}
    BY <2>2, Zenon
  <2> QED
    BY <2>3, <2>4 DEF MissingOf
<1> QED
  BY <1>1, <1>2

\* Every tool that rebuildToolsLocked offers was registered, is permanent or
\* sets a variable of the group.
LEMMA OfferedTools ==
  ASSUME NEW vis \in SUBSET Tasks, NEW coll
  PROVE  rebuildTools(vis, coll)
           \subseteq {Tool(id) : id \in PermanentTools \cup ToolRegistry}
                       \cup {SetTool(v) : v \in Names}
<1>1. ASSUME NEW x \in rebuildTools(vis, coll)
      PROVE  x \in {Tool(id) : id \in PermanentTools \cup ToolRegistry}
                     \cup {SetTool(v) : v \in Names}
  <2>1. CASE \E id \in PermanentTools \cup ToolRegistry : x = Tool(id)
    BY <2>1, Zenon
  <2>2. CASE x \in {SetTool(v) : v \in
                UNION {{w \in Variables[u] : coll[u][w] = None} : u \in vis}}
    <3>1. PICK v \in UNION {{w \in Variables[u] : coll[u][w] = None} : u \in vis} :
            x = SetTool(v)
      BY <2>2, Zenon
    <3>2. PICK u \in vis : v \in {w \in Variables[u] : coll[u][w] = None}
      BY <3>1, Zenon
    <3>3. v \in Names
      BY <3>2 DEF Names
    <3> QED
      BY <3>1, <3>3, Zenon
  <2> QED
    BY <1>1, <2>1, <2>2, Zenon DEF rebuildTools
<1> QED
  BY <1>1

\* Rebuilding and clearing keep the permanent tools, and clearing offers no
\* set_* tool.
LEMMA KeptTools ==
  /\ \A vis, coll : {Tool(id) : id \in PermanentTools} \subseteq rebuildTools(vis, coll)
  /\ {Tool(id) : id \in PermanentTools} \subseteq clearDynamicTools
  /\ \A v : SetTool(v) \notin clearDynamicTools
  /\ clearDynamicTools \subseteq {Tool(id) : id \in PermanentTools \cup ToolRegistry}
                                   \cup {SetTool(v) : v \in Names}
BY ToolsDiffer, Zenon DEF clearDynamicTools, rebuildTools

-----------------------------------------------------------------------------
(* The inductive invariant.  CompletionMatchesVariables needs one more     *)
(* fact: a completion may show tasks that were not visible before, and     *)
(* they must still miss their variables.                                   *)

\* A task that is not unlocked yet has collected nothing: handleSetVariable
\* only writes into visible tasks, and no task is locked again.
LockedTasksEmpty ==
  \A t \in Tasks : ~isVisible(t, completedTasks) =>
    \A v \in Names : collectedVars[t][v] = None

IInv ==
  /\ TypeOK
  /\ TasksUnlockInOrder
  /\ BranchesExclusive
  /\ LockedTasksEmpty
  /\ CompletionMatchesVariables
  /\ PromptMatchesProgress

\* The tools and the instruction message after a rebuild for the visible tasks,
\* or after the tools were cleared because there are none, are in step with
\* the progress of the group.
LEMMA PromptRebuilt ==
  ASSUME instructions' = visibleTasks(completedTasks'),
         \/ tools' = rebuildTools(visibleTasks(completedTasks'), collectedVars')
         \/ visibleTasks(completedTasks') = {} /\ tools' = clearDynamicTools
  PROVE  /\ PromptMatchesProgress'
         /\ instructions' \subseteq Tasks
         /\ tools' \subseteq {Tool(id) : id \in PermanentTools \cup ToolRegistry}
                               \cup {SetTool(v) : v \in Names}
<1> DEFINE vis == visibleTasks(completedTasks')
<1>1. vis \in SUBSET Tasks
  BY DEF visibleTasks
<1>2. ASSUME NEW v \in Names
      PROVE  SetTool(v) \in tools' <=> \E t \in Owners(v)' : collectedVars'[t][v] = None
  <2>1. v \in MissingOf(vis, collectedVars')
          <=> \E t \in Owners(v)' : collectedVars'[t][v] = None
    BY DEF MissingOf, Owners
  <2>2. CASE tools' = rebuildTools(vis, collectedVars')
    BY <1>1, <2>1, <2>2, SetToolsRebuilt
  <2>3. CASE vis = {} /\ tools' = clearDynamicTools
    <3>1. SetTool(v) \notin tools'
      BY <2>3, KeptTools, Zenon
    <3>2. ~ \E t \in Owners(v)' : collectedVars'[t][v] = None
      BY <2>3 DEF Owners
    <3> QED
      BY <3>1, <3>2
  <2> QED
    BY <2>2, <2>3
<1>3. {Tool(id) : id \in PermanentTools} \subseteq tools'
  BY KeptTools, Zenon
<1>4. {v \in Names : SetTool(v) \in tools'} =
        {v \in Names : \E t \in Owners(v)' : collectedVars'[t][v] = None}
  BY <1>2, Zenon
<1>5. PromptMatchesProgress'
  BY <1>3, <1>4, Zenon DEF PromptMatchesProgress
<1>6. tools' \subseteq {Tool(id) : id \in PermanentTools \cup ToolRegistry}
                         \cup {SetTool(v) : v \in Names}
  BY <1>1, OfferedTools, KeptTools, Zenon
<1> QED
  BY <1>1, <1>5, <1>6

\* The values of a task that gains a variable stay well typed, and the values
\* of the other tasks do not change.
LEMMA CollectOne ==
  ASSUME TypeOK, NEW t \in Tasks, NEW v \in Names, NEW value \in Values,
         NEW coll, coll = [collectedVars EXCEPT ![t][v] = value]
  PROVE  /\ coll \in [Tasks -> [Names -> Values \cup {None}]]
         /\ \A u \in Tasks \ {t} : coll[u] = collectedVars[u]
BY DEF TypeOK

\* onTaskComplete for a visible task t preserves the invariant, when coll is
\* what was collected with values of t only added, and t misses nothing or was
\* completed by the application.
LEMMA CompletionKeepsInvariant ==
  ASSUME IInv, loaded, loaded' = loaded,
         NEW t \in visibleTasks(completedTasks),
         NEW coll \in [Tasks -> [Names -> Values \cup {None}]],
         \A u \in Tasks \ {t} : coll[u] = collectedVars[u],
         collectedVars' = coll,
         onTaskComplete(t, coll),
         \/ forced' = forced \cup {t}
         \/ forced' = forced /\ allVarsCollected(t, coll)
  PROVE  IInv'
<1> DEFINE done == completedTasks \cup {t}
           next == visibleTasks(done)
<1>0. /\ t \in Tasks \ completedTasks
      /\ isVisible(t, completedTasks)
      /\ ~isDisappeared(t, completedTasks)
      /\ completedTasks \subseteq Tasks
      /\ done \subseteq Tasks
  BY DEF visibleTasks, IInv, TypeOK
<1>1. completedTasks' = done /\ instructions' = next
  BY DEF onTaskComplete
<1>2. \/ tools' = rebuildTools(visibleTasks(completedTasks'), collectedVars')
      \/ visibleTasks(completedTasks') = {} /\ tools' = clearDynamicTools
  BY <1>1 DEF onTaskComplete
<1>3. /\ PromptMatchesProgress'
      /\ instructions' \subseteq Tasks
      /\ tools' \subseteq {Tool(id) : id \in PermanentTools \cup ToolRegistry}
                            \cup {SetTool(v) : v \in Names}
  BY <1>1, <1>2, PromptRebuilt, Zenon
<1>4. TypeOK'
  <2>1. finalTask' \in Tasks \cup {None}
    BY <1>0 DEF onTaskComplete, IInv, TypeOK
  <2>2. forced' \subseteq Tasks
    BY <1>0 DEF IInv, TypeOK
  <2>3. loaded' \in BOOLEAN
    BY Zenon DEF IInv, TypeOK
  <2> QED
    BY <1>0, <1>1, <1>3, <2>1, <2>2, <2>3 DEF TypeOK
<1>5. TasksUnlockInOrder'
  BY <1>0, <1>1 DEF TasksUnlockInOrder, IInv, isVisible
<1>6. BranchesExclusive'
  <2> SUFFICES ASSUME NEW a \in Tasks, NEW b \in Tasks,
                      a # b, DisappearAfter[a] = b, DisappearAfter[b] = a,
                      a \in done, b \in done
               PROVE  FALSE
    BY <1>1 DEF BranchesExclusive
  <2>1. ~(a \in completedTasks /\ b \in completedTasks)
    BY DEF IInv, BranchesExclusive
  <2>2. a # None /\ b # None
    BY TaskGroupAssumption
  <2> QED
    BY <1>0, <2>1, <2>2 DEF isDisappeared
<1>7. LockedTasksEmpty'
  <2> SUFFICES ASSUME NEW u \in Tasks, ~isVisible(u, done), NEW v \in Names
               PROVE  coll[u][v] = None
    BY <1>1 DEF LockedTasksEmpty, isVisible
  <2>1. ~isVisible(u, completedTasks)
    BY DEF isVisible
  <2>2. u # t
    BY <1>0, <2>1
  <2> QED
    BY <2>1, <2>2 DEF IInv, LockedTasksEmpty
<1>8. CompletionMatchesVariables'
  <2>1. ASSUME NEW u \in done \ forced' PROVE Missing(u)' = {}
    <3>1. CASE u = t
      BY <3>1, <2>1 DEF Missing, allVarsCollected
    <3>2. CASE u # t
      <4>1. u \in completedTasks \ forced
        BY <2>1, <3>2
      <4>2. Missing(u) = {}
        BY <4>1, Zenon DEF IInv, CompletionMatchesVariables
      <4> QED
        BY <1>0, <3>2, <4>1, <4>2 DEF Missing
    <3> QED
      BY <3>1, <3>2
  <2>2. ASSUME NEW u \in next, Variables[u] # {} PROVE Missing(u)' # {}
    <3>1. u \in Tasks \ done /\ isVisible(u, done) /\ ~isDisappeared(u, done)
      BY DEF visibleTasks
    <3>2. coll[u] = collectedVars[u]
      BY <3>1
    <3>3. ~isDisappeared(u, completedTasks)
      BY <3>1 DEF isDisappeared
    <3>4. CASE isVisible(u, completedTasks)
      <4>1. u \in visibleTasks(completedTasks)
        BY <3>1, <3>3, <3>4 DEF visibleTasks
      <4>2. Missing(u) # {}
        BY <2>2, <4>1, Zenon DEF IInv, CompletionMatchesVariables
      <4> QED
        BY <3>2, <4>2 DEF Missing
    <3>5. CASE ~isVisible(u, completedTasks)
      <4>1. PICK v : v \in Variables[u]
        BY <2>2
      <4>2. v \in Names
        BY <3>1, <4>1 DEF Names
      <4>3. collectedVars[u][v] = None
        BY <3>1, <3>5, <4>2 DEF IInv, LockedTasksEmpty
      <4> QED
        BY <3>2, <4>1, <4>3 DEF Missing
    <3> QED
      BY <3>4, <3>5
  <2> QED
    BY <1>1, <2>1, <2>2, Zenon DEF CompletionMatchesVariables
<1> QED
  BY <1>3, <1>4, <1>5, <1>6, <1>7, <1>8 DEF IInv

-----------------------------------------------------------------------------
(* Every step preserves the invariant.                                     *)

\* A manager whose group is not loaded yet satisfies the invariant.
LEMMA InitIInv == Init => IInv
<1> SUFFICES ASSUME Init PROVE IInv
  OBVIOUS
<1>1. tools \subseteq {Tool(id) : id \in PermanentTools \cup ToolRegistry}
                        \cup {SetTool(v) : v \in Names}
  BY Zenon DEF Init
<1>2. loaded \in BOOLEAN /\ ~loaded
  BY Zenon DEF Init
<1>3. TypeOK
  BY <1>1, <1>2 DEF Init, TypeOK
<1>4. TasksUnlockInOrder /\ BranchesExclusive /\ LockedTasksEmpty
  BY DEF Init, TasksUnlockInOrder, BranchesExclusive, LockedTasksEmpty
<1> QED
  BY <1>2, <1>3, <1>4 DEF IInv, CompletionMatchesVariables, PromptMatchesProgress

\* Loading the group preserves the invariant: nothing is collected, and the
\* prompt is built for the tasks that wait for no other.
LEMMA LoadKeepsInvariant == IInv /\ LoadTaskGroup => IInv'
<1> SUFFICES ASSUME IInv, LoadTaskGroup PROVE IInv'
  OBVIOUS
<1>1. /\ completedTasks' = {}
      /\ collectedVars' = [t \in Tasks |-> [v \in Names |-> None]]
      /\ forced' = forced /\ finalTask' = finalTask
  BY DEF LoadTaskGroup
<1>2. /\ PromptMatchesProgress'
      /\ instructions' \subseteq Tasks
      /\ tools' \subseteq {Tool(id) : id \in PermanentTools \cup ToolRegistry}
                            \cup {SetTool(v) : v \in Names}
  BY <1>1, PromptRebuilt, Zenon DEF LoadTaskGroup
<1>3. loaded' \in BOOLEAN
  BY Zenon DEF LoadTaskGroup
<1>4. TypeOK'
  BY <1>1, <1>2, <1>3 DEF TypeOK, IInv
<1>5. TasksUnlockInOrder' /\ BranchesExclusive' /\ LockedTasksEmpty'
  BY <1>1 DEF TasksUnlockInOrder, BranchesExclusive, LockedTasksEmpty
<1>6. CompletionMatchesVariables'
  <2>1. ASSUME NEW t \in Tasks, Variables[t] # {} PROVE Missing(t)' # {}
    <3>1. PICK v : v \in Variables[t]
      BY <2>1
    <3>2. v \in Names
      BY <3>1 DEF Names
    <3> QED
      BY <1>1, <3>1, <3>2 DEF Missing
  <2>2. visibleTasks(completedTasks') \subseteq Tasks
    BY DEF visibleTasks
  <2> QED
    BY <1>1, <2>1, <2>2, Zenon DEF CompletionMatchesVariables
<1> QED
  BY <1>2, <1>4, <1>5, <1>6 DEF IInv

\* Completing the current task on the application's request preserves the
\* invariant.
LEMMA ForcedKeepsInvariant == IInv /\ CompleteCurrentTask => IInv'
<1> SUFFICES ASSUME IInv, CompleteCurrentTask PROVE IInv'
  OBVIOUS
<1> DEFINE t == FirstOf(visibleTasks(completedTasks))
<1>1. t \in visibleTasks(completedTasks)
  <2>1. visibleTasks(completedTasks) \subseteq Tasks
    BY DEF visibleTasks
  <2>2. visibleTasks(completedTasks) # {}
    BY DEF CompleteCurrentTask
  <2> QED
    BY <2>1, <2>2, FirstOfIn
<1>2. /\ loaded /\ loaded' = loaded
      /\ onTaskComplete(t, collectedVars)
      /\ forced' = forced \cup {t}
      /\ collectedVars' = collectedVars
  BY Zenon DEF CompleteCurrentTask
<1>3. collectedVars \in [Tasks -> [Names -> Values \cup {None}]]
  BY DEF IInv, TypeOK
<1> QED
  BY <1>1, <1>2, <1>3, CompletionKeepsInvariant, Zenon

\* Capturing a variable preserves the invariant, whether or not it completes
\* its task.
LEMMA CaptureKeepsInvariant ==
  ASSUME IInv, NEW v \in Names, NEW value \in Values, SetVariable(v, value)
  PROVE  IInv'
<1> DEFINE t == FirstOf(Owners(v))
           coll == [collectedVars EXCEPT ![t][v] = value]
<1>1. /\ t \in visibleTasks(completedTasks)
      /\ t \in Tasks /\ v \in Variables[t]
  <2>1. Owners(v) \subseteq Tasks /\ Owners(v) # {}
    BY DEF Owners, visibleTasks, SetVariable
  <2>2. t \in Owners(v)
    BY <2>1, FirstOfIn
  <2> QED
    BY <2>1, <2>2 DEF Owners
<1>2. /\ coll \in [Tasks -> [Names -> Values \cup {None}]]
      /\ \A u \in Tasks \ {t} : coll[u] = collectedVars[u]
  <2>1. coll = [collectedVars EXCEPT ![t][v] = value]
    OBVIOUS
  <2>2. TypeOK
    BY DEF IInv
  <2> HIDE DEF t, coll
  <2> QED
    BY <1>1, <2>1, <2>2, CollectOne, Zenon
<1>3. loaded /\ loaded' = loaded /\ collectedVars' = coll /\ forced' = forced
  BY Zenon DEF SetVariable
<1>4. CASE allVarsCollected(t, coll) /\ onTaskComplete(t, coll)
  <2> HIDE DEF t, coll
  <2> QED
    BY <1>1, <1>2, <1>3, <1>4, CompletionKeepsInvariant, Zenon
<1>5. CASE /\ ~allVarsCollected(t, coll)
           /\ tools' = rebuildTools(visibleTasks(completedTasks), coll)
           /\ UNCHANGED <<completedTasks, instructions, finalTask>>
  <2> HIDE DEF t, coll
  <2>1. instructions = visibleTasks(completedTasks)
    BY <1>3, Zenon DEF IInv, PromptMatchesProgress
  <2>2. /\ PromptMatchesProgress'
        /\ instructions' \subseteq Tasks
        /\ tools' \subseteq {Tool(id) : id \in PermanentTools \cup ToolRegistry}
                              \cup {SetTool(w) : w \in Names}
    BY <1>3, <1>5, <2>1, PromptRebuilt, Zenon
  <2>3. loaded' \in BOOLEAN
    BY <1>3, Zenon DEF IInv, TypeOK
  <2>4. TypeOK'
    BY <1>2, <1>3, <1>5, <2>2, <2>3 DEF IInv, TypeOK
  <2>5. TasksUnlockInOrder' /\ BranchesExclusive'
    BY <1>5 DEF IInv, TasksUnlockInOrder, BranchesExclusive
  <2>6. LockedTasksEmpty'
    <3>1. isVisible(t, completedTasks)
      BY <1>1 DEF visibleTasks
    <3> QED
      BY <1>2, <1>3, <1>5, <3>1 DEF IInv, LockedTasksEmpty, isVisible
  <2>7. CompletionMatchesVariables'
    <3>1. ASSUME NEW u \in completedTasks \ forced PROVE Missing(u)' = {}
      <4>1. u \in Tasks \ {t}
        BY <1>1 DEF visibleTasks, IInv, TypeOK
      <4>2. Missing(u) = {}
        BY <1>3, <3>1, Zenon DEF IInv, CompletionMatchesVariables
      <4> QED
        BY <1>2, <1>3, <4>1, <4>2 DEF Missing
    <3>2. ASSUME NEW u \in visibleTasks(completedTasks), Variables[u] # {}
          PROVE  Missing(u)' # {}
      <4>1. CASE u = t
        BY <1>3, <1>5, <4>1 DEF allVarsCollected, Missing
      <4>2. CASE u # t
        <5>1. u \in Tasks \ {t}
          BY <4>2 DEF visibleTasks
        <5>2. Missing(u) # {}
          BY <1>3, <3>2, Zenon DEF IInv, CompletionMatchesVariables
        <5> QED
          BY <1>2, <1>3, <5>1, <5>2 DEF Missing
      <4> QED
        BY <4>1, <4>2
    <3> QED
      BY <1>3, <1>5, <3>1, <3>2, Zenon DEF CompletionMatchesVariables
  <2> QED
    BY <2>2, <2>4, <2>5, <2>6, <2>7 DEF IInv
<1> QED
  BY <1>4, <1>5, Zenon DEF SetVariable

\* A step that leaves every variable alone preserves the invariant.
LEMMA StutterKeepsInvariant == IInv /\ UNCHANGED vars => IInv'
<1> SUFFICES ASSUME IInv, UNCHANGED vars PROVE IInv'
  OBVIOUS
<1>1. /\ loaded' = loaded /\ completedTasks' = completedTasks
      /\ collectedVars' = collectedVars /\ instructions' = instructions
      /\ tools' = tools /\ forced' = forced /\ finalTask' = finalTask
  BY DEF vars
<1>2. TypeOK' = TypeOK /\ LockedTasksEmpty' = LockedTasksEmpty
  BY <1>1, Zenon DEF TypeOK, LockedTasksEmpty
<1>3. TasksUnlockInOrder' = TasksUnlockInOrder /\ BranchesExclusive' = BranchesExclusive
  BY <1>1, Zenon DEF TasksUnlockInOrder, BranchesExclusive
<1>4. CompletionMatchesVariables' = CompletionMatchesVariables
  BY <1>1, Zenon DEF CompletionMatchesVariables, Missing
<1>5. PromptMatchesProgress' = PromptMatchesProgress
  BY <1>1, Zenon DEF PromptMatchesProgress, Owners
<1> QED
  BY <1>2, <1>3, <1>4, <1>5, Zenon DEF IInv

\* The invariant holds in every reachable state.
LEMMA Invariant == Spec => []IInv
<1>1. IInv /\ [Next]_vars => IInv'
  <2> SUFFICES ASSUME IInv, [Next]_vars PROVE IInv'
    OBVIOUS
  <2>1. CASE LoadTaskGroup
    BY <2>1, LoadKeepsInvariant
  <2>2. CASE CompleteCurrentTask
    BY <2>2, ForcedKeepsInvariant
  <2>3. CASE \E v \in Names, value \in Values : SetVariable(v, value)
    BY <2>3, CaptureKeepsInvariant
  <2>4. CASE UNCHANGED vars
    BY <2>4, StutterKeepsInvariant
  <2> QED
    BY <2>1, <2>2, <2>3, <2>4, Zenon DEF Next, RejectSetVariable
<1> QED
  BY InitIInv, <1>1, PTL DEF Spec

-----------------------------------------------------------------------------
(* The theorems.                                                           *)

\* The state of the manager is well typed; in particular no tool is offered
\* that nobody registered.
THEOREM TypeCorrect == Spec => []TypeOK
BY Invariant, PTL DEF IInv

\* In every group, tasks complete only after the task they wait for.
THEOREM TasksUnlockInOrderHolds == Spec => []TasksUnlockInOrder
BY Invariant, PTL DEF IInv

\* In every group, at most one of two mutually exclusive branches completes.
THEOREM BranchesExclusiveHolds == Spec => []BranchesExclusive
BY Invariant, PTL DEF IInv

\* In every group, the tasks that are complete are the ones that miss no
\* variable or were forced, and no visible task waits for nothing.
THEOREM CompletionMatchesVariablesHolds == Spec => []CompletionMatchesVariables
BY Invariant, PTL DEF IInv

\* In every group, what the LLM is shown agrees with the progress.
THEOREM PromptMatchesProgressHolds == Spec => []PromptMatchesProgress
BY Invariant, PTL DEF IInv

\* In every group, no step changes the values of a completed task.
THEOREM CompletedTasksFrozenHolds == Spec => CompletedTasksFrozen
<1> DEFINE Frozen == loaded =>
       /\ completedTasks \subseteq completedTasks'
       /\ \A t \in completedTasks : collectedVars'[t] = collectedVars[t]
<1>1. IInv /\ [Next]_vars => [Frozen]_vars
  <2> SUFFICES ASSUME IInv, loaded, Next PROVE Frozen
    OBVIOUS
  <2>1. CASE LoadTaskGroup
    BY <2>1, Zenon DEF LoadTaskGroup
  <2>2. CASE CompleteCurrentTask
    BY <2>2 DEF CompleteCurrentTask, onTaskComplete
  <2>3. ASSUME NEW v \in Names, NEW value \in Values, SetVariable(v, value)
        PROVE  Frozen
    <3> DEFINE t == FirstOf(Owners(v))
               coll == [collectedVars EXCEPT ![t][v] = value]
    <3>1. t \in Tasks \ completedTasks
      <4>1. Owners(v) \subseteq Tasks /\ Owners(v) # {}
        BY <2>3 DEF Owners, visibleTasks, SetVariable
      <4>2. t \in Owners(v)
        BY <4>1, FirstOfIn
      <4> QED
        BY <4>1, <4>2 DEF Owners, visibleTasks
    <3>2. \A u \in Tasks \ {t} : coll[u] = collectedVars[u]
      BY <3>1, CollectOne DEF IInv
    <3>3. collectedVars' = coll
      BY <2>3, Zenon DEF SetVariable
    <3>4. completedTasks \subseteq Tasks
      BY DEF IInv, TypeOK
    <3>5. completedTasks \subseteq completedTasks'
      BY <2>3 DEF SetVariable, onTaskComplete
    <3> HIDE DEF t, coll
    <3> QED
      BY <3>1, <3>2, <3>3, <3>4, <3>5
  <2>4. CASE UNCHANGED vars
    BY <2>4 DEF vars
  <2> QED
    BY <2>1, <2>2, <2>3, <2>4, Zenon DEF Next, RejectSetVariable
<1> QED
  BY Invariant, <1>1, PTL DEF Spec, CompletedTasksFrozen

-----------------------------------------------------------------------------
(* The aggregators: messages and events.                                   *)

USE Bounds

UserMessage(n) == <<"user", n>>
Reply(n) == <<"completed", n>>
Phrase(c) == <<"phrase", c>>
Result(c) == <<"result", c>>
Request(c) == <<"request", c>>
Generate(c) == <<"generate", c>>

Messages ==
  {UserMessage(n) : n \in Nat} \cup {Reply(n) : n \in Nat}
    \cup {Phrase(c) : c \in Calls} \cup {Result(c) : c \in Calls}
RelayedEvents == {Result(c) : c \in Calls} \cup {Generate(c) : c \in Calls}
LLMEvents ==
  {<<"suspected", 0>>, <<"confirmed", 0>>, <<"generate", 0>>} \cup RelayedEvents
AssistantEvents ==
  {<<"started", 0>>, <<"confirmed", 0>>} \cup {Reply(n) : n \in Nat}
    \cup {Request(c) : c \in Calls} \cup {Result(c) : c \in Calls}
AssistantStates == {Idle} \cup {Reply(n) : n \in Nat \ {0}} \cup RelayedEvents

In(s, e) == \E i \in DOMAIN s : s[i] = e
Once(s, e) == \A i, j \in DOMAIN s : s[i] = e /\ s[j] = e => i = j

-----------------------------------------------------------------------------
(* The aggregators: the inductive invariant.                               *)

CallStates ==
  {"none", "asked", "started", "commit", "committed", "append", "answered", "done",
   "unanswered"}

ContextTypes ==
  /\ messages \in Seq(Messages)
  /\ saved \in [Appenders -> SUBSET Seq(Messages)]

FlowTypes ==
  /\ toLLM \in Seq(LLMEvents) /\ toAssistant \in Seq(AssistantEvents)
  /\ relayed \subseteq RelayedEvents
  /\ assistant \in AssistantStates
  /\ call \in [Calls -> CallStates]

CounterTypes ==
  /\ timer \in {"nil", "running", "fired"} /\ user \in {"idle", "append", "generate"}
  /\ finals \in Nat /\ suspected \in Nat /\ confirmed \in Nat /\ completions \in Nat
  /\ kind \in [Calls -> Kinds \cup {NoKind}]
  /\ hasActiveTurn \in BOOLEAN /\ interrupted \in BOOLEAN

\* The context, and every slice that an append under way has read, have no message
\* twice, none that was not written, and all that were appended alone.
SliceOK(s) == solo \subseteq ToSet(s) /\ ToSet(s) \subseteq written /\ IsInjective(s)

SavedInv ==
  /\ SliceOK(messages)
  /\ \A a \in Appenders : \A slice \in saved[a] : SliceOK(slice)

\* A user message is numbered with the utterance, and written once.
UserInv ==
  \A n \in Nat :
    UserMessage(n) \in written => n <= finals /\ (user = "append" => n < finals)

\* A reply is in one place: on its way to the aggregator, in its hands or in the
\* context.
ReplyInv(n) ==
  /\ Once(toAssistant, Reply(n))
  /\ In(toAssistant, Reply(n)) => assistant # Reply(n) /\ Reply(n) \notin written
  /\ assistant = Reply(n) => Reply(n) \notin written
  /\ In(toAssistant, Reply(n)) \/ assistant = Reply(n) \/ Reply(n) \in written
       => n <= completions

\* The result of a call is in one place: at the top, on its way down, in the hands
\* of the aggregator or in the context.
ResultOnce(c) ==
  /\ Once(toLLM, Result(c)) /\ Once(toAssistant, Result(c))
  /\ Result(c) \in relayed =>
       /\ ~In(toLLM, Result(c)) /\ ~In(toAssistant, Result(c))
       /\ assistant # Result(c) /\ Result(c) \notin written
  /\ In(toLLM, Result(c)) =>
       /\ ~In(toAssistant, Result(c))
       /\ assistant # Result(c) /\ Result(c) \notin written
  /\ In(toAssistant, Result(c)) => assistant # Result(c) /\ Result(c) \notin written
  /\ assistant = Result(c) => Result(c) \notin written

\* Where the goroutine of a call is when its events and messages are there.
CallOrder(c) ==
  /\ Once(toAssistant, Request(c))
  /\ In(toAssistant, Request(c)) => call[c] = "asked"
  /\ Phrase(c) \in written => call[c] \notin {"none", "asked", "started", "commit"}
  /\ \/ Result(c) \in relayed \/ In(toLLM, Result(c)) \/ In(toAssistant, Result(c))
     \/ assistant = Result(c) \/ Result(c) \in written
     \/ Generate(c) \in relayed \/ In(toLLM, Generate(c)) \/ assistant = Generate(c)
     => call[c] \in {"answered", "done"}

CallInv(c) == ResultOnce(c) /\ CallOrder(c)

AggregatorInv ==
  /\ ContextTypes /\ FlowTypes /\ CounterTypes
  /\ SavedInv /\ UserInv
  /\ \A n \in Nat \ {0} : ReplyInv(n)
  /\ \A c \in Calls : CallInv(c)
  /\ ConfirmedOncePerSuspicion

-----------------------------------------------------------------------------
(* The aggregators: events and queues.                                     *)

\* The kinds of event and message are told apart by their first component.
LEMMA Kinds1 ==
  /\ \A n : UserMessage(n)[1] = "user" /\ UserMessage(n)[2] = n
  /\ \A n : Reply(n)[1] = "completed" /\ Reply(n)[2] = n
  /\ \A c : Phrase(c)[1] = "phrase" /\ Phrase(c)[2] = c
  /\ \A c : Result(c)[1] = "result" /\ Result(c)[2] = c
  /\ \A c : Request(c)[1] = "request" /\ Request(c)[2] = c
  /\ \A c : Generate(c)[1] = "generate" /\ Generate(c)[2] = c
BY DEF UserMessage, Reply, Phrase, Result, Request, Generate

\* An event on its way to the LLM handler.
LEMMA LLMEventKinds ==
  ASSUME NEW e \in LLMEvents
  PROVE  \/ e = <<"suspected", 0>> \/ e = <<"confirmed", 0>> \/ e = <<"generate", 0>>
         \/ \E c \in Calls : e = Result(c)
         \/ \E c \in Calls : e = Generate(c)
BY DEF LLMEvents, RelayedEvents

\* An event on its way to the assistant aggregator is what it says it is.
LEMMA AssistantEventKinds ==
  ASSUME NEW e \in AssistantEvents
  PROVE  /\ e[1] = "request" => \E c \in Calls : e = Request(c)
         /\ e[1] = "result" => \E c \in Calls : e = Result(c)
         /\ e[1] = "completed" => \E n \in Nat : e = Reply(n)
         /\ e[1] = "started" => e = <<"started", 0>>
         /\ e[1] = "confirmed" => e = <<"confirmed", 0>>
BY Kinds1 DEF AssistantEvents

\* What is in a queue after an event was put into it.
LEMMA AppendIn ==
  ASSUME NEW S, NEW s \in Seq(S), NEW x \in S, NEW e
  PROVE  /\ In(Append(s, x), e) <=> In(s, e) \/ x = e
         /\ Once(s, e) /\ (x # e \/ ~In(s, e)) => Once(Append(s, x), e)
<1>1. /\ Len(s) \in Nat /\ DOMAIN s = 1..Len(s)
      /\ DOMAIN Append(s, x) = 1..(Len(s) + 1)
      /\ \A i \in 1..Len(s) : Append(s, x)[i] = s[i]
      /\ Append(s, x)[Len(s) + 1] = x
  <2>1. Append(s, x) \in Seq(S) /\ Len(Append(s, x)) = Len(s) + 1
        /\ (\A i \in 1..Len(s) : Append(s, x)[i] = s[i])
        /\ Append(s, x)[Len(s) + 1] = x
    BY AppendProperties
  <2> QED
    BY <2>1, LenProperties
<1>2. \A i \in DOMAIN Append(s, x) : i \in DOMAIN s \/ i = Len(s) + 1
  BY <1>1
<1>3. \A i \in DOMAIN s : i \in DOMAIN Append(s, x)
  BY <1>1
<1>4. Len(s) + 1 \in DOMAIN Append(s, x)
  BY <1>1
<1>5. In(Append(s, x), e) <=> In(s, e) \/ x = e
  BY <1>1, <1>2, <1>3, <1>4 DEF In
<1>6. Once(s, e) /\ (x # e \/ ~In(s, e)) => Once(Append(s, x), e)
  BY <1>1, <1>2 DEF In, Once
<1> QED
  BY <1>5, <1>6

\* What is in a queue after its first event was taken.
LEMMA TailIn ==
  ASSUME NEW S, NEW s \in Seq(S), s # <<>>, NEW e
  PROVE  /\ Head(s) \in S /\ Tail(s) \in Seq(S)
         /\ In(s, Head(s))
         /\ In(Tail(s), e) => In(s, e)
         /\ Once(s, e) => Once(Tail(s), e)
         /\ Once(s, e) /\ In(Tail(s), e) => Head(s) # e
<1>1. /\ Len(s) \in Nat /\ Len(s) # 0 /\ DOMAIN s = 1..Len(s)
      /\ Head(s) \in S /\ Head(s) = s[1] /\ Tail(s) \in Seq(S)
      /\ DOMAIN Tail(s) = 1..(Len(s) - 1)
      /\ \A i \in 1..(Len(s) - 1) : Tail(s)[i] = s[i + 1]
  <2>1. Len(s) \in Nat /\ Len(s) # 0 /\ DOMAIN s = 1..Len(s)
    BY LenProperties, EmptySeq
  <2>2. Head(s) \in S /\ Tail(s) \in Seq(S) /\ Len(Tail(s)) = Len(s) - 1
        /\ \A i \in 1..Len(Tail(s)) : Tail(s)[i] = s[i + 1]
    BY HeadTailProperties
  <2>3. Head(s) = s[1]
    BY <2>1
  <2> QED
    BY <2>1, <2>2, <2>3, LenProperties
<1>2. 1 \in DOMAIN s
  BY <1>1
<1>3. \A i \in DOMAIN Tail(s) : i + 1 \in DOMAIN s /\ Tail(s)[i] = s[i + 1] /\ i + 1 # 1
  BY <1>1
<1>4. \A i, j \in DOMAIN Tail(s) : i + 1 = j + 1 => i = j
  BY <1>1
<1>5. In(s, Head(s)) /\ (In(Tail(s), e) => In(s, e))
  BY <1>1, <1>2, <1>3 DEF In
<1>6. Once(s, e) => Once(Tail(s), e)
  BY <1>3, <1>4 DEF Once
<1>7. Once(s, e) /\ In(Tail(s), e) => Head(s) # e
  BY <1>1, <1>2, <1>3 DEF Once, In
<1> QED
  BY <1>1, <1>5, <1>6, <1>7

\* Events and messages that differ, by their first component or by their second.
LEMMA Distinct ==
  ASSUME NEW c \in Calls, NEW d \in Calls, NEW n
  PROVE  /\ Result(c) = Result(d) => c = d
         /\ Request(c) = Request(d) => c = d
         /\ Generate(c) = Generate(d) => c = d
         /\ Phrase(c) = Phrase(d) => c = d
         /\ \A x \in {Result(d), Generate(d), Request(d), Phrase(d), Idle} :
              \A y \in {UserMessage(n), Reply(n), <<"suspected", 0>>,
                        <<"confirmed", 0>>, <<"started", 0>>, <<"generate", 0>>} :
                x # y
         /\ Result(c) # Generate(d) /\ Result(c) # Request(d) /\ Result(c) # Phrase(d)
         /\ Generate(c) # Request(d) /\ Generate(c) # Phrase(d)
         /\ Idle # Result(d) /\ Idle # Generate(d)
         /\ Result(c) # Generate(0) /\ Request(c) # Generate(0)
<1>1. Idle[1] = "idle" /\ Idle[2] = 0
  BY DEF Idle
<1> QED
  BY <1>1, Kinds1

\* Replies and user messages are told apart by their numbers.
LEMMA DistinctReplies ==
  ASSUME NEW m, NEW n
  PROVE  /\ Reply(m) = Reply(n) => m = n
         /\ UserMessage(m) = UserMessage(n) => m = n
         /\ UserMessage(m) # Reply(n)
         /\ Reply(n) # Idle /\ Reply(n) # <<"started", 0>>
              /\ Reply(n) # <<"confirmed", 0>>
<1>1. Idle[1] = "idle" /\ Idle[2] = 0
  BY DEF Idle
<1> QED
  BY <1>1, Kinds1

-----------------------------------------------------------------------------
(* The aggregators: appends to the context.                                *)

\* What a step does to the context: nothing, the first half of an append, or the
\* second half, with a message that was never written before.
LEMMA ContextStep ==
  ASSUME AggregatorInv, AggregatorNext
  PROVE  \/ UNCHANGED contextVars
         \/ \E a \in Appenders : AppendReads(a)
         \/ \E a \in Appenders : \E m \in Messages \ written : AppendWrites(a, m)
<1>1. "user" \in Appenders /\ "assistant" \in Appenders /\ Calls \subseteq Appenders
  BY DEF Appenders
<1>2. CASE UserAppends
  <2>1. UserMessage(finals) \in Messages \ written
    <3>1. finals \in Nat /\ ~(finals < finals)
      BY DEF AggregatorInv, CounterTypes
    <3> QED
      BY <1>2, <3>1 DEF AggregatorInv, UserInv, UserAppends, Messages
  <2> QED
    BY <1>1, <1>2, <2>1 DEF UserAppends, UserMessage
<1>3. CASE AssistantAppends
  <2>1. assistant \in Messages
    <3>1. assistant \in AssistantStates /\ assistant[1] \in {"completed", "result"}
      BY <1>3 DEF AggregatorInv, FlowTypes, AssistantAppends
    <3>2. assistant # Idle /\ \A c : assistant # Generate(c)
      BY <1>3, <3>1, Kinds1 DEF AssistantAppends
    <3> QED
      BY <3>1, <3>2 DEF AssistantStates, RelayedEvents, Messages
  <2>2. assistant \notin written
    <3>1. assistant \in AssistantStates /\ assistant[1] \in {"completed", "result"}
      BY <1>3 DEF AggregatorInv, FlowTypes, AssistantAppends
    <3>2. assistant # Idle /\ \A c : assistant # Generate(c)
      BY <1>3, <3>1, Kinds1 DEF AssistantAppends
    <3>3. \/ \E n \in Nat \ {0} : assistant = Reply(n)
          \/ \E c \in Calls : assistant = Result(c)
      BY <3>1, <3>2 DEF AssistantStates, RelayedEvents
    <3> QED
      BY <3>3 DEF AggregatorInv, ReplyInv, CallInv, ResultOnce
  <2> QED
    BY <1>1, <1>3, <2>1, <2>2 DEF AssistantAppends
<1>4. ASSUME NEW c \in Calls, ToolCommits(c)
      PROVE  \E a \in Appenders : \E m \in Messages \ written : AppendWrites(a, m)
  <2>1. Phrase(c) \in Messages \ written
    BY <1>4 DEF Messages, AggregatorInv, CallInv, CallOrder, ToolCommits
  <2> QED
    BY <1>1, <1>4, <2>1 DEF ToolCommits, Phrase
<1>5. ASSUME NEW c \in Calls, ToolAppends(c)
      PROVE  \E a \in Appenders : \E m \in Messages \ written : AppendWrites(a, m)
  <2>1. Result(c) \in Messages \ written
    BY <1>5 DEF Messages, AggregatorInv, CallInv, CallOrder, ToolAppends
  <2> QED
    BY <1>1, <1>5, <2>1 DEF ToolAppends, Result
<1>6. CASE HandleFinal
  BY <1>1, <1>6 DEF HandleFinal
<1>7. CASE HandleCompleted
  BY <1>1, <1>7 DEF HandleCompleted
<1>8. CASE HandleResult
  BY <1>1, <1>8 DEF HandleResult, ResultWithoutText
<1>9. ASSUME NEW c \in Calls, ToolStartsAppend(c)
      PROVE  \E a \in Appenders : AppendReads(a)
  BY <1>1, <1>9 DEF ToolStartsAppend
<1>10. CASE \/ HandleSuspected \/ TimerFires \/ HandleInterim \/ UserGenerates
            \/ HandleRelayed \/ LLMHandles \/ CompletionEnds
            \/ HandleStarted \/ HandleConfirmed \/ HandleRequest
                 \/ AssistantGenerates
  BY <1>10 DEF HandleSuspected, TimerFires, HandleInterim, UserGenerates,
       HandleRelayed, LLMHandles, CompletionEnds, HandleStarted, HandleConfirmed,
       HandleRequest, AssistantGenerates
<1>11. ASSUME NEW c \in Calls,
              RequestTool(c) \/ ServerAnswers(c) \/ ToolReturns(c) \/ ToolUnknown(c)
       PROVE  UNCHANGED contextVars
  BY <1>11 DEF RequestTool, ServerAnswers, ToolReturns, ToolUnknown
<1> QED
  BY <1>2, <1>3, <1>4, <1>5, <1>6, <1>7, <1>8, <1>9, <1>10, <1>11
     DEF AggregatorNext, UserLoop, AssistantLoop, ToolStep

\* The context keeps its type.
LEMMA ContextTypesStep ==
  ASSUME AggregatorInv, AggregatorNext
  PROVE  ContextTypes'
<1>1. ContextTypes
  BY DEF AggregatorInv
<1>2. CASE UNCHANGED contextVars
  BY <1>1, <1>2 DEF ContextTypes, contextVars
<1>3. ASSUME NEW a \in Appenders, AppendReads(a)
      PROVE  ContextTypes'
  <2>1. saved' \in [Appenders -> SUBSET Seq(Messages)] /\ messages' \in Seq(Messages)
    BY <1>1, <1>3 DEF ContextTypes, AppendReads
  <2> QED
    BY <2>1 DEF ContextTypes
<1>4. ASSUME NEW a \in Appenders, NEW m \in Messages \ written, AppendWrites(a, m)
      PROVE  ContextTypes'
  <2>1. PICK slice \in saved[a] : messages' = Append(slice, m)
    BY <1>4 DEF AppendWrites
  <2>2. slice \in Seq(Messages)
    BY <1>1, <2>1 DEF ContextTypes
  <2>3. messages' \in Seq(Messages)
    BY <2>1, <2>2, AppendProperties
  <2>4. saved' \in [Appenders -> SUBSET Seq(Messages)]
    BY <1>1, <1>4 DEF ContextTypes, AppendWrites
  <2> QED
    BY <2>3, <2>4 DEF ContextTypes
<1> QED
  BY <1>2, <1>3, <1>4, ContextStep

\* A new message at the end of a slice adds itself and repeats nothing.
LEMMA AppendedSlice ==
  ASSUME NEW s \in Seq(Messages), NEW m \in Messages, m \notin ToSet(s),
         IsInjective(s)
  PROVE  ToSet(Append(s, m)) = ToSet(s) \cup {m} /\ IsInjective(Append(s, m))
<1>1. /\ Len(s) \in Nat /\ DOMAIN s = 1..Len(s)
      /\ DOMAIN Append(s, m) = 1..(Len(s) + 1)
      /\ \A i \in 1..Len(s) : Append(s, m)[i] = s[i]
      /\ Append(s, m)[Len(s) + 1] = m
  <2>1. /\ Append(s, m) \in Seq(Messages) /\ Len(Append(s, m)) = Len(s) + 1
        /\ \A i \in 1..Len(s) : Append(s, m)[i] = s[i]
        /\ Append(s, m)[Len(s) + 1] = m
    BY AppendProperties
  <2> QED
    BY <2>1, LenProperties
<1>2. \A i \in DOMAIN Append(s, m) : i \in DOMAIN s \/ i = Len(s) + 1
  BY <1>1
<1>3. (\A i \in DOMAIN s : i \in DOMAIN Append(s, m))
      /\ Len(s) + 1 \in DOMAIN Append(s, m)
  BY <1>1
<1>4. \A i \in DOMAIN s : s[i] # m
  BY DEF ToSet
<1>5. ToSet(Append(s, m)) = ToSet(s) \cup {m}
  BY <1>1, <1>2, <1>3 DEF ToSet
<1>6. IsInjective(Append(s, m))
  BY <1>1, <1>2, <1>4 DEF IsInjective
<1> QED
  BY <1>5, <1>6

\* A slice that was right stays right when a message is written elsewhere that
\* does not count as appended alone.
LEMMA SavedStep ==
  ASSUME AggregatorInv, AggregatorNext
  PROVE  SavedInv'
<1>1. ContextTypes /\ SavedInv
  BY DEF AggregatorInv
<1>2. CASE UNCHANGED contextVars
  BY <1>1, <1>2 DEF SavedInv, SliceOK, contextVars
<1>3. ASSUME NEW a \in Appenders, AppendReads(a)
      PROVE  SavedInv'
  <2>1. /\ messages' = messages /\ written' = written /\ solo' = solo
        /\ saved'[a] = {messages}
        /\ \A b \in Appenders \ {a} : saved'[b] = saved[b]
    BY <1>1, <1>3 DEF ContextTypes, AppendReads
  <2> QED
    BY <1>1, <2>1 DEF SavedInv, SliceOK
<1>4. ASSUME NEW a \in Appenders, NEW m \in Messages \ written, AppendWrites(a, m)
      PROVE  SavedInv'
  <2>1. PICK slice \in saved[a] : messages' = Append(slice, m)
    BY <1>4 DEF AppendWrites
  <2>2. /\ slice \in Seq(Messages) /\ solo \subseteq ToSet(slice)
        /\ ToSet(slice) \subseteq written /\ IsInjective(slice)
    BY <1>1, <2>1 DEF ContextTypes, SavedInv, SliceOK
  <2>3. ToSet(messages') = ToSet(slice) \cup {m} /\ IsInjective(messages')
    BY <2>1, <2>2, AppendedSlice
  <2>4. /\ written' = written \cup {m} /\ saved'[a] = {}
        /\ \A b \in Appenders \ {a} : saved'[b] = saved[b]
        /\ solo' \subseteq solo \cup {m}
    BY <1>1, <1>4 DEF ContextTypes, AppendWrites, Recorded
  <2>5. SliceOK(messages)'
    BY <2>2, <2>3, <2>4 DEF SliceOK
  <2>6. ASSUME NEW b \in Appenders, NEW other \in saved'[b] PROVE SliceOK(other)'
    <3>1. b \in Appenders \ {a} /\ other \in saved[b]
      BY <2>4, <2>6
    <3>2. solo' = solo
      BY <1>4, <3>1 DEF AppendWrites, Recorded
    <3>3. /\ solo \subseteq ToSet(other) /\ ToSet(other) \subseteq written
          /\ IsInjective(other)
      BY <1>1, <3>1 DEF SavedInv, SliceOK
    <3> QED
      BY <2>4, <3>2, <3>3 DEF SliceOK
  <2> QED
    BY <2>5, <2>6 DEF SavedInv
<1> QED
  BY <1>2, <1>3, <1>4, ContextStep

-----------------------------------------------------------------------------
(* The aggregators: types and counters.                                    *)

\* The counters and flags keep their types.
LEMMA CounterTypesStep ==
  ASSUME AggregatorInv, AggregatorNext
  PROVE  CounterTypes'
<1>1. /\ timer \in {"nil", "running", "fired"} /\ user \in {"idle", "append", "generate"}
      /\ finals \in Nat /\ suspected \in Nat /\ confirmed \in Nat /\ completions \in Nat
      /\ kind \in [Calls -> Kinds \cup {NoKind}]
  BY DEF AggregatorInv, CounterTypes
<1>2. hasActiveTurn \in BOOLEAN /\ interrupted \in BOOLEAN
  BY DEF AggregatorInv, CounterTypes
<1>3. ASSUME NEW c \in Calls, RequestTool(c)
      PROVE  CounterTypes'
  BY <1>1, <1>2, <1>3 DEF CounterTypes, RequestTool, userVars, llmVars, turnVars
<1>4. ASSUME NEW c \in Calls, ServerAnswers(c) \/ ToolStep(c)
      PROVE  CounterTypes'
  BY <1>1, <1>2, <1>4 DEF CounterTypes, ServerAnswers, ToolStep, ToolReturns,
       ToolUnknown,
       ToolStartsAppend, ToolCommits, ToolAppends, ToolOnly, userVars,
       llmVars, turnVars
<1>5. CASE HandleSuspected \/ TimerFires \/ HandleInterim \/ HandleFinal
  BY <1>1, <1>2, <1>5 DEF CounterTypes, HandleSuspected, TimerFires, HandleInterim,
       HandleFinal, stopFalsePositiveTimer, llmVars, turnVars, callVars
<1>6. CASE UserLoop \/ LLMHandles
  BY <1>1, <1>2, <1>6 DEF CounterTypes, UserLoop, UserAppends, UserGenerates,
       HandleRelayed, LLMHandles, userVars, llmVars, turnVars, callVars
<1>7. CASE CompletionEnds
  BY <1>1, <1>2, <1>7 DEF CounterTypes, CompletionEnds, userVars, turnVars, callVars
<1>8. CASE AssistantLoop
  <2>1. hasActiveTurn' \in BOOLEAN
    BY <1>2, <1>8 DEF AssistantLoop, HandleStarted, HandleConfirmed,
         HandleCompleted,
         HandleRequest, HandleResult, AssistantAppends, AssistantGenerates,
         turnVars
  <2>2. interrupted' \in BOOLEAN
    BY <1>2, <1>8 DEF AssistantLoop, HandleStarted, HandleConfirmed,
         HandleCompleted,
         HandleRequest, HandleResult, AssistantAppends, AssistantGenerates,
         turnVars
  <2>3. UNCHANGED <<timer, user, finals, suspected, confirmed, completions, kind>>
    BY <1>8 DEF AssistantLoop, HandleStarted, HandleConfirmed, HandleCompleted,
         HandleRequest, HandleResult, AssistantAppends, AssistantGenerates,
         userVars, llmVars, callVars
  <2> QED
    BY <1>1, <2>1, <2>2, <2>3 DEF CounterTypes
<1> QED
  BY <1>3, <1>4, <1>5, <1>6, <1>7, <1>8 DEF AggregatorNext

\* A confirmation takes away the timer of the suspicion it confirms.
LEMMA ConfirmedStep ==
  ASSUME AggregatorInv, AggregatorNext
  PROVE  ConfirmedOncePerSuspicion'
<1>1. /\ timer \in {"nil", "running", "fired"}
      /\ suspected \in Nat /\ confirmed \in Nat /\ ConfirmedOncePerSuspicion
  BY DEF AggregatorInv, CounterTypes
<1>2. CASE HandleSuspected \/ TimerFires \/ HandleInterim \/ HandleFinal
  BY <1>1, <1>2 DEF ConfirmedOncePerSuspicion, HandleSuspected, TimerFires,
       HandleInterim,
       HandleFinal, stopFalsePositiveTimer
<1>3. CASE UNCHANGED <<timer, suspected, confirmed>>
  BY <1>1, <1>3 DEF ConfirmedOncePerSuspicion
<1>4. CASE UserLoop \/ LLMHandles \/ CompletionEnds
  BY <1>3, <1>4 DEF UserLoop, UserAppends, UserGenerates, HandleRelayed,
       LLMHandles,
       CompletionEnds, userVars
<1>5. CASE AssistantLoop
  BY <1>3, <1>5 DEF AssistantLoop, HandleStarted, HandleConfirmed, HandleCompleted,
       HandleRequest, HandleResult, AssistantAppends, AssistantGenerates, userVars
<1>6. ASSUME NEW c \in Calls, RequestTool(c) \/ ServerAnswers(c) \/ ToolStep(c)
      PROVE  UNCHANGED <<timer, suspected, confirmed>>
  BY <1>6 DEF RequestTool, ServerAnswers, ToolStep, ToolReturns, ToolUnknown,
       ToolStartsAppend, ToolCommits, ToolAppends, ToolOnly, userVars
<1> QED
  BY <1>2, <1>3, <1>4, <1>5, <1>6 DEF AggregatorNext

\* Events the LLM handler may be sent.
LEMMA LLMEventsAre ==
  ASSUME NEW c \in Calls
  PROVE  /\ <<"suspected", 0>> \in LLMEvents /\ <<"confirmed", 0>> \in LLMEvents
         /\ <<"generate", 0>> \in LLMEvents /\ RelayedEvents \subseteq LLMEvents
         /\ Result(c) \in RelayedEvents /\ Generate(c) \in RelayedEvents
BY DEF LLMEvents, RelayedEvents

\* Events the assistant aggregator may be sent.
LEMMA AssistantEventsAre ==
  /\ <<"started", 0>> \in AssistantEvents /\ <<"confirmed", 0>> \in AssistantEvents
  /\ \A c \in Calls : Request(c) \in AssistantEvents /\ Result(c) \in AssistantEvents
  /\ \A n \in Nat : Reply(n) \in AssistantEvents
BY DEF AssistantEvents

\* What LLMHandles does, by the event it takes.
LEMMA LLMHandlesCases ==
  ASSUME AggregatorInv, LLMHandles
  PROVE  /\ toLLM # <<>> /\ toLLM' = Tail(toLLM)
         /\ UNCHANGED <<written, finals, user, assistant, completions, relayed, kind>>
         /\ \/ /\ Head(toLLM) = <<"suspected", 0>> /\ UNCHANGED <<call, toAssistant>>
            \/ /\ Head(toLLM) = <<"confirmed", 0>> /\ UNCHANGED call
               /\ toAssistant' = Append(toAssistant, <<"confirmed", 0>>)
            \/ /\ Head(toLLM) = <<"generate", 0>> /\ UNCHANGED call
               /\ toAssistant' = Append(toAssistant, <<"started", 0>>)
            \/ \E c \in Calls :
                 /\ Head(toLLM) = Result(c) /\ UNCHANGED call
                 /\ toAssistant' = Append(toAssistant, Result(c))
            \/ \E c \in Calls :
                 /\ Head(toLLM) = Generate(c) /\ call' = [call EXCEPT ![c] = "done"]
                 /\ toAssistant' = Append(toAssistant, <<"started", 0>>)
<1>1. /\ toLLM # <<>> /\ toLLM' = Tail(toLLM)
      /\ UNCHANGED <<written, finals, user, assistant, completions, relayed, kind>>
  BY DEF LLMHandles, contextVars, userVars, turnVars
<1>2. Head(toLLM) \in LLMEvents
  BY <1>1, TailIn DEF AggregatorInv, FlowTypes
<1>3. \/ Head(toLLM) = <<"suspected", 0>> \/ Head(toLLM) = <<"confirmed", 0>>
      \/ Head(toLLM) = <<"generate", 0>>
      \/ \E c \in Calls : Head(toLLM) = Result(c)
      \/ \E c \in Calls : Head(toLLM) = Generate(c)
  BY <1>2, LLMEventKinds
<1>4. ASSUME Head(toLLM) = <<"suspected", 0>>
      PROVE  UNCHANGED <<call, toAssistant>>
  <2>1. Head(toLLM)[1] = "suspected"
    BY <1>4
  <2> QED
    BY <2>1 DEF LLMHandles
<1>5. ASSUME Head(toLLM) = <<"confirmed", 0>>
      PROVE  UNCHANGED call /\ toAssistant' = Append(toAssistant, <<"confirmed", 0>>)
  <2>1. Head(toLLM)[1] = "confirmed"
    BY <1>5
  <2> QED
    BY <1>5, <2>1 DEF LLMHandles
<1>6. ASSUME Head(toLLM) = <<"generate", 0>>
      PROVE  UNCHANGED call /\ toAssistant' = Append(toAssistant, <<"started", 0>>)
  <2>1. Head(toLLM)[1] = "generate" /\ Head(toLLM)[2] \notin Calls
    BY <1>6
  <2> QED
    BY <2>1 DEF LLMHandles
<1>7. ASSUME NEW c \in Calls, Head(toLLM) = Result(c)
      PROVE  UNCHANGED call /\ toAssistant' = Append(toAssistant, Result(c))
  <2>1. Head(toLLM)[1] = "result"
    BY <1>7, Kinds1
  <2> QED
    BY <1>7, <2>1 DEF LLMHandles
<1>8. ASSUME NEW c \in Calls, Head(toLLM) = Generate(c)
      PROVE  /\ call' = [call EXCEPT ![c] = "done"]
             /\ toAssistant' = Append(toAssistant, <<"started", 0>>)
  <2>1. Head(toLLM)[1] = "generate" /\ Head(toLLM)[2] = c
    BY <1>8, Kinds1
  <2> QED
    BY <1>8, <2>1 DEF LLMHandles
<1> QED
  BY <1>1, <1>3, <1>4, <1>5, <1>6, <1>7, <1>8

\* What the assistant aggregator takes, and what is left.
LEMMA TakesCases ==
  ASSUME AggregatorInv, NEW type, Takes(type)
  PROVE  /\ toAssistant # <<>> /\ toAssistant' = Tail(toAssistant)
         /\ toAssistant' \in Seq(AssistantEvents)
         /\ In(toAssistant, Head(toAssistant)) /\ assistant = Idle
         /\ type = "completed" => \E n \in Nat : Head(toAssistant) = Reply(n)
         /\ type = "request" => \E c \in Calls : Head(toAssistant) = Request(c)
         /\ type = "result" => \E c \in Calls : Head(toAssistant) = Result(c)
         /\ type = "started" => Head(toAssistant) = <<"started", 0>>
         /\ type = "confirmed" => Head(toAssistant) = <<"confirmed", 0>>
<1>1. /\ toAssistant # <<>> /\ toAssistant' = Tail(toAssistant) /\ assistant = Idle
      /\ Head(toAssistant)[1] = type /\ toAssistant \in Seq(AssistantEvents)
  BY DEF Takes, AggregatorInv, FlowTypes
<1>2. /\ Head(toAssistant) \in AssistantEvents /\ Tail(toAssistant) \in Seq(AssistantEvents)
      /\ In(toAssistant, Head(toAssistant))
  BY <1>1, TailIn
<1> QED
  BY <1>1, <1>2, AssistantEventKinds

\* The queues, the aggregator and the calls keep their types.
LEMMA FlowTypesStep ==
  ASSUME AggregatorInv, AggregatorNext
  PROVE  FlowTypes'
<1> USE DEF AggregatorInv
<1>1. /\ toLLM \in Seq(LLMEvents) /\ toAssistant \in Seq(AssistantEvents)
      /\ relayed \subseteq RelayedEvents /\ assistant \in AssistantStates
      /\ call \in [Calls -> CallStates]
  BY DEF FlowTypes
<1>2. /\ \A x \in LLMEvents : Append(toLLM, x) \in Seq(LLMEvents)
      /\ \A x \in AssistantEvents : Append(toAssistant, x) \in Seq(AssistantEvents)
  BY <1>1, AppendProperties
<1>3. /\ <<"suspected", 0>> \in LLMEvents /\ <<"confirmed", 0>> \in LLMEvents
      /\ <<"generate", 0>> \in LLMEvents /\ RelayedEvents \subseteq LLMEvents
      /\ \A c \in Calls : Result(c) \in RelayedEvents /\ Generate(c) \in RelayedEvents
      /\ \A c \in Calls : Result(c) \in AssistantStates /\ Generate(c) \in AssistantStates
      /\ Idle \in AssistantStates /\ \A n \in Nat \ {0} : Reply(n) \in AssistantStates
      /\ "asked" \in CallStates /\ "started" \in CallStates /\ "commit" \in CallStates
      /\ "committed" \in CallStates /\ "append" \in CallStates
      /\ "answered" \in CallStates /\ "done" \in CallStates
      /\ "unanswered" \in CallStates
  BY DEF LLMEvents, RelayedEvents, AssistantStates, CallStates
<1>4. CASE HandleSuspected \/ TimerFires \/ HandleInterim
  BY <1>1, <1>2, <1>3, <1>4 DEF FlowTypes, HandleSuspected, TimerFires, HandleInterim,
       turnVars, callVars
<1>5. CASE HandleFinal \/ UserAppends \/ UserGenerates
  BY <1>1, <1>2, <1>3, <1>5 DEF FlowTypes, HandleFinal, UserAppends, UserGenerates,
       turnVars, callVars
<1>6. CASE HandleRelayed
  <2>1. PICK e \in relayed : toLLM' = Append(toLLM, e) /\ relayed' = relayed \ {e}
    BY <1>6 DEF HandleRelayed
  <2> QED
    BY <1>1, <1>2, <1>3, <1>6, <2>1 DEF FlowTypes, HandleRelayed, turnVars, callVars
<1>7. CASE LLMHandles
  <2>1. toLLM' \in Seq(LLMEvents)
    <3>1. toLLM # <<>> /\ toLLM' = Tail(toLLM)
      BY <1>7 DEF LLMHandles
    <3> QED
      BY <1>1, <3>1, TailIn
  <2>2. UNCHANGED <<relayed, assistant>>
    BY <1>7, LLMHandlesCases
  <2>3. toAssistant' \in Seq(AssistantEvents)
    BY <1>1, <1>2, <1>7, LLMHandlesCases, AssistantEventsAre
  <2>4. call' \in [Calls -> CallStates]
    BY <1>1, <1>3, <1>7, LLMHandlesCases
  <2> QED
    BY <1>1, <2>1, <2>2, <2>3, <2>4 DEF FlowTypes
<1>8. ASSUME NEW c \in Calls, RequestTool(c)
      PROVE  FlowTypes'
  <2>1. toAssistant' = Append(toAssistant, Request(c))
    BY <1>8 DEF RequestTool, Request
  <2> QED
    BY <1>1, <1>2, <1>3, <1>8, <2>1, AssistantEventsAre DEF FlowTypes, RequestTool,
         turnVars
<1>9. CASE CompletionEnds
  <2>1. toAssistant' = toAssistant
        \/ \E r \in {0, completions + 1} : toAssistant' = Append(toAssistant, Reply(r))
    BY <1>9 DEF CompletionEnds, Reply
  <2>2. completions + 1 \in Nat /\ 0 \in Nat
    BY DEF CounterTypes
  <2>3. toAssistant' \in Seq(AssistantEvents)
    BY <1>1, <1>2, <2>1, <2>2, AssistantEventsAre
  <2> QED
    BY <1>1, <1>9, <2>3 DEF FlowTypes, CompletionEnds, turnVars, callVars
<1>10. CASE HandleStarted \/ HandleConfirmed
  <2>1. toAssistant' \in Seq(AssistantEvents)
    BY <1>10, TakesCases DEF HandleStarted, HandleConfirmed
  <2> QED
    BY <1>1, <1>10, <2>1 DEF FlowTypes, HandleStarted, HandleConfirmed, callVars
<1>11. CASE HandleCompleted
  <2>1. toAssistant' \in Seq(AssistantEvents) /\ \E n \in Nat : Head(toAssistant) = Reply(n)
    BY <1>11, TakesCases DEF HandleCompleted
  <2>2. PICK n \in Nat : Head(toAssistant) = Reply(n)
    BY <2>1
  <2>3. Head(toAssistant)[2] = n
    BY <2>2, Kinds1
  <2>4. assistant' = assistant \/ (assistant' = Reply(n) /\ n # 0)
    <3>1. \/ assistant' = assistant
          \/ assistant' = Head(toAssistant) /\ Head(toAssistant)[2] # 0
      BY <1>11 DEF HandleCompleted
    <3> QED
      BY <2>2, <2>3, <3>1
  <2> QED
    BY <1>1, <1>3, <1>11, <2>1, <2>4 DEF FlowTypes, HandleCompleted, callVars
<1>12. CASE HandleRequest
  <2>1. toAssistant' \in Seq(AssistantEvents)
    BY <1>12, TakesCases DEF HandleRequest
  <2> QED
    BY <1>1, <1>3, <1>12, <2>1 DEF FlowTypes, HandleRequest, turnVars
<1>13. CASE HandleResult
  <2>1. toAssistant' \in Seq(AssistantEvents)
          /\ \E c \in Calls : Head(toAssistant) = Result(c)
    BY <1>13, TakesCases DEF HandleResult
  <2>2. PICK c \in Calls : Head(toAssistant) = Result(c)
    BY <2>1
  <2>3. Head(toAssistant)[2] = c
    BY <2>2, Kinds1
  <2>4. assistant' = Result(c) \/ assistant' = Generate(c)
    BY <1>13, <2>2, <2>3 DEF HandleResult, ResultWithoutText, Generate
  <2> QED
    BY <1>1, <1>3, <1>13, <2>1, <2>4 DEF FlowTypes, HandleResult, callVars
<1>14. CASE AssistantAppends
  <2>1. assistant' = Idle \/ \E c \in Calls : assistant' = Generate(c)
    <3>1. assistant[1] = "completed" \/ assistant[1] = "result"
      BY <1>14 DEF AssistantAppends
    <3>2. assistant[1] = "result" => \E c \in Calls : assistant = Result(c)
      BY <1>1, <1>14, Kinds1 DEF AssistantAppends, AssistantStates, RelayedEvents
    <3> QED
      BY <1>14, <3>1, <3>2, Kinds1 DEF AssistantAppends, Generate
  <2> QED
    BY <1>1, <1>3, <1>14, <2>1 DEF FlowTypes, AssistantAppends, callVars
<1>15. CASE AssistantGenerates
  <2>1. \E c \in Calls : assistant = Generate(c)
    BY <1>1, <1>15, Kinds1 DEF AssistantGenerates, AssistantStates, RelayedEvents
  <2> QED
    BY <1>1, <1>3, <1>15, <2>1 DEF FlowTypes, AssistantGenerates, callVars
<1>16. ASSUME NEW c \in Calls, ServerAnswers(c) \/ ToolReturns(c)
       PROVE  FlowTypes'
  BY <1>1, <1>3, <1>16 DEF FlowTypes, ServerAnswers, ToolReturns, ToolOnly,
       turnVars, Result
<1>17. ASSUME NEW c \in Calls,
              ToolUnknown(c) \/ ToolStartsAppend(c) \/ ToolCommits(c)
                \/ ToolAppends(c)
       PROVE  FlowTypes'
  BY <1>1, <1>3, <1>17 DEF FlowTypes, ToolUnknown, ToolStartsAppend, ToolCommits,
       ToolAppends, ToolOnly, turnVars
<1> QED
  BY <1>4, <1>5, <1>6, <1>7, <1>8, <1>9, <1>10, <1>11, <1>12, <1>13, <1>14, <1>15,
     <1>16, <1>17 DEF AggregatorNext, UserLoop, AssistantLoop, ToolStep

-----------------------------------------------------------------------------
(* The aggregators: user messages and replies.                             *)

\* What a step adds to the history of messages.
LEMMA WrittenStep ==
  ASSUME AggregatorInv, AggregatorNext
  PROVE  \/ UNCHANGED written
         \/ UserAppends /\ written' = written \cup {UserMessage(finals)}
         \/ AssistantAppends /\ written' = written \cup {assistant}
         \/ \E c \in Calls : ToolCommits(c) /\ written' = written \cup {Phrase(c)}
         \/ \E c \in Calls : ToolAppends(c) /\ written' = written \cup {Result(c)}
<1>1. CASE \/ HandleSuspected \/ TimerFires \/ HandleInterim \/ HandleFinal
           \/ UserGenerates \/ HandleRelayed \/ LLMHandles \/ CompletionEnds
  BY <1>1 DEF HandleSuspected, TimerFires, HandleInterim, HandleFinal,
       UserGenerates,
       HandleRelayed, LLMHandles, CompletionEnds, AppendReads, contextVars
<1>2. CASE \/ HandleStarted \/ HandleConfirmed \/ HandleCompleted \/ HandleRequest
           \/ HandleResult \/ AssistantGenerates
  BY <1>2 DEF HandleStarted, HandleConfirmed, HandleCompleted, HandleRequest,
       HandleResult,
       ResultWithoutText, AssistantGenerates, AppendReads, contextVars
<1>3. ASSUME NEW c \in Calls, \/ RequestTool(c) \/ ServerAnswers(c) \/ ToolReturns(c)
                              \/ ToolUnknown(c) \/ ToolStartsAppend(c)
      PROVE  UNCHANGED written
  BY <1>3 DEF RequestTool, ServerAnswers, ToolReturns, ToolUnknown,
       ToolStartsAppend,
       AppendReads, contextVars
<1>4. CASE UserAppends
  BY <1>4 DEF UserAppends, AppendWrites, Recorded, UserMessage
<1>5. CASE AssistantAppends
  BY <1>5 DEF AssistantAppends, AppendWrites, Recorded
<1>6. ASSUME NEW c \in Calls
      PROVE  /\ ToolCommits(c) => written' = written \cup {Phrase(c)}
             /\ ToolAppends(c) => written' = written \cup {Result(c)}
  BY DEF ToolCommits, ToolAppends, AppendWrites, Recorded, Phrase, Result
<1> QED
  BY <1>1, <1>2, <1>3, <1>4, <1>5, <1>6 DEF AggregatorNext, UserLoop, AssistantLoop,
       ToolStep

\* The aggregator holds no user message.
LEMMA AssistantMessage ==
  ASSUME AggregatorInv, AssistantAppends
  PROVE  \/ \E n \in Nat \ {0} : assistant = Reply(n) /\ assistant' = Idle
         \/ \E c \in Calls : assistant = Result(c) /\ assistant' = Generate(c)
<1>1. assistant \in AssistantStates /\ assistant # Idle
      /\ (assistant[1] = "completed" \/ assistant[1] = "result")
      /\ assistant' = IF assistant[1] = "completed" THEN Idle
                      ELSE <<"generate", assistant[2]>>
  BY DEF AggregatorInv, FlowTypes, AssistantAppends
<1>2. \/ \E n \in Nat \ {0} : assistant = Reply(n)
      \/ \E c \in Calls : assistant = Result(c)
  BY <1>1, Kinds1 DEF AssistantStates, RelayedEvents
<1>3. ASSUME NEW n \in Nat \ {0}, assistant = Reply(n)
      PROVE  assistant' = Idle
  BY <1>1, <1>3, Kinds1
<1>4. ASSUME NEW c \in Calls, assistant = Result(c)
      PROVE  assistant' = Generate(c)
  <2>1. assistant[1] = "result" /\ assistant[2] = c
    BY <1>4, Kinds1
  <2> QED
    BY <1>1, <2>1 DEF Generate
<1> QED
  BY <1>2, <1>3, <1>4

\* User messages are written in the order of the utterances, each once.
LEMMA UserStep ==
  ASSUME AggregatorInv, AggregatorNext
  PROVE  UserInv'
<1>1. UserInv /\ finals \in Nat
  BY DEF AggregatorInv, CounterTypes
<1>2. CASE HandleFinal
  <2>1. finals' = finals + 1 /\ written' = written
    BY <1>2 DEF HandleFinal, AppendReads
  <2> QED
    BY <1>1, <2>1 DEF UserInv
<1>3. CASE UserAppends
  <2>1. /\ finals' = finals /\ user' = "generate"
        /\ written' = written \cup {UserMessage(finals)}
    BY <1>3 DEF UserAppends, AppendWrites, Recorded, UserMessage
  <2>2. \A n \in Nat : UserMessage(n) \in written' => n <= finals
    BY <1>1, <2>1, DistinctReplies DEF UserInv
  <2> QED
    BY <2>1, <2>2 DEF UserInv
<1>4. ASSUME finals' = finals, user' = "append" => user = "append",
             \A n \in Nat : UserMessage(n) \in written' => UserMessage(n) \in written
      PROVE  UserInv'
  BY <1>1, <1>4 DEF UserInv
<1>5. CASE AssistantAppends
  <2>1. \A n \in Nat : assistant # UserMessage(n)
    BY <1>5, AssistantMessage, Kinds1
  <2>2. written' = written \cup {assistant} /\ finals' = finals /\ user' = user
    BY <1>5 DEF AssistantAppends, AppendWrites, Recorded, userVars
  <2> QED
    BY <1>4, <2>1, <2>2
<1>6. ASSUME NEW c \in Calls, ToolCommits(c) \/ ToolAppends(c)
      PROVE  UserInv'
  <2>1. /\ finals' = finals /\ user' = user
        /\ \/ written' = written \cup {Phrase(c)}
           \/ written' = written \cup {Result(c)}
    BY <1>6 DEF ToolCommits, ToolAppends, AppendWrites, Recorded, Phrase, Result,
         ToolOnly, userVars
  <2>2. \A n \in Nat : UserMessage(n) # Phrase(c) /\ UserMessage(n) # Result(c)
    BY Kinds1
  <2> QED
    BY <1>4, <2>1, <2>2
<1>7. CASE UNCHANGED written
  <2>1. HandleFinal \/ UNCHANGED <<finals, user>> \/ (UNCHANGED finals /\ user' = "idle")
    <3>1. CASE HandleSuspected \/ TimerFires \/ HandleInterim \/ UserGenerates
      BY <3>1 DEF HandleSuspected, TimerFires, HandleInterim, UserGenerates
    <3>2. CASE HandleRelayed \/ LLMHandles \/ CompletionEnds \/ AssistantLoop
      BY <3>2 DEF HandleRelayed, LLMHandles, CompletionEnds, AssistantLoop,
           HandleStarted,
           HandleConfirmed, HandleCompleted, HandleRequest, HandleResult,
           AssistantAppends,
           AssistantGenerates, userVars
    <3>3. ASSUME NEW c \in Calls, RequestTool(c) \/ ServerAnswers(c) \/ ToolStep(c)
          PROVE  UNCHANGED <<finals, user>>
      BY <3>3 DEF RequestTool, ServerAnswers, ToolStep, ToolReturns, ToolUnknown,
           ToolStartsAppend, ToolCommits, ToolAppends, ToolOnly, userVars
    <3>4. CASE UserAppends
      <4>1. finals \in Nat /\ ~(finals < finals)
        BY <1>1
      <4>2. UserMessage(finals) \notin written
        BY <1>1, <3>4, <4>1 DEF UserInv, UserAppends
      <4>3. UserMessage(finals) \in written'
        BY <3>4 DEF UserAppends, AppendWrites, Recorded, UserMessage
      <4> QED
        BY <1>7, <4>2, <4>3
    <3> QED
      BY <3>1, <3>2, <3>3, <3>4 DEF AggregatorNext, UserLoop
  <2> QED
    BY <1>2, <1>4, <1>7, <2>1
<1> QED
  BY <1>3, <1>5, <1>6, <1>7, WrittenStep

\* A reply goes from the completion to the aggregator and from there to the
\* context, and is never in two places.
LEMMA ReplyStep ==
  ASSUME AggregatorInv, AggregatorNext, NEW n \in Nat \ {0}
  PROVE  ReplyInv(n)'
<1>1. /\ ReplyInv(n) /\ toAssistant \in Seq(AssistantEvents) /\ completions \in Nat
  BY DEF AggregatorInv, FlowTypes, CounterTypes
<1>2. ASSUME NEW x \in AssistantEvents, x # Reply(n), toAssistant' = Append(toAssistant, x),
             UNCHANGED <<written, assistant, completions>>
      PROVE  ReplyInv(n)'
  <2>1. /\ In(toAssistant', Reply(n)) <=> In(toAssistant, Reply(n))
        /\ Once(toAssistant, Reply(n)) => Once(toAssistant', Reply(n))
    BY <1>1, <1>2, AppendIn
  <2> QED
    BY <1>1, <1>2, <2>1 DEF ReplyInv
<1>3. ASSUME UNCHANGED <<toAssistant, completions>>,
             assistant' = assistant \/ assistant' # Reply(n),
             Reply(n) \in written' => Reply(n) \in written
      PROVE  ReplyInv(n)'
  BY <1>1, <1>3 DEF ReplyInv
<1>4. ASSUME toAssistant # <<>>, toAssistant' = Tail(toAssistant),
             UNCHANGED <<written, completions>>,
             assistant' = assistant \/ assistant' # Reply(n)
      PROVE  ReplyInv(n)'
  <2>1. /\ In(toAssistant', Reply(n)) => In(toAssistant, Reply(n))
        /\ Once(toAssistant, Reply(n)) => Once(toAssistant', Reply(n))
    BY <1>1, <1>4, TailIn
  <2> QED
    BY <1>1, <1>4, <2>1 DEF ReplyInv
<1>5. CASE \/ HandleSuspected \/ TimerFires \/ HandleInterim \/ HandleFinal
           \/ UserGenerates \/ HandleRelayed
  <2>1. UNCHANGED <<toAssistant, completions, assistant, written>>
    BY <1>5 DEF HandleSuspected, TimerFires, HandleInterim, HandleFinal,
         UserGenerates,
         HandleRelayed, AppendReads, contextVars, llmVars, turnVars
  <2> QED
    BY <1>3, <2>1
<1>6. CASE UserAppends
  <2>1. UNCHANGED <<toAssistant, completions, assistant>>
        /\ written' = written \cup {UserMessage(finals)}
    BY <1>6 DEF UserAppends, AppendWrites, Recorded, UserMessage, llmVars, turnVars
  <2> QED
    BY <1>3, <2>1, DistinctReplies
<1>7. CASE LLMHandles
  <2>1. UNCHANGED <<written, assistant, completions>>
        /\ \/ UNCHANGED toAssistant
           \/ toAssistant' = Append(toAssistant, <<"confirmed", 0>>)
           \/ toAssistant' = Append(toAssistant, <<"started", 0>>)
           \/ \E c \in Calls : toAssistant' = Append(toAssistant, Result(c))
    BY <1>7, LLMHandlesCases
  <2>2. /\ Reply(n) # <<"confirmed", 0>> /\ Reply(n) # <<"started", 0>>
        /\ \A c \in Calls : Reply(n) # Result(c)
    BY DistinctReplies, Kinds1
  <2> QED
    BY <1>2, <1>3, <2>1, <2>2, AssistantEventsAre
<1>8. ASSUME NEW c \in Calls, RequestTool(c)
      PROVE  ReplyInv(n)'
  <2>1. UNCHANGED <<written, assistant, completions>>
        /\ toAssistant' = Append(toAssistant, Request(c))
    BY <1>8 DEF RequestTool, Request, contextVars, llmVars, turnVars
  <2>2. Request(c) # Reply(n)
    BY Kinds1
  <2> QED
    BY <1>2, <2>1, <2>2, AssistantEventsAre
<1>9. CASE CompletionEnds
  <2>1. /\ UNCHANGED <<written, assistant>> /\ completions' = completions + 1
        /\ \/ toAssistant' = toAssistant
           \/ toAssistant' = Append(toAssistant, Reply(0))
           \/ toAssistant' = Append(toAssistant, Reply(completions + 1))
    BY <1>9 DEF CompletionEnds, Reply, contextVars, turnVars
  <2>2. /\ n <= completions => n <= completions + 1
        /\ n = completions + 1 => ~(n <= completions) /\ n <= completions + 1
        /\ 0 \in Nat /\ completions + 1 \in Nat
    BY <1>1
  <2>3. Reply(0) \in AssistantEvents /\ Reply(completions + 1) \in AssistantEvents
    BY <2>2, AssistantEventsAre
  <2>4. CASE toAssistant' = toAssistant
    BY <1>1, <2>1, <2>2, <2>4 DEF ReplyInv
  <2>5. CASE toAssistant' = Append(toAssistant, Reply(0))
    <3>1. Reply(0) # Reply(n)
      BY DistinctReplies
    <3>2. /\ In(toAssistant', Reply(n)) <=> In(toAssistant, Reply(n))
          /\ Once(toAssistant, Reply(n)) => Once(toAssistant', Reply(n))
      BY <1>1, <2>3, <2>5, <3>1, AppendIn
    <3> QED
      BY <1>1, <2>1, <2>2, <3>2 DEF ReplyInv
  <2>6. CASE toAssistant' = Append(toAssistant, Reply(completions + 1))
          /\ n # completions + 1
    <3>1. Reply(completions + 1) # Reply(n)
      BY <2>6, DistinctReplies
    <3>2. /\ In(toAssistant', Reply(n)) <=> In(toAssistant, Reply(n))
          /\ Once(toAssistant, Reply(n)) => Once(toAssistant', Reply(n))
      BY <1>1, <2>3, <2>6, <3>1, AppendIn
    <3> QED
      BY <1>1, <2>1, <2>2, <3>2 DEF ReplyInv
  <2>7. CASE toAssistant' = Append(toAssistant, Reply(completions + 1))
          /\ n = completions + 1
    <3>1. ~In(toAssistant, Reply(n)) /\ assistant # Reply(n) /\ Reply(n) \notin written
      BY <1>1, <2>2, <2>7 DEF ReplyInv
    <3>2. /\ Once(toAssistant, Reply(n)) => Once(toAssistant', Reply(n))
      BY <1>1, <2>3, <2>7, <3>1, AppendIn
    <3> QED
      BY <1>1, <2>1, <2>2, <2>7, <3>1, <3>2 DEF ReplyInv
  <2> QED
    BY <2>1, <2>4, <2>5, <2>6, <2>7
<1>10. CASE HandleStarted \/ HandleConfirmed \/ HandleRequest
  <2>1. /\ toAssistant # <<>> /\ toAssistant' = Tail(toAssistant)
        /\ UNCHANGED <<written, completions, assistant>>
    BY <1>10 DEF HandleStarted, HandleConfirmed, HandleRequest, Takes,
         contextVars,
         llmVars, turnVars
  <2> QED
    BY <1>4, <2>1
<1>11. CASE HandleResult
  <2>1. /\ toAssistant # <<>> /\ toAssistant' = Tail(toAssistant)
        /\ UNCHANGED <<written, completions>>
    BY <1>11 DEF HandleResult, Takes, AppendReads, ResultWithoutText,
         contextVars, llmVars
  <2>2. PICK c \in Calls : Head(toAssistant) = Result(c)
    BY <1>11, TakesCases DEF HandleResult
  <2>3. assistant' = Result(c) \/ assistant' = Generate(c)
    BY <1>11, <2>2, Kinds1 DEF HandleResult, ResultWithoutText, Generate
  <2>4. assistant' # Reply(n)
    BY <2>3, Kinds1
  <2> QED
    BY <1>4, <2>1, <2>4
<1>12. CASE HandleCompleted
  <2>1. /\ toAssistant # <<>> /\ toAssistant' = Tail(toAssistant)
        /\ UNCHANGED <<written, completions>>
        /\ assistant' = assistant \/ assistant' = Head(toAssistant)
    BY <1>12 DEF HandleCompleted, Takes, AppendReads, contextVars, llmVars
  <2>2. CASE assistant' = assistant \/ assistant' # Reply(n)
    BY <1>4, <2>1, <2>2
  <2>3. CASE assistant' = Reply(n) /\ Head(toAssistant) = Reply(n)
    <3>1. /\ In(toAssistant, Reply(n)) /\ ~In(toAssistant', Reply(n))
          /\ Once(toAssistant', Reply(n))
      BY <1>1, <2>1, <2>3, TailIn DEF ReplyInv
    <3> QED
      BY <1>1, <2>1, <2>3, <3>1 DEF ReplyInv
  <2> QED
    BY <2>1, <2>2, <2>3
<1>13. CASE AssistantAppends
  <2>1. /\ UNCHANGED <<toAssistant, completions>> /\ written' = written \cup {assistant}
    BY <1>13 DEF AssistantAppends, AppendWrites, Recorded, llmVars
  <2>2. assistant' # Reply(n)
    BY <1>13, AssistantMessage, Kinds1, DistinctReplies
  <2>3. CASE assistant # Reply(n)
    BY <1>3, <2>1, <2>2, <2>3
  <2>4. CASE assistant = Reply(n)
    BY <1>1, <2>1, <2>2, <2>4 DEF ReplyInv
  <2> QED
    BY <2>3, <2>4
<1>14. CASE AssistantGenerates
  <2>1. UNCHANGED <<toAssistant, completions, written>> /\ assistant' = Idle
    BY <1>14 DEF AssistantGenerates, contextVars, llmVars
  <2> QED
    BY <1>3, <2>1, DistinctReplies
<1>15. ASSUME NEW c \in Calls, ServerAnswers(c) \/ ToolStep(c)
       PROVE  ReplyInv(n)'
  <2>1. UNCHANGED <<toAssistant, completions, assistant>>
        /\ \/ UNCHANGED written \/ written' = written \cup {Phrase(c)}
           \/ written' = written \cup {Result(c)}
    BY <1>15 DEF ServerAnswers, ToolStep, ToolReturns, ToolUnknown,
         ToolStartsAppend,
         ToolCommits, ToolAppends, AppendReads, AppendWrites, Recorded, ToolOnly,
         contextVars,
         llmVars, turnVars, Phrase, Result
  <2>2. Reply(n) # Phrase(c) /\ Reply(n) # Result(c)
    BY Kinds1
  <2> QED
    BY <1>3, <2>1, <2>2
<1> QED
  BY <1>5, <1>6, <1>7, <1>8, <1>9, <1>10, <1>11, <1>12, <1>13, <1>14, <1>15
     DEF AggregatorNext, UserLoop, AssistantLoop

-----------------------------------------------------------------------------
(* The aggregators: tool calls.                                            *)

\* The first half of the steps: the user aggregator, the LLM handler and the
\* completions.
LEMMA CallStepUpstream ==
  ASSUME AggregatorInv, NEW c \in Calls,
         \/ HandleSuspected \/ TimerFires \/ HandleInterim \/ HandleFinal
         \/ UserAppends \/ UserGenerates \/ HandleRelayed \/ LLMHandles
              \/ CompletionEnds
         \/ \E d \in Calls : RequestTool(d)
  PROVE  CallInv(c)'
<1>1. /\ CallInv(c) /\ toLLM \in Seq(LLMEvents) /\ toAssistant \in Seq(AssistantEvents)
      /\ relayed \subseteq RelayedEvents /\ call \in [Calls -> CallStates]
  BY DEF AggregatorInv, FlowTypes
<1>2. ASSUME UNCHANGED <<toLLM, toAssistant, relayed, assistant, call>>,
             Result(c) \in written' => Result(c) \in written,
             Phrase(c) \in written' => Phrase(c) \in written
      PROVE  CallInv(c)'
  BY <1>1, <1>2 DEF CallInv, ResultOnce, CallOrder
<1>3. ASSUME NEW x \in LLMEvents, x # Result(c), x # Generate(c),
             toLLM' = Append(toLLM, x),
             UNCHANGED <<toAssistant, relayed, assistant, call, written>>
      PROVE  CallInv(c)'
  <2>1. /\ In(toLLM', Result(c)) <=> In(toLLM, Result(c))
        /\ In(toLLM', Generate(c)) <=> In(toLLM, Generate(c))
        /\ Once(toLLM, Result(c)) => Once(toLLM', Result(c))
    BY <1>1, <1>3, AppendIn
  <2> QED
    BY <1>1, <1>3, <2>1 DEF CallInv, ResultOnce, CallOrder
<1>4. ASSUME NEW x \in AssistantEvents, x # Result(c), x # Request(c),
             toAssistant' = Append(toAssistant, x),
             UNCHANGED <<toLLM, relayed, assistant, call, written>>
      PROVE  CallInv(c)'
  <2>1. /\ In(toAssistant', Result(c)) <=> In(toAssistant, Result(c))
        /\ In(toAssistant', Request(c)) <=> In(toAssistant, Request(c))
        /\ Once(toAssistant, Result(c)) => Once(toAssistant', Result(c))
        /\ Once(toAssistant, Request(c)) => Once(toAssistant', Request(c))
    BY <1>1, <1>4, AppendIn
  <2> QED
    BY <1>1, <1>4, <2>1 DEF CallInv, ResultOnce, CallOrder
<1>5. /\ <<"suspected", 0>> # Result(c) /\ <<"suspected", 0>> # Generate(c)
      /\ <<"confirmed", 0>> # Result(c) /\ <<"confirmed", 0>> # Generate(c)
      /\ <<"confirmed", 0>> # Request(c)
      /\ <<"generate", 0>> # Result(c) /\ <<"generate", 0>> # Generate(c)
      /\ <<"started", 0>> # Result(c) /\ <<"started", 0>> # Request(c)
  BY Kinds1
<1>6. CASE HandleSuspected \/ HandleInterim \/ UserGenerates
  <2>1. /\ UNCHANGED <<toAssistant, relayed, assistant, call, written>>
        /\ \/ toLLM' = Append(toLLM, <<"suspected", 0>>)
           \/ toLLM' = Append(toLLM, <<"confirmed", 0>>)
           \/ toLLM' = Append(toLLM, <<"generate", 0>>)
    BY <1>6 DEF HandleSuspected, HandleInterim, UserGenerates, contextVars,
         turnVars, callVars
  <2> QED
    BY <1>3, <1>5, <2>1, LLMEventsAre
<1>7. CASE TimerFires \/ HandleFinal
  <2>1. UNCHANGED <<toLLM, toAssistant, relayed, assistant, call, written>>
    BY <1>7 DEF TimerFires, HandleFinal, AppendReads, contextVars, turnVars,
         callVars
  <2> QED
    BY <1>2, <2>1
<1>8. CASE UserAppends
  <2>1. /\ UNCHANGED <<toLLM, toAssistant, relayed, assistant, call>>
        /\ written' = written \cup {UserMessage(finals)}
    BY <1>8 DEF UserAppends, AppendWrites, Recorded, UserMessage, turnVars, callVars
  <2>2. UserMessage(finals) # Result(c) /\ UserMessage(finals) # Phrase(c)
    BY Kinds1
  <2> QED
    BY <1>2, <2>1, <2>2
<1>9. CASE HandleRelayed
  <2>1. PICK e \in relayed : toLLM' = Append(toLLM, e) /\ relayed' = relayed \ {e}
    BY <1>9 DEF HandleRelayed
  <2>2. UNCHANGED <<toAssistant, assistant, call, written>>
    BY <1>9 DEF HandleRelayed, contextVars, turnVars, callVars
  <2>3. e \in LLMEvents
    BY <1>1, <2>1, LLMEventsAre
  <2>4. /\ In(toLLM', Result(c)) <=> In(toLLM, Result(c)) \/ e = Result(c)
        /\ In(toLLM', Generate(c)) <=> In(toLLM, Generate(c)) \/ e = Generate(c)
        /\ Once(toLLM, Result(c)) /\ (e # Result(c) \/ ~In(toLLM, Result(c)))
             => Once(toLLM', Result(c))
    BY <1>1, <2>1, <2>3, AppendIn
  <2> QED
    BY <1>1, <2>1, <2>2, <2>4 DEF CallInv, ResultOnce, CallOrder
<1>10. CASE LLMHandles
  <2>1. /\ toLLM # <<>> /\ toLLM' = Tail(toLLM)
        /\ UNCHANGED <<written, assistant, relayed>>
    BY <1>10, LLMHandlesCases
  <2>2. /\ In(toLLM', Result(c)) => In(toLLM, Result(c)) /\ Head(toLLM) # Result(c)
        /\ In(toLLM', Generate(c)) => In(toLLM, Generate(c))
        /\ Once(toLLM', Result(c)) /\ In(toLLM, Head(toLLM))
    BY <1>1, <2>1, TailIn DEF CallInv, ResultOnce
  <2>3. ASSUME UNCHANGED <<call, toAssistant>>
        PROVE  CallInv(c)'
    BY <1>1, <2>1, <2>2, <2>3 DEF CallInv, ResultOnce, CallOrder
  <2>4. ASSUME NEW x \in AssistantEvents, x # Result(c), x # Request(c),
               toAssistant' = Append(toAssistant, x),
               \/ call'[c] = call[c]
               \/ call'[c] = "done" /\ call[c] \in {"answered", "done"}
        PROVE  CallInv(c)'
    <3>1. /\ In(toAssistant', Result(c)) <=> In(toAssistant, Result(c))
          /\ In(toAssistant', Request(c)) <=> In(toAssistant, Request(c))
          /\ Once(toAssistant, Result(c)) => Once(toAssistant', Result(c))
          /\ Once(toAssistant, Request(c)) => Once(toAssistant', Request(c))
      BY <1>1, <2>4, AppendIn
    <3> QED
      BY <1>1, <2>1, <2>2, <2>4, <3>1 DEF CallInv, ResultOnce, CallOrder
  <2>5. ASSUME Head(toLLM) = Result(c), UNCHANGED call,
               toAssistant' = Append(toAssistant, Result(c))
        PROVE  CallInv(c)'
    <3>1. Result(c) # Request(c) /\ Result(c) \in AssistantEvents
      BY Kinds1, AssistantEventsAre
    <3>2. In(toLLM, Result(c)) /\ ~In(toLLM', Result(c)) /\ ~In(toAssistant, Result(c))
      BY <1>1, <2>2, <2>5 DEF CallInv, ResultOnce
    <3>3. /\ In(toAssistant', Result(c))
          /\ In(toAssistant', Request(c)) <=> In(toAssistant, Request(c))
          /\ Once(toAssistant, Result(c)) => Once(toAssistant', Result(c))
          /\ Once(toAssistant, Request(c)) => Once(toAssistant', Request(c))
      BY <1>1, <2>5, <3>1, <3>2, AppendIn
    <3> QED
      BY <1>1, <2>1, <2>2, <2>5, <3>2, <3>3 DEF CallInv, ResultOnce, CallOrder
  <2>6. ASSUME NEW d \in Calls, Head(toLLM) = Generate(d),
  call' = [call EXCEPT ![d] = "done"]
        PROVE  \/ call'[c] = call[c]
               \/ call'[c] = "done" /\ call[c] \in {"answered", "done"}
    BY <1>1, <2>2, <2>6 DEF CallInv, CallOrder
  <2>7. ASSUME NEW d \in Calls, Head(toLLM) = Result(d), UNCHANGED call,
               toAssistant' = Append(toAssistant, Result(d))
        PROVE  CallInv(c)'
    <3>1. CASE d = c
      BY <2>5, <2>7, <3>1
    <3>2. CASE d # c
      <4>1. Result(d) # Result(c) /\ Result(d) # Request(c) /\ Result(d) \in AssistantEvents
        BY <3>2, Kinds1, AssistantEventsAre
      <4> QED
        BY <2>4, <2>7, <4>1
    <3> QED
      BY <3>1, <3>2
  <2>8. ASSUME NEW d \in Calls, Head(toLLM) = Generate(d),
  call' = [call EXCEPT ![d] = "done"],
               toAssistant' = Append(toAssistant, <<"started", 0>>)
        PROVE  CallInv(c)'
    BY <1>5, <2>4, <2>6, <2>8, AssistantEventsAre
  <2>9. ASSUME UNCHANGED call, \/ toAssistant' = Append(toAssistant, <<"started", 0>>)
                               \/ toAssistant' = Append(toAssistant, <<"confirmed", 0>>)
        PROVE  CallInv(c)'
    BY <1>5, <2>4, <2>9, AssistantEventsAre
  <2> QED
    BY <1>10, <2>3, <2>7, <2>8, <2>9, LLMHandlesCases
<1>11. CASE CompletionEnds
  <2>1. UNCHANGED <<toLLM, relayed, assistant, call, written>>
    BY <1>11 DEF CompletionEnds, contextVars, turnVars, callVars
  <2>2. \/ toAssistant' = toAssistant
        \/ toAssistant' = Append(toAssistant, Reply(0))
        \/ toAssistant' = Append(toAssistant, Reply(completions + 1))
    BY <1>11 DEF CompletionEnds, Reply
  <2>3. 0 \in Nat /\ completions + 1 \in Nat
    BY DEF AggregatorInv, CounterTypes
  <2>4. \A n \in Nat : Reply(n) \in AssistantEvents /\ Reply(n) # Result(c)
                       /\ Reply(n) # Request(c)
    BY Kinds1, AssistantEventsAre
  <2> QED
    BY <1>2, <1>4, <2>1, <2>2, <2>3, <2>4
<1>12. ASSUME NEW d \in Calls, RequestTool(d)
       PROVE  CallInv(c)'
  <2>1. /\ UNCHANGED <<toLLM, relayed, assistant, written>>
        /\ toAssistant' = Append(toAssistant, Request(d))
        /\ call[d] = "none" /\ call' = [call EXCEPT ![d] = "asked"]
    BY <1>12 DEF RequestTool, Request, contextVars, turnVars
  <2>2. Request(d) \in AssistantEvents /\ Request(d) # Result(c)
    BY Kinds1, AssistantEventsAre
  <2>3. Request(d) = Request(c) => d = c
    BY Kinds1
  <2>4. /\ In(toAssistant', Result(c)) <=> In(toAssistant, Result(c))
        /\ In(toAssistant', Request(c)) <=> In(toAssistant, Request(c)) \/ d = c
        /\ Once(toAssistant, Result(c)) => Once(toAssistant', Result(c))
        /\ Once(toAssistant, Request(c)) /\ (d # c \/ ~In(toAssistant, Request(c)))
             => Once(toAssistant', Request(c))
    BY <1>1, <2>1, <2>2, <2>3, AppendIn
  <2>5. CASE d = c
    <3>1. call[c] = "none" /\ call'[c] = "asked"
      BY <1>1, <2>1, <2>5
    <3> QED
      BY <1>1, <2>1, <2>4, <2>5, <3>1 DEF CallInv, ResultOnce, CallOrder
  <2>6. CASE d # c
    <3>1. call'[c] = call[c]
      BY <1>1, <2>1, <2>6
    <3> QED
      BY <1>1, <2>1, <2>4, <2>6, <3>1 DEF CallInv, ResultOnce, CallOrder
  <2> QED
    BY <2>5, <2>6
<1> QED
  BY <1>6, <1>7, <1>8, <1>9, <1>10, <1>11, <1>12

\* The second half: the assistant aggregator and the goroutines of the calls.
LEMMA CallStepDownstream ==
  ASSUME AggregatorInv, NEW c \in Calls,
         AssistantLoop \/ \E d \in Calls : ServerAnswers(d) \/ ToolStep(d)
  PROVE  CallInv(c)'
<1>1. /\ CallInv(c) /\ toLLM \in Seq(LLMEvents) /\ toAssistant \in Seq(AssistantEvents)
      /\ relayed \subseteq RelayedEvents /\ call \in [Calls -> CallStates]
  BY DEF AggregatorInv, FlowTypes
<1>2. ASSUME toAssistant # <<>>, toAssistant' = Tail(toAssistant)
      PROVE  /\ In(toAssistant, Head(toAssistant))
             /\ In(toAssistant', Result(c)) =>
                  In(toAssistant, Result(c)) /\ Head(toAssistant) # Result(c)
             /\ In(toAssistant', Request(c)) =>
                  In(toAssistant, Request(c)) /\ Head(toAssistant) # Request(c)
             /\ Once(toAssistant', Result(c)) /\ Once(toAssistant', Request(c))
  BY <1>1, <1>2, TailIn DEF CallInv, ResultOnce, CallOrder
<1>3. ASSUME toAssistant # <<>>, toAssistant' = Tail(toAssistant),
             UNCHANGED <<toLLM, relayed, call, written>>,
             assistant' # Result(c), assistant' # Generate(c)
      PROVE  CallInv(c)'
  BY <1>1, <1>2, <1>3 DEF CallInv, ResultOnce, CallOrder
<1>4. CASE HandleStarted \/ HandleConfirmed
  <2>1. /\ toAssistant # <<>> /\ toAssistant' = Tail(toAssistant)
        /\ UNCHANGED <<toLLM, relayed, call, written>> /\ assistant' = Idle
    BY <1>4 DEF HandleStarted, HandleConfirmed, Takes, contextVars, callVars
  <2>2. Idle # Result(c) /\ Idle # Generate(c)
    BY Distinct
  <2> QED
    BY <1>3, <2>1, <2>2
<1>5. CASE HandleCompleted
  <2>1. /\ toAssistant # <<>> /\ toAssistant' = Tail(toAssistant)
        /\ UNCHANGED <<toLLM, relayed, call, written>>
        /\ assistant' = Idle \/ assistant' = Head(toAssistant)
    BY <1>5 DEF HandleCompleted, Takes, AppendReads, contextVars, callVars
  <2>2. Idle # Result(c) /\ Idle # Generate(c)
    BY Distinct
  <2>3. PICK n \in Nat : Head(toAssistant) = Reply(n)
    BY <1>5, TakesCases DEF HandleCompleted
  <2>4. Reply(n) # Result(c) /\ Reply(n) # Generate(c)
    BY Kinds1
  <2> QED
    BY <1>3, <2>1, <2>2, <2>3, <2>4
<1>6. CASE HandleRequest
  <2>1. PICK d \in Calls : Head(toAssistant) = Request(d)
    BY <1>6, TakesCases DEF HandleRequest
  <2>2. /\ toAssistant # <<>> /\ toAssistant' = Tail(toAssistant)
        /\ UNCHANGED <<toLLM, relayed, assistant, written>>
        /\ call' = [call EXCEPT ![d] = IF kind[d] = "listen" THEN "done" ELSE "started"]
    <3>1. Head(toAssistant)[2] = d
      BY <2>1, Kinds1
    <3> QED
      BY <1>6, <3>1 DEF HandleRequest, Takes, contextVars, turnVars
  <2>3. CASE d = c
    <3>1. In(toAssistant, Request(c)) /\ ~In(toAssistant', Request(c))
      BY <1>2, <2>1, <2>2, <2>3
    <3>2. call[c] = "asked" /\ (call'[c] = "done" \/ call'[c] = "started")
      BY <1>1, <2>2, <2>3, <3>1 DEF CallInv, CallOrder
    <3> QED
      BY <1>1, <1>2, <2>2, <3>1, <3>2 DEF CallInv, ResultOnce, CallOrder
  <2>4. CASE d # c
    <3>1. call'[c] = call[c]
      BY <1>1, <2>2, <2>4
    <3> QED
      BY <1>1, <1>2, <2>2, <3>1 DEF CallInv, ResultOnce, CallOrder
  <2> QED
    BY <2>3, <2>4
<1>7. CASE HandleResult
  <2>1. PICK d \in Calls : Head(toAssistant) = Result(d)
    BY <1>7, TakesCases DEF HandleResult
  <2>2. /\ toAssistant # <<>> /\ toAssistant' = Tail(toAssistant)
        /\ UNCHANGED <<toLLM, relayed, call, written>>
        /\ assistant' = Result(d) \/ assistant' = Generate(d)
    BY <1>7, <2>1, Kinds1 DEF HandleResult, Takes, AppendReads,
         ResultWithoutText, Generate,
         contextVars, callVars
  <2>3. Result(c) # Generate(c)
    BY Kinds1
  <2>4. CASE d = c
    <3>1. In(toAssistant, Result(c)) /\ ~In(toAssistant', Result(c))
      BY <1>2, <2>1, <2>2, <2>4
    <3> QED
      BY <1>1, <1>2, <2>2, <2>3, <2>4, <3>1 DEF CallInv, ResultOnce, CallOrder
  <2>5. CASE d # c
    <3>1. /\ Result(d) # Result(c) /\ Result(d) # Generate(c)
          /\ Generate(d) # Result(c) /\ Generate(d) # Generate(c)
      BY <2>5, Kinds1
    <3> QED
      BY <1>3, <2>2, <3>1
  <2> QED
    BY <2>4, <2>5
<1>8. CASE AssistantAppends
  <2>1. /\ UNCHANGED <<toLLM, toAssistant, relayed, call>>
        /\ written' = written \cup {assistant}
    BY <1>8 DEF AssistantAppends, AppendWrites, Recorded, callVars
  <2>2. ASSUME NEW n \in Nat, assistant = Reply(n), assistant' = Idle
        PROVE  CallInv(c)'
    <3>1. /\ Reply(n) # Result(c) /\ Reply(n) # Phrase(c)
          /\ Idle # Result(c) /\ Idle # Generate(c)
      BY Kinds1, Distinct
    <3> QED
      BY <1>1, <2>1, <2>2, <3>1 DEF CallInv, ResultOnce, CallOrder
  <2>3. ASSUME NEW d \in Calls, assistant = Result(d), assistant' = Generate(d)
        PROVE  CallInv(c)'
    <3>1. /\ Result(d) # Phrase(c) /\ Generate(d) # Result(c)
      BY Kinds1
    <3>2. CASE d = c
      BY <1>1, <2>1, <2>3, <3>1, <3>2 DEF CallInv, ResultOnce, CallOrder
    <3>3. CASE d # c
      <4>1. Result(d) # Result(c) /\ Generate(d) # Generate(c)
        BY <3>3, Kinds1
      <4> QED
        BY <1>1, <2>1, <2>3, <3>1, <4>1 DEF CallInv, ResultOnce, CallOrder
    <3> QED
      BY <3>2, <3>3
  <2> QED
    BY <1>8, <2>2, <2>3, AssistantMessage
<1>9. CASE AssistantGenerates
  <2>1. /\ UNCHANGED <<toLLM, toAssistant, written, call>> /\ assistant' = Idle
        /\ relayed' = relayed \cup {assistant} /\ assistant[1] = "generate"
    BY <1>9 DEF AssistantGenerates, contextVars, callVars
  <2>2. assistant # Result(c) /\ Idle # Result(c) /\ Idle # Generate(c)
    BY <2>1, Kinds1, Distinct
  <2> QED
    BY <1>1, <2>1, <2>2 DEF CallInv, ResultOnce, CallOrder
<1>10. ASSUME NEW d \in Calls, ServerAnswers(d) \/ ToolReturns(d)
       PROVE  CallInv(c)'
  <2>1. /\ UNCHANGED <<toLLM, toAssistant, assistant, written>>
        /\ call[d] = "started" /\ call' = [call EXCEPT ![d] = "answered"]
        /\ relayed' = relayed \cup {Result(d)}
    BY <1>10 DEF ServerAnswers, ToolReturns, ToolOnly, contextVars, turnVars,
         Result
  <2>2. Result(d) # Generate(c) /\ (Result(d) = Result(c) => d = c)
    BY Kinds1
  <2>3. CASE d = c
    <3>1. call[c] = "started" /\ call'[c] = "answered"
      BY <1>1, <2>1, <2>3
    <3> QED
      BY <1>1, <2>1, <2>2, <2>3, <3>1 DEF CallInv, ResultOnce, CallOrder
  <2>4. CASE d # c
    <3>1. call'[c] = call[c]
      BY <1>1, <2>1, <2>4
    <3> QED
      BY <1>1, <2>1, <2>2, <2>4, <3>1 DEF CallInv, ResultOnce, CallOrder
  <2> QED
    BY <2>3, <2>4
<1>11. ASSUME NEW d \in Calls,
              ToolUnknown(d) \/ ToolStartsAppend(d) \/ ToolCommits(d)
                \/ ToolAppends(d)
       PROVE  CallInv(c)'
  <2>1. /\ UNCHANGED <<toLLM, toAssistant, assistant, relayed>>
        /\ \/ /\ UNCHANGED written
              /\ \/ call[d] = "started" /\ call' = [call EXCEPT ![d] = "unanswered"]
                 \/ call[d] = "started" /\ call' = [call EXCEPT ![d] = "commit"]
                 \/ call[d] = "started" /\ call' = [call EXCEPT ![d] = "append"]
                 \/ call[d] = "committed" /\ call' = [call EXCEPT ![d] = "append"]
           \/ /\ call[d] = "commit" /\ call' = [call EXCEPT ![d] = "committed"]
              /\ written' = written \cup {Phrase(d)}
           \/ /\ call[d] = "append" /\ call' = [call EXCEPT ![d] = "done"]
              /\ written' = written \cup {Result(d)}
    BY <1>11 DEF ToolUnknown, ToolStartsAppend, ToolCommits, ToolAppends,
         AppendReads,
         AppendWrites, Recorded, ToolOnly, contextVars, turnVars, Phrase, Result
  <2>2. /\ Result(d) # Phrase(c) /\ Phrase(d) # Result(c)
        /\ Result(d) = Result(c) => d = c
        /\ Phrase(d) = Phrase(c) => d = c
    BY Kinds1
  <2>3. CASE d = c
    <3>1. \/ /\ UNCHANGED written
             /\ \/ call[c] = "started" /\ call'[c] \in {"unanswered", "commit", "append"}
                \/ call[c] = "committed" /\ call'[c] = "append"
          \/ /\ call[c] = "commit" /\ call'[c] = "committed"
             /\ written' = written \cup {Phrase(c)}
          \/ /\ call[c] = "append" /\ call'[c] = "done"
             /\ written' = written \cup {Result(c)}
      BY <1>1, <2>1, <2>3
    <3> QED
      BY <1>1, <2>1, <2>2, <2>3, <3>1 DEF CallInv, ResultOnce, CallOrder
  <2>4. CASE d # c
    <3>1. call'[c] = call[c]
      BY <1>1, <2>1, <2>4
    <3> QED
      BY <1>1, <2>1, <2>2, <2>4, <3>1 DEF CallInv, ResultOnce, CallOrder
  <2> QED
    BY <2>3, <2>4
<1> QED
  BY <1>4, <1>5, <1>6, <1>7, <1>8, <1>9, <1>10, <1>11 DEF AssistantLoop, ToolStep

-----------------------------------------------------------------------------
(* The aggregators: the theorems.                                          *)

\* The aggregators and the tool goroutines keep the invariant.
THEOREM AggregatorInvariant == AggregatorSpec => []AggregatorInv
<1>1. AggregatorInit => AggregatorInv
  <2> SUFFICES ASSUME AggregatorInit PROVE AggregatorInv
    OBVIOUS
  <2>1. DOMAIN <<>> = {}
    OBVIOUS
  <2>2. \A e : ~In(<<>>, e) /\ Once(<<>>, e)
    BY <2>1 DEF In, Once
  <2>3. /\ \A n : Reply(n) # Idle
        /\ \A c \in Calls : Result(c) # Idle /\ Generate(c) # Idle
    BY DistinctReplies, Distinct
  <2>4. ContextTypes
    <3>1. <<>> \in Seq(Messages) /\ {} \in SUBSET Seq(Messages)
      OBVIOUS
    <3>2. messages = <<>> /\ saved = [a \in Appenders |-> {}]
      BY DEF AggregatorInit
    <3> QED
      BY <3>1, <3>2 DEF ContextTypes
  <2>5. FlowTypes
    <3>1. \A S : <<>> \in Seq(S)
      OBVIOUS
    <3>2. toLLM = <<>> /\ toAssistant = <<>> /\ relayed = {} /\ assistant = Idle
          /\ call = [c \in Calls |-> "none"]
      BY DEF AggregatorInit
    <3>3. Idle \in AssistantStates /\ "none" \in CallStates
      BY DEF AssistantStates, CallStates
    <3> QED
      BY <3>1, <3>2, <3>3 DEF FlowTypes
  <2>6. CounterTypes
    BY DEF AggregatorInit, CounterTypes
  <2>7. SavedInv /\ UserInv
    BY <2>1 DEF AggregatorInit, SavedInv, SliceOK, UserInv, ToSet, IsInjective
  <2>8. \A n \in Nat \ {0} : ReplyInv(n)
    BY <2>2, <2>3 DEF AggregatorInit, ReplyInv
  <2>9. \A c \in Calls : CallInv(c)
    BY <2>2, <2>3 DEF AggregatorInit, CallInv, ResultOnce, CallOrder
  <2>10. ConfirmedOncePerSuspicion
    BY DEF AggregatorInit, ConfirmedOncePerSuspicion
  <2> QED
    BY <2>4, <2>5, <2>6, <2>7, <2>8, <2>9, <2>10 DEF AggregatorInv
<1>2. AggregatorInv /\ AggregatorNext => AggregatorInv'
  <2> SUFFICES ASSUME AggregatorInv, AggregatorNext PROVE AggregatorInv'
    OBVIOUS
  <2>1. ContextTypes' /\ FlowTypes' /\ CounterTypes'
    BY ContextTypesStep, FlowTypesStep, CounterTypesStep
  <2>2. SavedInv' /\ UserInv' /\ ConfirmedOncePerSuspicion'
    BY SavedStep, UserStep, ConfirmedStep
  <2>3. ASSUME NEW n \in Nat \ {0} PROVE ReplyInv(n)'
    BY ReplyStep
  <2>4. ASSUME NEW c \in Calls PROVE CallInv(c)'
    BY CallStepUpstream, CallStepDownstream DEF AggregatorNext, UserLoop
  <2> QED
    BY <2>1, <2>2, <2>3, <2>4 DEF AggregatorInv
<1>3. AggregatorInv /\ UNCHANGED aggregatorVars => AggregatorInv'
  <2> SUFFICES ASSUME AggregatorInv, UNCHANGED aggregatorVars PROVE AggregatorInv'
    OBVIOUS
  <2> USE DEF AggregatorInv, aggregatorVars, contextVars, userVars, llmVars, turnVars,
           callVars
  <2>1. ContextTypes' /\ FlowTypes' /\ CounterTypes'
    BY DEF ContextTypes, FlowTypes, CounterTypes
  <2>2. SavedInv' /\ UserInv'
    BY DEF SavedInv, SliceOK, UserInv
  <2>3. ASSUME NEW n \in Nat \ {0} PROVE ReplyInv(n)'
    BY DEF ReplyInv
  <2>4. ASSUME NEW c \in Calls PROVE CallInv(c)'
    BY DEF CallInv, ResultOnce, CallOrder
  <2>5. ConfirmedOncePerSuspicion'
    BY DEF ConfirmedOncePerSuspicion
  <2> QED
    BY <2>1, <2>2, <2>3, <2>4, <2>5
<1> QED
  BY <1>1, <1>2, <1>3, PTL DEF AggregatorSpec

\* TypeOK: the variables have their types.
THEOREM AggregatorTypeCorrect == AggregatorSpec => []AggregatorTypeOK
<1>1. AggregatorInv => AggregatorTypeOK
  BY DEF AggregatorInv, ContextTypes, FlowTypes, CounterTypes, CallStates, AggregatorTypeOK
<1> QED
  BY <1>1, AggregatorInvariant, PTL

\* ConfirmedOncePerSuspicion: for any number of suspicions and however late the
\* timer fires, a suspicion is confirmed at most once.
THEOREM ConfirmedOncePerSuspicionHolds == AggregatorSpec => []ConfirmedOncePerSuspicion
<1>1. AggregatorInv => ConfirmedOncePerSuspicion
  BY DEF AggregatorInv
<1> QED
  BY <1>1, AggregatorInvariant, PTL

\* SoloAppendsStay: for any set of tool calls and any races, a message that was
\* appended while no other append was under way stays in the context, and no message
\* stands in it twice.
THEOREM SoloAppendsStayHolds == AggregatorSpec => []SoloAppendsStay
<1>1. AggregatorInv => SoloAppendsStay
  BY DEF AggregatorInv, SavedInv, SliceOK, SoloAppendsStay
<1> QED
  BY <1>1, AggregatorInvariant, PTL
=============================================================================
