---------------------------- MODULE MC_TaskGroup ----------------------------
(***************************************************************************)
(* A TLC instance of TaskGroup: the full example of TASKS.md (a sequence,  *)
(* a pair of exclusive branches, a task behind one of them, a dialogue-    *)
(* only task) and a task "feedback" beside it, which is a second root that *)
(* stands before the initial task in the file, goes away with one branch   *)
(* only, and shares a variable name with the other branch.                 *)
(***************************************************************************)
EXTENDS TaskGroup

MCValues == {"", "good", "odd"}

MCTasks == {"greeting", "reason", "new_project", "existing_job", "schedule",
            "close", "feedback"}
MCRank ==
  [t \in MCTasks |->
     CASE t = "feedback" -> 0
       [] t = "greeting" -> 1 [] t = "reason" -> 2 [] t = "new_project" -> 3
       [] t = "existing_job" -> 4 [] t = "schedule" -> 5 [] t = "close" -> 6]
MCVariables ==
  [t \in MCTasks |->
     CASE t = "greeting" -> {"caller_name"}
       [] t = "reason" -> {"call_reason"}
       [] t = "new_project" -> {"service_type", "address"}
       [] t = "existing_job" -> {"job_reference"}
       [] t = "schedule" -> {"preferred_day", "preferred_time"}
       [] t = "close" -> {}
       [] t = "feedback" -> {"rating", "address"}]
MCVisibleAfter ==
  [t \in MCTasks |->
     CASE t \in {"greeting", "feedback"} -> None
       [] t = "reason" -> "greeting"
       [] t \in {"new_project", "existing_job"} -> "reason"
       [] t = "schedule" -> "new_project"
       [] t = "close" -> "schedule"]
MCDisappearAfter ==
  [t \in MCTasks |->
     CASE t = "new_project" -> "existing_job"
       [] t = "existing_job" -> "new_project"
       [] t = "feedback" -> "existing_job"
       [] OTHER -> None]
\* "sms" was never registered.
MCToolIDs ==
  [t \in MCTasks |-> IF t = "schedule" THEN {"calendar", "sms"} ELSE {}]
\* "address" is restricted in feedback and not in new_project.
MCEnum ==
  [t \in MCTasks |-> [v \in MCVariables[t] |->
     CASE v \in {"call_reason", "service_type", "preferred_time"} -> {"good"}
       [] t = "feedback" /\ v = "address" -> {"odd"}
       [] OTHER -> {}]]
\* The regular expression of "rating" is malformed.
MCRegex ==
  [t \in MCTasks |-> [v \in MCVariables[t] |->
     CASE v \in {"job_reference", "preferred_day"} -> {"good", "odd"}
       [] v = "rating" -> MCValues
       [] OTHER -> None]]
=============================================================================
