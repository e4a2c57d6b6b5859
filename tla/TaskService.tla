----------------------------- MODULE TaskService -----------------------------
(***************************************************************************)
(* What the data center promises about one task, whatever the scheduler:   *)
(* its status only moves forward, and an outcome is final.  A step of the  *)
(* simulator may settle several tasks at once (one core sweep does), so a  *)
(* step here moves any set of tasks, each along one edge.                  *)
(***************************************************************************)
CONSTANT Tasks

VARIABLE status

Outcomes == {"rejected", "done", "failed", "lost"}

Status == {"new", "travelling", "running"} \cup Outcomes

\* The statuses a task may take directly after s.  A travelling task whose
\* deadline passes may fail before it arrives, and so may a lost one that
\* still occupies a core's in-fly list.
After(s) == CASE s = "new"        -> {"travelling", "rejected"}
              [] s = "travelling" -> {"running", "failed", "lost"}
              [] s = "running"    -> {"done", "failed"}
              [] s = "lost"       -> {"failed"}
              [] OTHER            -> {}

Init == status = [t \in Tasks |-> "new"]

Next ==
  /\ status' \in [Tasks -> Status]
  /\ \A t \in Tasks : status'[t] = status[t] \/ status'[t] \in After(status[t])

Spec == Init /\ [][Next]_status
=============================================================================
