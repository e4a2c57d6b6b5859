------------------------------- MODULE MCTasks -------------------------------
(***************************************************************************)
(* A small data center for TLC, provider p1 with cores 1 and 2, provider   *)
(* p2 with core 3, under three scripts, one for each kind of scheduler.    *)
(***************************************************************************)
EXTENDS TaskProperties, TLC

CONSTANTS p1, p2, t1, t2, t3

MCCores == 1..3
MCHost == 1 :> p1 @@ 2 :> p1 @@ 3 :> p2
MCSlots == p1 :> 2 @@ p2 :> 1

\* Tasks of one user, and tasks of two users who both count from 0.
MCOneUser == t1 :> 0 @@ t2 :> 1 @@ t3 :> 2
MCTwoUsers == t1 :> 0 @@ t2 :> 0 @@ t3 :> 1

MCScripts == {
  [scheduler |-> "Green", dvfs |-> TRUE, taskId |-> MCOneUser],
  [scheduler |-> "Tested", dvfs |-> TRUE, taskId |-> MCTwoUsers],
  [scheduler |-> "Blind", dvfs |-> FALSE, taskId |-> MCTwoUsers]}
=============================================================================
