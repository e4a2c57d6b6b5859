---------------------------- MODULE OutputService ----------------------------
(***************************************************************************)
(* What the output channel of a provider promises: the outputs leave the   *)
(* data center one by one, in the order in which the tasks completed, and  *)
(* every one of them does, unless the channel is blocked.                  *)
(***************************************************************************)
EXTENDS Sequences, SequencesExt

CONSTANT Outputs

VARIABLES
    pending,    \* the outputs that have not left, in order
    exited,     \* those that have
    blocked     \* nothing can leave now

vars == <<pending, exited, blocked>>

Init == pending = <<>> /\ exited = <<>> /\ blocked = FALSE

Submit(o) ==
    /\ ~Contains(pending \o exited, o)
    /\ pending' = Append(pending, o)
    /\ UNCHANGED exited

Exit ==
    /\ pending # <<>>
    /\ exited' = Append(exited, Head(pending))
    /\ pending' = Tail(pending)

Next ==
    /\ Exit \/ (\E o \in Outputs : Submit(o)) \/ UNCHANGED <<pending, exited>>
    /\ blocked' \in BOOLEAN

\* An output leaves unless the channel is blocked for good, or time and again.
Spec == Init /\ [][Next]_vars /\ WF_exited(~blocked /\ Exit)
=============================================================================
