------------------------------ MODULE MCOutput ------------------------------
(* Three outputs, of lengths below, at and above the window.                 *)
EXTENDS OutputProperties, TLC

CONSTANTS o1, o2, o3

Lengths == (o1 :> 2 @@ o2 :> 1 @@ o3 :> 3)
=============================================================================
