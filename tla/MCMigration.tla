----------------------------- MODULE MCMigration -----------------------------
(* A small data center for VmMigration: VMs of two vcores and one memory, a  *)
(* host of two cores that holds both VMs, and a host of one core that holds *)
(* either, its core serving both vcores.                                    *)
EXTENDS VmMigrationProperties, TLC

CONSTANTS h1, h2, v1, v2, k1, k2

Order == <<"Computing", "Memory">>

HostCap == (h1 :> [Computing |-> <<2, 2>>, Memory |-> <<3>>]
         @@ h2 :> [Computing |-> <<3>>, Memory |-> <<2, 1>>])

VmDemand == (v1 :> [Computing |-> <<1, 1>>, Memory |-> <<1>>]
          @@ v2 :> [Computing |-> <<1, 1>>, Memory |-> <<2>>])

TaskMem == (k1 :> 1 @@ k2 :> 1)
=============================================================================
