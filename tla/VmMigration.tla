----------------------------- MODULE VmMigration -----------------------------
(***************************************************************************)
(* Hosts, the VMs placed on them, the tasks placed on the VMs, and the     *)
(* migrations that move a VM from one host to another.                     *)
(*                                                                         *)
(* A provider's capacities of one type are flattened over its resources    *)
(* into one sequence of units (a unit is a core, a memory, a disk), in the *)
(* order tryToAllocate walks them.  A location is a pointer to a unit,     *)
(* <<provider, index>>, or Null.  Energy, rates and the transfer itself    *)
(* are modelled elsewhere: here a started migration may be finalised at    *)
(* any later moment, which is when its last packet arrives.                *)
(***************************************************************************)
EXTENDS Integers, Sequences, FiniteSetsExt

CONSTANTS
    Hosts, Vms, Tasks,
    Migrations,     \* bound: the migration objects the script may create
    DemandOrder,    \* the types of a VM's res_demands, in order
    Computing,      \* the type whose units are core schedulers
    Memory,         \* the one type a task reserves
    HostCapacity,   \* [Hosts -> [types -> sequence of capacities]]
    Demand,         \* [Vms -> [types -> sequence of capacities]]
    TaskDemand,     \* [Tasks -> memory]
    Null

Types == {DemandOrder[n] : n \in 1..Len(DemandOrder)}
Providers == Hosts \union Vms
Consumers == Vms \union Migrations \union Tasks

ASSUME SizesAssumption ==
    /\ \A h \in Hosts : HostCapacity[h] \in [Types -> Seq(Nat)]
    /\ \A v \in Vms : Demand[v] \in [Types -> Seq(Nat \ {0})]
    /\ TaskDemand \in [Tasks -> Nat]
    /\ {Computing, Memory} \subseteq Types /\ Computing # Memory

\* The objects are of different classes, and NULL points to none of them.
ASSUME ObjectsAssumption ==
    /\ Hosts \cap Vms = {} /\ Vms \cap Tasks = {}
    /\ Migrations \cap (Vms \cup Tasks) = {}
    /\ IsFiniteSet(Consumers)
    /\ Null \notin Providers \cup (Providers \X Nat)

VARIABLES
    free,       \* [Providers -> [Types -> Seq]]: DcResource::capacity
    loc,        \* [Consumers -> [Types -> Seq]]: ResDemand::capacity_location
    backs,      \* [Hosts -> [Types -> per unit a Seq]]: Capacity::virtual_capacities
    hostOf,     \* ResourceProvider::host of a VM
    hosted,     \* ResourceProvider::hosted_vms_
    hostCore,   \* CoreScheduler::host_scheduler_ of each vcore
    vcores,     \* CoreScheduler::hosted_vcores_schedulers of each host core
    mig,        \* the migration objects: stage, VM, target
    sources,    \* ResourceProvider::vm_migration_sources_
    sinks       \* ResourceProvider::vm_migration_sinks_

placement == <<free, loc, backs, hostOf, hosted, hostCore, vcores>>
vars == <<placement, mig, sources, sinks>>

Unused == [stage |-> "unused", vm |-> Null, target |-> Null]

\* What a consumer asks for, by type.  A migration asks for what its VM does.
Wanted(c) == IF c \in Vms THEN Demand[c]
             ELSE IF c \in Migrations
                  THEN IF mig[c].vm = Null THEN [t \in Types |-> <<>>]
                       ELSE Demand[mig[c].vm]
                  ELSE [t \in Types |-> IF t = Memory THEN <<TaskDemand[c]>> ELSE <<>>]

Nowhere(d) == [t \in Types |-> [k \in DOMAIN d[t] |-> Null]]

-----------------------------------------------------------------------------
(* Allocation *)

\* Mutant: the unit iterator moves on after every capacity served.
NextFitAdvancing(units, d) ==
    LET scan[k \in 0..Len(d)] ==
          IF k = 0 THEN [left |-> units, at |-> 1, place |-> <<>>]
          ELSE LET s == scan[k - 1]
                   big == {i \in s.at..Len(units) : s.left[i] >= d[k]}
               IN  IF big = {} THEN [s EXCEPT !.at = Len(units) + 1]
                   ELSE [left |-> [s.left EXCEPT ![Min(big)] = @ - d[k]],
                         at |-> Min(big) + 1, place |-> Append(s.place, Min(big))]
    IN  scan[Len(d)]

\* The scan of one demand over the units: the unit iterator only moves on
\* when the unit at hand is too small, and is never moved back.
NextFit(units, d) ==
    LET scan[k \in 0..Len(d)] ==
          IF k = 0 THEN [left |-> units, at |-> 1, place |-> <<>>]
          ELSE LET s == scan[k - 1]
                   big == {i \in s.at..Len(units) : s.left[i] >= d[k]}
               IN  IF big = {}
                   THEN [s EXCEPT !.at = Len(units) + 1]
                   ELSE [left |-> [s.left EXCEPT ![Min(big)] = @ - d[k]],
                         at |-> Min(big), place |-> Append(s.place, Min(big))]
    IN  scan[Len(d)]

\* One demand of a task whose type it does not reserve is empty here, and an
\* empty demand always fits.
Served(f, p, d, t) == Len(NextFit(f[p][t], d[t]).place) = Len(d[t])

TryToAllocate(f, p, d) == \A t \in Types : Served(f, p, d, t)

Taken(f, p, d) == [f EXCEPT ![p] = [t \in Types |-> NextFit(f[p][t], d[t]).left]]

Located(f, p, d) ==
    [t \in Types |-> [k \in DOMAIN d[t] |-> <<p, NextFit(f[p][t], d[t]).place[k]>>]]

\* Mutant: one demand per unit is given back.
ReturnedOnce(l, d, p, t, i) ==
    LET there == {k \in DOMAIN d[t] : l[t][k] = <<p, i>>}
    IN  IF there = {} THEN 0 ELSE d[t][Min(there)]

\* What the demands placed at a unit give back.
Returned(l, d, p, t, i) ==
    SumFunctionOnSet(d[t], {k \in DOMAIN d[t] : l[t][k] = <<p, i>>})

ReleaseAllocation(f, l, d) ==
    [p \in Providers |-> [t \in Types |->
        [i \in DOMAIN f[p][t] |-> f[p][t][i] + Returned(l, d, p, t, i)]]]

\* The virtual capacities are pushed while the scan runs, before it is known
\* whether the VM fits, and are never popped: a refused VM leaves those of
\* the demands that were served.
Scanned(f, h, v, t) ==
    \A j, n \in 1..Len(DemandOrder) :
        (DemandOrder[j] = t /\ n < j) => Served(f, h, Demand[v], DemandOrder[n])

Pushed(f, h, v) ==
    [backs EXCEPT ![h] = [t \in Types |-> [i \in DOMAIN @[t] |->
        LET place == NextFit(f[h][t], Demand[v][t]).place
        IN  IF Scanned(f, h, v, t)
            THEN @[t][i] \o SelectSeq([k \in DOMAIN place |-> <<v, k>>],
                                      LAMBDA b : place[b[2]] = i)
            ELSE @[t][i]]]]

AddVcores(vc, h, v, l) ==
    [vc EXCEPT ![h] = [i \in DOMAIN @ |->
        @[i] \union {<<v, k>> : k \in {k \in DOMAIN l[Computing] :
                                           l[Computing][k] = <<h, i>>}}]]

\* Mutant: the release does not unlink.
KeepVcores(vc, v) == vc

\* Each vcore leaves the list of the core its own pointer names.
RemoveVcores(vc, v) ==
    [h \in Hosts |-> [i \in DOMAIN vc[h] |->
        vc[h][i] \ {<<v, k>> : k \in {k \in DOMAIN hostCore[v] :
                                          hostCore[v][k] = <<h, i>>}}]]

-----------------------------------------------------------------------------
Init ==
    /\ free = [p \in Providers |-> IF p \in Hosts THEN HostCapacity[p] ELSE Demand[p]]
    /\ loc = [c \in Consumers |->
                Nowhere(IF c \in Vms THEN Demand[c]
                        ELSE [t \in Types |-> IF c \in Tasks /\ t = Memory
                                              THEN <<TaskDemand[c]>> ELSE <<>>])]
    /\ backs = [h \in Hosts |-> [t \in Types |->
                    [i \in DOMAIN HostCapacity[h][t] |-> <<>>]]]
    /\ hostOf = [v \in Vms |-> Null]
    /\ hosted = [h \in Hosts |-> {}]
    /\ hostCore = [v \in Vms |-> [k \in DOMAIN Demand[v][Computing] |-> Null]]
    /\ vcores = [h \in Hosts |-> [i \in DOMAIN HostCapacity[h][Computing] |-> {}]]
    /\ mig = [m \in Migrations |-> Unused]
    /\ sources = [h \in Hosts |-> {}] /\ sinks = [h \in Hosts |-> {}]

\* addVM from a given capacity and set of links (those before the step, or
\* those another call of the same handler left behind).
Added(f, vc, l, on, h, v) ==
    /\ backs' = Pushed(f, h, v)
    /\ IF TryToAllocate(f, h, Demand[v])
       THEN /\ free' = Taken(f, h, Demand[v])
            /\ loc' = [l EXCEPT ![v] = Located(f, h, Demand[v])]
            /\ hostCore' = [hostCore EXCEPT ![v] = Located(f, h, Demand[v])[Computing]]
            /\ vcores' = AddVcores(vc, h, v, Located(f, h, Demand[v]))
            /\ hostOf' = [hostOf EXCEPT ![v] = h]
            /\ hosted' = [on EXCEPT ![h] = @ \union {v}]
       ELSE /\ free' = f
            /\ loc' = [l EXCEPT ![v] = Nowhere(Demand[v])]
            /\ hostCore' = [hostCore EXCEPT ![v] = Nowhere(Demand[v])[Computing]]
            /\ vcores' = vc
            /\ hostOf' = [hostOf EXCEPT ![v] = Null]
            /\ hosted' = on

\* The script places a VM; one that does not fit ends the script's set-up,
\* and each is tried once, before any push of its own.
AddVm(v, h) ==
    /\ hostOf[v] = Null
    /\ \A g \in Hosts, t \in Types : \A i \in DOMAIN backs[g][t] :
           \A n \in 1..Len(backs[g][t][i]) : backs[g][t][i][n][1] # v
    /\ Added(free, vcores, loc, hosted, h, v)
    /\ UNCHANGED <<mig, sources, sinks>>

Guest(k, v) ==
    LET d == Wanted(k) IN
    /\ loc[k] = Nowhere(d) /\ hostOf[v] # Null
    /\ TryToAllocate(free, v, d)
    /\ free' = Taken(free, v, d)
    /\ loc' = [loc EXCEPT ![k] = Located(free, v, d)]
    /\ UNCHANGED <<backs, hostOf, hosted, hostCore, vcores, mig, sources, sinks>>

GuestLeaves(k) ==
    /\ loc[k] # Nowhere(Wanted(k))
    /\ free' = ReleaseAllocation(free, loc[k], Wanted(k))
    /\ loc' = [loc EXCEPT ![k] = Nowhere(Wanted(k))]
    /\ UNCHANGED <<backs, hostOf, hosted, hostCore, vcores, mig, sources, sinks>>

\* migrateVm: the agents are attached first; a target without room only
\* prints an error, and leaves them attached.
MigrateVm(m, v, h) ==
    /\ mig[m].stage = "unused" /\ hostOf[v] # Null
    /\ sources' = [sources EXCEPT ![hostOf[v]] = @ \union {m}]
    /\ sinks' = [sinks EXCEPT ![h] = @ \union {m}]
    /\ LET ok == TryToAllocate(free, h, Demand[v]) IN
       /\ mig' = [mig EXCEPT ![m] = [stage |-> IF ok THEN "moving" ELSE "refused",
                                     vm |-> v, target |-> h]]
       /\ free' = IF ok THEN Taken(free, h, Demand[v]) ELSE free
       /\ loc' = [loc EXCEPT ![m] = IF ok THEN Located(free, h, Demand[v])
                                    ELSE Nowhere(Demand[v])]
    /\ UNCHANGED <<backs, hostOf, hosted, hostCore, vcores>>

\* finalizeMigration, in the event of the sink's last packet: the agents are
\* detached from the hosts, the reservation goes, the VM leaves its host and
\* is added to the target.
Moved(m, detachFrom, f, l) ==
    LET v == mig[m].vm IN
    /\ mig[m].stage = "moving"
    /\ sources' = [sources EXCEPT ![detachFrom] = @ \ {m}]
    /\ sinks' = [sinks EXCEPT ![mig[m].target] = @ \ {m}]
    /\ mig' = [mig EXCEPT ![m].stage = "done"]
    /\ Added(ReleaseAllocation(f, loc[v], Demand[v]), RemoveVcores(vcores, v), l,
             [hosted EXCEPT ![hostOf[v]] = @ \ {v}], mig[m].target, v)

Released(m) == ReleaseAllocation(free, loc[m], Wanted(m))

Forgotten(m) == [loc EXCEPT ![m] = Nowhere(Wanted(m))]

\* Mutants: the reservation is not given back before addVM; the source is
\* detached after the VM has its new host.
FinalizeHolding(m) == Moved(m, hostOf[mig[m].vm], free, loc)
FinalizeDetachLast(m) == Moved(m, mig[m].target, Released(m), Forgotten(m))

Finalize(m) == Moved(m, hostOf[mig[m].vm], Released(m), Forgotten(m))

Next ==
    \/ \E v \in Vms, h \in Hosts : AddVm(v, h)
    \/ \E k \in Tasks, v \in Vms : Guest(k, v)
    \/ \E k \in Tasks : GuestLeaves(k)
    \/ \E m \in Migrations, v \in Vms, h \in Hosts : MigrateVm(m, v, h)
    \/ \E m \in Migrations : Finalize(m)

Spec == Init /\ [][Next]_vars
=============================================================================
