------------------------ MODULE VmMigrationProperties ------------------------
(***************************************************************************)
(* What placement and migration promise about capacity, about where a VM   *)
(* is, and about the links between virtual and physical cores.             *)
(***************************************************************************)
EXTENDS VmMigration

Capacity(p) == IF p \in Hosts THEN HostCapacity[p] ELSE Demand[p]

Held(c, p, t, i) ==
    SumFunctionOnSet(Wanted(c)[t], {k \in DOMAIN loc[c][t] : loc[c][t][k] = <<p, i>>})

\* What is free at a unit and what every VM, migration and task holds there
\* always add up to the unit's capacity, and none is overdrawn, whatever the order of placements,
\* refusals, releases and overlapping migrations
\* (tryToAllocate / releaseAllocation).
CapacityConserved ==
    \A p \in Providers, t \in Types : \A i \in DOMAIN free[p][t] :
        /\ free[p][t][i] \in Nat
        /\ free[p][t][i] + SumFunctionOnSet([c \in Consumers |-> Held(c, p, t, i)], Consumers)
             = Capacity(p)[t][i]

\* A VM that was placed is never homeless: finalizeMigration's addVM cannot
\* fail, although the reservation is given up first and the target may have
\* been used by others meanwhile; and the host's list agrees with the VM.
VmKeepsHome ==
    /\ \A v \in Vms, h \in Hosts : v \in hosted[h] <=> hostOf[v] = h
    /\ \A m \in Migrations : mig[m].stage # "unused" => hostOf[mig[m].vm] # Null

\* A vcore is scheduled by the physical core its demand is placed on, and by
\* no other: the lists of the cores and the pointers of the vcores agree
\* through every migration.
VcoresFollowVm ==
    /\ \A v \in Vms : hostCore[v] = loc[v][Computing]
    /\ \A h \in Hosts : \A i \in DOMAIN vcores[h] :
           vcores[h][i] = {x \in UNION {{v} \X DOMAIN hostCore[v] : v \in Vms} :
                               hostCore[x[1]][x[2]] = <<h, i>>}

\* An in-order placement of the demands on the units: a later demand is never
\* placed on an earlier unit, and no unit is overdrawn.
OrderedFit(units, d) ==
    \E place \in [DOMAIN d -> DOMAIN units] :
        /\ \A j, k \in DOMAIN d : j < k => place[j] <= place[k]
        /\ \A i \in DOMAIN units :
               SumFunctionOnSet(d, {k \in DOMAIN d : place[k] = i}) <= units[i]

\* tryToAllocate's single pass finds room whenever an in-order placement has
\* room: taking the first unit that is large enough never loses one.
NextFitMissesNothing ==
    \A h \in Hosts, v \in Vms, t \in Types :
        Served(free, h, Demand[v], t) <=> OrderedFit(free[h][t], Demand[v][t])

\* The agents attached to a host are those of the migrations under way from it
\* or towards it, and of those that were refused, whose agents nobody detaches.
\* It takes a VM that is not moved by another migration meanwhile.
AgentsMatchMigrations ==
    \A m \in Migrations :
        LET at == {h \in Hosts : m \in sources[h]}
            to == {h \in Hosts : m \in sinks[h]}
        IN  (\A o \in Migrations \ {m} : mig[o].vm # mig[m].vm \/ mig[o].vm = Null) =>
                IF mig[m].stage \in {"moving", "refused"}
                THEN at = {hostOf[mig[m].vm]} /\ to = {mig[m].target}
                ELSE at = {} /\ to = {}

\* Free memory of a host as the power of its memory sees it, through
\* virtual_capacities (getValueRecursive) ...
FreeByCapacity(h) ==
    MapThenSumSet(LAMBDA i : free[h][Memory][i]
        + MapThenSumSet(LAMBDA n : free[backs[h][Memory][i][n][1]][Memory]
                                       [backs[h][Memory][i][n][2]],
                        DOMAIN backs[h][Memory][i]),
        DOMAIN free[h][Memory])

\* ... and as its load sees it, through hosted_vms_ (getFreeCapRecursive).
FreeByHosted(h) ==
    LET own(p) == MapThenSumSet(LAMBDA i : free[p][Memory][i], DOMAIN free[p][Memory])
    IN  own(h) + MapThenSumSet(own, hosted[h])

\* The two recursive computations of a host's load agree.
LoadsAgree == \A h \in Hosts : FreeByCapacity(h) = FreeByHosted(h)

=============================================================================
