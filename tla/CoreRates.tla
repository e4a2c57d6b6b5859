------------------------------ MODULE CoreRates ------------------------------
(***************************************************************************)
(* One resource provider in time: how its cores share their MIPS between   *)
(* tasks (CoreScheduler::updateTskList), when it wakes up                  *)
(* (ResourceProvider::nextEvent, handle), which tasks it admits            *)
(* (trySchedulingTsk) and what energy it is billed for                     *)
(* (DcHost::updateEnergyAndConsumption).                                   *)
(*                                                                         *)
(* Power management is off (eDVFS_enabled_ = 0): a busy core runs at all   *)
(* its available MIPS and tasks share them equally.  The clock is counted  *)
(* in ticks; Grid, Work and Avail are chosen so that every completion      *)
(* falls on a tick.  Memory is taken to be ample (TaskLifecycle models     *)
(* it), ids are distinct, and one MIPS of power is drawn per MIPS in use.  *)
(***************************************************************************)
EXTENDS Integers, FiniteSets, FiniteSetsExt

CONSTANTS
  Tasks,     \* CloudTask objects
  Cores,     \* the cores of the provider, numbered in scanning order
  Avail,     \* available_mips_ of each core, in MIPS per tick
  Work,      \* MIPS demanded by each task
  Duration,  \* ticks from the submission of each task to its deadline
  Scripts,   \* the simulations run: see the variable script
  Tolerance, \* a task with at most this much work left is complete (1 MIPS)
  Grid,      \* bound: submissions happen at multiples of Grid
  Horizon,   \* bound: the simulation stops at this tick
  Never      \* DBL_MAX: later than any time of the simulation

ASSUME RatesAssumption ==
  /\ IsFiniteSet(Tasks) /\ Cores \subseteq Nat /\ IsFiniteSet(Cores)
  /\ Avail \in [Cores -> Nat \ {0}]
  /\ Work \in [Tasks -> Nat \ {0}] /\ Duration \in [Tasks -> Nat \ {0}]
  /\ Scripts \subseteq [green : BOOLEAN, delays : SUBSET Nat, workload : SUBSET Tasks]
  /\ Tolerance \in Nat /\ Grid \in Nat \ {0} /\ Horizon \in Nat
  /\ Never \in Nat
  /\ \A t \in Tasks : Horizon + Work[t] < Never /\ Horizon + Duration[t] < Never
  /\ \A s \in Scripts : \A d \in s.delays : Horizon + d < Never

\* In whole MIPS per tick every task of a core gets a share.
ASSUME SharesAssumption ==
  \A c \in Cores : Cardinality(Tasks) <= Avail[c]

VARIABLES
  script,     \* what the Tcl script sets: GreenScheduler or one that decides on
              \* arrival, the delays its network may have, the tasks its users create
  now,        \* Scheduler::clock()
  arriveAt,   \* when the packet of each task arrives, or Never
  scheduled,  \* tasks with scheduled_ set
  assigned,   \* CoreScheduler::tasks_alloc_assigned_
  executing,  \* CoreScheduler::tasks_alloc_list_
  left,       \* the task's MIPS at its last update
  since,      \* TaskAlloc::executedSince_
  rate,       \* ResDemand::current_performance
  mips,       \* CoreScheduler::current_mips_
  wake,       \* ResourceProvider::eventTime
  pending,    \* when the provider's event is in the queue, or Never
  deadline,   \* CloudTask::deadline_
  outcome,    \* "none", "rejected", "done" or "failed"
  billed,     \* DcHost::eConsumed_
  lastBill    \* DcHost::eLastUpdateTime_

vars == <<script, now, arriveAt, scheduled, assigned, executing, left, since, rate, mips,
          wake, pending, deadline, outcome, billed, lastBill>>

-----------------------------------------------------------------------------
\* TaskAlloc::updateMIPS: what remains of a task now, never below zero.
Left(t) == LET done == rate[t] * (now - since[t])
           IN IF left[t] > done THEN left[t] - done ELSE 0

\* The MIPS in use on all cores, which the power model turns into Watts.
Power == SumFunctionOnSet(mips, Cores)

\* The two tests of removeCompleted.
Complete(t) == Left(t) <= Tolerance
Late(t) == now >= deadline[t]

\* What a sweep of the tasks S completes and fails: completion is tested first.
Ends(S) == {t \in S : Complete(t)}
Fails(S) == {t \in S : ~Complete(t) /\ Late(t)}

\* removeTaskAlloc and CloudTask::fail record how a task ended.
Settle(done, dead) ==
  outcome' = [t \in Tasks |-> IF t \in dead THEN "failed"
                              ELSE IF t \in done THEN "done" ELSE outcome[t]]

\* Mutation of Bill: the last update moves on, but nothing is billed.
BillNothing == billed' = billed /\ lastBill' = now

\* updateEnergyAndConsumption, called before the first change of an event.
Bill == billed' = billed + (now - lastBill) * Power /\ lastBill' = now

\* Removing a task from a core updates the energy first.
BillIf(removed) == IF removed # {} THEN Bill ELSE UNCHANGED <<billed, lastBill>>

\* The tasks on core c after getMostUrgentTaskRate.
ProbedExe(c) == executing[c] \ (Ends(executing[c]) \cup Fails(executing[c]))
ProbedAsg(c) == {t \in assigned[c] : ~Late(t)}

\* getMostUrgentTaskRate on the cores S: what it removes, and that it brings
\* the work left up to date.  Rates and current_mips_ stay as they are.
RemovedBy(S) == UNION {executing[c] \ ProbedExe(c) : c \in S}
                  \cup UNION {assigned[c] \ ProbedAsg(c) : c \in S}
ProbeDone(S) == UNION {Ends(executing[c]) : c \in S}
ProbeDead(S) == RemovedBy(S) \ ProbeDone(S)
Refreshed(S) ==
  /\ left' = [t \in Tasks |-> IF \E c \in S : t \in executing[c] THEN Left(t) ELSE left[t]]
  /\ since' = [t \in Tasks |-> IF \E c \in S : t \in executing[c] THEN now ELSE since[t]]

\* Mutation of Admits: the task itself is not counted among the sharers.
AdmitsNotCounted(c, t, dl) ==
  \A x \in ProbedExe(c) \cup ProbedAsg(c) \cup {t} :
    Left(x) * Cardinality(ProbedExe(c) \cup ProbedAsg(c)) <= Avail[c] * (dl[x] - now)

\* trySchedulingTsk: the highest rate any task of the core needs, times the
\* number of tasks with t, fits the core.  A task past its deadline needs a
\* negative rate; at its deadline, an infinite one.
Admits(c, t, dl) ==
  LET others == ProbedExe(c) \cup ProbedAsg(c)
      n == Cardinality(others) + 1
  IN /\ dl[t] # now
     /\ \A x \in IF dl[t] > now THEN others \cup {t} ELSE others :
          Left(x) * n <= Avail[c] * (dl[x] - now)

\* The first core, in scanning order, that admits the task, and those scanned.
FirstAdmitting(t, dl) == Min({c \in Cores : Admits(c, t, dl)})
UpTo(c) == {d \in Cores : d <= c}

-----------------------------------------------------------------------------
\* updateTskList on every core, given what each executes: completed and late
\* tasks leave, the others share the core, and the earliest completion on a
\* core is reported to nextEvent.  An empty list is left as it is.
Staying(exe, c) == exe[c] \ (Ends(exe[c]) \cup Fails(exe[c]))

\* Mutation of Share: every task is given the whole core.
ShareWhole(exe, c) == Avail[c]

Share(exe, c) == Avail[c] \div Cardinality(Staying(exe, c))

Wakeups(exe) ==
  UNION {{now + (Left(t) \div Share(exe, c)) : t \in Staying(exe, c)} : c \in Cores}

\* Mutation of NextEvent: an event time that has passed is not forgotten.
NextEventStale(times, kept) ==
  IF times # {} /\ Min(times) < wake
  THEN wake' = Min(times) /\ pending' = Min(times)
  ELSE wake' = wake /\ pending' = kept

\* nextEvent for the completions "times": an event time that has passed is
\* forgotten, and the provider's single event only ever moves earlier.
NextEvent(times, kept) ==
  IF times # {} /\ Min(times) < (IF now >= wake THEN Never ELSE wake)
  THEN wake' = Min(times) /\ pending' = Min(times)
  ELSE wake' = wake /\ pending' = kept

Sweep(exe, kept) ==
  /\ executing' = [c \in Cores |-> Staying(exe, c)]
  /\ mips' = [c \in Cores |-> IF exe[c] = {} THEN mips[c]
                              ELSE IF Staying(exe, c) = {} THEN 0 ELSE Avail[c]]
  /\ left' = [t \in Tasks |-> IF t \in UNION {exe[c] : c \in Cores} THEN Left(t) ELSE left[t]]
  /\ since' = [t \in Tasks |-> IF t \in UNION {exe[c] : c \in Cores} THEN now ELSE since[t]]
  /\ rate' = [t \in Tasks |-> LET on == {c \in Cores : t \in Staying(exe, c)}
                              IN IF on = {} THEN rate[t] ELSE Share(exe, CHOOSE c \in on : TRUE)]
  /\ NextEvent(Wakeups(exe), kept)

\* What such a sweep completes and what it fails.
Swept(exe) == UNION {Ends(exe[c]) : c \in Cores}
Expelled(exe) == UNION {Fails(exe[c]) : c \in Cores}

-----------------------------------------------------------------------------
Init ==
  /\ script \in Scripts
  /\ now = 0 /\ scheduled = {}
  /\ arriveAt = [t \in Tasks |-> Never] /\ deadline = [t \in Tasks |-> Never]
  /\ assigned = [c \in Cores |-> {}] /\ executing = [c \in Cores |-> {}]
  /\ left = Work
  /\ since = [t \in Tasks |-> 0] /\ rate = [t \in Tasks |-> 0]
  /\ mips = [c \in Cores |-> 0]
  /\ wake = Never /\ pending = Never
  /\ outcome = [t \in Tasks |-> "none"]
  /\ billed = 0 /\ lastBill = 0

\* CloudUser has not created the task yet.
New(t) == t \in script.workload /\ deadline[t] = Never

\* TskComAgent::sendmsg; the network takes one of the delays.
Send(t) == \E d \in script.delays : arriveAt' = [arriveAt EXCEPT ![t] = now + d]

\* DataCenter::receivedTsk under GreenScheduler.
SubmitGreen(t) ==
  LET dl == [deadline EXCEPT ![t] = now + Duration[t]]
      open == {c \in Cores : Admits(c, t, dl)}
      scanned == IF open = {} THEN Cores ELSE UpTo(FirstAdmitting(t, dl))
  IN /\ script.green /\ New(t) /\ now % Grid = 0
     /\ deadline' = dl
     /\ executing' = [c \in Cores |-> IF c \in scanned THEN ProbedExe(c) ELSE executing[c]]
     /\ assigned' = [c \in Cores |->
          (IF c \in scanned THEN ProbedAsg(c) ELSE assigned[c])
            \cup (IF open # {} /\ c = FirstAdmitting(t, dl) THEN {t} ELSE {})]
     /\ Refreshed(scanned)
     /\ BillIf(RemovedBy(scanned))
     /\ \/ /\ open = {}
           /\ outcome' = [x \in Tasks |-> IF x = t THEN "rejected"
                            ELSE IF x \in ProbeDead(scanned) THEN "failed"
                            ELSE IF x \in ProbeDone(scanned) THEN "done" ELSE outcome[x]]
           /\ UNCHANGED <<arriveAt, scheduled>>
        \/ /\ open # {}
           /\ Settle(ProbeDone(scanned), ProbeDead(scanned))
           /\ scheduled' = scheduled \cup {t}
           /\ Send(t)
     /\ UNCHANGED <<script, now, rate, mips, wake, pending>>

\* receivedTsk under a scheduler that sends the task undecided.
SubmitBlind(t) ==
  /\ ~script.green /\ New(t) /\ now % Grid = 0
  /\ deadline' = [deadline EXCEPT ![t] = now + Duration[t]]
  /\ Send(t)
  /\ UNCHANGED <<script, now, scheduled, assigned, executing, left, since, rate, mips, wake,
                 pending, outcome, billed, lastBill>>

\* ResourceProvider::recv of a scheduled task: it starts where it was put (a
\* task purged meanwhile is nowhere), and every core is swept.
ArriveScheduled(t) ==
  LET exe == [c \in Cores |-> executing[c] \cup (assigned[c] \cap {t})]
  IN /\ arriveAt[t] = now /\ t \in scheduled
     /\ arriveAt' = [arriveAt EXCEPT ![t] = Never]
     /\ assigned' = [c \in Cores |-> assigned[c] \ {t}]
     /\ Bill
     /\ Sweep(exe, pending)
     /\ Settle(Swept(exe), Expelled(exe))
     /\ UNCHANGED <<script, now, scheduled, deadline>>

\* recv of an unscheduled task: the cores are probed, and if one admits the task
\* it starts there and every core is swept; otherwise it fails.
ArriveBlind(t) ==
  LET open == {c \in Cores : Admits(c, t, deadline)}
      scanned == IF open = {} THEN Cores ELSE UpTo(FirstAdmitting(t, deadline))
      probed == [c \in Cores |-> IF c \in scanned THEN ProbedExe(c) ELSE executing[c]]
      exe == [c \in Cores |-> probed[c] \cup IF open # {} /\ c = FirstAdmitting(t, deadline)
                                             THEN {t} ELSE {}]
  IN /\ arriveAt[t] = now /\ t \notin scheduled
     /\ arriveAt' = [arriveAt EXCEPT ![t] = Never]
     /\ Bill
     /\ \/ /\ open = {}
           /\ executing' = probed
           /\ Refreshed(Cores)
           /\ Settle(ProbeDone(Cores), ProbeDead(Cores) \cup {t})
           /\ UNCHANGED <<scheduled, rate, mips, wake, pending>>
        \/ /\ open # {}
           /\ scheduled' = scheduled \cup {t}
           /\ Sweep(exe, pending)
           /\ Settle(ProbeDone(scanned) \cup Swept(exe), ProbeDead(scanned) \cup Expelled(exe))
     /\ UNCHANGED <<script, now, assigned, deadline>>

\* ResourceProvider::handle, when the provider's event fires.
Handle ==
  /\ pending = now
  /\ BillIf(Swept(executing) \cup Expelled(executing))
  /\ Settle(Swept(executing), Expelled(executing))
  /\ Sweep(executing, Never)
  /\ UNCHANGED <<script, now, arriveAt, scheduled, assigned, deadline>>

\* Time passes when nothing is due now.
Tick ==
  /\ now < Horizon
  /\ pending # now /\ \A t \in Tasks : arriveAt[t] # now
  /\ now' = now + 1
  /\ UNCHANGED <<script, arriveAt, scheduled, assigned, executing, left, since, rate, mips,
                 wake, pending, deadline, outcome, billed, lastBill>>

Next ==
  \/ \E t \in Tasks : SubmitGreen(t) \/ SubmitBlind(t) \/ ArriveScheduled(t) \/ ArriveBlind(t)
  \/ Handle
  \/ Tick

Spec == Init /\ [][Next]_vars
=============================================================================
