---------------------------- MODULE TaskLifecycle ----------------------------
(***************************************************************************)
(* The life of a cloud task: CloudUser hands it to the DataCenter, whose   *)
(* scheduler picks a resource provider (DataCenter::receivedTsk), its      *)
(* first packet crosses the network (TskComAgent, TskComSink), the         *)
(* provider reserves memory and starts it on a core                        *)
(* (ResourceProvider::recv, CoreScheduler::startTaskExecution), and a      *)
(* core sweep completes it or fails it (CoreScheduler::removeCompleted,    *)
(* CloudTask::fail).                                                       *)
(*                                                                         *)
(* Time is abstract: "worked" and "expired" say that a task's remaining    *)
(* work is at most 1 MIPS and that the clock reached its deadline.  Rates  *)
(* are abstract: whether a core admits a task is a free choice.  A task    *)
(* has one TaskAlloc (processes_number = 1 in CloudUser::createTask), and  *)
(* memory is counted in slots of one task each (CloudUser::memory_).       *)
(***************************************************************************)
EXTENDS Integers, FiniteSets

CONSTANTS
  Tasks,      \* CloudTask objects
  Providers,  \* hosts or VMs, the list the scheduler works on
  Cores,      \* core schedulers, numbered in the order the providers are scanned
  Host,       \* the provider each core belongs to
  MemSlots,   \* memory capacity of a provider, in tasks
  Scripts,    \* the simulations run: see the variable script
  Nowhere     \* the NULL pointer

ASSUME ConstantsAssumption ==
  /\ IsFiniteSet(Tasks)
  /\ Cores \subseteq Nat
  /\ Host \in [Cores -> Providers]
  /\ MemSlots \in [Providers -> Nat]
  /\ \A s \in Scripts : /\ s.scheduler \in {"Green", "Tested", "Blind"}
                        /\ s.dvfs \in BOOLEAN
                        /\ DOMAIN s.taskId = Tasks
  /\ Nowhere \notin Providers
  /\ Nowhere \notin Cores

VARIABLES
  script,     \* what the Tcl script sets: the scheduler, "Green", "Tested" (BestDENS,
              \* HEROS) or "Blind" (RoundRobin, Random, RandDENS), DVFS, and the users
  submitted,  \* tasks counted by DataCenter::tskSubmitted_
  rejected,   \* tasks counted by DataCenter::tskFailed_
  inFlight,   \* where the packet carrying the task pointer is heading
  received,   \* tasks counted by ResourceProvider::ntasks_
  assigned,   \* CoreScheduler::tasks_alloc_assigned_ (the "in-fly" list)
  executing,  \* CoreScheduler::tasks_alloc_list_
  core,       \* TaskAlloc::core
  location,   \* ResDemand::capacity_location of the memory demand
  freeMem,    \* free memory slots of each provider
  scheduled,  \* CloudTask::scheduled_
  started,    \* CloudTask::started_
  failed,     \* CloudTask::failed_
  completed,  \* tasks whose last TaskAlloc completed (isFinished, sendTaskOutput)
  tskFailed,  \* ResourceProvider::tskFailed_
  worked,     \* tasks with getMIPS() <= 1
  expired     \* tasks with clock() >= getDeadline()

vars == <<script, submitted, rejected, inFlight, received, assigned, executing, core,
          location, freeMem, scheduled, started, failed, completed, tskFailed,
          worked, expired>>

-----------------------------------------------------------------------------
Scheduler == script.scheduler

\* eDVFS_enabled_
DVFS == script.dvfs

\* CloudTask::id_, which every CloudUser counts from 0.
TaskId == script.taskId

CoresOf(p) == {c \in Cores : Host[c] = p}

On(list, S) == UNION {list[c] : c \in S}

\* Mutation of Fits: a provider without a free slot still accepts (>= for >).
FitsOffByOne(p) == freeMem[p] >= 0

\* tryToAllocate of a task: only memory is reserved (computing is not).
Fits(p) == freeMem[p] > 0

\* Mutation of SameId: every task on the in-fly list starts, whatever arrived.
SameIdUnchecked(t) == Tasks

\* startTaskExecution compares cloudTask->id_, not the task itself.
SameId(t) == {x \in Tasks : TaskId[x] = TaskId[t]}

\* What one removeCompleted pass over the execution lists of the cores S finds:
\* the work test comes first, the deadline test second.
Finished(exe, S) == On(exe, S) \cap worked

Overdue(exe, S) == (On(exe, S) \ worked) \cap expired

\* What getMostUrgentTaskRate finds on the in-fly lists of the cores S.
OverdueInFly(asg, S) == On(asg, S) \cap expired

\* Mutation of Blamed: one failure is counted per sweep, not per task.
BlamedPerSweep(dead) ==
  [p \in Providers |->
     tskFailed[p] + IF \E x \in dead : core'[x] \in Cores /\ Host[core'[x]] = p THEN 1 ELSE 0]

\* CloudTask::fail, called by a core, counts the failure on the core's provider.
Blamed(dead) ==
  [p \in Providers |->
     tskFailed[p] + Cardinality({x \in dead : core'[x] \in Cores /\ Host[core'[x]] = p})]

\* Mutation of Released: the slot is given back but the location pointer stays.
ReleasedPointerKept(loc, freed) == loc

\* releaseAllocation gives the slot back and forgets where it was.
Released(loc, freed) == [x \in Tasks |-> IF x \in freed THEN Nowhere ELSE loc[x]]

\* Mutation of Freed: fail does not release the memory of a started task.
FreedOnSuccess(done, dead) == done

\* Tasks whose memory is released: fail does so only if started_ is set.
Freed(done, dead) == done \cup (dead \cap started')

\* Mutation of Cleared: fail leaves the list as it is.
ClearedNever(list, dead) == list

\* fail erases the allocation from a list of the core it points to.
Cleared(list, dead) == [c \in Cores |-> {x \in list[c] : ~(x \in dead /\ core'[x] = c)}]

\* The end of tasks "done" (removeTaskAlloc, releaseAllocation, sendTaskOutput)
\* and of tasks "dead" (fail).
Settle(asg, exe, loc, mem, done, dead) ==
  LET freed == Freed(done, dead)
  IN /\ assigned' = Cleared(asg, dead)
     /\ executing' = [c \in Cores |-> Cleared(exe, dead)[c] \ done]
     /\ completed' = completed \cup done
     /\ failed' = failed \cup dead
     /\ location' = Released(loc, freed)
     /\ freeMem' = [p \in Providers |-> mem[p] + Cardinality({x \in freed : loc[x] = p})]

\* getMostUrgentTaskRate called on every core of S, as the scheduler scans them.
Probe(S, asg) ==
  LET done == Finished(executing, S)
      dead == Overdue(executing, S) \cup OverdueInFly(assigned, S)
  IN /\ Settle(asg, executing, location, freeMem, done, dead)
     /\ tskFailed' = Blamed(dead)
-----------------------------------------------------------------------------
Init ==
  /\ script \in Scripts
  /\ submitted = {} /\ rejected = {} /\ received = {}
  /\ inFlight = [t \in Tasks |-> Nowhere]
  /\ assigned = [c \in Cores |-> {}]
  /\ executing = [c \in Cores |-> {}]
  /\ core = [t \in Tasks |-> Nowhere]
  /\ location = [t \in Tasks |-> Nowhere]
  /\ freeMem = MemSlots
  /\ scheduled = {} /\ started = {} /\ failed = {} /\ completed = {}
  /\ tskFailed = [p \in Providers |-> 0]
  /\ worked = {} /\ expired = {}

\* Mutation of Reject: the task is sent although no provider admitted it.
RejectButSend(t) ==
  /\ rejected' = rejected \cup {t}
  /\ \E p \in Providers : inFlight' = [inFlight EXCEPT ![t] = p]

\* The first packet of t leaves for p (TskComAgent::sendmsg).
Send(t, p) ==
  /\ inFlight' = [inFlight EXCEPT ![t] = p]
  /\ UNCHANGED rejected

Reject(t) ==
  /\ rejected' = rejected \cup {t}
  /\ UNCHANGED inFlight

\* receivedTsk under GreenScheduler: providers are tried in order and the task
\* is put on the in-fly list of the first core that admits it, without memory.
SubmitGreen(t) ==
  /\ Scheduler = "Green"
  /\ t \notin submitted
  /\ submitted' = submitted \cup {t}
  /\ UNCHANGED <<received, started, worked, expired>>
  /\ LET open == {c \in Cores : Fits(Host[c])}
     IN \/ \E c \in open :
             /\ core' = [core EXCEPT ![t] = c]
             /\ scheduled' = scheduled \cup {t}
             /\ Send(t, Host[c])
             /\ Probe({d \in open : d <= c}, [assigned EXCEPT ![c] = @ \cup {t}])
        \/ /\ Reject(t)
           /\ UNCHANGED <<core, scheduled>>
           /\ Probe(open, assigned)

\* receivedTsk under a BestScoreScheduler: testSchedulingPossibility schedules
\* the task on each provider and takes it back; "hit" is the core found on
\* each.  The TaskAlloc keeps pointing to the last one.
SubmitTested(t) ==
  /\ Scheduler = "Tested"
  /\ t \notin submitted
  /\ submitted' = submitted \cup {t}
  /\ UNCHANGED <<received, scheduled, started, worked, expired>>
  /\ \E hit \in SUBSET {c \in Cores : Fits(Host[c])} :
       /\ \A c, d \in hit : Host[c] = Host[d] => c = d
       /\ \/ /\ hit = {}
             /\ Reject(t)
             /\ UNCHANGED core
          \/ \E last \in hit, best \in hit :
               /\ \A c \in hit : c <= last
               /\ core' = [core EXCEPT ![t] = last]
               /\ Send(t, Host[best])
       /\ Probe({d \in Cores : /\ Fits(Host[d])
                               /\ \A c \in hit : Host[c] = Host[d] => d <= c}, assigned)

\* receivedTsk under a scheduler that looks at no task state.
SubmitBlind(t) ==
  /\ Scheduler = "Blind"
  /\ t \notin submitted
  /\ submitted' = submitted \cup {t}
  /\ \E p \in Providers : Send(t, p)
  /\ UNCHANGED <<received, assigned, executing, core, location, freeMem, scheduled,
                 started, failed, completed, tskFailed, worked, expired>>

\* A queue on the path overflows: UDP-like agents do not retransmit.
DropPacket(t) ==
  /\ inFlight[t] # Nowhere
  /\ inFlight' = [inFlight EXCEPT ![t] = Nowhere]
  /\ UNCHANGED <<submitted, rejected, received, assigned, executing, core, location,
                 freeMem, scheduled, started, failed, completed, tskFailed, worked, expired>>

\* The packet reaches TskComSink::recv of its provider.
Deliver(t) ==
  /\ inFlight[t] # Nowhere
  /\ inFlight' = [inFlight EXCEPT ![t] = Nowhere]
  /\ received' = received \cup {t}
  /\ UNCHANGED <<submitted, rejected, worked, expired>>

\* startTaskExecution, on every core of p: what moves to the execution list, and
\* what stays on the in-fly list.
Starting(asg, t, p) == [c \in Cores |-> IF Host[c] = p THEN asg[c] \cap SameId(t) ELSE {}]

\* Mutation of StillInFly: a started task is not erased from the in-fly list.
StillInFlyKept(asg, t, p) == asg

StillInFly(asg, t, p) == [c \in Cores |-> asg[c] \ Starting(asg, t, p)[c]]

\* recv after the task is scheduled: memory is taken, every core of p runs
\* startTaskExecution (which also marks the task started) and updateTskList.
\* "scanned" are the cores getMostUrgentTaskRate already visited in this event.
StartTask(t, p, asg, scanned) ==
  LET exe == [c \in Cores |-> executing[c] \cup Starting(asg, t, p)[c]]
      left == StillInFly(asg, t, p)
      busy == {c \in CoresOf(p) : exe[c] # {}}
      done == Finished(exe, CoresOf(p))
      dead == Overdue(exe, CoresOf(p))
                \cup OverdueInFly(left, scanned \cup IF DVFS THEN busy ELSE {})
  IN /\ Fits(p)
     /\ started' = started \cup {t}
     /\ Settle(left, exe, [location EXCEPT ![t] = p], [freeMem EXCEPT ![p] = @ - 1], done, dead)
     /\ tskFailed' = Blamed(dead)

\* Mutation of Refuse: the task is dropped without failing it.
RefuseSilently(t, p, S) ==
  /\ UNCHANGED <<core, scheduled, started>>
  /\ Probe(S, assigned)

\* recv fails the task at p (CloudTask::fail(this)) after probing the cores S.
Refuse(t, p, S) ==
  LET done == Finished(executing, S)
      dead == Overdue(executing, S) \cup OverdueInFly(assigned, S)
  IN /\ UNCHANGED <<core, scheduled, started>>
     /\ Settle(assigned, executing, location, freeMem, done, dead \cup {t})
     /\ tskFailed' = [Blamed(dead) EXCEPT ![p] = @ + 1]

\* recv of a task that was scheduled before it was sent.
ArriveScheduled(t) ==
  /\ t \in scheduled
  /\ Deliver(t)
  /\ \/ /\ UNCHANGED <<core, scheduled>>
        /\ StartTask(t, inFlight[t], assigned, {})
     \/ /\ ~Fits(inFlight[t])
        /\ Refuse(t, inFlight[t], {})

\* recv of a task sent unscheduled: trySchedulingTsk decides here.
ArriveUnscheduled(t) ==
  /\ t \notin scheduled
  /\ Deliver(t)
  /\ LET p == inFlight[t]
     IN \/ /\ ~Fits(p)
           /\ Refuse(t, p, {})
        \/ /\ Fits(p)
           /\ Refuse(t, p, CoresOf(p))
        \/ \E c \in CoresOf(p) :
             /\ core' = [core EXCEPT ![t] = c]
             /\ scheduled' = scheduled \cup {t}
             /\ StartTask(t, p, [assigned EXCEPT ![c] = @ \cup {t}], {d \in CoresOf(p) : d <= c})

\* The provider's wake-up event: updateTskList on each core that executes tasks.
Handle(p) ==
  LET busy == {c \in CoresOf(p) : executing[c] # {}}
      done == Finished(executing, busy)
      dead == Overdue(executing, busy) \cup OverdueInFly(assigned, IF DVFS THEN busy ELSE {})
  IN /\ busy # {}
     /\ UNCHANGED <<submitted, rejected, inFlight, received, core, scheduled, started,
                    worked, expired>>
     /\ Settle(assigned, executing, location, freeMem, done, dead)
     /\ tskFailed' = Blamed(dead)

\* The clock advances until a running task has no work left, or to a deadline.
WorkDone(t) ==
  /\ t \in On(executing, Cores) \ worked
  /\ worked' = worked \cup {t}
  /\ UNCHANGED <<submitted, rejected, inFlight, received, assigned, executing, core, location,
                 freeMem, scheduled, started, failed, completed, tskFailed, expired>>

DeadlinePasses(t) ==
  /\ t \in submitted \ (expired \cup rejected \cup completed)
  /\ expired' = expired \cup {t}
  /\ UNCHANGED <<submitted, rejected, inFlight, received, assigned, executing, core, location,
                 freeMem, scheduled, started, failed, completed, tskFailed, worked>>

Submit(t) == SubmitGreen(t) \/ SubmitTested(t) \/ SubmitBlind(t)

Arrive(t) == ArriveScheduled(t) \/ ArriveUnscheduled(t)

Next ==
  /\ UNCHANGED script
  /\ \/ \E t \in Tasks : \/ Submit(t) \/ DropPacket(t) \/ Arrive(t)
                         \/ WorkDone(t) \/ DeadlinePasses(t)
     \/ \E p \in Providers : Handle(p)

\* The event queue never stops while it holds an event: a packet, a provider's
\* wake-up or a deadline.  A task causes finitely many of each, so every one of
\* them gets its turn.
Event ==
  /\ UNCHANGED script
  /\ \/ \E t \in Tasks : Arrive(t) \/ DeadlinePasses(t)
     \/ \E p \in Providers : Handle(p)

Fairness == WF_vars(Event)

Spec == Init /\ [][Next]_vars /\ Fairness
=============================================================================
