--------------------------- MODULE TaskProperties ---------------------------
(***************************************************************************)
(* What must be true of the life of tasks (TaskLifecycle).                 *)
(***************************************************************************)
EXTENDS TaskLifecycle

TypeOK ==
  /\ submitted \subseteq Tasks /\ rejected \subseteq Tasks /\ received \subseteq Tasks
  /\ inFlight \in [Tasks -> Providers \cup {Nowhere}]
  /\ assigned \in [Cores -> SUBSET Tasks]
  /\ executing \in [Cores -> SUBSET Tasks]
  /\ core \in [Tasks -> Cores \cup {Nowhere}]
  /\ location \in [Tasks -> Providers \cup {Nowhere}]
  /\ freeMem \in [Providers -> Nat]
  /\ scheduled \subseteq Tasks /\ started \subseteq Tasks
  /\ failed \subseteq Tasks /\ completed \subseteq Tasks
  /\ tskFailed \in [Providers -> Nat]
  /\ worked \subseteq Tasks /\ expired \subseteq Tasks

\* A failed task is on no core list.  removeCompleted and getMostUrgentTaskRate
\* restart from the head of the list after a failure and never skip a task that
\* has already failed, so one failed task left behind loops forever.
NoFailedOnCore ==
  \A c \in Cores : (assigned[c] \cup executing[c]) \cap failed = {}

\* A task is on at most one list, of the core its TaskAlloc points to: fail
\* finds the list entry to erase through that pointer only.
ListsFollowCorePointer ==
  \A c \in Cores :
    /\ assigned[c] \cap executing[c] = {}
    /\ \A t \in assigned[c] \cup executing[c] : core[t] = c

\* Why the two hold: only scheduled tasks are on lists, a task that can still be
\* put on one (its packet travels and it is not scheduled) has not failed, and a
\* task the data center has not seen cannot have failed.
ListsInductive ==
  /\ ListsFollowCorePointer
  /\ NoFailedOnCore
  /\ \A c \in Cores : assigned[c] \cup executing[c] \subseteq scheduled
  /\ scheduled \subseteq submitted /\ failed \subseteq submitted
  /\ \A t \in Tasks : inFlight[t] # Nowhere => t \in submitted /\ (t \in scheduled \/ t \notin failed)

\* Every memory slot is either free or reserved by exactly one task.
MemoryConserved ==
  \A p \in Providers :
    freeMem[p] + Cardinality({t \in Tasks : location[t] = p}) = MemSlots[p]

\* A task computes only on the provider that holds its memory, and not before
\* its packet reached the provider.
ExecutesWhereReserved ==
  \A c \in Cores : \A t \in executing[c] : location[t] = Host[c] /\ t \in received

\* Under Green, a task purged from the in-fly list at its deadline and delivered
\* afterwards takes memory that nobody gives back and is counted as failed
\* twice; with the other schedulers a task is placed only when it arrives.
PlacedOnArrival == Scheduler # "Green"

\* Memory is held by executing tasks only: nothing is leaked by a task that
\* failed, or that never ran.
MemoryHeldOnlyByExecuting ==
  PlacedOnArrival =>
  \A t \in Tasks : location[t] # Nowhere => \E c \in CoresOf(location[t]) : t \in executing[c]

\* The failure counters of the providers, reported as the number of tasks that
\* failed on servers, count every failed task once.
FailuresCountedOnce ==
  PlacedOnArrival =>
  \E on \in [failed -> Providers] :
    \A p \in Providers : tskFailed[p] = Cardinality({t \in failed : on[t] = p})

\* When tasks are scheduled on arrival, no in-fly reservation outlives the event
\* that made it.
InFlyEmptyBetweenEvents == PlacedOnArrival => \A c \in Cores : assigned[c] = {}

\* The status of a task, as TaskService sees it ("stranded" is not one of its
\* statuses: a task that arrived and that nobody tracks any more).
StatusOf(t) ==
  IF t \in failed THEN "failed"
  ELSE IF t \in rejected THEN "rejected"
  ELSE IF t \in completed THEN "done"
  ELSE IF t \in On(executing, Cores) THEN "running"
  ELSE IF inFlight[t] # Nowhere THEN "travelling"
  ELSE IF t \in received THEN "stranded"
  ELSE IF t \in submitted THEN "lost" ELSE "new"

\* The lifecycle implements the abstract task service: outcomes are final.
Service == INSTANCE TaskService WITH status <- [t \in Tasks |-> StatusOf(t)]

ImplementsTaskService == Service!Spec

\* Every submitted task settles: execution ends in completion or in failure, a
\* refused task fails, and no task waits for an event that never comes.  (A
\* lost packet settles its task as "lost": nothing is retransmitted.)
EverySubmissionSettles ==
  []<>(\A t \in submitted : StatusOf(t) \in Service!Outcomes)
=============================================================================
