------------------------- MODULE TaskLifecycleProofs --------------------------
(***************************************************************************)
(* Theorems about TaskLifecycle for every number of tasks, providers and   *)
(* cores, every scheduler, and with or without DVFS.                       *)
(***************************************************************************)
EXTENDS TaskProperties, FiniteSetTheorems, TLAPS

USE ConstantsAssumption

(***************************************************************************)
(* Type correctness                                                        *)
(***************************************************************************)

\* A sum of a natural number and the size of a set of tasks is a natural number.
LEMMA TaskCountType ==
  ASSUME NEW S \in SUBSET Tasks, NEW n \in Nat
  PROVE  n + Cardinality(S) \in Nat
<1>1. IsFiniteSet(S)
  BY FS_Subset
<1>2. Cardinality(S) \in Nat
  BY <1>1, FS_CardinalityType
<1> QED
  BY <1>2

\* The variables Settle and Blamed determine keep their types.
LEMMA SettleType ==
  ASSUME NEW asg, asg \in [Cores -> SUBSET Tasks],
         NEW exe, exe \in [Cores -> SUBSET Tasks],
         NEW loc, loc \in [Tasks -> Providers \cup {Nowhere}],
         NEW mem, mem \in [Providers -> Nat],
         NEW done, done \subseteq Tasks, NEW dead, dead \subseteq Tasks,
         completed \subseteq Tasks, failed \subseteq Tasks,
         Settle(asg, exe, loc, mem, done, dead)
  PROVE  /\ assigned' \in [Cores -> SUBSET Tasks]
         /\ executing' \in [Cores -> SUBSET Tasks]
         /\ completed' \subseteq Tasks /\ failed' \subseteq Tasks
         /\ location' \in [Tasks -> Providers \cup {Nowhere}]
         /\ freeMem' \in [Providers -> Nat]
<1>1. \A p \in Providers : mem[p] + Cardinality({x \in Freed(done, dead) : loc[x] = p}) \in Nat
  <2> TAKE p \in Providers
  <2>1. {x \in Freed(done, dead) : loc[x] = p} \in SUBSET Tasks
    BY DEF Freed
  <2>2. mem[p] \in Nat
    OBVIOUS
  <2> QED
    BY <2>1, <2>2, TaskCountType
<1>2. freeMem' \in [Providers -> Nat]
  BY <1>1 DEF Settle
<1>3. location' \in [Tasks -> Providers \cup {Nowhere}]
  BY DEF Settle, Released
<1>4. assigned' \in [Cores -> SUBSET Tasks] /\ executing' \in [Cores -> SUBSET Tasks]
  BY DEF Settle, Cleared
<1> QED
  BY <1>2, <1>3, <1>4 DEF Settle

LEMMA BlamedType ==
  ASSUME NEW dead, dead \subseteq Tasks, tskFailed \in [Providers -> Nat]
  PROVE  Blamed(dead) \in [Providers -> Nat]
<1>1. \A p \in Providers :
        tskFailed[p] + Cardinality({x \in dead : core'[x] \in Cores /\ Host[core'[x]] = p}) \in Nat
  <2> TAKE p \in Providers
  <2>1. {x \in dead : core'[x] \in Cores /\ Host[core'[x]] = p} \in SUBSET Tasks
    OBVIOUS
  <2> QED
    BY <2>1, TaskCountType
<1> QED
  BY <1>1 DEF Blamed

\* The sets a sweep computes are sets of tasks.
LEMMA SweepSets ==
  ASSUME NEW list, list \in [Cores -> SUBSET Tasks], NEW S, S \subseteq Cores
  PROVE  /\ Finished(list, S) \subseteq Tasks
         /\ Overdue(list, S) \subseteq Tasks
         /\ OverdueInFly(list, S) \subseteq Tasks
BY DEF Finished, Overdue, OverdueInFly, On

LEMMA ProbeType ==
  ASSUME TypeOK, NEW S, S \subseteq Cores, NEW asg, asg \in [Cores -> SUBSET Tasks],
         Probe(S, asg)
  PROVE  /\ assigned' \in [Cores -> SUBSET Tasks]
         /\ executing' \in [Cores -> SUBSET Tasks]
         /\ completed' \subseteq Tasks /\ failed' \subseteq Tasks
         /\ location' \in [Tasks -> Providers \cup {Nowhere}]
         /\ freeMem' \in [Providers -> Nat]
         /\ tskFailed' \in [Providers -> Nat]
<1> DEFINE done == Finished(executing, S)
           dead == Overdue(executing, S) \cup OverdueInFly(assigned, S)
<1>1. done \subseteq Tasks /\ dead \subseteq Tasks
  BY SweepSets DEF TypeOK
<1>2. Settle(asg, executing, location, freeMem, done, dead) /\ tskFailed' = Blamed(dead)
  BY DEF Probe
<1> HIDE DEF done, dead
<1> QED
  BY <1>1, <1>2, SettleType, BlamedType DEF TypeOK

LEMMA StartTaskType ==
  ASSUME TypeOK, NEW t \in Tasks, NEW p \in Providers,
         NEW asg, asg \in [Cores -> SUBSET Tasks], NEW scanned, scanned \subseteq Cores,
         StartTask(t, p, asg, scanned)
  PROVE  /\ assigned' \in [Cores -> SUBSET Tasks]
         /\ executing' \in [Cores -> SUBSET Tasks]
         /\ started' \subseteq Tasks
         /\ completed' \subseteq Tasks /\ failed' \subseteq Tasks
         /\ location' \in [Tasks -> Providers \cup {Nowhere}]
         /\ freeMem' \in [Providers -> Nat]
         /\ tskFailed' \in [Providers -> Nat]
<1> DEFINE exe == [c \in Cores |-> executing[c] \cup Starting(asg, t, p)[c]]
           left == StillInFly(asg, t, p)
           busy == {c \in CoresOf(p) : exe[c] # {}}
           seen == scanned \cup IF DVFS THEN busy ELSE {}
           done == Finished(exe, CoresOf(p))
           dead == Overdue(exe, CoresOf(p)) \cup OverdueInFly(left, seen)
           loc == [location EXCEPT ![t] = p]
           mem == [freeMem EXCEPT ![p] = @ - 1]
<1>1. exe \in [Cores -> SUBSET Tasks] /\ left \in [Cores -> SUBSET Tasks]
  BY DEF TypeOK, Starting, StillInFly, SameId
<1>2. CoresOf(p) \subseteq Cores /\ seen \subseteq Cores
  BY DEF CoresOf
<1>3. loc \in [Tasks -> Providers \cup {Nowhere}]
  BY DEF TypeOK
<1>4. mem \in [Providers -> Nat]
  BY DEF TypeOK, StartTask, Fits
<1>5. Settle(left, exe, loc, mem, done, dead) /\ tskFailed' = Blamed(dead)
  BY DEF StartTask
<1>6. started' \subseteq Tasks
  BY DEF StartTask, TypeOK
<1> HIDE DEF exe, left, seen, loc, mem
<1>7. done \subseteq Tasks /\ dead \subseteq Tasks
  BY <1>1, <1>2, SweepSets
<1> HIDE DEF done, dead
<1> QED
  BY <1>1, <1>3, <1>4, <1>5, <1>6, <1>7, SettleType, BlamedType DEF TypeOK

LEMMA RefuseType ==
  ASSUME TypeOK, NEW t \in Tasks, NEW p \in Providers, NEW S, S \subseteq Cores,
         Refuse(t, p, S)
  PROVE  /\ assigned' \in [Cores -> SUBSET Tasks]
         /\ executing' \in [Cores -> SUBSET Tasks]
         /\ completed' \subseteq Tasks /\ failed' \subseteq Tasks
         /\ location' \in [Tasks -> Providers \cup {Nowhere}]
         /\ freeMem' \in [Providers -> Nat]
         /\ tskFailed' \in [Providers -> Nat]
<1> DEFINE done == Finished(executing, S)
           swept == Overdue(executing, S) \cup OverdueInFly(assigned, S)
           dead == swept \cup {t}
<1>1. done \subseteq Tasks /\ swept \subseteq Tasks
  BY SweepSets DEF TypeOK
<1>2. Settle(assigned, executing, location, freeMem, done, dead)
  BY DEF Refuse
<1>3. tskFailed' = [Blamed(swept) EXCEPT ![p] = @ + 1]
  BY DEF Refuse
<1> HIDE DEF done, swept
<1>4. Blamed(swept) \in [Providers -> Nat]
  BY <1>1, BlamedType DEF TypeOK
<1>5. tskFailed' \in [Providers -> Nat]
  BY <1>3, <1>4
<1>6. dead \subseteq Tasks
  BY <1>1
<1> HIDE DEF dead
<1> QED
  BY <1>1, <1>2, <1>5, <1>6, SettleType DEF TypeOK

\* Every variable keeps its type: memory never goes below zero, a packet heads
\* for a provider, lists hold tasks (ResourceProvider::recv, trySchedulingTsk).
THEOREM TypeCorrect == Spec => []TypeOK
<1>1. Init => TypeOK
  BY DEF Init, TypeOK
<1>2. ASSUME TypeOK, [Next]_vars
      PROVE  TypeOK'
  <2>1. ASSUME NEW t \in Tasks, SubmitGreen(t)
        PROVE  TypeOK'
    <3> DEFINE open == {c \in Cores : Fits(Host[c])}
    <3>1. CASE \E c \in open :
                 /\ core' = [core EXCEPT ![t] = c]
                 /\ scheduled' = scheduled \cup {t}
                 /\ Send(t, Host[c])
                 /\ Probe({d \in open : d <= c}, [assigned EXCEPT ![c] = @ \cup {t}])
      <4>1. PICK c \in open :
                 /\ core' = [core EXCEPT ![t] = c]
                 /\ scheduled' = scheduled \cup {t}
                 /\ Send(t, Host[c])
                 /\ Probe({d \in open : d <= c}, [assigned EXCEPT ![c] = @ \cup {t}])
        BY <3>1
      <4>2. {d \in open : d <= c} \subseteq Cores
        OBVIOUS
      <4>3. [assigned EXCEPT ![c] = @ \cup {t}] \in [Cores -> SUBSET Tasks]
        BY <1>2 DEF TypeOK
      <4> QED
        BY <1>2, <2>1, <4>1, <4>2, <4>3, ProbeType DEF TypeOK, SubmitGreen, Send
    <3>2. CASE /\ Reject(t)
               /\ UNCHANGED <<core, scheduled>>
               /\ Probe(open, assigned)
      <4>1. open \subseteq Cores /\ assigned \in [Cores -> SUBSET Tasks]
        BY <1>2 DEF TypeOK
      <4> QED
        BY <1>2, <2>1, <3>2, <4>1, ProbeType DEF TypeOK, SubmitGreen, Reject
    <3> QED
      BY <2>1, <3>1, <3>2 DEF SubmitGreen
  <2>2. ASSUME NEW t \in Tasks, SubmitTested(t)
        PROVE  TypeOK'
    <3>1. PICK hit \in SUBSET {c \in Cores : Fits(Host[c])} :
            /\ \/ Reject(t) /\ UNCHANGED core
               \/ \E last \in hit, best \in hit :
                    core' = [core EXCEPT ![t] = last] /\ Send(t, Host[best])
            /\ Probe({d \in Cores : /\ Fits(Host[d])
                                    /\ \A c \in hit : Host[c] = Host[d] => d <= c}, assigned)
      BY <2>2 DEF SubmitTested
    <3> DEFINE S == {d \in Cores : /\ Fits(Host[d])
                                   /\ \A c \in hit : Host[c] = Host[d] => d <= c}
    <3>2. S \subseteq Cores /\ assigned \in [Cores -> SUBSET Tasks] /\ Probe(S, assigned)
      BY <1>2, <3>1 DEF TypeOK
    <3>3. core' \in [Tasks -> Cores \cup {Nowhere}] /\ rejected' \subseteq Tasks
            /\ inFlight' \in [Tasks -> Providers \cup {Nowhere}]
      BY <1>2, <3>1 DEF TypeOK, Reject, Send
    <3> HIDE DEF S
    <3> QED
      BY <1>2, <2>2, <3>2, <3>3, ProbeType DEF TypeOK, SubmitTested
  <2>3. ASSUME NEW t \in Tasks, SubmitBlind(t)
        PROVE  TypeOK'
    BY <1>2, <2>3 DEF TypeOK, SubmitBlind, Send
  <2>4. ASSUME NEW t \in Tasks, DropPacket(t)
        PROVE  TypeOK'
    BY <1>2, <2>4 DEF TypeOK, DropPacket
  <2>5. ASSUME NEW t \in Tasks, ArriveScheduled(t)
        PROVE  TypeOK'
    <3>1. inFlight[t] \in Providers /\ {} \subseteq Cores /\ assigned \in [Cores -> SUBSET Tasks]
      BY <1>2, <2>5 DEF ArriveScheduled, Deliver, TypeOK
    <3>2. CASE StartTask(t, inFlight[t], assigned, {}) /\ UNCHANGED <<core, scheduled>>
      BY <1>2, <2>5, <3>1, <3>2, StartTaskType DEF TypeOK, ArriveScheduled, Deliver
    <3>3. CASE Refuse(t, inFlight[t], {})
      <4>1. UNCHANGED <<core, scheduled, started>>
        BY <3>3 DEF Refuse
      <4> QED
        BY <1>2, <2>5, <3>1, <3>3, <4>1, RefuseType DEF TypeOK, ArriveScheduled, Deliver
    <3> QED
      BY <2>5, <3>2, <3>3 DEF ArriveScheduled
  <2>6. ASSUME NEW t \in Tasks, ArriveUnscheduled(t)
        PROVE  TypeOK'
    <3> DEFINE p == inFlight[t]
    <3>1. p \in Providers /\ {} \subseteq Cores /\ CoresOf(p) \subseteq Cores
      BY <1>2, <2>6 DEF ArriveUnscheduled, Deliver, TypeOK, CoresOf
    <3>2. CASE Refuse(t, p, {}) \/ Refuse(t, p, CoresOf(p))
      <4>1. UNCHANGED <<core, scheduled, started>>
        BY <3>2 DEF Refuse
      <4> QED
        BY <1>2, <2>6, <3>1, <3>2, <4>1, RefuseType DEF TypeOK, ArriveUnscheduled, Deliver
    <3>3. ASSUME NEW c \in CoresOf(p),
                 core' = [core EXCEPT ![t] = c],
                 scheduled' = scheduled \cup {t},
                 StartTask(t, p, [assigned EXCEPT ![c] = @ \cup {t}], {d \in CoresOf(p) : d <= c})
          PROVE  TypeOK'
      <4>1. [assigned EXCEPT ![c] = @ \cup {t}] \in [Cores -> SUBSET Tasks]
        BY <1>2, <3>1 DEF TypeOK
      <4>2. {d \in CoresOf(p) : d <= c} \subseteq Cores /\ c \in Cores
        BY <3>1
      <4> QED
        BY <1>2, <2>6, <3>1, <3>3, <4>1, <4>2, StartTaskType
        DEF TypeOK, ArriveUnscheduled, Deliver
    <3> QED
      BY <2>6, <3>2, <3>3 DEF ArriveUnscheduled
  <2>7. ASSUME NEW p \in Providers, Handle(p)
        PROVE  TypeOK'
    <3> DEFINE busy == {c \in CoresOf(p) : executing[c] # {}}
               done == Finished(executing, busy)
               seen == IF DVFS THEN busy ELSE {}
               dead == Overdue(executing, busy) \cup OverdueInFly(assigned, seen)
    <3>1. busy \subseteq Cores /\ seen \subseteq Cores
      BY DEF CoresOf
    <3>2. Settle(assigned, executing, location, freeMem, done, dead) /\ tskFailed' = Blamed(dead)
      BY <2>7 DEF Handle
    <3> HIDE DEF busy, seen
    <3>3. done \subseteq Tasks /\ dead \subseteq Tasks
      BY <1>2, <3>1, SweepSets DEF TypeOK
    <3>4. UNCHANGED <<submitted, rejected, inFlight, received, core, scheduled, started,
                      worked, expired>>
      BY <2>7 DEF Handle
    <3> HIDE DEF done, dead
    <3> QED
      BY <1>2, <3>2, <3>3, <3>4, SettleType, BlamedType DEF TypeOK
  <2>8. ASSUME NEW t \in Tasks, WorkDone(t) \/ DeadlinePasses(t)
        PROVE  TypeOK'
    BY <1>2, <2>8 DEF TypeOK, WorkDone, DeadlinePasses
  <2>9. CASE UNCHANGED vars
    BY <1>2, <2>9 DEF TypeOK, vars
  <2> QED
    BY <1>2, <2>1, <2>2, <2>3, <2>4, <2>5, <2>6, <2>7, <2>8, <2>9 DEF Next, Submit, Arrive
<1> QED
  BY <1>1, <1>2, PTL DEF Spec

(***************************************************************************)
(* Core lists                                                              *)
(***************************************************************************)

\* Settle only removes tasks from the lists it is given, and every dead task
\* that its core pointer leads to.
LEMMA SettleLists ==
  ASSUME NEW asg, asg \in [Cores -> SUBSET Tasks],
         NEW exe, exe \in [Cores -> SUBSET Tasks],
         NEW loc, NEW mem, NEW done, NEW dead,
         \A c \in Cores : asg[c] \cap exe[c] = {},
         \A c \in Cores : \A x \in asg[c] \cup exe[c] : core'[x] = c /\ x \notin failed,
         Settle(asg, exe, loc, mem, done, dead)
  PROVE  /\ ListsFollowCorePointer'
         /\ NoFailedOnCore'
         /\ \A c \in Cores : assigned'[c] \subseteq asg[c] /\ executing'[c] \subseteq exe[c]
         /\ failed' = failed \cup dead
<1>1. /\ assigned' = Cleared(asg, dead)
      /\ executing' = [c \in Cores |-> Cleared(exe, dead)[c] \ done]
      /\ failed' = failed \cup dead
  BY DEF Settle
<1>2. ASSUME NEW c \in Cores
      PROVE  /\ assigned'[c] = {x \in asg[c] : ~(x \in dead /\ core'[x] = c)}
             /\ executing'[c] \subseteq {x \in exe[c] : ~(x \in dead /\ core'[x] = c)}
  BY <1>1 DEF Cleared
<1>3. \A c \in Cores : assigned'[c] \subseteq asg[c] /\ executing'[c] \subseteq exe[c]
  BY <1>2
<1>4. ListsFollowCorePointer'
  <2>1. ASSUME NEW c \in Cores
        PROVE  /\ assigned'[c] \cap executing'[c] = {}
               /\ \A x \in assigned'[c] \cup executing'[c] : core'[x] = c
    BY <1>3
  <2> QED
    BY <2>1 DEF ListsFollowCorePointer
<1>5. NoFailedOnCore'
  <2>1. ASSUME NEW c \in Cores
        PROVE  (assigned'[c] \cup executing'[c]) \cap failed' = {}
    BY <1>1, <1>2
  <2> QED
    BY <2>1 DEF NoFailedOnCore
<1> QED
  BY <1>1, <1>3, <1>4, <1>5

\* A sweep only finds tasks that are on a list.
LEMMA SweepOnLists ==
  ASSUME NEW list, NEW S, S \subseteq Cores,
         NEW Q, \A c \in Cores : list[c] \subseteq Q
  PROVE  /\ Finished(list, S) \subseteq Q
         /\ Overdue(list, S) \subseteq Q
         /\ OverdueInFly(list, S) \subseteq Q
BY DEF Finished, Overdue, OverdueInFly, On

\* Probing keeps the invariant when the only new list entry is task t, just
\* scheduled on core c.
LEMMA ProbeLists ==
  ASSUME TypeOK, ListsInductive, NEW S, S \subseteq Cores,
         NEW asg, asg \in [Cores -> SUBSET Tasks],
         \A c \in Cores : asg[c] \cap executing[c] = {},
         \A c \in Cores : \A x \in asg[c] \cup executing[c] : core'[x] = c /\ x \notin failed,
         \A c \in Cores : asg[c] \subseteq scheduled',
         scheduled \subseteq scheduled', scheduled' \subseteq submitted',
         submitted \subseteq submitted',
         Probe(S, asg)
  PROVE  /\ ListsFollowCorePointer' /\ NoFailedOnCore'
         /\ \A c \in Cores : assigned'[c] \cup executing'[c] \subseteq scheduled'
         /\ failed' \subseteq failed \cup scheduled
         /\ failed' \subseteq submitted'
<1> DEFINE done == Finished(executing, S)
           dead == Overdue(executing, S) \cup OverdueInFly(assigned, S)
<1>1. Settle(asg, executing, location, freeMem, done, dead)
  BY DEF Probe
<1>2. dead \subseteq scheduled
  BY SweepOnLists DEF ListsInductive
<1>3. executing \in [Cores -> SUBSET Tasks]
  BY DEF TypeOK
<1> HIDE DEF done, dead
<1>4. /\ ListsFollowCorePointer' /\ NoFailedOnCore'
      /\ \A c \in Cores : assigned'[c] \subseteq asg[c] /\ executing'[c] \subseteq executing[c]
      /\ failed' = failed \cup dead
  BY <1>1, <1>3, SettleLists
<1> QED
  BY <1>2, <1>4 DEF ListsInductive

\* Starting a task keeps the invariant: it moves from the in-fly list to the
\* execution list of the same core.
LEMMA StartTaskLists ==
  ASSUME TypeOK, ListsInductive, NEW t \in Tasks, NEW p \in Providers,
         NEW asg, asg \in [Cores -> SUBSET Tasks], NEW scanned, scanned \subseteq Cores,
         \A c \in Cores : asg[c] \cap executing[c] = {},
         \A c \in Cores : \A x \in asg[c] \cup executing[c] : core'[x] = c /\ x \notin failed,
         \A c \in Cores : asg[c] \subseteq scheduled',
         scheduled \subseteq scheduled', scheduled' \subseteq submitted',
         submitted \subseteq submitted',
         StartTask(t, p, asg, scanned)
  PROVE  /\ ListsFollowCorePointer' /\ NoFailedOnCore'
         /\ \A c \in Cores : assigned'[c] \cup executing'[c] \subseteq scheduled'
         /\ failed' \subseteq failed \cup scheduled'
         /\ failed' \subseteq submitted'
<1> DEFINE exe == [c \in Cores |-> executing[c] \cup Starting(asg, t, p)[c]]
           left == StillInFly(asg, t, p)
           busy == {c \in CoresOf(p) : exe[c] # {}}
           seen == scanned \cup IF DVFS THEN busy ELSE {}
           done == Finished(exe, CoresOf(p))
           dead == Overdue(exe, CoresOf(p)) \cup OverdueInFly(left, seen)
           loc == [location EXCEPT ![t] = p]
           mem == [freeMem EXCEPT ![p] = @ - 1]
<1>1. Settle(left, exe, loc, mem, done, dead)
  BY DEF StartTask
<1>2. exe \in [Cores -> SUBSET Tasks] /\ left \in [Cores -> SUBSET Tasks]
  BY DEF TypeOK, Starting, StillInFly
<1>3. \A c \in Cores : exe[c] \subseteq executing[c] \cup asg[c] /\ left[c] \subseteq asg[c]
  BY DEF Starting, StillInFly
<1>4. \A c \in Cores : left[c] \cap exe[c] = {}
  BY DEF Starting, StillInFly
<1>5. CoresOf(p) \subseteq Cores /\ seen \subseteq Cores
  BY DEF CoresOf
<1> HIDE DEF exe, left, seen, loc, mem
<1>6. \A c \in Cores : exe[c] \subseteq scheduled' /\ left[c] \subseteq scheduled'
  BY <1>3 DEF ListsInductive
<1>7. dead \subseteq scheduled'
  BY <1>5, <1>6, SweepOnLists
<1>8. \A c \in Cores : \A x \in left[c] \cup exe[c] : core'[x] = c /\ x \notin failed
  BY <1>3
<1> HIDE DEF done, dead
<1>9. /\ ListsFollowCorePointer' /\ NoFailedOnCore'
      /\ \A c \in Cores : assigned'[c] \subseteq left[c] /\ executing'[c] \subseteq exe[c]
      /\ failed' = failed \cup dead
  BY <1>1, <1>2, <1>4, <1>8, SettleLists
<1> QED
  BY <1>6, <1>7, <1>9 DEF ListsInductive

\* Refusing a task keeps the invariant: whatever list it is on, its core
\* pointer leads there.
LEMMA RefuseLists ==
  ASSUME TypeOK, ListsInductive, NEW t \in submitted, NEW p \in Providers,
         NEW S, S \subseteq Cores, Refuse(t, p, S), UNCHANGED submitted
  PROVE  /\ ListsFollowCorePointer' /\ NoFailedOnCore'
         /\ \A c \in Cores : assigned'[c] \cup executing'[c] \subseteq scheduled'
         /\ failed' \subseteq failed \cup scheduled \cup {t}
         /\ failed' \subseteq submitted'
         /\ UNCHANGED scheduled
<1> DEFINE done == Finished(executing, S)
           swept == Overdue(executing, S) \cup OverdueInFly(assigned, S)
           dead == swept \cup {t}
<1>1. Settle(assigned, executing, location, freeMem, done, dead) /\ UNCHANGED <<core, scheduled>>
  BY DEF Refuse
<1>2. swept \subseteq scheduled
  BY SweepOnLists DEF ListsInductive
<1>3. /\ executing \in [Cores -> SUBSET Tasks] /\ assigned \in [Cores -> SUBSET Tasks]
      /\ \A c \in Cores : assigned[c] \cap executing[c] = {}
      /\ \A c \in Cores : \A x \in assigned[c] \cup executing[c] : core'[x] = c /\ x \notin failed
  BY <1>1 DEF TypeOK, ListsInductive, ListsFollowCorePointer, NoFailedOnCore
<1>4. dead \subseteq scheduled \cup {t}
  BY <1>2
<1> HIDE DEF done, dead
<1>5. /\ ListsFollowCorePointer' /\ NoFailedOnCore'
      /\ \A c \in Cores : assigned'[c] \subseteq assigned[c] /\ executing'[c] \subseteq executing[c]
      /\ failed' = failed \cup dead
  BY <1>1, <1>3, SettleLists
<1> QED
  BY <1>1, <1>4, <1>5 DEF ListsInductive

\* The state of the core lists in every reachable state.
LEMMA ListsInvariant == Spec => []ListsInductive
<1>1. Init => ListsInductive
  BY DEF Init, ListsInductive, ListsFollowCorePointer, NoFailedOnCore
<1>2. ASSUME TypeOK, ListsInductive, [Next]_vars
      PROVE  ListsInductive'
  <2> USE <1>2
  <2>0. /\ \A c \in Cores : assigned[c] \cap executing[c] = {}
        /\ \A c \in Cores : \A x \in assigned[c] \cup executing[c] :
              core[x] = c /\ x \notin failed /\ x \in scheduled /\ x \in submitted
        /\ executing \in [Cores -> SUBSET Tasks] /\ assigned \in [Cores -> SUBSET Tasks]
        /\ core \in [Tasks -> Cores \cup {Nowhere}]
        /\ inFlight \in [Tasks -> Providers \cup {Nowhere}]
        /\ scheduled \subseteq Tasks
    BY DEF TypeOK, ListsInductive, ListsFollowCorePointer, NoFailedOnCore
  <2>1. ASSUME NEW t \in Tasks, SubmitGreen(t)
        PROVE  ListsInductive'
    <3> DEFINE open == {c \in Cores : Fits(Host[c])}
    <3>1. t \notin submitted /\ submitted' = submitted \cup {t}
      BY <2>1 DEF SubmitGreen
    <3>2. CASE \E c \in open :
                 /\ core' = [core EXCEPT ![t] = c]
                 /\ scheduled' = scheduled \cup {t}
                 /\ Send(t, Host[c])
                 /\ Probe({d \in open : d <= c}, [assigned EXCEPT ![c] = @ \cup {t}])
      <4>1. PICK c \in open :
                 /\ core' = [core EXCEPT ![t] = c]
                 /\ scheduled' = scheduled \cup {t}
                 /\ Send(t, Host[c])
                 /\ Probe({d \in open : d <= c}, [assigned EXCEPT ![c] = @ \cup {t}])
        BY <3>2
      <4> DEFINE asg == [assigned EXCEPT ![c] = @ \cup {t}]
                 S == {d \in open : d <= c}
      <4>2. /\ asg \in [Cores -> SUBSET Tasks]
            /\ \A d \in Cores : asg[d] \subseteq assigned[d] \cup {t}
            /\ \A d \in Cores : t \in asg[d] => d = c
        BY <2>0, <3>1
      <4>3. /\ \A d \in Cores : asg[d] \cap executing[d] = {}
            /\ \A d \in Cores : \A x \in asg[d] \cup executing[d] : core'[x] = d /\ x \notin failed
            /\ \A d \in Cores : asg[d] \subseteq scheduled'
        <5>1. t \notin failed /\ \A d \in Cores : t \notin executing[d] /\ t \notin assigned[d]
          BY <2>0, <3>1 DEF ListsInductive
        <5>2. \A x \in Tasks : x # t => core'[x] = core[x]
          BY <2>0, <4>1
        <5>3. core'[t] = c
          BY <2>0, <4>1
        <5>4. \A d \in Cores : asg[d] \cap executing[d] = {}
          BY <2>0, <4>2, <5>1
        <5>5. \A d \in Cores : \A x \in asg[d] \cup executing[d] : core'[x] = d /\ x \notin failed
          BY <2>0, <4>2, <5>1, <5>2, <5>3
        <5> QED
          BY <2>0, <4>1, <4>2, <5>4, <5>5
      <4>4. S \subseteq Cores /\ Probe(S, asg)
        BY <4>1
      <4>5. scheduled' \subseteq submitted' /\ scheduled \subseteq scheduled' /\ submitted \subseteq submitted'
        BY <3>1, <4>1 DEF ListsInductive
      <4> HIDE DEF asg, S
      <4>6. /\ ListsFollowCorePointer' /\ NoFailedOnCore'
            /\ \A d \in Cores : assigned'[d] \cup executing'[d] \subseteq scheduled'
            /\ failed' \subseteq failed \cup scheduled
            /\ failed' \subseteq submitted'
        BY <4>2, <4>3, <4>4, <4>5, ProbeLists
      <4>7. \A x \in Tasks : x # t => inFlight'[x] = inFlight[x]
        BY <2>0, <4>1 DEF Send
      <4> QED
        BY <3>1, <4>1, <4>5, <4>6, <4>7 DEF ListsInductive
    <3>3. CASE /\ Reject(t)
               /\ UNCHANGED <<core, scheduled>>
               /\ Probe(open, assigned)
      <4>1. open \subseteq Cores
        OBVIOUS
      <4>2. scheduled' \subseteq submitted' /\ scheduled \subseteq scheduled' /\ submitted \subseteq submitted'
        BY <3>1, <3>3 DEF ListsInductive
      <4>3. /\ \A d \in Cores : \A x \in assigned[d] \cup executing[d] : core'[x] = d /\ x \notin failed
            /\ \A d \in Cores : assigned[d] \subseteq scheduled'
        BY <2>0, <3>3
      <4> HIDE DEF open
      <4>4. /\ ListsFollowCorePointer' /\ NoFailedOnCore'
            /\ \A d \in Cores : assigned'[d] \cup executing'[d] \subseteq scheduled'
            /\ failed' \subseteq failed \cup scheduled
            /\ failed' \subseteq submitted'
        BY <2>0, <3>3, <4>1, <4>2, <4>3, ProbeLists
      <4> QED
        BY <3>1, <3>3, <4>2, <4>4 DEF ListsInductive, Reject
    <3> QED
      BY <2>1, <3>2, <3>3 DEF SubmitGreen
  <2>2. ASSUME NEW t \in Tasks, SubmitTested(t)
        PROVE  ListsInductive'
    <3>1. PICK hit \in SUBSET {c \in Cores : Fits(Host[c])} :
            /\ \/ Reject(t) /\ UNCHANGED core
               \/ \E last \in hit, best \in hit :
                    core' = [core EXCEPT ![t] = last] /\ Send(t, Host[best])
            /\ Probe({d \in Cores : /\ Fits(Host[d])
                                    /\ \A c \in hit : Host[c] = Host[d] => d <= c}, assigned)
      BY <2>2 DEF SubmitTested
    <3> DEFINE S == {d \in Cores : /\ Fits(Host[d])
                                   /\ \A c \in hit : Host[c] = Host[d] => d <= c}
    <3>2. S \subseteq Cores /\ Probe(S, assigned)
      BY <3>1
    <3>3. t \notin submitted /\ submitted' = submitted \cup {t} /\ UNCHANGED scheduled
      BY <2>2 DEF SubmitTested
    <3>4. \A x \in Tasks : x # t => core'[x] = core[x] /\ inFlight'[x] = inFlight[x]
      BY <2>0, <3>1 DEF Reject, Send
    <3>5. /\ \A d \in Cores : \A x \in assigned[d] \cup executing[d] : core'[x] = d /\ x \notin failed
          /\ \A d \in Cores : assigned[d] \subseteq scheduled'
      BY <2>0, <3>3, <3>4
    <3>6. scheduled' \subseteq submitted' /\ scheduled \subseteq scheduled' /\ submitted \subseteq submitted'
      BY <3>3 DEF ListsInductive
    <3> HIDE DEF S
    <3>7. /\ ListsFollowCorePointer' /\ NoFailedOnCore'
          /\ \A d \in Cores : assigned'[d] \cup executing'[d] \subseteq scheduled'
          /\ failed' \subseteq failed \cup scheduled
          /\ failed' \subseteq submitted'
      BY <2>0, <3>2, <3>5, <3>6, ProbeLists
    <3> QED
      BY <3>3, <3>4, <3>6, <3>7 DEF ListsInductive
  <2>3. ASSUME NEW t \in Tasks, SubmitBlind(t)
        PROVE  ListsInductive'
    BY <2>0, <2>3 DEF SubmitBlind, Send, ListsInductive, ListsFollowCorePointer, NoFailedOnCore
  <2>4. ASSUME NEW t \in Tasks, DropPacket(t)
        PROVE  ListsInductive'
    BY <2>0, <2>4 DEF DropPacket, ListsInductive, ListsFollowCorePointer, NoFailedOnCore
  <2>5. ASSUME NEW t \in Tasks, ArriveScheduled(t) \/ ArriveUnscheduled(t)
        PROVE  ListsInductive'
    <3> DEFINE p == inFlight[t]
    <3>1. /\ p \in Providers /\ t \in submitted /\ UNCHANGED submitted
          /\ inFlight' = [inFlight EXCEPT ![t] = Nowhere]
      BY <2>0, <2>5 DEF ArriveScheduled, ArriveUnscheduled, Deliver, ListsInductive
    <3>2. /\ inFlight'[t] = Nowhere
          /\ \A x \in Tasks : x # t => inFlight'[x] = inFlight[x]
      BY <2>0, <3>1
    <3>3. {} \subseteq Cores /\ CoresOf(p) \subseteq Cores
      BY DEF CoresOf
    <3>4. ASSUME NEW S \in SUBSET Cores, Refuse(t, p, S)
          PROVE  ListsInductive'
      <4>1. /\ ListsFollowCorePointer' /\ NoFailedOnCore'
            /\ \A c \in Cores : assigned'[c] \cup executing'[c] \subseteq scheduled'
            /\ failed' \subseteq failed \cup scheduled \cup {t}
            /\ failed' \subseteq submitted'
            /\ UNCHANGED scheduled
        BY <3>1, <3>4, RefuseLists
      <4> QED
        BY <3>1, <3>2, <4>1 DEF ListsInductive
    <3>5. CASE StartTask(t, p, assigned, {}) /\ UNCHANGED <<core, scheduled>>
      <4>1. /\ \A d \in Cores : \A x \in assigned[d] \cup executing[d] : core'[x] = d /\ x \notin failed
            /\ \A d \in Cores : assigned[d] \subseteq scheduled'
            /\ scheduled \subseteq scheduled' /\ scheduled' \subseteq submitted' /\ submitted \subseteq submitted'
        BY <2>0, <3>1, <3>5 DEF ListsInductive
      <4>2. /\ ListsFollowCorePointer' /\ NoFailedOnCore'
            /\ \A c \in Cores : assigned'[c] \cup executing'[c] \subseteq scheduled'
            /\ failed' \subseteq failed \cup scheduled'
            /\ failed' \subseteq submitted'
        BY <2>0, <3>1, <3>3, <3>5, <4>1, StartTaskLists
      <4> QED
        BY <3>1, <3>2, <3>5, <4>1, <4>2 DEF ListsInductive
    <3>6. ASSUME NEW c \in CoresOf(p), t \notin scheduled,
                 core' = [core EXCEPT ![t] = c],
                 scheduled' = scheduled \cup {t},
                 StartTask(t, p, [assigned EXCEPT ![c] = @ \cup {t}], {d \in CoresOf(p) : d <= c})
          PROVE  ListsInductive'
      <4> DEFINE asg == [assigned EXCEPT ![c] = @ \cup {t}]
                 S == {d \in CoresOf(p) : d <= c}
      <4>0. c \in Cores
        BY <3>3
      <4>1. t \notin failed /\ \A d \in Cores : t \notin executing[d] /\ t \notin assigned[d]
        <5>1. inFlight[t] # Nowhere
          BY <2>5 DEF ArriveScheduled, ArriveUnscheduled, Deliver
        <5> QED
          BY <2>0, <3>6, <5>1 DEF ListsInductive
      <4>2. /\ asg \in [Cores -> SUBSET Tasks]
            /\ \A d \in Cores : asg[d] \subseteq assigned[d] \cup {t}
            /\ \A d \in Cores : t \in asg[d] => d = c
        BY <2>0, <4>0, <4>1
      <4>3. core'[t] = c /\ \A x \in Tasks : x # t => core'[x] = core[x]
        BY <2>0, <3>6
      <4>4. \A d \in Cores : asg[d] \cap executing[d] = {}
        BY <2>0, <4>1, <4>2
      <4>5. \A d \in Cores : \A x \in asg[d] \cup executing[d] : core'[x] = d /\ x \notin failed
        BY <2>0, <4>1, <4>2, <4>3
      <4>6. \A d \in Cores : asg[d] \subseteq scheduled'
        BY <2>0, <3>6, <4>2
      <4>7. scheduled \subseteq scheduled' /\ scheduled' \subseteq submitted' /\ submitted \subseteq submitted'
        BY <3>1, <3>6 DEF ListsInductive
      <4>8. S \subseteq Cores /\ StartTask(t, p, asg, S)
        BY <3>3, <3>6
      <4>9. p \in Providers
        BY <3>1
      <4> HIDE DEF asg, S, p
      <4>10. /\ ListsFollowCorePointer' /\ NoFailedOnCore'
             /\ \A d \in Cores : assigned'[d] \cup executing'[d] \subseteq scheduled'
             /\ failed' \subseteq failed \cup scheduled'
             /\ failed' \subseteq submitted'
        BY ZenonT(60), <4>2, <4>4, <4>5, <4>6, <4>7, <4>8, <4>9, StartTaskLists
      <4> QED
        BY <3>1, <3>2, <4>7, <4>10 DEF ListsInductive
    <3>7. ASSUME Refuse(t, p, {}) \/ Refuse(t, p, CoresOf(p))
          PROVE  ListsInductive'
      BY <3>3, <3>4, <3>7
    <3>8. CASE ArriveScheduled(t)
      BY <3>5, <3>7, <3>8 DEF ArriveScheduled
    <3>9. CASE ArriveUnscheduled(t)
      BY <3>6, <3>7, <3>9 DEF ArriveUnscheduled
    <3> QED
      BY <2>5, <3>8, <3>9
  <2>6. ASSUME NEW p \in Providers, Handle(p)
        PROVE  ListsInductive'
    <3> DEFINE busy == {c \in CoresOf(p) : executing[c] # {}}
               done == Finished(executing, busy)
               seen == IF DVFS THEN busy ELSE {}
               dead == Overdue(executing, busy) \cup OverdueInFly(assigned, seen)
    <3>1. busy \subseteq Cores /\ seen \subseteq Cores
      BY DEF CoresOf
    <3>2. /\ Settle(assigned, executing, location, freeMem, done, dead)
          /\ UNCHANGED <<core, scheduled, submitted, inFlight>>
      BY <2>6 DEF Handle
    <3> HIDE DEF busy, seen
    <3>3. dead \subseteq scheduled
      BY <2>0, <3>1, SweepOnLists
    <3> HIDE DEF done, dead
    <3>4. \A d \in Cores : \A x \in assigned[d] \cup executing[d] : core'[x] = d /\ x \notin failed
      BY <2>0, <3>2
    <3>5. /\ ListsFollowCorePointer' /\ NoFailedOnCore'
          /\ \A c \in Cores : assigned'[c] \subseteq assigned[c] /\ executing'[c] \subseteq executing[c]
          /\ failed' = failed \cup dead
      BY <2>0, <3>2, <3>4, SettleLists
    <3> QED
      BY <3>2, <3>3, <3>5 DEF ListsInductive
  <2>7. ASSUME NEW t \in Tasks, WorkDone(t) \/ DeadlinePasses(t)
        PROVE  ListsInductive'
    BY <2>7 DEF WorkDone, DeadlinePasses, ListsInductive, ListsFollowCorePointer, NoFailedOnCore
  <2>8. CASE UNCHANGED vars
    BY <2>8 DEF vars, ListsInductive, ListsFollowCorePointer, NoFailedOnCore
  <2> QED
    BY <2>1, <2>2, <2>3, <2>4, <2>5, <2>6, <2>7, <2>8 DEF Next, Submit, Arrive
<1> QED
  BY <1>1, <1>2, TypeCorrect, PTL DEF Spec

\* The sweeps of a core never meet a task that has already failed, which
\* removeCompleted would visit forever.
THEOREM FailedTasksLeaveCores == Spec => []NoFailedOnCore
<1>1. ListsInductive => NoFailedOnCore
  BY DEF ListsInductive
<1> QED
  BY <1>1, ListsInvariant, PTL

\* A task is on at most one list, where its core pointer leads.
THEOREM CorePointersLead == Spec => []ListsFollowCorePointer
<1>1. ListsInductive => ListsFollowCorePointer
  BY DEF ListsInductive
<1> QED
  BY <1>1, ListsInvariant, PTL

(***************************************************************************)
(* Memory and execution lists, for every data center: a slot is given back *)
(* once, and in the end by everyone who took it.                           *)
(***************************************************************************)
HeldAt(loc, p) == {x \in Tasks : loc[x] = p}

\* What MemoryConserved says of a memory and a placement within a step.
Conserved(loc, mem) ==
  \A p \in Providers : mem[p] + Cardinality(HeldAt(loc, p)) = MemSlots[p]

\* Settle gives back the slots of the tasks that it forgets.
LEMMA SettleConserves ==
  ASSUME NEW asg, NEW exe, NEW loc, loc \in [Tasks -> Providers \cup {Nowhere}],
         NEW mem, mem \in [Providers -> Nat],
         NEW done, done \subseteq Tasks, NEW dead, dead \subseteq Tasks,
         Conserved(loc, mem), Settle(asg, exe, loc, mem, done, dead)
  PROVE  MemoryConserved' /\ \A x \in Tasks : location'[x] \in {loc[x], Nowhere}
<1> DEFINE freed == Freed(done, dead)
<1>1. freed \subseteq Tasks
  BY DEF Freed
<1>2. /\ location' = [x \in Tasks |-> IF x \in freed THEN Nowhere ELSE loc[x]]
      /\ freeMem' = [p \in Providers |-> mem[p] + Cardinality({x \in freed : loc[x] = p})]
  BY DEF Settle, Released
<1> HIDE DEF freed
<1>3. ASSUME NEW p \in Providers
      PROVE  freeMem'[p] + Cardinality({x \in Tasks : location'[x] = p}) = MemSlots[p]
  <2> DEFINE held == HeldAt(loc, p)
             out == {x \in freed : loc[x] = p}
             left == {x \in Tasks : location'[x] = p}
  <2>1. held \subseteq Tasks /\ out \subseteq held /\ left = held \ out
    BY <1>1, <1>2 DEF HeldAt
  <2>2. IsFiniteSet(held) /\ IsFiniteSet(out)
    BY <2>1, FS_Subset
  <2>3. mem[p] + Cardinality(held) = MemSlots[p] /\ freeMem'[p] = mem[p] + Cardinality(out)
    BY <1>2 DEF Conserved
  <2> HIDE DEF held, out, left
  <2>4. held \cap out = out
    BY <2>1
  <2>5. Cardinality(left) = Cardinality(held) - Cardinality(out)
    BY <2>1, <2>2, <2>4, FS_Difference
  <2>6. Cardinality(held) \in Nat /\ Cardinality(out) \in Nat /\ mem[p] \in Nat
    BY <2>2, FS_CardinalityType
  <2>7. freeMem'[p] + Cardinality(left) = MemSlots[p]
    BY <2>3, <2>5, <2>6
  <2> QED
    BY <2>7 DEF left
<1> QED
  BY <1>2, <1>3 DEF MemoryConserved

\* A task that stays on its execution list keeps its memory.
LEMMA SettleKeepsReserved ==
  ASSUME NEW asg, NEW exe, NEW loc, NEW mem, NEW done, NEW dead,
         exe \in [Cores -> SUBSET Tasks],
         \A c \in Cores : \A x \in exe[c] : loc[x] = Host[c] /\ core'[x] = c,
         Settle(asg, exe, loc, mem, done, dead)
  PROVE  \A c \in Cores : \A x \in executing'[c] : x \in exe[c] /\ location'[x] = Host[c]
BY DEF Settle, Cleared, Released, Freed

\* A task that keeps its memory stays on its execution list.
LEMMA SettleKeepsHeld ==
  ASSUME NEW asg, NEW exe, NEW loc, NEW mem, NEW done, NEW dead,
         exe \in [Cores -> SUBSET Tasks],
         \A c \in Cores : exe[c] \subseteq started',
         \A x \in Tasks : loc[x] # Nowhere => \E c \in CoresOf(loc[x]) : x \in exe[c],
         Settle(asg, exe, loc, mem, done, dead)
  PROVE  \A x \in Tasks : location'[x] # Nowhere => \E c \in CoresOf(location'[x]) : x \in executing'[c]
<1> SUFFICES ASSUME NEW x \in Tasks, location'[x] # Nowhere
             PROVE  \E c \in CoresOf(location'[x]) : x \in executing'[c]
  OBVIOUS
<1>1. x \notin Freed(done, dead) /\ location'[x] = loc[x]
  BY DEF Settle, Released
<1>2. PICK c \in CoresOf(loc[x]) : x \in exe[c]
  BY <1>1
<1>3. c \in Cores /\ x \in started'
  BY <1>2 DEF CoresOf
<1>4. x \notin done /\ x \notin dead
  BY <1>1, <1>3 DEF Freed
<1>5. x \in executing'[c]
  BY <1>2, <1>3, <1>4 DEF Settle, Cleared
<1> QED
  BY <1>1, <1>2, <1>5

\* Settle puts nothing on an in-fly list.
LEMMA SettleInFly ==
  ASSUME NEW asg, NEW exe, NEW loc, NEW mem, NEW done, NEW dead,
         Settle(asg, exe, loc, mem, done, dead), \A c \in Cores : asg[c] = {}
  PROVE  \A c \in Cores : assigned'[c] = {}
BY DEF Settle, Cleared

-----------------------------------------------------------------------------
\* No two tasks of the simulation have the same id.
Distinct(s) == \A x, y \in Tasks : s.taskId[x] = s.taskId[y] => x = y

\* A core starts the task that arrived, and no other with its id.
Certain == PlacedOnArrival \/ Distinct(script)

\* The task may still come to a provider.
Pending(t) == inFlight[t] # Nowhere \/ t \notin submitted

\* The inductive invariant: the properties, what a task that is still to come
\* lacks, and that whatever executes has been started.
PendingBare ==
  \A t \in Tasks :
    Pending(t) =>
      /\ location[t] = Nowhere
      /\ t \notin received
      /\ PlacedOnArrival => t \notin scheduled

StartedWhereReserved ==
  Certain => ExecutesWhereReserved /\ \A c \in Cores : executing[c] \subseteq started

MemoryInv ==
  /\ script \in Scripts
  /\ MemoryConserved
  /\ PendingBare
  /\ StartedWhereReserved
  /\ MemoryHeldOnlyByExecuting
  /\ InFlyEmptyBetweenEvents

LEMMA InitMemory == Init => MemoryInv
<1> SUFFICES ASSUME Init PROVE MemoryInv
  OBVIOUS
<1>1. MemoryConserved
  <2> SUFFICES ASSUME NEW p \in Providers
               PROVE  freeMem[p] + Cardinality({t \in Tasks : location[t] = p}) = MemSlots[p]
    BY DEF MemoryConserved
  <2>1. {t \in Tasks : location[t] = p} = {}
    BY DEF Init
  <2>2. freeMem[p] = MemSlots[p] /\ MemSlots[p] \in Nat
    BY DEF Init
  <2>3. Cardinality({t \in Tasks : location[t] = p}) = 0
    BY <2>1, FS_EmptySet
  <2> QED
    BY <2>2, <2>3
<1> QED
  BY <1>1 DEF Init, MemoryInv, PendingBare, StartedWhereReserved, ExecutesWhereReserved,
              MemoryHeldOnlyByExecuting, InFlyEmptyBetweenEvents

\* The four properties after a sweep that starts nothing.
LEMMA SweepMemory ==
  ASSUME TypeOK, MemoryInv,
         NEW asg, NEW done, done \subseteq Tasks, NEW dead, dead \subseteq Tasks,
         Settle(asg, executing, location, freeMem, done, dead),
         \A c \in Cores : \A x \in executing[c] : core'[x] = c,
         started' = started, received \subseteq received', script' = script,
         PlacedOnArrival => \A c \in Cores : asg[c] = {}
  PROVE  /\ MemoryConserved' /\ StartedWhereReserved'
         /\ MemoryHeldOnlyByExecuting' /\ InFlyEmptyBetweenEvents'
         /\ \A x \in Tasks : location'[x] \in {location[x], Nowhere}
<1>1. /\ location \in [Tasks -> Providers \cup {Nowhere}] /\ freeMem \in [Providers -> Nat]
      /\ executing \in [Cores -> SUBSET Tasks]
  BY DEF TypeOK
<1>2. Conserved(location, freeMem)
  BY DEF MemoryInv, MemoryConserved, Conserved, HeldAt
<1>3. MemoryConserved' /\ \A x \in Tasks : location'[x] \in {location[x], Nowhere}
  BY <1>1, <1>2, SettleConserves
<1>4. (Certain' <=> Certain) /\ (PlacedOnArrival' <=> PlacedOnArrival)
  BY DEF Certain, PlacedOnArrival, Scheduler
<1>5. StartedWhereReserved'
  <2> SUFFICES ASSUME Certain
               PROVE  ExecutesWhereReserved' /\ \A c \in Cores : executing'[c] \subseteq started'
    BY <1>4 DEF StartedWhereReserved
  <2>1. \A c \in Cores : \A x \in executing[c] : location[x] = Host[c] /\ x \in received /\ x \in started
    BY DEF MemoryInv, StartedWhereReserved, ExecutesWhereReserved
  <2>2. \A c \in Cores : \A x \in executing'[c] : x \in executing[c] /\ location'[x] = Host[c]
    BY <1>1, <2>1, SettleKeepsReserved
  <2> QED
    BY <2>1, <2>2 DEF ExecutesWhereReserved
<1>6. MemoryHeldOnlyByExecuting'
  <2> SUFFICES ASSUME PlacedOnArrival
               PROVE  \A x \in Tasks : location'[x] # Nowhere =>
                         \E c \in CoresOf(location'[x]) : x \in executing'[c]
    BY <1>4 DEF MemoryHeldOnlyByExecuting, CoresOf
  <2>1. /\ \A c \in Cores : executing[c] \subseteq started'
        /\ \A x \in Tasks : location[x] # Nowhere => \E c \in CoresOf(location[x]) : x \in executing[c]
    BY DEF MemoryInv, StartedWhereReserved, Certain, MemoryHeldOnlyByExecuting
  <2> QED
    BY <1>1, <2>1, SettleKeepsHeld
<1>7. InFlyEmptyBetweenEvents'
  BY <1>4, SettleInFly DEF InFlyEmptyBetweenEvents
<1> QED
  BY <1>3, <1>5, <1>6, <1>7

\* The same when the task t arrives at p, where a slot is free, and starts.
LEMMA StartMemory ==
  ASSUME TypeOK, MemoryInv, NEW t \in Tasks, NEW p \in Providers,
         location[t] = Nowhere, t \in received', received \subseteq received', script' = script,
         NEW asg, asg \in [Cores -> SUBSET Tasks], NEW scanned, scanned \subseteq Cores,
         StartTask(t, p, asg, scanned),
         \A c \in Cores : \A x \in asg[c] \cup executing[c] : core'[x] = c,
         PlacedOnArrival => \E c \in CoresOf(p) : asg = [d \in Cores |-> IF d = c THEN {t} ELSE {}]
  PROVE  /\ MemoryConserved' /\ StartedWhereReserved'
         /\ MemoryHeldOnlyByExecuting' /\ InFlyEmptyBetweenEvents'
         /\ \A x \in Tasks : x # t => location'[x] \in {location[x], Nowhere}
<1> DEFINE exe == [c \in Cores |-> executing[c] \cup Starting(asg, t, p)[c]]
           left == StillInFly(asg, t, p)
           busy == {c \in CoresOf(p) : exe[c] # {}}
           seen == scanned \cup IF DVFS THEN busy ELSE {}
           done == Finished(exe, CoresOf(p))
           dead == Overdue(exe, CoresOf(p)) \cup OverdueInFly(left, seen)
           loc == [location EXCEPT ![t] = p]
           mem == [freeMem EXCEPT ![p] = @ - 1]
<1>1. /\ location \in [Tasks -> Providers \cup {Nowhere}] /\ freeMem \in [Providers -> Nat]
      /\ executing \in [Cores -> SUBSET Tasks]
  BY DEF TypeOK
<1>2. exe \in [Cores -> SUBSET Tasks] /\ left \in [Cores -> SUBSET Tasks]
  BY <1>1 DEF Starting, StillInFly, SameId
<1>3. /\ \A c \in Cores : exe[c] = executing[c] \cup
            IF Host[c] = p THEN asg[c] \cap SameId(t) ELSE {}
      /\ \A c \in Cores : left[c] = asg[c] \ IF Host[c] = p THEN asg[c] \cap SameId(t) ELSE {}
  BY DEF Starting, StillInFly
<1>4. seen \subseteq Cores /\ CoresOf(p) \subseteq Cores
  BY DEF CoresOf
<1>5. Settle(left, exe, loc, mem, done, dead) /\ started' = started \cup {t} /\ freeMem[p] > 0
  BY DEF StartTask, Fits
<1>6. /\ loc \in [Tasks -> Providers \cup {Nowhere}] /\ mem \in [Providers -> Nat]
      /\ loc[t] = p /\ \A x \in Tasks : x # t => loc[x] = location[x]
      /\ mem[p] = freeMem[p] - 1 /\ \A q \in Providers : q # p => mem[q] = freeMem[q]
  BY <1>1, <1>5
<1> HIDE DEF exe, left, seen, loc, mem
<1>7. done \subseteq Tasks /\ dead \subseteq Tasks
  BY <1>2, <1>4, SweepSets
<1> HIDE DEF done, dead
<1>8. Conserved(loc, mem)
  <2> SUFFICES ASSUME NEW q \in Providers
               PROVE  mem[q] + Cardinality(HeldAt(loc, q)) = MemSlots[q]
    BY DEF Conserved
  <2>1. freeMem[q] + Cardinality(HeldAt(location, q)) = MemSlots[q]
    BY DEF MemoryInv, MemoryConserved, HeldAt
  <2>2. CASE q # p
    <3>1. HeldAt(loc, q) = HeldAt(location, q)
      BY <1>6, <2>2 DEF HeldAt
    <3> QED
      BY <1>6, <2>1, <2>2, <3>1
  <2>3. CASE q = p
    <3>1. HeldAt(loc, q) = HeldAt(location, q) \cup {t} /\ t \notin HeldAt(location, q)
      BY <1>6, <2>3 DEF HeldAt
    <3>2. IsFiniteSet(HeldAt(location, q))
      BY FS_Subset DEF HeldAt
    <3>3. Cardinality(HeldAt(loc, q)) = Cardinality(HeldAt(location, q)) + 1
      BY <3>1, <3>2, FS_AddElement
    <3>4. Cardinality(HeldAt(location, q)) \in Nat /\ freeMem[q] \in Nat
      BY <1>1, <3>2, FS_CardinalityType
    <3> QED
      BY <1>6, <2>1, <2>3, <3>3, <3>4
  <2> QED
    BY <2>2, <2>3
<1>9. MemoryConserved' /\ \A x \in Tasks : location'[x] \in {loc[x], Nowhere}
  BY <1>5, <1>6, <1>7, <1>8, SettleConserves
<1>10. (Certain' <=> Certain) /\ (PlacedOnArrival' <=> PlacedOnArrival)
  BY DEF Certain, PlacedOnArrival, Scheduler
<1>11. Certain => \A c \in Cores : \A x \in exe[c] : x \in executing[c] \/ (x = t /\ Host[c] = p)
  <2>1. CASE PlacedOnArrival
    BY <1>3, <2>1
  <2>2. CASE Distinct(script)
    <3>1. SameId(t) \subseteq {t}
      BY <2>2 DEF Distinct, SameId, TaskId
    <3> QED
      BY <1>3, <3>1
  <2> QED
    BY <2>1, <2>2 DEF Certain
<1>12. Certain => \A c \in Cores : \A x \in executing[c] :
                     location[x] = Host[c] /\ x \in received /\ x \in started
  BY DEF MemoryInv, StartedWhereReserved, ExecutesWhereReserved
<1>13. Certain => \A c \in Cores : \A x \in exe[c] : /\ loc[x] = Host[c] /\ core'[x] = c
                                                    /\ x \in received' /\ x \in started'
  <2> SUFFICES ASSUME Certain, NEW c \in Cores, NEW x \in exe[c]
               PROVE  loc[x] = Host[c] /\ core'[x] = c /\ x \in received' /\ x \in started'
    OBVIOUS
  <2>1. x \in Tasks /\ core'[x] = c
    BY <1>2, <1>3
  <2>2. CASE x = t /\ Host[c] = p
    BY <1>5, <1>6, <2>1, <2>2
  <2>3. CASE x \in executing[c]
    <3>1. location[x] = Host[c] /\ Host[c] # Nowhere
      BY <1>12, <2>3
    <3>2. x # t
      BY <3>1
    <3> QED
      BY <1>5, <1>6, <1>12, <2>1, <2>3, <3>2
  <2> QED
    BY <1>11, <2>2, <2>3
<1>14. StartedWhereReserved'
  <2> SUFFICES ASSUME Certain
               PROVE  ExecutesWhereReserved' /\ \A c \in Cores : executing'[c] \subseteq started'
    BY <1>10 DEF StartedWhereReserved
  <2>1. \A c \in Cores : \A x \in executing'[c] : x \in exe[c] /\ location'[x] = Host[c]
    <3>1. \A c \in Cores : \A x \in exe[c] : loc[x] = Host[c] /\ core'[x] = c
      BY <1>13
    <3> QED
      BY <1>2, <1>5, <3>1, SettleKeepsReserved
  <2> QED
    BY <1>13, <2>1 DEF ExecutesWhereReserved
<1>15. MemoryHeldOnlyByExecuting'
  <2> SUFFICES ASSUME PlacedOnArrival
               PROVE  \A x \in Tasks : location'[x] # Nowhere =>
                         \E c \in CoresOf(location'[x]) : x \in executing'[c]
    BY <1>10 DEF MemoryHeldOnlyByExecuting, CoresOf
  <2>1. \A c \in Cores : exe[c] \subseteq started'
    BY <1>13 DEF Certain
  <2>2. ASSUME NEW x \in Tasks, loc[x] # Nowhere PROVE \E c \in CoresOf(loc[x]) : x \in exe[c]
    <3>1. CASE x = t
      <4>1. PICK c \in CoresOf(p) : asg = [d \in Cores |-> IF d = c THEN {t} ELSE {}]
        OBVIOUS
      <4>2. c \in Cores /\ Host[c] = p /\ t \in SameId(t)
        BY DEF CoresOf, SameId
      <4> QED
        BY <1>3, <1>6, <3>1, <4>1, <4>2
    <3>2. CASE x # t
      <4>1. PICK c \in CoresOf(location[x]) : x \in executing[c]
        BY <1>6, <2>2, <3>2 DEF MemoryInv, MemoryHeldOnlyByExecuting
      <4>2. c \in Cores
        BY DEF CoresOf
      <4> QED
        BY <1>3, <1>6, <3>2, <4>1, <4>2
    <3> QED
      BY <3>1, <3>2
  <2> QED
    BY <1>2, <1>5, <2>1, <2>2, SettleKeepsHeld
<1>16. InFlyEmptyBetweenEvents'
  <2> SUFFICES ASSUME PlacedOnArrival PROVE \A c \in Cores : assigned'[c] = {}
    BY <1>10 DEF InFlyEmptyBetweenEvents
  <2>1. \A c \in Cores : left[c] = {}
    <3>1. PICK c \in CoresOf(p) : asg = [d \in Cores |-> IF d = c THEN {t} ELSE {}]
      OBVIOUS
    <3>2. c \in Cores /\ Host[c] = p /\ t \in SameId(t)
      BY DEF CoresOf, SameId
    <3> QED
      BY <1>3, <3>1, <3>2
  <2> QED
    BY <1>5, <2>1, SettleInFly
<1> QED
  BY <1>6, <1>9, <1>14, <1>15, <1>16

LEMMA RefuseMemory ==
  ASSUME TypeOK, ListsInductive, MemoryInv, NEW t \in Tasks, NEW p \in Providers,
         NEW S, S \subseteq Cores, Refuse(t, p, S), received \subseteq received', script' = script
  PROVE  /\ MemoryConserved' /\ StartedWhereReserved'
         /\ MemoryHeldOnlyByExecuting' /\ InFlyEmptyBetweenEvents'
         /\ \A x \in Tasks : location'[x] \in {location[x], Nowhere}
         /\ UNCHANGED scheduled
<1> DEFINE done == Finished(executing, S)
           dead == Overdue(executing, S) \cup OverdueInFly(assigned, S) \cup {t}
<1>1. /\ Settle(assigned, executing, location, freeMem, done, dead)
      /\ UNCHANGED <<core, scheduled, started>>
  BY DEF Refuse
<1>2. done \subseteq Tasks /\ dead \subseteq Tasks
  BY SweepSets DEF TypeOK
<1> HIDE DEF done, dead
<1>3. \A c \in Cores : \A x \in executing[c] : core'[x] = c
  BY <1>1 DEF ListsInductive, ListsFollowCorePointer
<1>4. PlacedOnArrival => \A c \in Cores : assigned[c] = {}
  BY DEF MemoryInv, InFlyEmptyBetweenEvents
<1> QED
  BY <1>1, <1>2, <1>3, <1>4, SweepMemory

LEMMA ProbeMemory ==
  ASSUME TypeOK, MemoryInv, NEW S, S \subseteq Cores, NEW asg, Probe(S, asg),
         \A c \in Cores : \A x \in executing[c] : core'[x] = c,
         started' = started, received' = received, script' = script,
         PlacedOnArrival => \A c \in Cores : asg[c] = {}
  PROVE  /\ MemoryConserved' /\ StartedWhereReserved'
         /\ MemoryHeldOnlyByExecuting' /\ InFlyEmptyBetweenEvents'
         /\ \A x \in Tasks : location'[x] \in {location[x], Nowhere}
<1> DEFINE done == Finished(executing, S)
           dead == Overdue(executing, S) \cup OverdueInFly(assigned, S)
<1>1. Settle(asg, executing, location, freeMem, done, dead)
  BY DEF Probe
<1>2. done \subseteq Tasks /\ dead \subseteq Tasks
  BY SweepSets DEF TypeOK
<1> HIDE DEF done, dead
<1> QED
  BY <1>1, <1>2, SweepMemory

LEMMA NextMemory ==
  ASSUME TypeOK, ListsInductive, MemoryInv, [Next]_vars
  PROVE  MemoryInv'
<1>0. /\ \A c \in Cores : \A x \in assigned[c] \cup executing[c] :
            core[x] = c /\ x \in scheduled /\ x \in submitted
      /\ assigned \in [Cores -> SUBSET Tasks] /\ executing \in [Cores -> SUBSET Tasks]
      /\ core \in [Tasks -> Cores \cup {Nowhere}] /\ inFlight \in [Tasks -> Providers \cup {Nowhere}]
      /\ scheduled \subseteq submitted
      /\ \A t \in Tasks : inFlight[t] # Nowhere => t \in submitted
  BY DEF TypeOK, ListsInductive, ListsFollowCorePointer
<1>1. script' = script /\ script' \in Scripts /\ (PlacedOnArrival' <=> PlacedOnArrival)
  BY DEF Next, vars, MemoryInv, PlacedOnArrival, Scheduler
<1>2. PlacedOnArrival => \A c \in Cores : assigned[c] = {}
  BY DEF MemoryInv, InFlyEmptyBetweenEvents
<1> DEFINE Four == /\ MemoryConserved' /\ StartedWhereReserved'
                   /\ MemoryHeldOnlyByExecuting' /\ InFlyEmptyBetweenEvents'
<1>3. ASSUME Four, PendingBare' PROVE MemoryInv'
  BY <1>1, <1>3 DEF MemoryInv
<1>4. ASSUME NEW t \in Tasks, SubmitGreen(t) PROVE MemoryInv'
  <2> DEFINE open == {c \in Cores : Fits(Host[c])}
  <2>1. /\ t \notin submitted /\ submitted' = submitted \cup {t} /\ ~PlacedOnArrival
        /\ received' = received /\ started' = started
    BY <1>4 DEF SubmitGreen, PlacedOnArrival
  <2>2. Four /\ (\A x \in Tasks : location'[x] \in {location[x], Nowhere})
             /\ (\A x \in Tasks : x # t => inFlight'[x] = inFlight[x])
    <3>1. ASSUME NEW c \in open, core' = [core EXCEPT ![t] = c], Send(t, Host[c]),
                 Probe({d \in open : d <= c}, [assigned EXCEPT ![c] = @ \cup {t}])
          PROVE  <2>2!:
      <4>1. \A d \in Cores : \A x \in executing[d] : core'[x] = d
        BY <1>0, <2>1, <3>1
      <4>2. {d \in open : d <= c} \subseteq Cores
        OBVIOUS
      <4>3. \A x \in Tasks : x # t => inFlight'[x] = inFlight[x]
        BY <1>0, <3>1 DEF Send
      <4> HIDE DEF open
      <4> QED
        BY <1>1, <2>1, <3>1, <4>1, <4>2, <4>3, ProbeMemory
    <3>2. ASSUME Reject(t), UNCHANGED <<core, scheduled>>, Probe(open, assigned)
          PROVE  <2>2!:
      <4>1. \A d \in Cores : \A x \in executing[d] : core'[x] = d
        BY <1>0, <3>2
      <4>2. open \subseteq Cores
        OBVIOUS
      <4> HIDE DEF open
      <4> QED
        BY <1>1, <2>1, <3>2, <4>1, <4>2, ProbeMemory DEF Reject
    <3> QED
      BY <1>4, <3>1, <3>2 DEF SubmitGreen
  <2>3. PendingBare'
    BY <1>0, <1>1, <2>1, <2>2 DEF MemoryInv, PendingBare, Pending
  <2> QED
    BY <1>3, <2>2, <2>3
<1>5. ASSUME NEW t \in Tasks, SubmitTested(t) PROVE MemoryInv'
  <2>1. PICK hit \in SUBSET {c \in Cores : Fits(Host[c])} :
          /\ \/ Reject(t) /\ UNCHANGED core
             \/ \E last \in hit, best \in hit :
                  core' = [core EXCEPT ![t] = last] /\ Send(t, Host[best])
          /\ Probe({d \in Cores : /\ Fits(Host[d])
                                  /\ \A c \in hit : Host[c] = Host[d] => d <= c}, assigned)
    BY <1>5 DEF SubmitTested
  <2> DEFINE S == {d \in Cores : /\ Fits(Host[d])
                                 /\ \A c \in hit : Host[c] = Host[d] => d <= c}
  <2>2. /\ t \notin submitted /\ submitted' = submitted \cup {t}
        /\ received' = received /\ started' = started /\ scheduled' = scheduled
    BY <1>5 DEF SubmitTested
  <2>3. \A x \in Tasks : x # t => core'[x] = core[x] /\ inFlight'[x] = inFlight[x]
    BY <1>0, <2>1 DEF Reject, Send
  <2>4. \A d \in Cores : \A x \in executing[d] : core'[x] = d
    BY ZenonT(60), <1>0, <2>2, <2>3
  <2>5. S \subseteq Cores /\ Probe(S, assigned)
    BY <2>1
  <2> HIDE DEF S
  <2>6. Four /\ \A x \in Tasks : location'[x] \in {location[x], Nowhere}
    BY <1>1, <1>2, <2>2, <2>4, <2>5, ProbeMemory
  <2>7. PendingBare'
    BY <1>0, <1>1, <2>2, <2>3, <2>6 DEF MemoryInv, PendingBare, Pending
  <2> QED
    BY <1>3, <2>6, <2>7
<1>6. ASSUME NEW t \in Tasks, SubmitBlind(t) PROVE MemoryInv'
  <2>1. \A x \in Tasks : x # t => inFlight'[x] = inFlight[x]
    BY <1>0, <1>6 DEF SubmitBlind, Send
  <2>2. PendingBare'
    BY <1>1, <1>6, <2>1 DEF SubmitBlind, MemoryInv, PendingBare, Pending
  <2>3. Four
    BY <1>1, <1>6 DEF SubmitBlind, MemoryInv, MemoryConserved, StartedWhereReserved, Certain,
         ExecutesWhereReserved, MemoryHeldOnlyByExecuting, InFlyEmptyBetweenEvents
  <2> QED
    BY <1>3, <2>2, <2>3
<1>7. ASSUME NEW t \in Tasks, DropPacket(t) \/ WorkDone(t) \/ DeadlinePasses(t) PROVE MemoryInv'
  <2>1. /\ \A x \in Tasks : inFlight'[x] \in {inFlight[x], Nowhere}
        /\ UNCHANGED <<submitted, received, executing, assigned, location, freeMem, scheduled, started>>
    BY <1>0, <1>7 DEF DropPacket, WorkDone, DeadlinePasses
  <2>2. PendingBare'
    BY <1>1, <2>1 DEF MemoryInv, PendingBare, Pending
  <2>3. Four
    BY <1>1, <2>1 DEF MemoryInv, MemoryConserved, StartedWhereReserved, Certain,
         ExecutesWhereReserved, MemoryHeldOnlyByExecuting, InFlyEmptyBetweenEvents
  <2> QED
    BY <1>3, <2>2, <2>3
<1>8. ASSUME NEW t \in Tasks, ArriveScheduled(t) \/ ArriveUnscheduled(t) PROVE MemoryInv'
  <2> DEFINE p == inFlight[t]
  <2>1. /\ p \in Providers /\ p # Nowhere
        /\ submitted' = submitted /\ received' = received \cup {t}
        /\ inFlight' = [inFlight EXCEPT ![t] = Nowhere]
    BY <1>0, <1>8 DEF ArriveScheduled, ArriveUnscheduled, Deliver
  <2>2. /\ inFlight'[t] = Nowhere /\ t \in submitted
        /\ \A x \in Tasks : x # t => inFlight'[x] = inFlight[x]
    BY <1>0, <2>1
  <2>3. location[t] = Nowhere /\ t \notin received /\ (PlacedOnArrival => t \notin scheduled)
    BY <2>1 DEF MemoryInv, PendingBare, Pending
  <2>4. ASSUME Four, \A x \in Tasks : x # t => location'[x] \in {location[x], Nowhere},
               scheduled' \subseteq scheduled \cup {t}
        PROVE  MemoryInv'
    <3>1. PendingBare'
      BY <1>1, <2>1, <2>2, <2>4 DEF MemoryInv, PendingBare, Pending
    <3> QED
      BY <1>3, <2>4, <3>1
  <2>5. ASSUME NEW S \in SUBSET Cores, Refuse(t, p, S) PROVE MemoryInv'
    BY <1>1, <2>1, <2>4, <2>5, RefuseMemory
  <2>6. CASE ArriveScheduled(t)
    <3>1. CASE StartTask(t, p, assigned, {}) /\ UNCHANGED <<core, scheduled>>
      <4>1. /\ ~PlacedOnArrival /\ {} \subseteq Cores
            /\ \A c \in Cores : \A x \in assigned[c] \cup executing[c] : core'[x] = c
        BY <1>0, <2>3, <2>6, <3>1 DEF ArriveScheduled
      <4>2. t \in received' /\ received \subseteq received'
        BY <2>1
      <4> HIDE DEF p
      <4> QED
        BY <1>0, <1>1, <2>1, <2>3, <2>4, <3>1, <4>1, <4>2, StartMemory
    <3> QED
      BY <2>5, <2>6, <3>1 DEF ArriveScheduled
  <2>7. CASE ArriveUnscheduled(t)
    <3>1. ASSUME NEW c \in CoresOf(p), core' = [core EXCEPT ![t] = c],
                 scheduled' = scheduled \cup {t},
                 StartTask(t, p, [assigned EXCEPT ![c] = @ \cup {t}], {d \in CoresOf(p) : d <= c})
          PROVE  MemoryInv'
      <4> DEFINE asg == [assigned EXCEPT ![c] = @ \cup {t}]
                 S == {d \in CoresOf(p) : d <= c}
      <4>1. c \in Cores /\ S \subseteq Cores
        BY DEF CoresOf
      <4>2. t \notin scheduled
        BY <2>7 DEF ArriveUnscheduled
      <4>3. /\ asg \in [Cores -> SUBSET Tasks]
            /\ \A d \in Cores : asg[d] = IF d = c THEN assigned[d] \cup {t} ELSE assigned[d]
        BY ZenonT(60), <1>0, <4>1
      <4>4. core'[t] = c /\ \A x \in Tasks : x # t => core'[x] = core[x]
        BY <1>0, <3>1
      <4>5. \A d \in Cores : t \notin assigned[d] \cup executing[d]
        BY <1>0, <4>2
      <4>6. \A d \in Cores : \A x \in asg[d] \cup executing[d] : core'[x] = d
        BY <1>0, <4>3, <4>4, <4>5
      <4>7. PlacedOnArrival => asg = [d \in Cores |-> IF d = c THEN {t} ELSE {}]
        BY <1>2, <4>3
      <4>8. StartTask(t, p, asg, S) /\ t \in received' /\ received \subseteq received'
        BY <2>1, <3>1
      <4>9. PlacedOnArrival =>
              \E e \in CoresOf(p) : asg = [d \in Cores |-> IF d = e THEN {t} ELSE {}]
        BY <4>7
      <4>10. p \in Providers /\ location[t] = Nowhere /\ script' = script
        BY <1>1, <2>1, <2>3
      <4> HIDE DEF asg, S, p
      <4>11. Four /\ \A x \in Tasks : x # t => location'[x] \in {location[x], Nowhere}
        BY ZenonT(60), <1>1, <4>1, <4>3, <4>6, <4>8, <4>9, <4>10, StartMemory
      <4> QED
        BY <2>4, <3>1, <4>11
    <3>2. {} \subseteq Cores /\ CoresOf(p) \subseteq Cores
      BY DEF CoresOf
    <3>3. \/ Refuse(t, p, {}) \/ Refuse(t, p, CoresOf(p))
          \/ \E c \in CoresOf(p) :
                /\ core' = [core EXCEPT ![t] = c]
                /\ scheduled' = scheduled \cup {t}
                /\ StartTask(t, p, [assigned EXCEPT ![c] = @ \cup {t}],
                             {d \in CoresOf(p) : d <= c})
      BY <2>7 DEF ArriveUnscheduled
    <3>4. CASE Refuse(t, p, {}) \/ Refuse(t, p, CoresOf(p))
      BY <2>5, <3>2, <3>4
    <3> QED
      BY <3>1, <3>3, <3>4
  <2> QED
    BY <1>8, <2>6, <2>7
<1>9. ASSUME NEW p \in Providers, Handle(p) PROVE MemoryInv'
  <2> DEFINE busy == {c \in CoresOf(p) : executing[c] # {}}
             done == Finished(executing, busy)
             seen == IF DVFS THEN busy ELSE {}
             dead == Overdue(executing, busy) \cup OverdueInFly(assigned, seen)
  <2>1. busy \subseteq Cores /\ seen \subseteq Cores
    BY DEF CoresOf
  <2>2. /\ Settle(assigned, executing, location, freeMem, done, dead)
        /\ UNCHANGED <<submitted, inFlight, received, core, scheduled, started>>
    BY <1>9 DEF Handle
  <2> HIDE DEF busy, seen
  <2>3. done \subseteq Tasks /\ dead \subseteq Tasks
    BY <1>0, <2>1, SweepSets
  <2> HIDE DEF done, dead
  <2>4. \A c \in Cores : \A x \in executing[c] : core'[x] = c
    BY <1>0, <2>2
  <2>5. Four /\ \A x \in Tasks : location'[x] \in {location[x], Nowhere}
    BY <1>1, <1>2, <2>2, <2>3, <2>4, SweepMemory
  <2>6. PendingBare'
    BY <1>1, <2>2, <2>5 DEF MemoryInv, PendingBare, Pending
  <2> QED
    BY <1>3, <2>5, <2>6
<1>10. CASE UNCHANGED vars
  BY <1>10 DEF vars, MemoryInv, MemoryConserved, PendingBare, Pending, StartedWhereReserved, Certain,
       ExecutesWhereReserved, MemoryHeldOnlyByExecuting, InFlyEmptyBetweenEvents, PlacedOnArrival,
       Scheduler
<1> QED
  BY <1>4, <1>5, <1>6, <1>7, <1>8, <1>9, <1>10 DEF Next, Submit, Arrive

LEMMA MemoryInvariant == Spec => []MemoryInv
BY InitMemory, NextMemory, TypeCorrect, ListsInvariant, PTL DEF Spec

\* Whatever arrives, completes or fails, and however often a sweep is run, every
\* slot of every provider is free or held by one task (tryToAllocate,
\* releaseAllocation).
THEOREM EverySlotAccounted == Spec => []MemoryConserved
<1>1. MemoryInv => MemoryConserved
  BY DEF MemoryInv
<1> QED
  BY <1>1, MemoryInvariant, PTL

\* With a scheduler that decides on arrival, no task keeps memory without
\* executing on the provider that holds it (startTaskExecution, fail).
THEOREM NoMemoryLeaks == Spec => []MemoryHeldOnlyByExecuting
<1>1. MemoryInv => MemoryHeldOnlyByExecuting
  BY DEF MemoryInv
<1> QED
  BY <1>1, MemoryInvariant, PTL

\* With a scheduler that decides on arrival, the in-fly lists are empty between
\* events (trySchedulingTsk, startTaskExecution).
THEOREM InFlyListsAreShortLived == Spec => []InFlyEmptyBetweenEvents
<1>1. MemoryInv => InFlyEmptyBetweenEvents
  BY DEF MemoryInv
<1> QED
  BY <1>1, MemoryInvariant, PTL

\* If the tasks that GreenScheduler places have ids of their own, a task
\* computes only on the provider that holds its memory, after its packet came.
THEOREM ComputesWhereReserved ==
  ASSUME \A s \in Scripts : s.scheduler = "Green" => Distinct(s)
  PROVE  Spec => []ExecutesWhereReserved
<1>1. MemoryInv => ExecutesWhereReserved
  BY DEF MemoryInv, StartedWhereReserved, Certain, PlacedOnArrival, Scheduler
<1> QED
  BY <1>1, MemoryInvariant, PTL

(***************************************************************************)
(* The lifecycle implements TaskService, and failures are counted once,    *)
(* for every data center and every scheduler.                              *)
(***************************************************************************)
(***************************************************************************)
(* The status of a task.  A task that may still arrive was not received, a *)
(* received task is accounted for, and an outcome excludes the others.     *)
(***************************************************************************)
StatusInv ==
  /\ Certain
  /\ rejected \subseteq submitted /\ received \subseteq submitted
  /\ \A t \in Tasks : inFlight[t] # Nowhere => t \in submitted \ received
  /\ \A t \in rejected : /\ inFlight[t] = Nowhere
                         /\ t \notin received \cup scheduled \cup failed
  /\ completed \subseteq received /\ completed \cap failed = {}
  /\ \A c \in Cores : completed \cap (assigned[c] \cup executing[c]) = {}
  /\ worked \subseteq received
  /\ \A t \in received : t \in failed \cup completed \cup On(executing, Cores)
  /\ \A c \in Cores : executing[c] \subseteq received
  /\ \A c \in Cores : \A t \in assigned[c] :
        t \notin received /\ inFlight[t] \in {Host[c], Nowhere}
  /\ \A t \in Tasks : inFlight[t] # Nowhere /\ t \in scheduled =>
        t \in failed \/ \E c \in Cores : t \in assigned[c]

\* Under the invariant, what each status means; there is no other.
Means ==
  \A t \in Tasks :
    /\ t \in failed => StatusOf(t) = "failed"
    /\ t \in rejected => StatusOf(t) = "rejected"
    /\ t \in completed => StatusOf(t) = "done"
    /\ t \in On(executing, Cores) => StatusOf(t) = "running"
    /\ inFlight[t] # Nowhere /\ t \notin failed => StatusOf(t) = "travelling"
    /\ t \in submitted \ (received \cup rejected \cup failed) /\ inFlight[t] = Nowhere
          => StatusOf(t) = "lost"
    /\ t \notin submitted => StatusOf(t) = "new"
    /\ StatusOf(t) # "stranded"

LEMMA StatusMeaning ==
  ListsInductive /\ StatusInv => Means
BY DEF ListsInductive, NoFailedOnCore, StatusInv, On, Means, StatusOf

LEMMA NextStatusMeaning ==
  ListsInductive' /\ StatusInv' => Means'
BY StatusMeaning, PTL

LEMMA Statuses ==
  ASSUME NEW t PROVE StatusOf(t) \in Service!Status \cup {"stranded"}
BY DEF StatusOf, Service!Status, Service!Outcomes

-----------------------------------------------------------------------------
\* What a sweep does to the lists: it removes what it settles.
LEMMA SettleRemoves ==
  ASSUME NEW asg, asg \in [Cores -> SUBSET Tasks], NEW exe, exe \in [Cores -> SUBSET Tasks],
         NEW loc, NEW mem, NEW done, NEW dead,
         \A c \in Cores : \A x \in asg[c] \cup exe[c] : core'[x] = c,
         Settle(asg, exe, loc, mem, done, dead)
  PROVE  /\ completed' = completed \cup done /\ failed' = failed \cup dead
         /\ \A c \in Cores : /\ assigned'[c] = asg[c] \ dead
                             /\ executing'[c] = exe[c] \ (done \cup dead)
BY DEF Settle, Cleared

\* A sweep that started from the lists asg and exe keeps the invariant.
LEMMA SweepStatus ==
  ASSUME StatusInv, script' = script, worked' = worked, received \subseteq received',
         rejected' \subseteq submitted', received' \subseteq submitted',
         NEW asg, asg \in [Cores -> SUBSET Tasks], NEW exe, exe \in [Cores -> SUBSET Tasks],
         NEW loc, NEW mem, NEW done, NEW dead, Settle(asg, exe, loc, mem, done, dead),
         \A c \in Cores : \A x \in asg[c] \cup exe[c] :
            core'[x] = c /\ x \notin failed /\ x \notin completed,
         \A c \in Cores : asg[c] \cap exe[c] = {},
         \A c \in Cores : executing[c] \subseteq exe[c] /\ exe[c] \subseteq received',
         \A c \in Cores : \A x \in asg[c] : x \notin received' /\ inFlight'[x] \in {Host[c], Nowhere},
         done \subseteq On(exe, Cores) \cap worked, dead \cap worked = {}, dead \cap completed = {},
         \A x \in rejected' : /\ inFlight'[x] = Nowhere
                              /\ x \notin received' \cup scheduled' \cup failed \cup dead,
         \A x \in received' \ received : x \in dead \cup failed \cup On(exe, Cores),
         \A x \in Tasks : inFlight'[x] # Nowhere =>
            /\ x \in submitted' \ received'
            /\ x \in scheduled' => x \in dead \cup failed \/ \E c \in Cores : x \in asg[c]
  PROVE  StatusInv'
<1>1. /\ completed' = completed \cup done /\ failed' = failed \cup dead
      /\ \A c \in Cores : /\ assigned'[c] = asg[c] \ dead
                          /\ executing'[c] = exe[c] \ (done \cup dead)
  BY SettleRemoves
<1>2. Certain'
  BY DEF StatusInv, Certain, PlacedOnArrival, Scheduler
<1>3. completed' \subseteq received' /\ completed' \cap failed' = {}
  BY <1>1 DEF StatusInv, On
<1>4. \A c \in Cores : completed' \cap (assigned'[c] \cup executing'[c]) = {}
  BY <1>1 DEF On
<1>5. \A x \in received' : x \in failed' \cup completed' \cup On(executing', Cores)
  BY <1>1 DEF StatusInv, On
<1> QED
  BY <1>1, <1>2, <1>3, <1>4, <1>5 DEF StatusInv, On

-----------------------------------------------------------------------------
\* A step of the abstract service for one task.
Moves(x) == StatusOf(x)' = StatusOf(x) \/ StatusOf(x)' \in Service!After(StatusOf(x))

\* A task that is neither submitted, nor arrives, nor starts in this step.
Bystander(x) ==
  /\ inFlight'[x] \in {inFlight[x], Nowhere}
  /\ x \in submitted' <=> x \in submitted
  /\ x \in rejected' <=> x \in rejected
  /\ x \in received' <=> x \in received
  /\ x \in failed => x \in failed'
  /\ x \in completed => x \in completed'
  /\ x \in On(executing', Cores) => x \in On(executing, Cores)

LEMMA BystanderMoves ==
  ASSUME ListsInductive, StatusInv, ListsInductive', StatusInv', NEW x \in Tasks, Bystander(x)
  PROVE  Moves(x)
<1> USE DEF Moves, Service!After, Bystander
<1>1. Means /\ Means'
  BY StatusMeaning, NextStatusMeaning
<1>2. CASE x \in failed \/ x \in rejected \/ x \in completed
  BY <1>1, <1>2 DEF Means
<1>3. CASE x \notin submitted
  BY <1>1, <1>3 DEF Means
<1>4. CASE x \in On(executing, Cores)
  <2>1. x \in received
    BY <1>4 DEF StatusInv, On
  <2>2. x \in failed' \cup completed' \cup On(executing', Cores)
    BY <2>1 DEF StatusInv
  <2> QED
    BY <1>1, <1>4, <2>2 DEF Means
<1>5. CASE x \in submitted \ (received \cup rejected \cup failed)
  <2>1. x \notin completed' /\ x \notin received' /\ x \notin rejected' /\ x \in submitted'
    BY <1>5 DEF StatusInv
  <2> QED
    BY <1>1, <1>5, <2>1 DEF Means
<1>6. x \in received => x \in failed \/ x \in completed \/ x \in On(executing, Cores)
  BY DEF StatusInv
<1> QED
  BY <1>2, <1>3, <1>4, <1>5, <1>6

\* The task that is submitted, and the one that arrives.
LEMMA SubmittedMoves ==
  ASSUME ListsInductive, StatusInv, ListsInductive', StatusInv', NEW t \in Tasks,
         t \notin submitted, t \notin failed',
         t \in rejected' \/ inFlight'[t] # Nowhere
  PROVE  Moves(t)
<1>1. Means /\ Means'
  BY StatusMeaning, NextStatusMeaning
<1> QED
  BY <1>1 DEF Means, Moves, Service!After

LEMMA ArrivedMoves ==
  ASSUME ListsInductive, StatusInv, ListsInductive', StatusInv', NEW t \in Tasks,
         inFlight[t] # Nowhere, t \in received', t \in failed => t \in failed', t \notin completed'
  PROVE  Moves(t)
<1>1. Means /\ Means'
  BY StatusMeaning, NextStatusMeaning
<1>2. t \in failed' \/ t \in On(executing', Cores)
  BY DEF StatusInv
<1> QED
  BY <1>1, <1>2 DEF Means, Moves, Service!After

-----------------------------------------------------------------------------
\* A task is submitted and the cores S are probed on the way; the only entry
\* added to a list is the one of the task.
LEMMA SubmitStatus ==
  ASSUME TypeOK, ListsInductive, StatusInv, ListsInductive', NEW t \in Tasks,
         t \notin submitted, submitted' = submitted \cup {t},
         script' = script, worked' = worked, received' = received,
         NEW S, S \subseteq Cores, NEW asg, asg \in [Cores -> SUBSET Tasks], Probe(S, asg),
         \A c \in Cores : \A x \in asg[c] :
            x \in assigned[c] \/ (x = t /\ inFlight'[t] = Host[c] /\ core'[t] = c),
         \A c \in Cores : assigned[c] \subseteq asg[c],
         \A x \in Tasks : x # t => core'[x] = core[x] /\ inFlight'[x] = inFlight[x],
         \/ rejected' = rejected /\ inFlight'[t] # Nowhere
         \/ rejected' = rejected \cup {t} /\ inFlight'[t] = Nowhere /\ scheduled' = scheduled,
         scheduled' \subseteq scheduled \cup {t},
         t \in scheduled' => \E c \in Cores : t \in asg[c]
  PROVE  StatusInv' /\ \A x \in Tasks : Moves(x)
<1> DEFINE done == Finished(executing, S)
           dead == Overdue(executing, S) \cup OverdueInFly(assigned, S)
<1>1. Settle(asg, executing, location, freeMem, done, dead)
  BY DEF Probe
<1>2. /\ done \subseteq On(executing, Cores) \cap worked
      /\ \A x \in dead : x \notin worked /\ \E c \in Cores : x \in assigned[c] \cup executing[c]
  BY DEF Finished, Overdue, OverdueInFly, On, StatusInv
<1> HIDE DEF done, dead
<1>3. /\ \A c \in Cores : \A x \in assigned[c] \cup executing[c] :
           /\ core[x] = c /\ x \notin failed /\ x \notin completed /\ x \in scheduled
           /\ x \in submitted /\ x \in Tasks
      /\ \A c \in Cores : assigned[c] \cap executing[c] = {}
      /\ executing \in [Cores -> SUBSET Tasks] /\ rejected \subseteq Tasks
  BY DEF TypeOK, ListsInductive, ListsFollowCorePointer, NoFailedOnCore, StatusInv
<1>4. t \notin failed /\ t \notin completed /\ t \notin scheduled /\ t \notin received
  BY DEF ListsInductive, StatusInv
<1>5. /\ \A c \in Cores : \A x \in asg[c] \cup executing[c] :
           core'[x] = c /\ x \notin failed /\ x \notin completed
      /\ \A c \in Cores : asg[c] \cap executing[c] = {}
  BY <1>3, <1>4
<1>6. \A x \in rejected' : /\ inFlight'[x] = Nowhere
                           /\ x \notin received' \cup scheduled' \cup failed \cup dead
  BY <1>2, <1>3, <1>4 DEF StatusInv
<1>7. \A c \in Cores : \A x \in asg[c] : x \notin received' /\ inFlight'[x] \in {Host[c], Nowhere}
  BY <1>3, <1>4 DEF StatusInv
<1>8. \A x \in Tasks : inFlight'[x] # Nowhere =>
         /\ x \in submitted' \ received'
         /\ x \in scheduled' => x \in dead \cup failed \/ \E c \in Cores : x \in asg[c]
  BY <1>4 DEF StatusInv
<1>9. dead \cap worked = {} /\ dead \cap completed = {}
  BY <1>2, <1>3
<1>10. \A c \in Cores : executing[c] \subseteq received'
  BY DEF StatusInv
<1>11. rejected' \subseteq submitted' /\ received' \subseteq submitted'
  BY DEF StatusInv
<1>12. StatusInv'
  BY <1>1, <1>2, <1>3, <1>5, <1>6, <1>7, <1>8, <1>9, <1>10, <1>11, SweepStatus
<1>13. completed' = completed \cup done /\ failed' = failed \cup dead
       /\ \A c \in Cores : executing'[c] \subseteq executing[c]
  BY <1>1, <1>3, <1>5, SettleRemoves
<1>14. ASSUME NEW x \in Tasks, x # t PROVE Moves(x)
  <2>1. Bystander(x)
    BY <1>13, <1>14 DEF Bystander, On
  <2> QED
    BY <1>12, <2>1, BystanderMoves
<1>15. Moves(t)
  <2>1. t \notin failed'
    BY <1>2, <1>3, <1>4, <1>13
  <2> QED
    BY <1>12, <2>1, SubmittedMoves
<1> QED
  BY <1>12, <1>14, <1>15

\* The packet of t arrives at p, whose in-fly lists asg now hold the task unless
\* it has failed under way.
Arrived(t, p) ==
  /\ inFlight[t] = p /\ inFlight' = [inFlight EXCEPT ![t] = Nowhere]
  /\ received' = received \cup {t} /\ script' = script
  /\ UNCHANGED <<submitted, rejected, worked>>

Placed(t, p, asg, scanned) ==
  /\ asg \in [Cores -> SUBSET Tasks] /\ scanned \subseteq Cores
  /\ \A c \in Cores : \A x \in asg[c] \cup executing[c] : core'[x] = c
  /\ \A c \in Cores : \A x \in asg[c] :
        x \in assigned[c] \/ (x = t /\ Host[c] = p /\ t \notin failed)
  /\ \A c \in Cores : assigned[c] \subseteq asg[c]
  /\ PlacedOnArrival => \A c \in Cores : assigned[c] = {}
  /\ t \in failed \/ \E c \in Cores : t \in asg[c]
  /\ scheduled' \subseteq scheduled \cup {t}

LEMMA StartStatus ==
  ASSUME TypeOK, ListsInductive, StatusInv, ListsInductive', NEW t \in Tasks, NEW p \in Providers,
         Arrived(t, p), NEW asg, NEW scanned, Placed(t, p, asg, scanned),
         StartTask(t, p, asg, scanned)
  PROVE  StatusInv' /\ \A x \in Tasks : Moves(x)
<1> USE DEF Arrived, Placed
<1> DEFINE exe == [c \in Cores |-> executing[c] \cup Starting(asg, t, p)[c]]
           left == StillInFly(asg, t, p)
           busy == {c \in CoresOf(p) : exe[c] # {}}
           seen == scanned \cup IF DVFS THEN busy ELSE {}
           done == Finished(exe, CoresOf(p))
           dead == Overdue(exe, CoresOf(p)) \cup OverdueInFly(left, seen)
<1>1. Settle(left, exe, [location EXCEPT ![t] = p], [freeMem EXCEPT ![p] = @ - 1], done, dead)
  BY DEF StartTask
<1>2. /\ \A c \in Cores : \A x \in assigned[c] \cup executing[c] :
           /\ core[x] = c /\ x \notin failed /\ x \notin completed /\ x \in scheduled
           /\ x \in submitted /\ x \in Tasks
      /\ executing \in [Cores -> SUBSET Tasks] /\ rejected \subseteq Tasks
  BY DEF TypeOK, ListsInductive, ListsFollowCorePointer, NoFailedOnCore, StatusInv
<1>3. /\ t \notin completed /\ t \notin received /\ t \notin worked /\ t \in submitted
      /\ t \notin rejected /\ t \in received' /\ t \in SameId(t)
      /\ \A c \in Cores : t \notin executing[c]
  BY DEF StatusInv, SameId
<1>4. \A c \in Cores : \A x \in asg[c] : x \in SameId(t) => x = t
  <2>1. CASE PlacedOnArrival
    BY <2>1
  <2>2. CASE Distinct(script)
    BY <2>2 DEF Distinct, SameId, TaskId
  <2> QED
    BY <2>1, <2>2 DEF StatusInv, Certain
<1>5. \A c \in Cores : t \in asg[c] => Host[c] = p
  BY DEF StatusInv
<1>6. /\ exe \in [Cores -> SUBSET Tasks] /\ left \in [Cores -> SUBSET Tasks]
      /\ \A c \in Cores : exe[c] = executing[c] \cup (asg[c] \cap {t})
      /\ \A c \in Cores : left[c] = asg[c] \ {t}
  BY <1>2, <1>3, <1>4, <1>5 DEF Starting, StillInFly, SameId
<1>7. /\ \A c \in Cores : exe[c] \subseteq received' /\ executing[c] \subseteq exe[c]
      /\ \A c \in Cores : \A x \in left[c] : x \in assigned[c] /\ x # t
  BY <1>3, <1>6 DEF StatusInv
<1> HIDE DEF exe, left
<1>8. /\ done \subseteq On(exe, Cores) \cap worked
      /\ \A x \in dead : x \in On(left, Cores) \/ x \in On(exe, Cores) \ worked
  <2>1. seen \subseteq Cores /\ CoresOf(p) \subseteq Cores
    BY DEF CoresOf
  <2> HIDE DEF seen
  <2>2. done \subseteq On(exe, Cores) \cap worked
    BY <2>1 DEF Finished, On
  <2>3. Overdue(exe, CoresOf(p)) \subseteq On(exe, Cores) \ worked
    <3>1. On(exe, CoresOf(p)) \subseteq On(exe, Cores)
      BY <2>1 DEF On
    <3> QED
      BY <3>1 DEF Overdue
  <2>4. OverdueInFly(left, seen) \subseteq On(left, Cores)
    BY <2>1 DEF OverdueInFly, On
  <2> QED
    BY <2>2, <2>3, <2>4
<1> HIDE DEF done, dead
<1>9. /\ \A c \in Cores : \A x \in left[c] \cup exe[c] :
            core'[x] = c /\ x \notin failed /\ x \notin completed /\ x \notin rejected
      /\ \A c \in Cores : left[c] \cap exe[c] = {}
  <2>1. \A c \in Cores : left[c] \cap executing[c] = {}
    BY <1>7 DEF ListsInductive, ListsFollowCorePointer
  <2> QED
    BY <1>2, <1>3, <1>6, <1>7, <2>1 DEF StatusInv
<1>10. \A c \in Cores : \A x \in left[c] : x \notin received' /\ inFlight'[x] \in {Host[c], Nowhere}
  BY <1>2, <1>7 DEF StatusInv, TypeOK
<1>11. dead \cap worked = {} /\ dead \cap completed = {} /\ dead \cap rejected = {}
  <2>1. \A x \in On(left, Cores) : x \notin worked
    BY <1>10 DEF StatusInv, On
  <2> QED
    BY <1>8, <1>9, <2>1 DEF On
<1>12. \A x \in rejected' : /\ inFlight'[x] = Nowhere
                            /\ x \notin received' \cup scheduled' \cup failed \cup dead
  BY <1>2, <1>3, <1>11 DEF StatusInv, TypeOK
<1>13. \A x \in received' \ received : x \in dead \cup failed \cup On(exe, Cores)
  BY <1>6 DEF On
<1>14. \A x \in Tasks : inFlight'[x] # Nowhere =>
         /\ x \in submitted' \ received'
         /\ x \in scheduled' => x \in dead \cup failed \/ \E c \in Cores : x \in left[c]
  BY <1>6, <1>2 DEF StatusInv, TypeOK
<1>15. rejected' \subseteq submitted' /\ received' \subseteq submitted' /\ received \subseteq received'
  BY <1>3 DEF StatusInv
<1>16. StatusInv'
  BY <1>1, <1>6, <1>7, <1>8, <1>9, <1>10, <1>11, <1>12, <1>13, <1>14, <1>15, SweepStatus
<1>17. /\ completed' = completed \cup done /\ failed' = failed \cup dead
       /\ \A c \in Cores : executing'[c] \subseteq exe[c]
  BY <1>1, <1>6, <1>9, SettleRemoves
<1>18. ASSUME NEW x \in Tasks, x # t PROVE Moves(x)
  <2>1. Bystander(x)
    BY <1>6, <1>17, <1>18 DEF Bystander, On, TypeOK
  <2> QED
    BY <1>16, <2>1, BystanderMoves
<1>19. Moves(t)
  <2>1. t \notin completed'
    BY <1>3, <1>8, <1>17
  <2>2. inFlight[t] # Nowhere
    OBVIOUS
  <2> QED
    BY <1>3, <1>16, <1>17, <2>1, <2>2, ArrivedMoves
<1> QED
  BY <1>16, <1>18, <1>19

\* The provider places the task on its core c when it arrives.
LEMMA PlaceStatus ==
  ASSUME TypeOK, ListsInductive, StatusInv, ListsInductive', NEW t \in Tasks, NEW p \in Providers,
         Arrived(t, p), t \notin scheduled,
         NEW c \in Cores, Host[c] = p, core' = [core EXCEPT ![t] = c],
         scheduled' = scheduled \cup {t},
         PlacedOnArrival => \A d \in Cores : assigned[d] = {},
         NEW S, S \subseteq Cores, StartTask(t, p, [assigned EXCEPT ![c] = @ \cup {t}], S)
  PROVE  StatusInv' /\ \A x \in Tasks : Moves(x)
<1>1. /\ assigned \in [Cores -> SUBSET Tasks] /\ core \in [Tasks -> Cores \cup {Nowhere}]
      /\ \A d \in Cores : \A x \in assigned[d] \cup executing[d] : core[x] = d /\ x \in scheduled
  BY DEF TypeOK, ListsInductive, ListsFollowCorePointer
<1> DEFINE asg == [assigned EXCEPT ![c] = @ \cup {t}]
<1>2. asg \in [Cores -> SUBSET Tasks] /\ StartTask(t, p, asg, S)
  BY <1>1
<1>3. \A d \in Cores : asg[d] = IF d = c THEN assigned[d] \cup {t} ELSE assigned[d]
  BY <1>1
<1>4. core'[t] = c /\ \A x \in Tasks : x # t => core'[x] = core[x]
  BY <1>1
<1> HIDE DEF asg
<1>5. t \notin failed /\ \A d \in Cores : \A x \in assigned[d] \cup executing[d] : x # t
  <2>1. inFlight[t] # Nowhere
    BY DEF Arrived
  <2>2. t \notin failed
    BY <2>1 DEF ListsInductive
  <2> QED
    BY <1>1, <2>2
<1>6. \A d \in Cores : \A x \in asg[d] \cup executing[d] : core'[x] = d
  <2>1. executing \in [Cores -> SUBSET Tasks]
    BY DEF TypeOK
  <2> QED
    BY <1>1, <1>2, <1>3, <1>4, <1>5, <2>1
<1>7. \A d \in Cores : \A x \in asg[d] :
         x \in assigned[d] \/ (x = t /\ Host[d] = p /\ t \notin failed)
  BY <1>3, <1>5
<1>8. (\A d \in Cores : assigned[d] \subseteq asg[d]) /\ \E d \in Cores : t \in asg[d]
  BY <1>3
<1>9. Placed(t, p, asg, S)
  BY <1>2, <1>6, <1>7, <1>8 DEF Placed
<1> QED
  BY <1>2, <1>9, StartStatus

LEMMA RefuseStatus ==
  ASSUME TypeOK, ListsInductive, StatusInv, ListsInductive', NEW t \in Tasks, NEW p \in Providers,
         Arrived(t, p), NEW S, S \subseteq Cores, Refuse(t, p, S)
  PROVE  StatusInv' /\ \A x \in Tasks : Moves(x)
<1> USE DEF Arrived
<1> DEFINE done == Finished(executing, S)
           swept == Overdue(executing, S) \cup OverdueInFly(assigned, S)
           dead == swept \cup {t}
<1>1. Settle(assigned, executing, location, freeMem, done, dead) /\ UNCHANGED <<core, scheduled>>
  BY DEF Refuse
<1>2. /\ \A c \in Cores : \A x \in assigned[c] \cup executing[c] :
           /\ core'[x] = c /\ x \notin failed /\ x \notin completed /\ x \in scheduled
           /\ x \in submitted /\ x \in Tasks
      /\ \A c \in Cores : assigned[c] \cap executing[c] = {}
      /\ executing \in [Cores -> SUBSET Tasks] /\ assigned \in [Cores -> SUBSET Tasks]
      /\ rejected \subseteq Tasks
  BY <1>1 DEF TypeOK, ListsInductive, ListsFollowCorePointer, NoFailedOnCore, StatusInv
<1>3. /\ t \notin completed /\ t \notin received /\ t \notin worked /\ t \in submitted
      /\ t \notin rejected /\ t \in received'
  BY DEF StatusInv
<1>4. /\ done \subseteq On(executing, Cores) \cap worked
      /\ \A x \in swept : x \notin worked /\ \E c \in Cores : x \in assigned[c] \cup executing[c]
  BY DEF Finished, Overdue, OverdueInFly, On, StatusInv
<1> HIDE DEF done, swept
<1>5. dead \cap worked = {} /\ dead \cap completed = {} /\ dead \cap rejected = {}
  BY <1>2, <1>3, <1>4 DEF StatusInv
<1>6. t \in dead
  OBVIOUS
<1> HIDE DEF dead
<1>7. /\ completed' = completed \cup done /\ failed' = failed \cup dead
      /\ \A c \in Cores : /\ assigned'[c] = assigned[c] \ dead
                          /\ executing'[c] = executing[c] \ (done \cup dead)
  BY <1>1, <1>2, SettleRemoves
<1>8. StatusInv'
  <2>1. Certain'
    BY DEF StatusInv, Certain, PlacedOnArrival, Scheduler
  <2>2. completed' \subseteq received' /\ completed' \cap failed' = {}
    BY <1>2, <1>4, <1>5, <1>7 DEF StatusInv, On
  <2>3. \A c \in Cores : completed' \cap (assigned'[c] \cup executing'[c]) = {}
    BY <1>2, <1>4, <1>7 DEF On
  <2>4. \A x \in received' : x \in failed' \cup completed' \cup On(executing', Cores)
    BY <1>6, <1>7 DEF StatusInv, On
  <2>5. \A c \in Cores : \A x \in assigned'[c] :
           x \notin received' /\ inFlight'[x] \in {Host[c], Nowhere}
    BY <1>2, <1>6, <1>7 DEF StatusInv, TypeOK
  <2>6. \A x \in Tasks : inFlight'[x] # Nowhere =>
          /\ x \in submitted' \ received'
          /\ x \in scheduled' => x \in failed' \/ \E c \in Cores : x \in assigned'[c]
    BY <1>1, <1>7 DEF StatusInv, TypeOK
  <2>7. \A x \in rejected' : /\ inFlight'[x] = Nowhere
                             /\ x \notin received' \cup scheduled' \cup failed'
    BY <1>1, <1>2, <1>3, <1>5, <1>7 DEF StatusInv, TypeOK
  <2>8. \A c \in Cores : executing'[c] \subseteq received'
    BY <1>7 DEF StatusInv
  <2> QED
    BY <1>3, <2>1, <2>2, <2>3, <2>4, <2>5, <2>6, <2>7, <2>8 DEF StatusInv
<1>9. ASSUME NEW x \in Tasks, x # t PROVE Moves(x)
  <2>1. Bystander(x)
    BY <1>7, <1>9 DEF Bystander, On, TypeOK
  <2> QED
    BY <1>8, <2>1, BystanderMoves
<1>10. Moves(t)
  <2>1. t \notin completed'
    BY <1>3, <1>4, <1>7
  <2>2. inFlight[t] # Nowhere
    OBVIOUS
  <2> QED
    BY <1>3, <1>7, <1>8, <2>1, <2>2, ArrivedMoves
<1> QED
  BY <1>8, <1>9, <1>10

\* The provider's wake-up.
LEMMA HandleStatus ==
  ASSUME TypeOK, ListsInductive, StatusInv, ListsInductive', NEW p \in Providers, Handle(p),
         script' = script
  PROVE  StatusInv' /\ \A x \in Tasks : Moves(x)
<1> DEFINE busy == {c \in CoresOf(p) : executing[c] # {}}
           done == Finished(executing, busy)
           dead == Overdue(executing, busy) \cup OverdueInFly(assigned, IF DVFS THEN busy ELSE {})
<1>1. /\ Settle(assigned, executing, location, freeMem, done, dead)
      /\ UNCHANGED <<submitted, rejected, inFlight, received, core, scheduled, worked>>
  BY DEF Handle
<1>2. /\ \A c \in Cores : \A x \in assigned[c] \cup executing[c] :
           /\ core'[x] = c /\ x \notin failed /\ x \notin completed /\ x \in scheduled
      /\ \A c \in Cores : assigned[c] \cap executing[c] = {}
      /\ executing \in [Cores -> SUBSET Tasks] /\ assigned \in [Cores -> SUBSET Tasks]
  BY <1>1 DEF TypeOK, ListsInductive, ListsFollowCorePointer, NoFailedOnCore, StatusInv
<1>3. /\ done \subseteq On(executing, Cores) \cap worked
      /\ \A x \in dead : x \notin worked /\ \E c \in Cores : x \in assigned[c] \cup executing[c]
  <2> DEFINE seen == IF DVFS THEN busy ELSE {}
  <2>1. busy \subseteq Cores /\ seen \subseteq Cores
    BY DEF CoresOf
  <2> HIDE DEF busy, seen
  <2> QED
    BY <2>1 DEF Finished, Overdue, OverdueInFly, On, StatusInv
<1> HIDE DEF done, dead
<1>4. dead \cap worked = {} /\ dead \cap completed = {}
  BY <1>2, <1>3
<1>5. \A x \in rejected' : /\ inFlight'[x] = Nowhere
                           /\ x \notin received' \cup scheduled' \cup failed \cup dead
  BY <1>1, <1>2, <1>3 DEF StatusInv
<1>6. /\ \A c \in Cores : executing[c] \subseteq received'
      /\ \A c \in Cores : \A x \in assigned[c] :
            x \notin received' /\ inFlight'[x] \in {Host[c], Nowhere}
      /\ \A x \in Tasks : inFlight'[x] # Nowhere =>
            /\ x \in submitted' \ received'
            /\ x \in scheduled' => x \in dead \cup failed \/ \E c \in Cores : x \in assigned[c]
      /\ rejected' \subseteq submitted' /\ received' \subseteq submitted'
  BY <1>1 DEF StatusInv
<1>7. StatusInv'
  BY <1>1, <1>2, <1>3, <1>4, <1>5, <1>6, SweepStatus
<1>8. completed' = completed \cup done /\ failed' = failed \cup dead
      /\ \A c \in Cores : executing'[c] \subseteq executing[c]
  BY <1>1, <1>2, SettleRemoves
<1>9. ASSUME NEW x \in Tasks PROVE Moves(x)
  <2>1. Bystander(x)
    BY <1>1, <1>8, <1>9 DEF Bystander, On
  <2> QED
    BY <1>7, <2>1, BystanderMoves
<1> QED
  BY <1>7, <1>9

-----------------------------------------------------------------------------
LEMMA NextStatus ==
  ASSUME TypeOK, ListsInductive, MemoryInv, StatusInv, ListsInductive', [Next]_vars
  PROVE  StatusInv' /\ \A x \in Tasks : Moves(x)
<1> DEFINE Goal == StatusInv' /\ \A x \in Tasks : Moves(x)
<1>0. /\ assigned \in [Cores -> SUBSET Tasks] /\ executing \in [Cores -> SUBSET Tasks]
      /\ core \in [Tasks -> Cores \cup {Nowhere}]
      /\ inFlight \in [Tasks -> Providers \cup {Nowhere}]
      /\ script' = script /\ (PlacedOnArrival => \A c \in Cores : assigned[c] = {})
      /\ \A c \in Cores : \A x \in assigned[c] \cup executing[c] : core[x] = c /\ x \in submitted
  BY DEF TypeOK, Next, vars, MemoryInv, InFlyEmptyBetweenEvents, ListsInductive,
         ListsFollowCorePointer
<1>1. ASSUME NEW t \in Tasks, SubmitGreen(t) PROVE Goal
  <2> DEFINE open == {c \in Cores : Fits(Host[c])}
  <2>1. /\ t \notin submitted /\ submitted' = submitted \cup {t}
        /\ received' = received /\ worked' = worked
    BY <1>1 DEF SubmitGreen
  <2>2. ASSUME NEW c \in open, core' = [core EXCEPT ![t] = c], scheduled' = scheduled \cup {t},
               Send(t, Host[c]),
               Probe({d \in open : d <= c}, [assigned EXCEPT ![c] = @ \cup {t}])
        PROVE  Goal
    <3> DEFINE asg == [assigned EXCEPT ![c] = @ \cup {t}]
               S == {d \in open : d <= c}
    <3>1. /\ S \subseteq Cores /\ asg \in [Cores -> SUBSET Tasks] /\ Probe(S, asg)
          /\ \A d \in Cores : asg[d] = IF d = c THEN assigned[d] \cup {t} ELSE assigned[d]
      BY ZenonT(60), <1>0, <2>2
    <3>2. /\ \A x \in Tasks : x # t => core'[x] = core[x] /\ inFlight'[x] = inFlight[x]
          /\ core'[t] = c /\ inFlight'[t] = Host[c] /\ Host[c] # Nowhere /\ rejected' = rejected
      BY <1>0, <2>2 DEF Send
    <3>3. /\ \A d \in Cores : \A x \in asg[d] :
               x \in assigned[d] \/ (x = t /\ inFlight'[t] = Host[d] /\ core'[t] = d)
          /\ \A d \in Cores : assigned[d] \subseteq asg[d]
          /\ \E d \in Cores : t \in asg[d]
      BY <3>1, <3>2
    <3>4. scheduled' \subseteq scheduled \cup {t} /\ inFlight'[t] # Nowhere
      BY <2>2, <3>2
    <3> HIDE DEF asg, S
    <3>10. t \notin submitted /\ submitted' = submitted \cup {t}
      BY <1>0, <2>1, <3>1, <3>2, <3>3, <3>4
    <3>11. script' = script /\ worked' = worked /\ received' = received
      BY <1>0, <2>1, <3>1, <3>2, <3>3, <3>4
    <3>12. S \subseteq Cores /\ asg \in [Cores -> SUBSET Tasks] /\ Probe(S, asg)
      BY <1>0, <2>1, <3>1, <3>2, <3>3, <3>4
    <3>13. \A d \in Cores : \A x \in asg[d] : x \in assigned[d] \/ (x = t /\ inFlight'[t] = Host[d] /\ core'[t] = d)
      BY <1>0, <2>1, <3>1, <3>2, <3>3, <3>4
    <3>14. \A d \in Cores : assigned[d] \subseteq asg[d]
      BY <1>0, <2>1, <3>1, <3>2, <3>3, <3>4
    <3>15. \A x \in Tasks : x # t => core'[x] = core[x] /\ inFlight'[x] = inFlight[x]
      BY <1>0, <2>1, <3>1, <3>2, <3>3, <3>4
    <3>16. rejected' = rejected /\ inFlight'[t] # Nowhere
      BY <1>0, <2>1, <3>1, <3>2, <3>3, <3>4
    <3>17. scheduled' \subseteq scheduled \cup {t}
      BY <1>0, <2>1, <3>1, <3>2, <3>3, <3>4
    <3>18. t \in scheduled' => \E d \in Cores : t \in asg[d]
      BY <1>0, <2>1, <3>1, <3>2, <3>3, <3>4
    <3>20. StatusInv'
      BY ZenonT(60), <3>10, <3>11, <3>12, <3>13, <3>14, <3>15, <3>16, <3>17, <3>18, SubmitStatus
    <3>21. \A x \in Tasks : Moves(x)
      BY ZenonT(60), <3>10, <3>11, <3>12, <3>13, <3>14, <3>15, <3>16, <3>17, <3>18, SubmitStatus
    <3> QED
      BY <3>20, <3>21
  <2>3. ASSUME Reject(t), UNCHANGED <<core, scheduled>>, Probe(open, assigned)
        PROVE  Goal
    <3>1. open \subseteq Cores
      OBVIOUS
    <3>2. inFlight[t] = Nowhere /\ t \notin scheduled
      BY <2>1 DEF StatusInv, ListsInductive
    <3> HIDE DEF open
    <3> QED
      BY <1>0, <2>1, <2>3, <3>1, <3>2, SubmitStatus DEF Reject
  <2> QED
    BY <1>1, <2>2, <2>3 DEF SubmitGreen
<1>2. ASSUME NEW t \in Tasks, SubmitTested(t) PROVE Goal
  <2>1. PICK hit \in SUBSET {c \in Cores : Fits(Host[c])} :
          /\ \/ Reject(t) /\ UNCHANGED core
             \/ \E last \in hit, best \in hit :
                  core' = [core EXCEPT ![t] = last] /\ Send(t, Host[best])
          /\ Probe({d \in Cores : /\ Fits(Host[d])
                                  /\ \A c \in hit : Host[c] = Host[d] => d <= c}, assigned)
    BY <1>2 DEF SubmitTested
  <2> DEFINE S == {d \in Cores : /\ Fits(Host[d])
                                 /\ \A c \in hit : Host[c] = Host[d] => d <= c}
  <2>2. /\ t \notin submitted /\ submitted' = submitted \cup {t}
        /\ received' = received /\ worked' = worked /\ scheduled' = scheduled
    BY <1>2 DEF SubmitTested
  <2>3. S \subseteq Cores /\ Probe(S, assigned)
    BY <2>1
  <2> HIDE DEF S
  <2>4. /\ \A x \in Tasks : x # t => core'[x] = core[x] /\ inFlight'[x] = inFlight[x]
        /\ \/ rejected' = rejected /\ inFlight'[t] # Nowhere
           \/ rejected' = rejected \cup {t} /\ inFlight'[t] = Nowhere
    <3>1. inFlight[t] = Nowhere
      BY <2>2 DEF StatusInv
    <3>2. CASE Reject(t) /\ UNCHANGED core
      BY <3>1, <3>2 DEF Reject
    <3>3. ASSUME NEW last \in hit, NEW best \in hit,
                 core' = [core EXCEPT ![t] = last], Send(t, Host[best])
          PROVE  <2>4!:
      <4>1. Host[best] \in Providers
        OBVIOUS
      <4> QED
        BY <1>0, <3>3, <4>1 DEF Send
    <3> QED
      BY <2>1, <3>2, <3>3
  <2>5. t \notin scheduled
    BY <2>2 DEF ListsInductive
  <2> QED
    BY ZenonT(60), <1>0, <2>2, <2>3, <2>4, <2>5, SubmitStatus
<1>3. ASSUME NEW t \in Tasks, SubmitBlind(t) PROVE Goal
  <2>1. /\ t \notin submitted /\ submitted' = submitted \cup {t} /\ Scheduler = "Blind"
        /\ UNCHANGED <<rejected, received, assigned, executing, scheduled, failed, completed, worked>>
        /\ \A x \in Tasks : x # t => inFlight'[x] = inFlight[x]
        /\ inFlight'[t] # Nowhere
    BY <1>0, <1>3 DEF SubmitBlind, Send
  <2>2. t \notin failed /\ t \notin scheduled /\ t \notin rejected
    BY <2>1 DEF ListsInductive, StatusInv
  <2>3. StatusInv'
    <3>1. Certain'
      BY <1>0 DEF StatusInv, Certain, PlacedOnArrival, Scheduler
    <3>2. \A c \in Cores : assigned[c] = {}
      BY <1>0, <2>1 DEF PlacedOnArrival
    <3>3. On(executing', Cores) = On(executing, Cores)
      BY <2>1
    <3>4. \A x \in Tasks : inFlight'[x] # Nowhere /\ x \in scheduled' =>
             x \in failed' \/ \E c \in Cores : x \in assigned'[c]
      BY <2>1, <2>2 DEF StatusInv
    <3>5. \A x \in Tasks : inFlight'[x] # Nowhere => x \in submitted' \ received'
      BY <2>1 DEF StatusInv
    <3>6. \A x \in rejected' : inFlight'[x] = Nowhere /\ x \notin received' \cup scheduled' \cup failed'
      <4>1. rejected \subseteq Tasks
        BY DEF TypeOK
      <4> QED
        BY <2>1, <2>2, <4>1 DEF StatusInv
    <3>7. worked' \subseteq received' /\ \A c \in Cores : executing'[c] \subseteq received'
      BY <2>1 DEF StatusInv
    <3>8. /\ rejected' \subseteq submitted' /\ received' \subseteq submitted'
          /\ completed' \subseteq received' /\ completed' \cap failed' = {}
          /\ \A c \in Cores : completed' \cap (assigned'[c] \cup executing'[c]) = {}
          /\ \A x \in received' : x \in failed' \cup completed' \cup On(executing', Cores)
      BY <2>1, <3>3 DEF StatusInv
    <3> QED
      BY <2>1, <3>1, <3>2, <3>4, <3>5, <3>6, <3>7, <3>8 DEF StatusInv
  <2>4. ASSUME NEW x \in Tasks, x # t PROVE Moves(x)
    <3>1. Bystander(x)
      BY <2>1, <2>4 DEF Bystander, On
    <3> QED
      BY <2>3, <3>1, BystanderMoves
  <2>5. Moves(t)
    BY <2>1, <2>2, <2>3, SubmittedMoves
  <2> QED
    BY <2>3, <2>4, <2>5
<1>4. ASSUME NEW t \in Tasks, DropPacket(t) \/ WorkDone(t) \/ DeadlinePasses(t) PROVE Goal
  <2>1. /\ \A x \in Tasks : inFlight'[x] \in {inFlight[x], Nowhere}
        /\ UNCHANGED <<submitted, rejected, received, assigned, executing, scheduled, failed, completed>>
        /\ worked' \subseteq worked \cup On(executing, Cores)
    BY <1>0, <1>4 DEF DropPacket, WorkDone, DeadlinePasses
  <2>2. StatusInv'
    <3>1. Certain'
      BY <1>0 DEF StatusInv, Certain, PlacedOnArrival, Scheduler
    <3>2. rejected \subseteq Tasks
      BY DEF TypeOK
    <3> QED
      BY <1>0, <2>1, <3>1, <3>2 DEF StatusInv, On
  <2>3. ASSUME NEW x \in Tasks PROVE Moves(x)
    <3>1. Bystander(x)
      BY <2>1 DEF Bystander, On
    <3> QED
      BY <2>2, <3>1, BystanderMoves
  <2> QED
    BY <2>2, <2>3
<1>5. ASSUME NEW t \in Tasks, ArriveScheduled(t) \/ ArriveUnscheduled(t) PROVE Goal
  <2>0. inFlight[t] \in Providers
    BY <1>0, <1>5 DEF ArriveScheduled, ArriveUnscheduled, Deliver
  <2> PICK p \in Providers : p = inFlight[t]
    BY <2>0
  <2>1. p = inFlight[t] /\ Arrived(t, p)
    BY <1>0, <1>5 DEF ArriveScheduled, ArriveUnscheduled, Deliver, Arrived
  <2>2. ASSUME NEW S \in SUBSET Cores, Refuse(t, p, S) PROVE Goal
    BY <1>0, <2>1, <2>2, RefuseStatus
  <2>3. CASE ArriveScheduled(t)
    <3>1. CASE StartTask(t, p, assigned, {}) /\ UNCHANGED <<core, scheduled>>
      <4>1. \A c \in Cores : \A x \in assigned[c] \cup executing[c] : core'[x] = c
        BY <1>0, <3>1
      <4>2. t \in failed \/ \E c \in Cores : t \in assigned[c]
        BY <2>1, <2>3 DEF ArriveScheduled, StatusInv
      <4>3. Placed(t, p, assigned, {})
        BY <1>0, <3>1, <4>1, <4>2 DEF Placed
      <4> QED
        BY <2>1, <3>1, <4>3, StartStatus
    <3>2. CASE Refuse(t, p, {})
      BY <2>2, <3>2
    <3> QED
      BY <2>1, <2>3, <3>1, <3>2 DEF ArriveScheduled
  <2>4. CASE ArriveUnscheduled(t)
    <3>1. ASSUME NEW c \in CoresOf(p), core' = [core EXCEPT ![t] = c],
                 scheduled' = scheduled \cup {t},
                 StartTask(t, p, [assigned EXCEPT ![c] = @ \cup {t}], {d \in CoresOf(p) : d <= c})
          PROVE  Goal
      <4>1. c \in Cores /\ Host[c] = p /\ {d \in CoresOf(p) : d <= c} \subseteq Cores
        BY DEF CoresOf
      <4>2. t \notin scheduled
        BY <2>4 DEF ArriveUnscheduled
      <4> QED
        BY ZenonT(60), <1>0, <2>1, <3>1, <4>1, <4>2, PlaceStatus
    <3>2. {} \subseteq Cores /\ CoresOf(p) \subseteq Cores
      BY DEF CoresOf
    <3> DEFINE Decision(q) ==
          \/ Refuse(t, q, {}) \/ Refuse(t, q, CoresOf(q))
          \/ \E c \in CoresOf(q) :
                /\ core' = [core EXCEPT ![t] = c]
                /\ scheduled' = scheduled \cup {t}
                /\ StartTask(t, q, [assigned EXCEPT ![c] = @ \cup {t}],
                             {d \in CoresOf(q) : d <= c})
    <3>3. Decision(p)
      <4>1. Decision(inFlight[t])
        BY <2>4 DEF ArriveUnscheduled
      <4> HIDE DEF Decision
      <4> QED
        BY <2>1, <4>1
    <3>4. CASE Refuse(t, p, {}) \/ Refuse(t, p, CoresOf(p))
      BY <2>2, <3>2, <3>4
    <3> QED
      BY <3>1, <3>3, <3>4
  <2> QED
    BY <1>5, <2>3, <2>4
<1>6. ASSUME NEW p \in Providers, Handle(p) PROVE Goal
  BY <1>0, <1>6, HandleStatus
<1>7. CASE UNCHANGED vars
  <2>1. StatusInv'
    BY <1>7 DEF vars, StatusInv, Certain, PlacedOnArrival, Scheduler, On
  <2>2. ASSUME NEW x \in Tasks PROVE Moves(x)
    <3>1. Bystander(x)
      BY <1>7 DEF vars, Bystander, On
    <3> QED
      BY <2>1, <3>1, BystanderMoves
  <2> QED
    BY <2>1, <2>2
<1> QED
  BY <1>1, <1>2, <1>3, <1>4, <1>5, <1>6, <1>7 DEF Next, Submit, Arrive

-----------------------------------------------------------------------------
\* Tasks of the same id can only confuse a Green simulation.
LEMMA InitStatus ==
  ASSUME \A s \in Scripts : s.scheduler = "Green" => Distinct(s)
  PROVE  Init => StatusInv
BY DEF Init, StatusInv, Certain, PlacedOnArrival, Scheduler, On

LEMMA StatusInvariant ==
  ASSUME \A s \in Scripts : s.scheduler = "Green" => Distinct(s)
  PROVE  Spec => []StatusInv
<1>1. TypeOK /\ ListsInductive /\ MemoryInv /\ StatusInv /\ ListsInductive' /\ [Next]_vars
        => StatusInv'
  BY NextStatus
<1> QED
  BY <1>1, InitStatus, TypeCorrect, ListsInvariant, MemoryInvariant, PTL DEF Spec

LEMMA InitService == Init => Service!Init
<1>1. ASSUME Init, NEW t \in Tasks PROVE StatusOf(t) = "new"
  BY <1>1 DEF Init, StatusOf, On
<1> QED
  BY <1>1 DEF Service!Init

\* Every step moves every task along an edge of the service, or leaves it.
LEMMA NextService ==
  ASSUME TypeOK, ListsInductive, MemoryInv, StatusInv, ListsInductive', [Next]_vars
  PROVE  [Service!Next]_([t \in Tasks |-> StatusOf(t)])
<1> DEFINE status == [t \in Tasks |-> StatusOf(t)]
<1>1. StatusInv' /\ \A x \in Tasks : Moves(x)
  BY NextStatus
<1>2. \A x \in Tasks : StatusOf(x)' \in Service!Status
  <2>1. Means'
    BY <1>1, NextStatusMeaning
  <2>2. ASSUME NEW x \in Tasks PROVE StatusOf(x)' \in Service!Status \cup {"stranded"}
    BY DEF StatusOf, Service!Status, Service!Outcomes
  <2> QED
    BY <2>1, <2>2 DEF Means
<1>3. \A x \in Tasks : status[x] = StatusOf(x) /\ status'[x] = StatusOf(x)'
  OBVIOUS
<1>4. status' \in [Tasks -> Service!Status]
  BY <1>2
<1> QED
  BY <1>1, <1>3, <1>4 DEF Service!Next, Moves

\* Whatever the schedulers decide, the network drops and the cores sweep, a task
\* goes from submission to one final outcome along the edges of TaskService, and
\* no task that arrived is forgotten (receivedTsk, recv, removeCompleted, fail),
\* if the tasks that GreenScheduler places have ids of their own.
THEOREM LifecycleImplementsService ==
  ASSUME \A s \in Scripts : s.scheduler = "Green" => Distinct(s)
  PROVE  Spec => ImplementsTaskService
<1>1. TypeOK /\ ListsInductive /\ MemoryInv /\ StatusInv /\ ListsInductive' /\ [Next]_vars
        => [Service!Next]_([t \in Tasks |-> StatusOf(t)])
  BY NextService
<1> QED
  BY <1>1, InitService, StatusInvariant, TypeCorrect, ListsInvariant, MemoryInvariant, PTL
     DEF Spec, ImplementsTaskService, Service!Spec

-----------------------------------------------------------------------------
\* The failures of one step: each task of dead, on the provider "where" says.
LEMMA CountOnce ==
  ASSUME TypeOK, FailuresCountedOnce, PlacedOnArrival,
         NEW dead \in SUBSET Tasks, dead \cap failed = {}, failed' = failed \cup dead,
         NEW where \in [dead -> Providers],
         \A p \in Providers :
            tskFailed'[p] = tskFailed[p] + Cardinality({x \in dead : where[x] = p})
  PROVE  FailuresCountedOnce'
<1>1. PICK on \in [failed -> Providers] :
        \A p \in Providers : tskFailed[p] = Cardinality({t \in failed : on[t] = p})
  BY DEF FailuresCountedOnce
<1> DEFINE both == [x \in failed' |-> IF x \in failed THEN on[x] ELSE where[x]]
<1>2. both \in [failed' -> Providers]
  OBVIOUS
<1>3. ASSUME NEW p \in Providers
      PROVE  tskFailed'[p] = Cardinality({t \in failed' : both[t] = p})
  <2> DEFINE A == {t \in failed : on[t] = p}
             B == {x \in dead : where[x] = p}
  <2>1. {t \in failed' : both[t] = p} = A \cup B /\ A \cap B = {}
    OBVIOUS
  <2>2. IsFiniteSet(A) /\ IsFiniteSet(B)
    BY FS_Subset DEF TypeOK
  <2>3. /\ Cardinality(A \cup B) = Cardinality(A) + Cardinality(B) - Cardinality(A \cap B)
        /\ Cardinality({}) = 0 /\ Cardinality(A) \in Nat /\ Cardinality(B) \in Nat
    BY <2>2, FS_Union, FS_EmptySet, FS_CardinalityType
  <2>4. tskFailed'[p] = Cardinality(A) + Cardinality(B)
    BY <1>1
  <2> HIDE DEF A, B, both
  <2>5. Cardinality(A \cap B) = 0
    BY <2>1, <2>3
  <2>6. Cardinality(A \cup B) = Cardinality(A) + Cardinality(B)
    BY <2>3, <2>5
  <2> QED
    BY <2>1, <2>4, <2>6
<1> HIDE DEF both
<1> QED
  BY <1>2, <1>3 DEF FailuresCountedOnce

\* A core sweep counts each task it fails on the provider of its core.
LEMMA BlameOnce ==
  ASSUME TypeOK, FailuresCountedOnce, PlacedOnArrival,
         NEW dead \in SUBSET Tasks, dead \cap failed = {}, failed' = failed \cup dead,
         \A x \in dead : core'[x] \in Cores, tskFailed' = Blamed(dead)
  PROVE  FailuresCountedOnce'
<1> DEFINE where == [x \in dead |-> Host[core'[x]]]
<1>1. where \in [dead -> Providers]
  OBVIOUS
<1>2. ASSUME NEW p \in Providers
      PROVE  tskFailed'[p] = tskFailed[p] + Cardinality({x \in dead : where[x] = p})
  <2>1. {x \in dead : core'[x] \in Cores /\ Host[core'[x]] = p} = {x \in dead : where[x] = p}
    OBVIOUS
  <2> QED
    BY <2>1 DEF Blamed
<1> HIDE DEF where
<1> QED
  BY <1>1, <1>2, CountOnce

\* A task refused at p is counted there, next to what the probe found.
LEMMA RefuseOnce ==
  ASSUME TypeOK, FailuresCountedOnce, PlacedOnArrival,
         NEW dead \in SUBSET Tasks, dead \cap failed = {},
         \A x \in dead : core'[x] \in Cores,
         NEW t \in Tasks, t \notin dead, t \notin failed, NEW p \in Providers,
         failed' = failed \cup (dead \cup {t}),
         tskFailed' = [Blamed(dead) EXCEPT ![p] = @ + 1]
  PROVE  FailuresCountedOnce'
<1> DEFINE all == dead \cup {t}
           where == [x \in all |-> IF x = t THEN p ELSE Host[core'[x]]]
<1>1. where \in [all -> Providers]
  OBVIOUS
<1>2. ASSUME NEW q \in Providers
      PROVE  tskFailed'[q] = tskFailed[q] + Cardinality({x \in all : where[x] = q})
  <2> DEFINE A == {x \in dead : core'[x] \in Cores /\ Host[core'[x]] = q}
  <2>1. IsFiniteSet(A) /\ Cardinality(A) \in Nat /\ t \notin A
    BY FS_Subset, FS_CardinalityType
  <2>2. Blamed(dead)[q] = tskFailed[q] + Cardinality(A) /\ tskFailed[q] \in Nat
    BY DEF Blamed, TypeOK
  <2>3. CASE q = p
    <3>1. {x \in all : where[x] = q} = A \cup {t}
      BY <2>3
    <3>2. Cardinality(A \cup {t}) = Cardinality(A) + 1
      BY <2>1, FS_AddElement
    <3>3. tskFailed'[q] = Blamed(dead)[q] + 1
      BY <2>3 DEF Blamed
    <3> HIDE DEF A, where
    <3>4. tskFailed'[q] = tskFailed[q] + Cardinality(A \cup {t})
      BY <2>1, <2>2, <3>2, <3>3
    <3> QED
      BY <3>1, <3>4
  <2>4. CASE q # p
    <3>1. {x \in all : where[x] = q} = A
      BY <2>4
    <3>2. tskFailed'[q] = Blamed(dead)[q]
      BY <2>4 DEF Blamed
    <3> HIDE DEF A, where
    <3> QED
      BY <2>2, <3>1, <3>2
  <2> QED
    BY <2>3, <2>4
<1>3. all \in SUBSET Tasks /\ all \cap failed = {} /\ failed' = failed \cup all
  OBVIOUS
<1> HIDE DEF all, where
<1> QED
  BY <1>1, <1>2, <1>3, CountOnce

LEMMA NextFailures ==
  ASSUME TypeOK, ListsInductive, MemoryInv, FailuresCountedOnce, [Next]_vars
  PROVE  FailuresCountedOnce'
<1>0. script' = script /\ (PlacedOnArrival' <=> PlacedOnArrival)
  BY DEF Next, vars, PlacedOnArrival, Scheduler
<1> SUFFICES ASSUME PlacedOnArrival PROVE FailuresCountedOnce'
  BY <1>0 DEF FailuresCountedOnce
<1>1. /\ \A c \in Cores : assigned[c] = {}
      /\ \A c \in Cores : \A x \in executing[c] :
            x \in Tasks /\ x \notin failed /\ core[x] = c /\ x \in submitted /\ x \in scheduled
      /\ executing \in [Cores -> SUBSET Tasks] /\ core \in [Tasks -> Cores \cup {Nowhere}]
      /\ \A x \in Tasks : Pending(x) => x \notin scheduled
  BY DEF TypeOK, MemoryInv, PendingBare, InFlyEmptyBetweenEvents, ListsInductive,
         ListsFollowCorePointer, NoFailedOnCore
<1>2. ASSUME UNCHANGED <<failed, tskFailed>> PROVE FailuresCountedOnce'
  BY <1>2 DEF FailuresCountedOnce
\* What a sweep over the cores S fails.
<1>3. ASSUME NEW S, S \subseteq Cores, NEW S2, S2 \subseteq Cores
      PROVE  /\ Overdue(executing, S) \cup OverdueInFly(assigned, S2) \in SUBSET Tasks
             /\ \A x \in Overdue(executing, S) \cup OverdueInFly(assigned, S2) :
                   \E c \in Cores : x \in executing[c]
  <2>1. OverdueInFly(assigned, S2) = {}
    BY <1>1, <1>3 DEF OverdueInFly, On
  <2>2. \A x \in Overdue(executing, S) : \E c \in Cores : x \in executing[c]
    BY <1>3 DEF Overdue, On
  <2> QED
    BY <1>1, <2>1, <2>2
<1>4. ASSUME NEW S, S \subseteq Cores, Probe(S, assigned),
             \A x \in Tasks : x \in submitted => core'[x] = core[x]
      PROVE  FailuresCountedOnce'
  <2> DEFINE dead == Overdue(executing, S) \cup OverdueInFly(assigned, S)
  <2>1. dead \in SUBSET Tasks /\ \A x \in dead : \E c \in Cores : x \in executing[c]
    BY <1>3, <1>4
  <2>2. failed' = failed \cup dead /\ tskFailed' = Blamed(dead)
    BY <1>4 DEF Probe, Settle
  <2> HIDE DEF dead
  <2>3. ASSUME NEW x \in dead PROVE core'[x] \in Cores /\ x \notin failed
    <3>1. PICK c \in Cores : x \in executing[c]
      BY <2>1
    <3>2. x \in Tasks /\ x \notin failed /\ core[x] = c /\ x \in submitted
      BY <1>1, <3>1
    <3> QED
      BY <1>4, <3>2
  <2> QED
    BY <2>1, <2>2, <2>3, BlameOnce
<1>5. ASSUME NEW t \in Tasks, SubmitTested(t) PROVE FailuresCountedOnce'
  <2>1. PICK hit \in SUBSET {c \in Cores : Fits(Host[c])} :
          /\ \/ UNCHANGED core
             \/ \E last \in hit : core' = [core EXCEPT ![t] = last]
          /\ Probe({d \in Cores : /\ Fits(Host[d])
                                  /\ \A c \in hit : Host[c] = Host[d] => d <= c}, assigned)
    BY <1>5 DEF SubmitTested
  <2>2. t \notin submitted
    BY <1>5 DEF SubmitTested
  <2> DEFINE S == {d \in Cores : /\ Fits(Host[d])
                                 /\ \A c \in hit : Host[c] = Host[d] => d <= c}
  <2>3. S \subseteq Cores /\ Probe(S, assigned)
    BY <2>1
  <2> HIDE DEF S
  <2>4. \A x \in Tasks : x \in submitted => core'[x] = core[x]
    BY <1>1, <2>1, <2>2
  <2> QED
    BY <1>4, <2>3, <2>4
<1>6. ASSUME NEW t \in Tasks, NEW p \in Providers, inFlight[t] # Nowhere,
             NEW S, S \subseteq Cores, Refuse(t, p, S)
      PROVE  FailuresCountedOnce'
  <2> DEFINE dead == Overdue(executing, S) \cup OverdueInFly(assigned, S)
  <2>1. dead \in SUBSET Tasks /\ \A x \in dead : \E c \in Cores : x \in executing[c]
    BY <1>3, <1>6
  <2>2. /\ failed' = failed \cup (dead \cup {t}) /\ UNCHANGED core
        /\ tskFailed' = [Blamed(dead) EXCEPT ![p] = @ + 1]
    BY <1>6 DEF Refuse, Settle
  <2> HIDE DEF dead
  <2>3. t \notin scheduled /\ t \notin failed
    BY <1>1, <1>6 DEF Pending, ListsInductive
  <2>4. t \notin dead /\ dead \cap failed = {} /\ \A x \in dead : core'[x] \in Cores
    BY <1>1, <2>1, <2>2, <2>3
  <2> QED
    BY <2>1, <2>2, <2>3, <2>4, RefuseOnce
<1>7. ASSUME NEW t \in Tasks, NEW p \in Providers, inFlight[t] # Nowhere,
             NEW c \in Cores, core' = [core EXCEPT ![t] = c],
             NEW S, S \subseteq Cores, StartTask(t, p, [assigned EXCEPT ![c] = @ \cup {t}], S)
      PROVE  FailuresCountedOnce'
  <2> DEFINE asg == [assigned EXCEPT ![c] = @ \cup {t}]
             exe == [d \in Cores |-> executing[d] \cup Starting(asg, t, p)[d]]
             left == StillInFly(asg, t, p)
             busy == {d \in CoresOf(p) : exe[d] # {}}
             seen == S \cup IF DVFS THEN busy ELSE {}
             dead == Overdue(exe, CoresOf(p)) \cup OverdueInFly(left, seen)
  <2>1. failed' = failed \cup dead /\ tskFailed' = Blamed(dead)
    BY <1>7 DEF StartTask, Settle
  <2>2. \A d \in Cores : asg[d] = IF d = c THEN {t} ELSE {}
    BY <1>1 DEF TypeOK
  <2>3. \A d \in Cores : /\ exe[d] \subseteq executing[d] \cup (IF d = c THEN {t} ELSE {})
                         /\ left[d] \subseteq IF d = c THEN {t} ELSE {}
    <3> HIDE DEF asg
    <3> QED
      BY <2>2 DEF Starting, StillInFly
  <2>4. CoresOf(p) \subseteq Cores /\ seen \subseteq Cores
    BY <1>7 DEF CoresOf
  <2> HIDE DEF asg, exe, left, busy, seen
  <2>5. \A x \in dead : x = t \/ \E d \in Cores : x \in executing[d]
    <3>1. \A x \in Overdue(exe, CoresOf(p)) : x = t \/ \E d \in Cores : x \in executing[d]
      BY <2>3, <2>4 DEF Overdue, On
    <3>2. \A x \in OverdueInFly(left, seen) : x = t
      BY <2>3, <2>4 DEF OverdueInFly, On
    <3> QED
      BY <3>1, <3>2
  <2> HIDE DEF dead
  <2>6. t \notin scheduled /\ t \notin failed
    BY <1>1, <1>7 DEF Pending, ListsInductive
  <2>7. dead \in SUBSET Tasks /\ dead \cap failed = {} /\ \A x \in dead : core'[x] \in Cores
    BY <1>1, <1>7, <2>5, <2>6
  <2> QED
    BY <2>1, <2>7, BlameOnce
<1>8. ASSUME NEW t \in Tasks, ArriveScheduled(t) \/ ArriveUnscheduled(t)
      PROVE  FailuresCountedOnce'
  <2>1. inFlight[t] # Nowhere
    BY <1>8 DEF ArriveScheduled, ArriveUnscheduled, Deliver
  <2>2. t \notin scheduled /\ inFlight[t] \in Providers
    BY <1>1, <2>1 DEF Pending, TypeOK
  <2> DEFINE p == inFlight[t]
  <2>3. {} \subseteq Cores /\ CoresOf(p) \subseteq Cores
    BY DEF CoresOf
  <2>4. CASE Refuse(t, p, {}) \/ Refuse(t, p, CoresOf(p))
    <3> HIDE DEF p
    <3> QED
      BY <1>6, <2>1, <2>2, <2>3, <2>4 DEF p
  <2>5. ASSUME NEW c \in CoresOf(p), core' = [core EXCEPT ![t] = c],
               StartTask(t, p, [assigned EXCEPT ![c] = @ \cup {t}], {d \in CoresOf(p) : d <= c})
        PROVE  FailuresCountedOnce'
    <3>1. c \in Cores /\ {d \in CoresOf(p) : d <= c} \subseteq Cores
      BY <2>3
    <3> QED
      BY <1>7, <2>1, <2>2, <2>5, <3>1
  <2> QED
    BY <1>8, <2>2, <2>4, <2>5 DEF ArriveScheduled, ArriveUnscheduled
<1>9. ASSUME NEW p \in Providers, Handle(p) PROVE FailuresCountedOnce'
  <2> DEFINE busy == {c \in CoresOf(p) : executing[c] # {}}
             seen == IF DVFS THEN busy ELSE {}
             dead == Overdue(executing, busy) \cup OverdueInFly(assigned, seen)
  <2>1. busy \subseteq Cores /\ seen \subseteq Cores
    BY DEF CoresOf
  <2>2. failed' = failed \cup dead /\ tskFailed' = Blamed(dead) /\ UNCHANGED core
    BY <1>9 DEF Handle, Settle
  <2> HIDE DEF busy, seen
  <2>3. dead \in SUBSET Tasks /\ \A x \in dead : \E c \in Cores : x \in executing[c]
    BY <1>3, <2>1
  <2> HIDE DEF dead
  <2>4. dead \cap failed = {} /\ \A x \in dead : core'[x] \in Cores
    BY <1>1, <2>2, <2>3
  <2> QED
    BY <2>2, <2>3, <2>4, BlameOnce
<1>10. ASSUME NEW t \in Tasks, SubmitGreen(t) PROVE FALSE
  BY <1>10 DEF SubmitGreen, PlacedOnArrival
<1>11. ASSUME NEW t \in Tasks,
              SubmitBlind(t) \/ DropPacket(t) \/ WorkDone(t) \/ DeadlinePasses(t)
       PROVE  FailuresCountedOnce'
  BY <1>2, <1>11 DEF SubmitBlind, DropPacket, WorkDone, DeadlinePasses
<1>12. CASE UNCHANGED vars
  BY <1>2, <1>12 DEF vars
<1> QED
  BY <1>5, <1>8, <1>9, <1>10, <1>11, <1>12 DEF Next, Submit, Arrive

\* With a scheduler that decides on arrival, the failure counters of the
\* providers add up to the tasks that failed: no sweep, probe or refusal counts
\* a task twice or forgets it (CloudTask::fail, ResourceProvider::recv).
THEOREM FailuresAddUp == Spec => []FailuresCountedOnce
<1>1. Init => FailuresCountedOnce
  <2> SUFFICES ASSUME Init PROVE FailuresCountedOnce
    OBVIOUS
  <2> DEFINE on == [x \in {} |-> CHOOSE p \in Providers : TRUE]
  <2>1. failed = {} /\ on \in [failed -> Providers]
    BY DEF Init
  <2>2. \A p \in Providers : tskFailed[p] = Cardinality({t \in failed : on[t] = p})
    BY <2>1, FS_EmptySet DEF Init
  <2> HIDE DEF on
  <2> QED
    BY <2>1, <2>2 DEF FailuresCountedOnce
<1>2. TypeOK /\ ListsInductive /\ MemoryInv /\ FailuresCountedOnce /\ [Next]_vars
        => FailuresCountedOnce'
  BY NextFailures
<1> QED
  BY <1>1, <1>2, TypeCorrect, ListsInvariant, MemoryInvariant, PTL DEF Spec
===============================================================================
