--------------------------- MODULE CoreRatesProofs ---------------------------
(***************************************************************************)
(* Theorems about CoreRates for any cores, tasks, work, deadlines and      *)
(* delays.  Every event comes down to a probe of some cores, a sweep of    *)
(* all of them, or both: a lemma says of each that it leaves in order what *)
(* it found in order, and one of nextEvent that it leaves an event no      *)
(* later than any completion.                                              *)
(*                                                                         *)
(* The last part is about what admission promises: with a network that     *)
(* delays no task, the tasks of a core that waits for one have room beside *)
(* it, and those that execute have rates at which they meet their          *)
(* deadlines.                                                              *)
(***************************************************************************)
EXTENDS CoreRatesProperties, FiniteSums

\* The types of what the users, the network and the clock decide.
UsersType ==
  /\ script \in Scripts /\ now \in 0..Horizon
  /\ arriveAt \in [Tasks -> Nat] /\ deadline \in [Tasks -> Nat] /\ scheduled \subseteq Tasks
  /\ assigned \in [Cores -> SUBSET Tasks]

\* The types of what the sweeps decide, and what bounds their arithmetic.
CoresType ==
  /\ executing \in [Cores -> SUBSET Tasks]
  /\ left \in [Tasks -> Nat] /\ since \in [Tasks -> Nat] /\ rate \in [Tasks -> Nat]
  /\ \A t \in Tasks : left[t] <= Work[t] /\ since[t] <= now
  /\ mips \in [Cores -> Nat] /\ wake \in Nat /\ pending \in Nat

\* A task is on one core at most, and only once it is scheduled.
PlacedOnce ==
  /\ \A c, d \in Cores :
        c # d => (assigned[c] \cup executing[c]) \cap (assigned[d] \cup executing[d]) = {}
  /\ \A c \in Cores : assigned[c] \cup executing[c] \subseteq scheduled

\* A task that no user created is neither on its way nor scheduled.
CreatedFirst == \A t \in Tasks : deadline[t] = Never => arriveAt[t] = Never /\ t \notin scheduled

\* A core that executes tasks runs at all its MIPS, and each has a share.
CoresRun ==
  \A c \in Cores : executing[c] # {} => /\ mips[c] = Avail[c]
                                        /\ \A t \in executing[c] : rate[t] > 0

\* The event in the queue is the one at wake, and a wake-up still to come is in
\* the queue.
EventQueued ==
  /\ pending # Never => pending = wake /\ now <= pending
  /\ now < wake /\ wake # Never => pending = wake

\* What every event keeps of the cores, whatever the users and the network do.
CoresInv ==
  CoresType /\ CoresRun /\ EventQueued /\ SharesWithinRate /\ WakeupCoversCompletions

\* The inductive invariant: what the users and the network see of the tasks, and
\* what the cores keep.
RatesInv == UsersType /\ PlacedOnce /\ CreatedFirst /\ CoresInv

-----------------------------------------------------------------------------
\* Rounded quotients and products of natural numbers.
LEMMA Arithmetic ==
  /\ \A a \in Nat, n \in Nat \ {0} : a \div n \in Nat /\ n * (a \div n) <= a /\ a \div n <= a
  /\ \A a \in Nat, n \in Nat \ {0} : n <= a => a \div n > 0
  /\ \A r, k \in Nat : r * k \in Nat
<1>1. \A a \in Nat, n \in Nat \ {0} : a \div n \in Nat /\ n * (a \div n) <= a /\ a \div n <= a
  OBVIOUS
<1>2. \A a \in Nat, n \in Nat \ {0} : n <= a => a \div n > 0
  OBVIOUS
<1>3. \A r, k \in Nat : r * k \in Nat
  OBVIOUS
<1> QED
  BY <1>1, <1>2, <1>3

\* Bringing the work left up to date does not move a completion back.
LEMMA LeftFinishes ==
  ASSUME NEW p \in Nat, NEW s \in Nat, NEW n \in Nat, s <= n, NEW l \in Nat, NEW r \in Nat \ {0},
         p <= s + (l \div r)
  PROVE  LET done == r * (n - s)
         IN p <= n + ((IF l > done THEN l - done ELSE 0) \div r)
<1> DEFINE k == n - s
           done == r * k
           q == l \div r
<1>1. k \in Nat /\ done \in Nat /\ q \in Nat
  OBVIOUS
<1>2. r * q <= l /\ l < r * (q + 1)
  OBVIOUS
<1>3. CASE l > done
  <2>1. r * (q - k) = r * q - done /\ r * (q - k + 1) = r * (q + 1) - done
    OBVIOUS
  <2>2. r * (q - k) <= l - done /\ l - done < r * (q - k + 1) /\ l - done \in Nat
    BY <1>1, <1>2, <1>3, <2>1
  <2>3. \A a \in Nat, z \in Int : r * z <= a /\ a < r * (z + 1) => a \div r = z
    OBVIOUS
  <2>4. (l - done) \div r = q - k
    <3> HIDE DEF done, q, k
    <3>1. q - k \in Int
      BY <1>1
    <3> QED
      BY <2>2, <2>3, <3>1
  <2>5. p <= n + (q - k)
    BY <1>1
  <2> QED
    BY <1>3, <2>4, <2>5
<1>4. CASE ~(l > done)
  <2>1. q <= k
    <3>1. r * q <= r * k
      BY <1>1, <1>2, <1>4
    <3>2. \A x, y \in Nat : r * x <= r * y => x <= y
      OBVIOUS
    <3> HIDE DEF q, k
    <3> QED
      BY <1>1, <3>1, <3>2
  <2>2. p <= n
    BY <1>1, <2>1
  <2>3. 0 \div r = 0
    OBVIOUS
  <2> QED
    BY <1>4, <2>2, <2>3
<1> QED
  BY <1>3, <1>4
\* What is left of a task never grows.
LEMMA LeftType ==
  ASSUME UsersType, CoresType, NEW t \in Tasks
  PROVE  Left(t) \in Nat /\ Left(t) <= left[t] /\ Left(t) <= Work[t]
<1>1. now - since[t] \in Nat
  BY DEF UsersType, CoresType
<1>2. rate[t] * (now - since[t]) \in Nat
  BY <1>1, Arithmetic DEF CoresType
<1> DEFINE done == rate[t] * (now - since[t])
<1>3. Left(t) = IF left[t] > done THEN left[t] - done ELSE 0
  BY DEF Left
<1>4. left[t] \in Nat /\ left[t] <= Work[t] /\ done \in Nat /\ Work[t] \in Nat
  BY <1>2, RatesAssumption DEF CoresType
<1> HIDE DEF done
<1> QED
  BY <1>3, <1>4

\* The tasks that stay on a core each get a share, and together no more than
\* the core has.
LEMMA ShareFits ==
  ASSUME NEW exe \in [Cores -> SUBSET Tasks], NEW c \in Cores, Staying(exe, c) # {}
  PROVE  /\ IsFiniteSet(Staying(exe, c)) /\ Cardinality(Staying(exe, c)) \in Nat
         /\ Share(exe, c) \in Nat \ {0}
         /\ Cardinality(Staying(exe, c)) * Share(exe, c) <= Avail[c]
<1> DEFINE S == Staying(exe, c)
           n == Cardinality(S)
<1>1. S \subseteq Tasks
  BY DEF Staying
<1>2. IsFiniteSet(Tasks) /\ Avail[c] \in Nat /\ Cardinality(Tasks) <= Avail[c]
  BY RatesAssumption, SharesAssumption
<1>3. IsFiniteSet(S) /\ n <= Cardinality(Tasks)
  BY <1>1, <1>2, FS_Subset
<1>4. n \in Nat /\ n # 0 /\ Cardinality(Tasks) \in Nat
  BY <1>2, <1>3, FS_CardinalityType, FS_EmptySet
<1>5. Share(exe, c) = Avail[c] \div n
  BY DEF Share
<1> HIDE DEF n
<1>6. n \in Nat \ {0} /\ n <= Avail[c]
  BY <1>2, <1>3, <1>4
<1>7. Avail[c] \div n \in Nat /\ n * (Avail[c] \div n) <= Avail[c] /\ Avail[c] \div n > 0
  BY <1>2, <1>6, Arithmetic
<1> QED
  BY <1>3, <1>4, <1>5, <1>7 DEF n
-----------------------------------------------------------------------------
\* No two cores have a task in common.
Apart(exe) == \A c, d \in Cores : c # d => exe[c] \cap exe[d] = {}

\* The rates after a sweep: the share of the core a task stays on.
LEMMA SweptRates ==
  ASSUME CoresType, NEW exe \in [Cores -> SUBSET Tasks], Apart(exe), NEW kept, Sweep(exe, kept)
  PROVE  /\ \A c \in Cores : \A t \in Staying(exe, c) : rate'[t] = Share(exe, c)
         /\ rate' \in [Tasks -> Nat]
<1> DEFINE on(t) == {c \in Cores : t \in Staying(exe, c)}
<1>1. rate' = [t \in Tasks |-> IF on(t) = {} THEN rate[t]
                              ELSE Share(exe, CHOOSE c \in on(t) : TRUE)]
  BY DEF Sweep
<1>2. \A c \in Cores : Staying(exe, c) \subseteq exe[c] /\ exe[c] \subseteq Tasks
  BY DEF Staying
<1>3. ASSUME NEW c \in Cores, NEW t \in Staying(exe, c)
      PROVE  rate'[t] = Share(exe, c)
  <2>1. on(t) = {c}
    BY <1>2, <1>3 DEF Apart
  <2>2. t \in Tasks /\ (CHOOSE d \in on(t) : TRUE) = c
    BY <1>2, <1>3, <2>1
  <2> HIDE DEF on
  <2> QED
    BY <1>1, <2>1, <2>2
<1>4. ASSUME NEW t \in Tasks PROVE rate'[t] \in Nat
  <2>1. CASE \E c \in Cores : t \in Staying(exe, c)
    <3>1. PICK c \in Cores : t \in Staying(exe, c)
      BY <2>1
    <3>2. Share(exe, c) \in Nat
      BY <3>1, ShareFits
    <3> QED
      BY <1>3, <3>1, <3>2
  <2>2. CASE on(t) = {}
    <3> HIDE DEF on
    <3> QED
      BY <1>1, <2>2 DEF CoresType
  <2> QED
    BY <2>1, <2>2
<1>5. rate' \in [Tasks -> Nat]
  <2>1. DOMAIN rate' = Tasks /\ rate' = [t \in Tasks |-> rate'[t]]
    <3> HIDE DEF on
    <3> QED
      BY <1>1
  <2> QED
    BY <1>4, <2>1
<1> QED
  BY <1>3, <1>5

\* What is left of the tasks, and since when, after a sweep.
LEMMA SweptWork ==
  ASSUME UsersType, CoresType, now' = now, NEW exe \in [Cores -> SUBSET Tasks],
         NEW kept, Sweep(exe, kept)
  PROVE  /\ left' \in [Tasks -> Nat] /\ since' \in [Tasks -> Nat]
         /\ \A t \in Tasks : left'[t] <= Work[t] /\ since'[t] <= now'
         /\ \A c \in Cores : \A t \in exe[c] : left'[t] = Left(t) /\ since'[t] = now
<1> DEFINE E == UNION {exe[c] : c \in Cores}
<1>1. left' = [t \in Tasks |-> IF t \in E THEN Left(t) ELSE left[t]]
  BY DEF Sweep
<1>2. since' = [t \in Tasks |-> IF t \in E THEN now ELSE since[t]]
  BY DEF Sweep
<1>3. \A c \in Cores : \A t \in exe[c] : t \in E /\ t \in Tasks
  OBVIOUS
<1> HIDE DEF E
<1>4. \A t \in Tasks : Left(t) \in Nat /\ Left(t) <= Work[t]
  BY LeftType
<1>5. left' \in [Tasks -> Nat] /\ \A t \in Tasks : left'[t] <= Work[t]
  BY <1>1, <1>4 DEF CoresType
<1>6. now \in Nat
  BY DEF UsersType
<1>7. since' \in [Tasks -> Nat] /\ \A t \in Tasks : since'[t] <= now'
  BY <1>2, <1>6 DEF CoresType
<1> QED
  BY <1>1, <1>2, <1>3, <1>5, <1>7

\* The completions of a sweep all lie ahead, and before Never.
LEMMA WakeupsAhead ==
  ASSUME UsersType, CoresType, NEW exe \in [Cores -> SUBSET Tasks]
  PROVE  /\ Wakeups(exe) \subseteq Nat
         /\ \A m \in Wakeups(exe) : now <= m /\ m < Never
         /\ \A c \in Cores : \A t \in Staying(exe, c) :
               now + (Left(t) \div Share(exe, c)) \in Wakeups(exe)
<1>1. ASSUME NEW c \in Cores, NEW t \in Staying(exe, c)
      PROVE  LET m == now + (Left(t) \div Share(exe, c)) IN m \in Nat /\ now <= m /\ m < Never
  <2> DEFINE q == Left(t) \div Share(exe, c)
  <2>1. t \in Tasks
    BY DEF Staying
  <2>2. Share(exe, c) \in Nat \ {0}
    BY ShareFits
  <2>3. Left(t) \in Nat /\ Left(t) <= Work[t]
    BY <2>1, LeftType
  <2>4. q \in Nat /\ q <= Left(t)
    BY <2>2, <2>3, Arithmetic
  <2>5. Horizon + Work[t] < Never /\ Work[t] \in Nat /\ Never \in Nat /\ Horizon \in Nat
    BY <2>1, RatesAssumption
  <2>6. now \in Nat /\ now <= Horizon
    BY <2>5 DEF UsersType
  <2> HIDE DEF q
  <2>7. now + q \in Nat /\ now <= now + q /\ now + q < Never
    BY <2>3, <2>4, <2>5, <2>6
  <2> QED
    BY <2>7 DEF q
<1>2. Wakeups(exe) = UNION {{now + (Left(t) \div Share(exe, c)) : t \in Staying(exe, c)}
                              : c \in Cores}
  BY DEF Wakeups
<1> QED
  BY <1>1, <1>2

\* nextEvent leaves the provider an event no later than any completion.
LEMMA NextEventCovers ==
  ASSUME UsersType, CoresType, EventQueued, now' = now, NEW times, times \subseteq Nat,
         \A m \in times : now <= m /\ m < Never,
         NEW kept, kept = pending \/ (kept = Never /\ pending = now), NextEvent(times, kept)
  PROVE  /\ wake' \in Nat /\ pending' \in Nat /\ EventQueued'
         /\ \A m \in times : pending' <= m
<1>1. now \in Nat /\ Never \in Nat /\ wake \in Nat /\ pending \in Nat
  <2>1. Horizon \in Nat /\ Never \in Nat
    BY RatesAssumption
  <2> QED
    BY <2>1 DEF UsersType, CoresType
<1>2. CASE times # {} /\ wake' = Min(times) /\ pending' = Min(times)
  <2>1. Min(times) \in times /\ \A m \in times : Min(times) <= m
    BY <1>2, MinIsLeast
  <2> QED
    BY <1>1, <1>2, <2>1 DEF EventQueued
<1>3. CASE wake' = wake /\ pending' = kept
           /\ (times = {} \/ ~(Min(times) < (IF now >= wake THEN Never ELSE wake)))
  <2>1. kept \in Nat
    BY <1>1
  <2>2. EventQueued'
    BY <1>1, <1>3 DEF EventQueued
  <2>3. ASSUME NEW m \in times PROVE pending' <= m
    <3>1. Min(times) \in times /\ Min(times) <= m /\ Min(times) \in Nat /\ m \in Nat
      BY <2>3, MinIsLeast
    <3>2. now < wake /\ wake <= Min(times)
      BY <1>1, <1>3, <2>3, <3>1
    <3>3. pending = wake
      BY <1>1, <3>1, <3>2 DEF EventQueued
    <3> QED
      BY <1>1, <1>3, <3>1, <3>2, <3>3
  <2> QED
    BY <1>1, <1>3, <2>1, <2>2, <2>3
<1> QED
  BY <1>2, <1>3 DEF NextEvent
-----------------------------------------------------------------------------
\* A core keeps its MIPS, or gets them all, or stops.
LEMMA SweptMips ==
  ASSUME CoresType, CoresRun, NEW exe \in [Cores -> SUBSET Tasks], NEW kept, Sweep(exe, kept)
  PROVE  /\ mips' \in [Cores -> Nat]
         /\ \A c \in Cores : Staying(exe, c) # {} => mips'[c] = Avail[c]
<1>1. mips' = [c \in Cores |-> IF exe[c] = {} THEN mips[c]
                              ELSE IF Staying(exe, c) = {} THEN 0 ELSE Avail[c]]
  BY DEF Sweep
<1>2. \A c \in Cores : Staying(exe, c) \subseteq exe[c]
  BY DEF Staying
<1>3. \A c \in Cores : Avail[c] \in Nat /\ mips[c] \in Nat
  BY RatesAssumption DEF CoresType
<1>4. \A c \in Cores : mips'[c] \in Nat
  BY <1>1, <1>3
<1> QED
  BY <1>1, <1>2, <1>4

\* updateTskList on every core, with nextEvent, keeps the cores in order.
LEMMA SweepKeeps ==
  ASSUME UsersType, CoresInv, now' = now, NEW exe \in [Cores -> SUBSET Tasks], Apart(exe),
         NEW kept, kept = pending \/ (kept = Never /\ pending = now), Sweep(exe, kept)
  PROVE  CoresInv' /\ executing' = [c \in Cores |-> Staying(exe, c)]
<1>1. executing' = [c \in Cores |-> Staying(exe, c)] /\ NextEvent(Wakeups(exe), kept)
  BY DEF Sweep
<1>2. \A c \in Cores : Staying(exe, c) \subseteq exe[c] /\ exe[c] \subseteq Tasks
  BY DEF Staying
<1>3. /\ \A c \in Cores : \A t \in Staying(exe, c) : rate'[t] = Share(exe, c)
      /\ rate' \in [Tasks -> Nat]
  BY SweptRates DEF CoresInv
<1>4. /\ left' \in [Tasks -> Nat] /\ since' \in [Tasks -> Nat]
      /\ \A t \in Tasks : left'[t] <= Work[t] /\ since'[t] <= now'
      /\ \A c \in Cores : \A t \in exe[c] : left'[t] = Left(t) /\ since'[t] = now
  BY SweptWork DEF CoresInv
<1>5. /\ mips' \in [Cores -> Nat]
      /\ \A c \in Cores : Staying(exe, c) # {} => mips'[c] = Avail[c]
  BY SweptMips DEF CoresInv
<1>6. /\ Wakeups(exe) \subseteq Nat
      /\ \A m \in Wakeups(exe) : now <= m /\ m < Never
      /\ \A c \in Cores : \A t \in Staying(exe, c) :
            now + (Left(t) \div Share(exe, c)) \in Wakeups(exe)
  BY WakeupsAhead DEF CoresInv
<1>7. /\ wake' \in Nat /\ pending' \in Nat /\ EventQueued'
      /\ \A m \in Wakeups(exe) : pending' <= m
  BY <1>1, <1>6, NextEventCovers DEF CoresInv
<1>8. executing' \in [Cores -> SUBSET Tasks]
  BY <1>1, <1>2
<1>9. CoresType'
  BY <1>3, <1>4, <1>5, <1>7, <1>8 DEF CoresType
<1>10. CoresRun'
  <2> SUFFICES ASSUME NEW c \in Cores, executing'[c] # {}
               PROVE  mips'[c] = Avail[c] /\ \A t \in executing'[c] : rate'[t] > 0
    BY DEF CoresRun
  <2>1. executing'[c] = Staying(exe, c) /\ Staying(exe, c) # {}
    BY <1>1
  <2>2. Share(exe, c) \in Nat \ {0}
    BY <2>1, ShareFits
  <2> QED
    BY <1>3, <1>5, <2>1, <2>2
<1>11. SharesWithinRate'
  <2> DEFINE shared == rate'
  <2> SUFFICES ASSUME NEW c \in Cores
               PROVE  SumFunctionOnSet(shared, executing'[c]) <= mips'[c]
    BY DEF SharesWithinRate
  <2> HIDE DEF shared
  <2>1. executing'[c] = Staying(exe, c) /\ mips'[c] \in Nat
    BY <1>1, <1>5
  <2>2. CASE Staying(exe, c) = {}
    BY <2>1, <2>2, SumEmpty
  <2>3. CASE Staying(exe, c) # {}
    <3> DEFINE S == Staying(exe, c)
               k == Share(exe, c)
    <3>1. IsFiniteSet(S) /\ k \in Nat /\ Cardinality(S) * k <= Avail[c]
      BY <2>3, ShareFits
    <3>2. \A t \in S : shared[t] = k
      BY <1>3 DEF shared
    <3> HIDE DEF S, k
    <3>3. SumFunctionOnSet(shared, S) = Cardinality(S) * k
      BY <3>1, <3>2, SumConstant
    <3>4. mips'[c] = Avail[c] /\ executing'[c] = S
      BY <1>5, <2>1, <2>3 DEF S
    <3> QED
      BY <3>1, <3>3, <3>4
  <2> QED
    BY <2>2, <2>3
<1>12. WakeupCoversCompletions'
  <2> SUFFICES ASSUME NEW c \in Cores, NEW t \in executing'[c]
               PROVE  pending' <= since'[t] + (left'[t] \div rate'[t])
    BY DEF WakeupCoversCompletions, Running
  <2>1. t \in Staying(exe, c) /\ t \in exe[c]
    BY <1>1, <1>2
  <2>2. pending' <= now + (Left(t) \div Share(exe, c))
    BY <1>6, <1>7, <2>1
  <2>3. since'[t] = now /\ left'[t] = Left(t) /\ rate'[t] = Share(exe, c)
    BY <1>3, <1>4, <2>1
  <2> QED
    BY <2>2, <2>3
<1> QED
  BY <1>1, <1>7, <1>9, <1>10, <1>11, <1>12 DEF CoresInv

\* getMostUrgentTaskRate on some cores keeps the cores in order: it removes tasks
\* and brings what is left of the others up to date, at rates and an event that
\* stay as they are.
LEMMA ProbeKeeps ==
  ASSUME UsersType, CoresInv, now' = now, NEW S, Refreshed(S),
         executing' \in [Cores -> SUBSET Tasks],
         \A c \in Cores : executing'[c] \subseteq executing[c],
         UNCHANGED <<rate, mips, wake, pending>>
  PROVE  CoresInv'
<1> DEFINE R == {t \in Tasks : \E c \in S : t \in executing[c]}
<1>1. \A t \in Tasks : left'[t] = IF t \in R THEN Left(t) ELSE left[t]
  BY DEF Refreshed
<1>2. \A t \in Tasks : since'[t] = IF t \in R THEN now ELSE since[t]
  BY DEF Refreshed
<1>3. \A t \in Tasks : Left(t) \in Nat /\ Left(t) <= Work[t]
  BY LeftType DEF CoresInv
<1>4. now \in Nat
  BY DEF UsersType
<1> HIDE DEF R
<1>5. CoresType'
  <2>1. left' = [t \in Tasks |-> left'[t]] /\ since' = [t \in Tasks |-> since'[t]]
    BY DEF Refreshed
  <2>2. left' \in [Tasks -> Nat] /\ \A t \in Tasks : left'[t] <= Work[t]
    BY <1>1, <1>3, <2>1 DEF CoresInv, CoresType
  <2>3. since' \in [Tasks -> Nat] /\ \A t \in Tasks : since'[t] <= now'
    BY <1>2, <1>4, <2>1 DEF CoresInv, CoresType
  <2> QED
    BY <2>2, <2>3 DEF CoresInv, CoresType
<1>6. CoresRun'
  BY DEF CoresInv, CoresType, CoresRun
<1>7. EventQueued'
  BY DEF CoresInv, EventQueued
<1>8. SharesWithinRate'
  <2> DEFINE old == executing
             new == executing'
  <2> SUFFICES ASSUME NEW c \in Cores PROVE SumFunctionOnSet(rate, new[c]) <= mips[c]
    BY DEF SharesWithinRate
  <2>1. old[c] \subseteq Tasks /\ new[c] \subseteq old[c] /\ IsFiniteSet(Tasks)
    BY RatesAssumption DEF CoresInv, CoresType
  <2>2. SumFunctionOnSet(rate, old[c]) <= mips[c] /\ mips[c] \in Nat
    BY DEF CoresInv, CoresType, SharesWithinRate
  <2>3. \A t \in Tasks : rate[t] \in Nat
    BY DEF CoresInv, CoresType
  <2> HIDE DEF old, new
  <2>4. IsFiniteSet(old[c]) /\ IsFiniteSet(new[c])
    BY <2>1, FS_Subset
  <2>5. \A t \in old[c] : rate[t] \in Nat
    BY <2>1, <2>3
  <2>6. SumFunctionOnSet(rate, new[c]) <= SumFunctionOnSet(rate, old[c])
    BY <2>1, <2>4, <2>5, SumSubset
  <2>7. SumFunctionOnSet(rate, new[c]) \in Nat /\ SumFunctionOnSet(rate, old[c]) \in Nat
    BY <2>1, <2>4, <2>5, SumNat
  <2> QED
    BY <2>2, <2>6, <2>7
<1>9. WakeupCoversCompletions'
  <2> SUFFICES ASSUME NEW c \in Cores, NEW t \in executing'[c]
               PROVE  pending <= since'[t] + (left'[t] \div rate[t])
    BY DEF WakeupCoversCompletions, Running
  <2>1. t \in executing[c] /\ t \in Tasks
    BY DEF CoresInv, CoresType
  <2>2. pending <= since[t] + (left[t] \div rate[t])
    BY <2>1 DEF CoresInv, WakeupCoversCompletions, Running
  <2>3. /\ pending \in Nat /\ since[t] \in Nat /\ left[t] \in Nat /\ since[t] <= now
        /\ rate[t] \in Nat \ {0}
    BY <2>1 DEF CoresInv, CoresType, CoresRun
  <2>4. CASE t \notin R
    BY <1>1, <1>2, <2>1, <2>2, <2>4
  <2>5. CASE t \in R
    <3>1. LET done == rate[t] * (now - since[t])
          IN pending <= now + ((IF left[t] > done THEN left[t] - done ELSE 0) \div rate[t])
      BY <1>4, <2>2, <2>3, LeftFinishes
    <3>2. left'[t] = Left(t) /\ since'[t] = now
      BY <1>1, <1>2, <2>1, <2>5
    <3> QED
      BY <3>1, <3>2 DEF Left
  <2> QED
    BY <2>4, <2>5
<1> QED
  BY <1>5, <1>6, <1>7, <1>8, <1>9 DEF CoresInv
-----------------------------------------------------------------------------
\* An event that at most puts a task on a core where it was nowhere, or moves it
\* to executing there, leaves every task on one core.
LEMMA PlacedStep ==
  ASSUME PlacedOnce, NEW t, NEW F, \A c, d \in F : c = d,
         \A c \in Cores : assigned'[c] \cup executing'[c] \subseteq
                            assigned[c] \cup executing[c] \cup (IF c \in F THEN {t} ELSE {}),
         F # {} => t \notin scheduled /\ t \in scheduled',
         scheduled \subseteq scheduled'
  PROVE  PlacedOnce'
<1> DEFINE A(c) == assigned[c] \cup executing[c]
           B(c) == assigned'[c] \cup executing'[c]
<1>1. \A c \in Cores : B(c) \subseteq A(c) \cup (IF c \in F THEN {t} ELSE {})
  OBVIOUS
<1>2. /\ \A c, d \in Cores : c # d => A(c) \cap A(d) = {}
      /\ \A c \in Cores : A(c) \subseteq scheduled
  BY DEF PlacedOnce
<1>3. SUFFICES /\ \A c, d \in Cores : c # d => B(c) \cap B(d) = {}
               /\ \A c \in Cores : B(c) \subseteq scheduled'
  BY DEF PlacedOnce
<1> HIDE DEF A, B
<1> QED
  BY <1>1, <1>2

\* A task a user creates was nowhere, and its deadline is a tick of the clock.
LEMMA Created ==
  ASSUME UsersType, CreatedFirst, NEW t \in Tasks, New(t)
  PROVE  /\ t \notin scheduled
         /\ [deadline EXCEPT ![t] = now + Duration[t]] \in [Tasks -> Nat]
         /\ now + Duration[t] # Never
<1>1. /\ Horizon \in Nat /\ Never \in Nat /\ Duration[t] \in Nat
      /\ Horizon + Duration[t] < Never
  BY RatesAssumption
<1>2. now \in Nat /\ now <= Horizon
  BY <1>1 DEF UsersType
<1>3. now + Duration[t] \in Nat /\ now + Duration[t] # Never
  BY <1>1, <1>2
<1> QED
  BY <1>3 DEF UsersType, CreatedFirst, New

\* The network only ever delays a task by whole ticks.
LEMMA Sent ==
  ASSUME UsersType, NEW t \in Tasks, Send(t)
  PROVE  /\ arriveAt' \in [Tasks -> Nat]
         /\ \A x \in Tasks : x # t => arriveAt'[x] = arriveAt[x]
<1>1. PICK d \in script.delays : arriveAt' = [arriveAt EXCEPT ![t] = now + d]
  BY DEF Send
<1>2. d \in Nat
  BY RatesAssumption DEF UsersType
<1>3. now \in Nat
  BY RatesAssumption DEF UsersType
<1>4. now + d \in Nat
  BY <1>2, <1>3
<1> QED
  BY <1>1, <1>4 DEF UsersType

\* What a probe leaves on a core was there.
LEMMA ProbeRemoves ==
  \A c \in Cores : ProbedExe(c) \subseteq executing[c] /\ ProbedAsg(c) \subseteq assigned[c]
BY DEF ProbedExe, ProbedAsg

\* A submission under Green: cores are probed, and at most one gets the task.
LEMMA SubmitGreenKeeps ==
  ASSUME RatesInv, NEW t \in Tasks, SubmitGreen(t)
  PROVE  RatesInv'
<1> DEFINE dl == [deadline EXCEPT ![t] = now + Duration[t]]
           open == {c \in Cores : Admits(c, t, dl)}
           f == FirstAdmitting(t, dl)
           scanned == IF open = {} THEN Cores ELSE UpTo(f)
<1>1. /\ New(t) /\ deadline' = dl
      /\ executing' = [c \in Cores |-> IF c \in scanned THEN ProbedExe(c) ELSE executing[c]]
      /\ assigned' = [c \in Cores |->
           (IF c \in scanned THEN ProbedAsg(c) ELSE assigned[c])
             \cup (IF open # {} /\ c = f THEN {t} ELSE {})]
      /\ Refreshed(scanned)
      /\ UNCHANGED <<script, now, rate, mips, wake, pending>>
  BY DEF SubmitGreen
<1>2. \/ open = {} /\ UNCHANGED <<arriveAt, scheduled>>
      \/ open # {} /\ scheduled' = scheduled \cup {t} /\ Send(t)
  BY DEF SubmitGreen
<1>3. t \notin scheduled /\ dl \in [Tasks -> Nat] /\ now + Duration[t] # Never
  BY <1>1, Created DEF RatesInv
<1> HIDE DEF open, f, scanned
<1>4. executing' \in [Cores -> SUBSET Tasks] /\ \A c \in Cores : executing'[c] \subseteq executing[c]
  BY <1>1, ProbeRemoves DEF RatesInv, CoresInv, CoresType
<1>5. CoresInv'
  BY <1>1, <1>4, ProbeKeeps DEF RatesInv
<1>6. /\ arriveAt' \in [Tasks -> Nat] /\ \A x \in Tasks : x # t => arriveAt'[x] = arriveAt[x]
      /\ scheduled' \subseteq Tasks
  <2>1. CASE open = {} /\ UNCHANGED <<arriveAt, scheduled>>
    BY <2>1 DEF RatesInv, UsersType
  <2>2. CASE open # {} /\ scheduled' = scheduled \cup {t} /\ Send(t)
    <3>1. scheduled \subseteq Tasks
      BY DEF RatesInv, UsersType
    <3> QED
      BY <2>2, <3>1, Sent DEF RatesInv
  <2> QED
    BY <1>2, <2>1, <2>2
<1>7. \A c \in Cores : assigned'[c] \subseteq assigned[c] \cup (IF open # {} /\ c = f THEN {t} ELSE {})
  BY <1>1, ProbeRemoves
<1>8. UsersType'
  <2>1. \A c \in Cores : assigned[c] \subseteq Tasks
    BY DEF RatesInv, UsersType
  <2>2. assigned' = [c \in Cores |-> assigned'[c]]
    BY <1>1
  <2>3. assigned' \in [Cores -> SUBSET Tasks]
    BY <1>7, <2>1, <2>2
  <2>4. deadline' \in [Tasks -> Nat]
    BY <1>1, <1>3
  <2> HIDE DEF dl
  <2> QED
    BY <1>1, <1>6, <2>3, <2>4 DEF RatesInv, UsersType
<1>9. PlacedOnce'
  <2> DEFINE F == {c \in Cores : open # {} /\ c = f}
  <2>1. \A c, d \in F : c = d
    OBVIOUS
  <2>2. \A c \in Cores : assigned'[c] \cup executing'[c] \subseteq
                            assigned[c] \cup executing[c] \cup (IF c \in F THEN {t} ELSE {})
    BY <1>4, <1>7
  <2>3. F # {} => t \notin scheduled /\ t \in scheduled'
    BY <1>2, <1>3
  <2>4. scheduled \subseteq scheduled'
    BY <1>2
  <2> HIDE DEF F
  <2> QED
    BY <2>1, <2>2, <2>3, <2>4, PlacedStep DEF RatesInv
<1>10. CreatedFirst'
  <2> SUFFICES ASSUME NEW x \in Tasks, deadline'[x] = Never
               PROVE  arriveAt'[x] = Never /\ x \notin scheduled'
    BY DEF CreatedFirst
  <2>1. x # t /\ deadline[x] = Never
    BY <1>1, <1>3 DEF RatesInv, UsersType
  <2>2. arriveAt[x] = Never /\ x \notin scheduled
    BY <2>1 DEF RatesInv, CreatedFirst
  <2> QED
    BY <1>2, <1>6, <2>1, <2>2
<1> QED
  BY <1>5, <1>8, <1>9, <1>10 DEF RatesInv

\* A submission that is decided on arrival touches no core.
LEMMA SubmitBlindKeeps ==
  ASSUME RatesInv, NEW t \in Tasks, SubmitBlind(t)
  PROVE  RatesInv'
<1> DEFINE dl == [deadline EXCEPT ![t] = now + Duration[t]]
<1>1. /\ New(t) /\ deadline' = dl /\ Send(t)
      /\ UNCHANGED <<script, now, scheduled, assigned, executing, left, since, rate, mips, wake,
                     pending>>
  BY DEF SubmitBlind
<1>2. dl \in [Tasks -> Nat] /\ now + Duration[t] # Never
  BY <1>1, Created DEF RatesInv
<1>3. arriveAt' \in [Tasks -> Nat] /\ \A x \in Tasks : x # t => arriveAt'[x] = arriveAt[x]
  BY <1>1, Sent DEF RatesInv
<1>4. CoresInv'
  BY <1>1 DEF RatesInv, CoresInv, CoresType, CoresRun, EventQueued, SharesWithinRate,
              WakeupCoversCompletions, Running
<1>5. PlacedOnce'
  BY <1>1 DEF RatesInv, PlacedOnce
<1>6. CreatedFirst'
  BY <1>1, <1>2, <1>3 DEF RatesInv, UsersType, CreatedFirst
<1>7. UsersType'
  <2>1. deadline' \in [Tasks -> Nat]
    BY <1>1, <1>2
  <2> HIDE DEF dl
  <2> QED
    BY <1>1, <1>3, <2>1 DEF RatesInv, UsersType
<1> QED
  BY <1>4, <1>5, <1>6, <1>7 DEF RatesInv

\* An arrival moves the task from assigned to executing on its core.
LEMMA ArriveScheduledKeeps ==
  ASSUME RatesInv, NEW t \in Tasks, ArriveScheduled(t)
  PROVE  RatesInv'
<1> DEFINE exe == [c \in Cores |-> executing[c] \cup (assigned[c] \cap {t})]
<1>1. /\ arriveAt' = [arriveAt EXCEPT ![t] = Never]
      /\ assigned' = [c \in Cores |-> assigned[c] \ {t}]
      /\ Sweep(exe, pending)
      /\ UNCHANGED <<script, now, scheduled, deadline>>
  BY DEF ArriveScheduled
<1>2. exe \in [Cores -> SUBSET Tasks]
  BY DEF RatesInv, CoresInv, UsersType, CoresType
<1>3. Apart(exe)
  BY DEF Apart, RatesInv, PlacedOnce
<1>4. \A c \in Cores : exe[c] \subseteq executing[c] \cup assigned[c]
  OBVIOUS
<1> HIDE DEF exe
<1>5. CoresInv' /\ executing' = [c \in Cores |-> Staying(exe, c)]
  <2> DEFINE kept == pending
  <2>1. (kept = pending \/ (kept = Never /\ pending = now)) /\ Sweep(exe, kept)
    BY <1>1
  <2> HIDE DEF kept
  <2> QED
    BY <1>1, <1>2, <1>3, <2>1, SweepKeeps DEF RatesInv
<1>6. Never \in Nat
  BY RatesAssumption
<1>7. UsersType'
  BY <1>1, <1>6 DEF RatesInv, UsersType
<1>8. PlacedOnce'
  <2> DEFINE F == {}
  <2>1. \A c \in Cores : assigned'[c] \cup executing'[c] \subseteq
                            assigned[c] \cup executing[c] \cup (IF c \in F THEN {t} ELSE {})
    BY <1>1, <1>4, <1>5 DEF Staying
  <2>2. scheduled \subseteq scheduled'
    BY <1>1
  <2>3. (\A c, d \in F : c = d) /\ (F # {} => t \notin scheduled /\ t \in scheduled')
    OBVIOUS
  <2> HIDE DEF F
  <2> QED
    BY <2>1, <2>2, <2>3, PlacedStep DEF RatesInv
<1>9. CreatedFirst'
  BY <1>1 DEF RatesInv, UsersType, CreatedFirst
<1> QED
  BY <1>5, <1>7, <1>8, <1>9 DEF RatesInv

\* An arrival that is decided now: cores are probed, then perhaps swept.
LEMMA ArriveBlindKeeps ==
  ASSUME RatesInv, NEW t \in Tasks, ArriveBlind(t)
  PROVE  RatesInv'
<1> DEFINE open == {c \in Cores : Admits(c, t, deadline)}
           f == FirstAdmitting(t, deadline)
           scanned == IF open = {} THEN Cores ELSE UpTo(f)
           probed == [c \in Cores |-> IF c \in scanned THEN ProbedExe(c) ELSE executing[c]]
           exe == [c \in Cores |-> probed[c] \cup IF open # {} /\ c = f THEN {t} ELSE {}]
<1>1. /\ arriveAt[t] = now /\ t \notin scheduled
      /\ arriveAt' = [arriveAt EXCEPT ![t] = Never]
      /\ UNCHANGED <<script, now, assigned, deadline>>
  BY DEF ArriveBlind
<1>2. \/ /\ open = {} /\ executing' = probed /\ Refreshed(Cores)
         /\ UNCHANGED <<scheduled, rate, mips, wake, pending>>
      \/ open # {} /\ scheduled' = scheduled \cup {t} /\ Sweep(exe, pending)
  BY DEF ArriveBlind
<1>3. probed \in [Cores -> SUBSET Tasks] /\ \A c \in Cores : probed[c] \subseteq executing[c]
  <2> HIDE DEF scanned
  <2> QED
    BY ProbeRemoves DEF RatesInv, CoresInv, CoresType
<1> HIDE DEF open, f, probed
<1>4. exe \in [Cores -> SUBSET Tasks]
  BY <1>3
<1>5. Apart(exe)
  <2>1. \A c \in Cores : t \notin executing[c]
    BY <1>1 DEF RatesInv, PlacedOnce
  <2>2. \A c, d \in Cores : c # d => executing[c] \cap executing[d] = {}
    BY DEF RatesInv, PlacedOnce
  <2>3. \A c \in Cores : exe[c] = probed[c] \cup IF open # {} /\ c = f THEN {t} ELSE {}
    OBVIOUS
  <2> HIDE DEF exe
  <2> QED
    BY <1>3, <2>1, <2>2, <2>3 DEF Apart
<1>6. Never \in Nat /\ Never # now /\ scheduled \cup {t} \subseteq Tasks
  <2>1. /\ Never \in Nat /\ Horizon \in Nat /\ Work[t] \in Nat /\ Horizon + Work[t] < Never
    BY RatesAssumption
  <2>2. now \in 0..Horizon /\ scheduled \subseteq Tasks
    BY DEF RatesInv, UsersType
  <2> QED
    BY <2>1, <2>2
<1>7. CoresInv' /\ \A c \in Cores : executing'[c] \subseteq exe[c]
  <2>1. CASE /\ open = {} /\ executing' = probed /\ Refreshed(Cores)
             /\ UNCHANGED <<scheduled, rate, mips, wake, pending>>
    <3>1. CoresInv'
      BY <1>1, <1>3, <2>1, ProbeKeeps DEF RatesInv
    <3> QED
      BY <2>1, <3>1
  <2>2. CASE open # {} /\ scheduled' = scheduled \cup {t} /\ Sweep(exe, pending)
    <3> DEFINE kept == pending
    <3>1. (kept = pending \/ (kept = Never /\ pending = now)) /\ Sweep(exe, kept)
      BY <2>2
    <3> HIDE DEF exe, kept
    <3>2. CoresInv' /\ executing' = [c \in Cores |-> Staying(exe, c)]
      BY <1>1, <1>4, <1>5, <3>1, SweepKeeps DEF RatesInv
    <3> QED
      BY <3>2 DEF Staying
  <2> QED
    BY <1>2, <2>1, <2>2
<1>8. UsersType'
  <2>1. scheduled' \subseteq Tasks
    BY <1>2, <1>6 DEF RatesInv, UsersType
  <2> QED
    BY <1>1, <1>6, <2>1 DEF RatesInv, UsersType
<1>9. PlacedOnce'
  <2> DEFINE F == {c \in Cores : open # {} /\ c = f}
  <2>1. \A c, d \in F : c = d
    OBVIOUS
  <2>2. \A c \in Cores : exe[c] \subseteq executing[c] \cup (IF c \in F THEN {t} ELSE {})
    BY <1>3
  <2>3. F # {} => t \notin scheduled /\ t \in scheduled'
    BY <1>1, <1>2
  <2>4. scheduled \subseteq scheduled'
    BY <1>2
  <2> HIDE DEF F, exe
  <2>5. \A c \in Cores : assigned'[c] \cup executing'[c] \subseteq
                            assigned[c] \cup executing[c] \cup (IF c \in F THEN {t} ELSE {})
    BY <1>1, <1>7, <2>2
  <2> QED
    BY <2>1, <2>3, <2>4, <2>5, PlacedStep DEF RatesInv
<1>10. CreatedFirst'
  <2> SUFFICES ASSUME NEW x \in Tasks, deadline[x] = Never
               PROVE  arriveAt'[x] = Never /\ x \notin scheduled'
    BY <1>1 DEF CreatedFirst
  <2>1. arriveAt[x] = Never /\ x \notin scheduled
    BY DEF RatesInv, CreatedFirst
  <2>2. x # t
    BY <1>1, <1>6, <2>1
  <2> QED
    BY <1>1, <1>2, <2>1, <2>2 DEF RatesInv, UsersType
<1> QED
  BY <1>7, <1>8, <1>9, <1>10 DEF RatesInv

\* The wake-up: the event is spent, and the sweep queues the next.
LEMMA HandleKeeps ==
  ASSUME RatesInv, Handle
  PROVE  RatesInv'
<1>1. /\ pending = now /\ Sweep(executing, Never)
      /\ UNCHANGED <<script, now, arriveAt, scheduled, assigned, deadline>>
  BY DEF Handle
<1>2. executing \in [Cores -> SUBSET Tasks] /\ Apart(executing)
  BY DEF Apart, RatesInv, PlacedOnce, CoresInv, CoresType
<1>3. CoresInv' /\ executing' = [c \in Cores |-> Staying(executing, c)]
  BY <1>1, <1>2, SweepKeeps DEF RatesInv
<1>4. UsersType'
  BY <1>1 DEF RatesInv, UsersType
<1>5. PlacedOnce'
  <2> DEFINE F == {}
             t == 0
  <2>1. \A c \in Cores : assigned'[c] \cup executing'[c] \subseteq
                            assigned[c] \cup executing[c] \cup (IF c \in F THEN {t} ELSE {})
    BY <1>1, <1>3 DEF Staying
  <2>2. scheduled \subseteq scheduled'
    BY <1>1
  <2>3. (\A c, d \in F : c = d) /\ (F # {} => t \notin scheduled /\ t \in scheduled')
    OBVIOUS
  <2> HIDE DEF F, t
  <2> QED
    BY <2>1, <2>2, <2>3, PlacedStep DEF RatesInv
<1>6. CreatedFirst'
  BY <1>1 DEF RatesInv, CreatedFirst
<1> QED
  BY <1>3, <1>4, <1>5, <1>6 DEF RatesInv

\* Time does not pass a wake-up that is in the queue.
LEMMA TickKeeps ==
  ASSUME RatesInv, Tick
  PROVE  RatesInv'
<1>1. /\ now < Horizon /\ pending # now /\ now' = now + 1
      /\ UNCHANGED <<script, arriveAt, scheduled, assigned, executing, left, since, rate, mips,
                     wake, pending, deadline>>
  BY DEF Tick
<1>2. now \in Nat /\ Horizon \in Nat /\ now' \in 0..Horizon
  BY <1>1, RatesAssumption DEF RatesInv, UsersType
<1>3. UsersType'
  BY <1>1, <1>2 DEF RatesInv, UsersType
<1>4. CoresType'
  <2>1. \A t \in Tasks : since[t] \in Nat /\ since[t] <= now
    BY DEF RatesInv, CoresInv, CoresType
  <2>2. \A t \in Tasks : since[t] <= now'
    BY <1>1, <1>2, <2>1
  <2> QED
    BY <1>1, <2>2 DEF RatesInv, CoresInv, CoresType
<1>5. EventQueued'
  <2>1. pending \in Nat /\ wake \in Nat
    BY DEF RatesInv, CoresInv, CoresType
  <2> QED
    BY <1>1, <1>2, <2>1 DEF RatesInv, CoresInv, EventQueued
<1>6. CoresRun' /\ SharesWithinRate' /\ WakeupCoversCompletions'
  BY <1>1 DEF RatesInv, CoresInv, CoresRun, SharesWithinRate, WakeupCoversCompletions, Running
<1>7. PlacedOnce' /\ CreatedFirst'
  BY <1>1 DEF RatesInv, PlacedOnce, CreatedFirst
<1> QED
  BY <1>3, <1>4, <1>5, <1>6, <1>7 DEF RatesInv, CoresInv
-----------------------------------------------------------------------------
\* The initial states satisfy the invariant.
LEMMA InitRates == Init => RatesInv
<1> SUFFICES ASSUME Init PROVE RatesInv
  OBVIOUS
<1>1. /\ Never \in Nat /\ Horizon \in Nat /\ Work \in [Tasks -> Nat]
      /\ Cores \subseteq Nat
  BY RatesAssumption
<1>2. UsersType /\ PlacedOnce /\ CreatedFirst
  BY <1>1 DEF Init, UsersType, PlacedOnce, CreatedFirst
<1>3. CoresType
  BY <1>1 DEF Init, CoresType
<1>4. CoresRun /\ EventQueued /\ WakeupCoversCompletions
  BY <1>1 DEF Init, CoresRun, EventQueued, WakeupCoversCompletions, Running
<1>5. SharesWithinRate
  BY SumEmpty DEF Init, SharesWithinRate
<1> QED
  BY <1>2, <1>3, <1>4, <1>5 DEF RatesInv, CoresInv

\* Every step keeps the invariant.
LEMMA NextKeepsRates == RatesInv /\ [Next]_vars => RatesInv'
<1> SUFFICES ASSUME RatesInv, [Next]_vars PROVE RatesInv'
  OBVIOUS
<1>1. ASSUME NEW t \in Tasks, SubmitGreen(t) PROVE RatesInv'
  BY <1>1, SubmitGreenKeeps
<1>2. ASSUME NEW t \in Tasks, SubmitBlind(t) PROVE RatesInv'
  BY <1>2, SubmitBlindKeeps
<1>3. ASSUME NEW t \in Tasks, ArriveScheduled(t) PROVE RatesInv'
  BY <1>3, ArriveScheduledKeeps
<1>4. ASSUME NEW t \in Tasks, ArriveBlind(t) PROVE RatesInv'
  BY <1>4, ArriveBlindKeeps
<1>5. CASE Handle
  BY <1>5, HandleKeeps
<1>6. CASE Tick
  BY <1>6, TickKeeps
<1>7. CASE UNCHANGED vars
  BY <1>7 DEF vars, RatesInv, UsersType, PlacedOnce, CreatedFirst, CoresInv, CoresType, CoresRun,
              EventQueued, SharesWithinRate, WakeupCoversCompletions, Running
<1> QED
  BY <1>1, <1>2, <1>3, <1>4, <1>5, <1>6, <1>7 DEF Next

\* The inductive invariant holds: tasks are on one core, and the rates, the power
\* and the wake-up of the provider agree with what its cores execute.
THEOREM RatesInvariant == Spec => []RatesInv
<1>1. Init => RatesInv
  BY InitRates
<1>2. RatesInv /\ [Next]_vars => RatesInv'
  BY NextKeepsRates
<1> QED
  BY <1>1, <1>2, PTL DEF Spec

\* The shares updateTskList hands out never add up to more than the rate the core
\* is billed at, however tasks come, are probed away and complete.
THEOREM CoresPromiseWhatTheyHave == Spec => []SharesWithinRate
<1>1. RatesInv => SharesWithinRate
  BY DEF RatesInv, CoresInv
<1> QED
  BY <1>1, RatesInvariant, PTL

\* The provider's only event, which nextEvent moves and cancels, is always in the
\* queue no later than the earliest completion on any core.
THEOREM ProviderWakesInTime == Spec => []WakeupCoversCompletions
<1>1. RatesInv => WakeupCoversCompletions
  BY DEF RatesInv, CoresInv
<1> QED
  BY <1>1, RatesInvariant, PTL

\* A sweep that ends no task leaves the power as it is.
LEMMA QuietSweep ==
  ASSUME RatesInv, NEW kept, Sweep(executing, kept),
         Swept(executing) \cup Expelled(executing) = {}
  PROVE  mips' = mips
<1>1. mips' = [c \in Cores |-> IF executing[c] = {} THEN mips[c]
                              ELSE IF Staying(executing, c) = {} THEN 0 ELSE Avail[c]]
  BY DEF Sweep
<1>2. ASSUME NEW c \in Cores PROVE mips'[c] = mips[c]
  <2>1. Staying(executing, c) = executing[c]
    BY DEF Staying, Swept, Expelled
  <2>2. executing[c] # {} => mips[c] = Avail[c]
    BY DEF RatesInv, CoresInv, CoresRun
  <2> QED
    BY <1>1, <2>1, <2>2
<1>3. mips \in [Cores -> Nat] /\ mips' = [c \in Cores |-> mips'[c]]
  BY <1>1 DEF RatesInv, CoresInv, CoresType
<1> QED
  BY <1>2, <1>3

\* An event that changes the rate of a core bills the time since the last update
\* at the power drawn until now: DcHost::updateEnergyAndConsumption comes first.
THEOREM PowerIsBilledBeforeItChanges == Spec => BilledBeforeChange
<1> DEFINE Billed == billed' = billed + (now - lastBill) * Power /\ lastBill' = now
<1>1. RatesInv /\ [Next]_vars => (Power' # Power => Billed)
  <2> SUFFICES ASSUME RatesInv, [Next]_vars, Power' # Power PROVE Billed
    OBVIOUS
  <2>1. mips' # mips
    BY DEF Power
  <2>2. ASSUME NEW t \in Tasks, SubmitGreen(t) PROVE FALSE
    BY <2>1, <2>2 DEF SubmitGreen
  <2>3. ASSUME NEW t \in Tasks, SubmitBlind(t) PROVE FALSE
    BY <2>1, <2>3 DEF SubmitBlind
  <2>4. ASSUME NEW t \in Tasks, ArriveScheduled(t) PROVE Billed
    BY <2>4 DEF ArriveScheduled, Bill
  <2>5. ASSUME NEW t \in Tasks, ArriveBlind(t) PROVE Billed
    BY <2>5 DEF ArriveBlind, Bill
  <2>6. CASE Handle
    <3>1. Swept(executing) \cup Expelled(executing) # {}
      BY <2>1, <2>6, QuietSweep DEF Handle
    <3> QED
      BY <2>6, <3>1 DEF Handle, BillIf, Bill
  <2>7. CASE Tick
    BY <2>1, <2>7 DEF Tick
  <2>8. CASE UNCHANGED vars
    BY <2>1, <2>8 DEF vars
  <2> QED
    BY <2>2, <2>3, <2>4, <2>5, <2>6, <2>7, <2>8 DEF Next
<1>2. RatesInv /\ [Next]_vars => [Power' # Power => Billed]_vars
  BY <1>1
<1> QED
  BY <1>2, RatesInvariant, PTL DEF Spec, BilledBeforeChange
-----------------------------------------------------------------------------
\* The types that RatesInv leaves out: how tasks end, what is billed, and that a
\* core is off or runs at all its MIPS.
BillingType ==
  /\ \A c \in Cores : mips[c] \in {0, Avail[c]}
  /\ outcome \in [Tasks -> {"none", "rejected", "done", "failed"}]
  /\ billed \in Nat /\ lastBill \in 0..now

\* The energy billed up to now is a natural number, like the power.
LEMMA BillKeepsType ==
  ASSUME RatesInv, BillingType, Bill, now' = now
  PROVE  billed' \in Nat /\ lastBill' \in 0..now'
<1>1. now \in Nat /\ lastBill \in Nat /\ lastBill <= now /\ billed \in Nat
  BY RatesAssumption DEF RatesInv, UsersType, BillingType
<1>2. Power \in Nat
  <2>1. IsFiniteSet(Cores) /\ \A c \in Cores : mips[c] \in Nat
    BY RatesAssumption DEF RatesInv, CoresInv, CoresType
  <2> QED
    BY <2>1, SumNat DEF Power
<1>3. (now - lastBill) * Power \in Nat
  <2> DEFINE k == now - lastBill
  <2>1. k \in Nat
    BY <1>1
  <2> HIDE DEF k
  <2>2. k * Power \in Nat
    BY <1>2, <2>1, Arithmetic
  <2> QED
    BY <2>2 DEF k
<1> QED
  BY <1>1, <1>3 DEF Bill

\* A sweep leaves a core off or at all its MIPS.
LEMMA SweepKeepsMips ==
  ASSUME BillingType, NEW exe, NEW kept, Sweep(exe, kept)
  PROVE  \A c \in Cores : mips'[c] \in {0, Avail[c]}
<1>1. mips' = [c \in Cores |-> IF exe[c] = {} THEN mips[c]
                              ELSE IF Staying(exe, c) = {} THEN 0 ELSE Avail[c]]
  BY DEF Sweep
<1> QED
  BY <1>1 DEF BillingType

\* Every step keeps these types.
LEMMA NextKeepsBilling == RatesInv /\ BillingType /\ [Next]_vars => BillingType'
<1> SUFFICES ASSUME RatesInv, BillingType, [Next]_vars PROVE BillingType'
  OBVIOUS
<1> DEFINE Outcomes == [Tasks -> {"none", "rejected", "done", "failed"}]
           MipsTyped == \A c \in Cores : mips[c] \in {0, Avail[c]}
<1>1. MipsTyped /\ outcome \in Outcomes /\ billed \in Nat /\ lastBill \in 0..now /\ now \in Nat
  BY RatesAssumption DEF BillingType, RatesInv, UsersType
<1>2. \A done, dead : Settle(done, dead) => outcome' \in Outcomes
  BY <1>1 DEF Settle
<1>3. \A removed : BillIf(removed) /\ now' = now => billed' \in Nat /\ lastBill' \in 0..now'
  BY <1>1, BillKeepsType DEF BillIf
<1>4. ASSUME NEW t \in Tasks, SubmitGreen(t) PROVE BillingType'
  <2>1. now' = now /\ mips' = mips
    BY <1>4 DEF SubmitGreen
  <2>2. \E removed : BillIf(removed)
    BY <1>4 DEF SubmitGreen
  <2>3. outcome' \in Outcomes
    <3>1. CASE \E done, dead : Settle(done, dead)
      BY <1>2, <3>1
    <3>2. CASE \E scanned :
                 outcome' = [x \in Tasks |-> IF x = t THEN "rejected"
                               ELSE IF x \in ProbeDead(scanned) THEN "failed"
                               ELSE IF x \in ProbeDone(scanned) THEN "done" ELSE outcome[x]]
      BY <1>1, <3>2
    <3> QED
      BY <1>4, <3>1, <3>2 DEF SubmitGreen
  <2> QED
    BY <1>1, <1>3, <2>1, <2>2, <2>3 DEF BillingType
<1>5. ASSUME NEW t \in Tasks, SubmitBlind(t) PROVE BillingType'
  BY <1>1, <1>5 DEF SubmitBlind, BillingType
<1>6. ASSUME NEW t \in Tasks, ArriveScheduled(t) PROVE BillingType'
  <2>1. now' = now /\ Bill /\ \E exe : Sweep(exe, pending)
    BY <1>6 DEF ArriveScheduled
  <2>2. \E done, dead : Settle(done, dead)
    BY <1>6 DEF ArriveScheduled
  <2>3. billed' \in Nat /\ lastBill' \in 0..now'
    BY <2>1, BillKeepsType
  <2>4. \A c \in Cores : mips'[c] \in {0, Avail[c]}
    BY <2>1, SweepKeepsMips
  <2> QED
    BY <1>2, <2>2, <2>3, <2>4 DEF BillingType
<1>7. ASSUME NEW t \in Tasks, ArriveBlind(t) PROVE BillingType'
  <2>1. now' = now /\ Bill /\ (mips' = mips \/ \E exe : Sweep(exe, pending))
    BY <1>7 DEF ArriveBlind
  <2>2. \E done, dead : Settle(done, dead)
    BY <1>7 DEF ArriveBlind
  <2>3. billed' \in Nat /\ lastBill' \in 0..now'
    BY <2>1, BillKeepsType
  <2>4. \A c \in Cores : mips'[c] \in {0, Avail[c]}
    BY <1>1, <2>1, SweepKeepsMips
  <2> QED
    BY <1>2, <2>2, <2>3, <2>4 DEF BillingType
<1>8. CASE Handle
  <2>1. now' = now /\ Sweep(executing, Never)
    BY <1>8 DEF Handle
  <2>2. (\E removed : BillIf(removed)) /\ (\E done, dead : Settle(done, dead))
    BY <1>8 DEF Handle
  <2>3. \A c \in Cores : mips'[c] \in {0, Avail[c]}
    BY <2>1, SweepKeepsMips
  <2> QED
    BY <1>2, <1>3, <2>1, <2>2, <2>3 DEF BillingType
<1>9. CASE Tick
  <2>1. now' = now + 1 /\ UNCHANGED <<mips, outcome, billed, lastBill>>
    BY <1>9 DEF Tick
  <2> QED
    BY <1>1, <2>1 DEF BillingType
<1>10. CASE UNCHANGED vars
  BY <1>10 DEF vars, BillingType
<1> QED
  BY <1>4, <1>5, <1>6, <1>7, <1>8, <1>9, <1>10 DEF Next

\* The types hold for every provider, every set of tasks and every script: with
\* numbers that divide, which are the choice of an instance and all that TypeOK
\* says besides, so does TypeOK.
THEOREM TypesHold == Spec => []Typed /\ [](WholeShares => TypeOK)
<1>1. Init => BillingType
  BY RatesAssumption DEF Init, BillingType
<1>2. RatesInv /\ BillingType /\ [Next]_vars => BillingType'
  BY NextKeepsBilling
<1>3. RatesInv /\ BillingType => Typed
  <2> SUFFICES ASSUME RatesInv, BillingType PROVE Typed
    OBVIOUS
  <2>1. now \in 0..Horizon /\ Horizon \in Nat /\ \A t \in Tasks : since[t] \in Nat /\ since[t] <= now
    BY RatesAssumption DEF RatesInv, UsersType, CoresInv, CoresType
  <2>2. since \in [Tasks -> 0..Horizon]
    BY <2>1 DEF RatesInv, CoresInv, CoresType
  <2> QED
    BY <2>1, <2>2 DEF RatesInv, UsersType, CoresInv, CoresType, CoresRun, BillingType, Typed
<1>4. Typed => (WholeShares => TypeOK)
  BY DEF TypeOK
<1> QED
  BY <1>1, <1>2, <1>3, <1>4, RatesInvariant, PTL DEF Spec
-----------------------------------------------------------------------------
\* Admission and deadlines.  All shares of a core are whole numbers of MIPS per
\* tick: the integer division of the model is then the division of the code.
ExactShares ==
  \A c \in Cores : executing[c] # {} => Avail[c] % Cardinality(executing[c]) = 0

\* The network delays no task.
Prompt == script.delays = {0}

\* Each of the tasks S meets the deadline dl when all of them share core c.
Roomy(S, c, dl) == \A x \in S : Left(x) * Cardinality(S) <= Avail[c] * (dl[x] - now)

\* At its rate, every task that executes meets its deadline.
RatesMeetDeadlines ==
  \A c \in Cores : \A t \in executing[c] : Left(t) <= rate[t] * (deadline[t] - now)

\* No task of a core has more than an equal share of it.
SharesAreEqual ==
  \A c \in Cores : \A t \in executing[c] : rate[t] * Cardinality(executing[c]) <= Avail[c]

\* A core that waits for a task has room for it beside those it executes.
RoomForAssigned ==
  \A c \in Cores : assigned[c] # {} => Roomy(executing[c] \cup assigned[c], c, deadline)

\* A task on its way arrives at the instant it was created.
ArriveAtOnce ==
  /\ \A t \in Tasks : arriveAt[t] # Never => arriveAt[t] = now /\ now < deadline[t]
  /\ \A c \in Cores : \A t \in assigned[c] : arriveAt[t] # Never

\* A task that is admitted, on its way or still to come has not failed.
NoneFailed ==
  \A t \in Tasks : t \in scheduled \/ arriveAt[t] # Never \/ deadline[t] = Never
                     => outcome[t] # "failed"

\* What a prompt network adds to the invariant: admission keeps its promises.
AdmissionInv ==
  RatesMeetDeadlines /\ SharesAreEqual /\ RoomForAssigned /\ ArriveAtOnce /\ NoneFailed

\* Products of natural numbers and their order.
LEMMA Products ==
  /\ \A l \in Nat, a \in Nat \ {0}, d \in Int : l <= a * d => d >= 0
  /\ \A l, n \in Nat : n > 0 /\ l * n <= 0 => l = 0
  /\ \A l, m, n \in Nat : m <= n => l * m <= l * n
  /\ \A l, s, d \in Int, n \in Nat \ {0} : l * n <= (s * n) * d => l <= s * d
  /\ \A a \in Nat, n \in Nat \ {0} : a % n = 0 => (a \div n) * n = a
  /\ \A a \in Nat, n \in Nat \ {0}, r \in Nat : r * n <= a => r <= a \div n
<1>1. \A l \in Nat, a \in Nat \ {0}, d \in Int : l <= a * d => d >= 0
  OBVIOUS
<1>2. \A l, n \in Nat : n > 0 /\ l * n <= 0 => l = 0
  OBVIOUS
<1>3. \A l, m, n \in Nat : m <= n => l * m <= l * n
  OBVIOUS
<1>4. \A l, s, d \in Int, n \in Nat \ {0} : l * n <= (s * n) * d => l <= s * d
  <2> TAKE l, s, d \in Int, n \in Nat \ {0}
  <2>1. (s * n) * d = (s * d) * n
    OBVIOUS
  <2>2. \A x, y \in Int : x * n <= y * n => x <= y
    OBVIOUS
  <2>3. s * d \in Int
    OBVIOUS
  <2> QED
    BY <2>1, <2>2, <2>3
<1>5. \A a \in Nat, n \in Nat \ {0} : a % n = 0 => (a \div n) * n = a
  OBVIOUS
<1>6. \A a \in Nat, n \in Nat \ {0}, r \in Nat : r * n <= a => r <= a \div n
  OBVIOUS
<1> QED
  BY <1>1, <1>2, <1>3, <1>4, <1>5, <1>6

\* What is left of a task and the time it has are numbers.
LEMMA Numbers ==
  ASSUME UsersType, CoresType, NEW t \in Tasks
  PROVE  Left(t) \in Nat /\ deadline[t] - now \in Int /\ deadline[t] \in Nat /\ now \in Nat
         /\ (deadline[t] - now >= 0 <=> now <= deadline[t])
         /\ (Late(t) <=> deadline[t] - now <= 0)
<1>1. Left(t) \in Nat
  BY LeftType
<1>2. deadline[t] \in Nat /\ now \in Nat
  BY DEF UsersType
<1> QED
  BY <1>1, <1>2 DEF Late

\* A task that meets its deadline at some rate is not expelled.
LEMMA MeetsDeadline ==
  ASSUME UsersType, CoresType, NEW t \in Tasks, NEW r \in Nat \ {0}, NEW n \in Nat \ {0},
         Left(t) * n <= r * (deadline[t] - now)
  PROVE  now <= deadline[t] /\ (Complete(t) \/ ~Late(t))
<1> DEFINE d == deadline[t] - now
           l == Left(t)
<1>1. l \in Nat /\ d \in Int /\ l * n <= r * d
  BY Numbers
<1>2. (d >= 0 <=> now <= deadline[t]) /\ (Late(t) <=> d <= 0)
  BY Numbers
<1>3. Complete(t) <=> l <= Tolerance
  BY DEF Complete
<1>4. Tolerance \in Nat
  BY RatesAssumption
<1> HIDE DEF d, l
<1>5. l * n \in Nat
  BY <1>1
<1>6. d >= 0
  BY <1>1, <1>5, Products
<1>7. ASSUME d = 0 PROVE l = 0
  <2>1. r * d = 0
    BY <1>7
  <2>2. l * n <= 0
    BY <1>1, <2>1
  <2> QED
    BY <1>1, <2>2, Products
<1> QED
  BY <1>1, <1>2, <1>3, <1>4, <1>6, <1>7

\* Fewer tasks on a core have room where more had.
LEMMA RoomShrinks ==
  ASSUME UsersType, CoresType, NEW S \in SUBSET Tasks, NEW T \in SUBSET S, NEW c, NEW dl,
         dl \in [Tasks -> Nat], c \in Cores, Roomy(S, c, dl)
  PROVE  Roomy(T, c, dl)
<1>1. IsFiniteSet(S)
  BY RatesAssumption, FS_Subset
<1>2. Cardinality(S) \in Nat /\ Cardinality(T) \in Nat /\ Cardinality(T) <= Cardinality(S)
  BY <1>1, FS_Subset, FS_CardinalityType
<1> SUFFICES ASSUME NEW x \in T
             PROVE  Left(x) * Cardinality(T) <= Avail[c] * (dl[x] - now)
  BY DEF Roomy
<1> DEFINE m == Cardinality(T)
           n == Cardinality(S)
           b == Avail[c] * (dl[x] - now)
           l == Left(x)
<1>3. l \in Nat
  BY LeftType
<1>4. l * n <= b
  BY DEF Roomy
<1>5. b \in Int
  <2>1. Avail[c] \in Int /\ dl[x] \in Int /\ now \in Int
    BY RatesAssumption DEF UsersType
  <2> QED
    BY <2>1
<1> HIDE DEF b, l, m, n
<1>6. l * m <= l * n /\ l * m \in Int /\ l * n \in Int
  BY <1>2, <1>3, Products DEF m, n
<1>7. l * m <= b
  BY <1>4, <1>5, <1>6
<1> QED
  BY <1>7 DEF b, l, m

\* Bringing the work left up to date does not change it.
LEMMA LeftUpdated ==
  ASSUME UsersType, CoresType, now' = now, NEW t \in Tasks,
         rate'[t] \in Nat,
         \/ left'[t] = Left(t) /\ since'[t] = now
         \/ left'[t] = left[t] /\ since'[t] = since[t] /\ rate'[t] = rate[t]
  PROVE  Left(t)' = Left(t)
<1>1. CASE left'[t] = Left(t) /\ since'[t] = now
  <2> DEFINE r == rate'[t]
             l == left'[t]
  <2>1. Left(t)' = IF l > r * (now' - since'[t]) THEN l - r * (now' - since'[t]) ELSE 0
    BY DEF Left
  <2>2. l \in Nat /\ now \in Nat
    BY <1>1, LeftType DEF UsersType
  <2>3. now' - since'[t] = 0
    BY <1>1, <2>2
  <2> HIDE DEF r, l
  <2>4. r * 0 = 0
    BY DEF r
  <2> QED
    BY <1>1, <2>1, <2>2, <2>3, <2>4 DEF l
<1>2. CASE left'[t] = left[t] /\ since'[t] = since[t] /\ rate'[t] = rate[t]
  BY <1>2 DEF Left
<1> QED
  BY <1>1, <1>2

\* A sweep leaves what is left of every task as it is.
LEMMA SweptLeft ==
  ASSUME UsersType, CoresType, now' = now, NEW exe \in [Cores -> SUBSET Tasks], Apart(exe),
         NEW kept, Sweep(exe, kept)
  PROVE  \A t \in Tasks : Left(t)' = Left(t)
<1> SUFFICES ASSUME NEW t \in Tasks PROVE Left(t)' = Left(t)
  OBVIOUS
<1>1. rate' \in [Tasks -> Nat]
  BY SweptRates
<1>2. rate'[t] \in Nat
  BY <1>1
<1>3. CASE \E c \in Cores : t \in exe[c]
  <2>1. left'[t] = Left(t) /\ since'[t] = now
    BY <1>3, SweptWork
  <2> QED
    BY <1>2, <2>1, LeftUpdated
<1>4. CASE ~\E c \in Cores : t \in exe[c]
  <2>1. left'[t] = left[t] /\ since'[t] = since[t]
    BY <1>4 DEF Sweep
  <2>2. {c \in Cores : t \in Staying(exe, c)} = {}
    BY <1>4 DEF Staying
  <2>3. rate' = [x \in Tasks |-> LET on == {c \in Cores : x \in Staying(exe, c)}
                                IN IF on = {} THEN rate[x] ELSE Share(exe, CHOOSE c \in on : TRUE)]
    BY DEF Sweep
  <2>4. rate'[t] = rate[t]
    BY <2>2, <2>3
  <2> QED
    BY <1>2, <2>1, <2>4, LeftUpdated
<1> QED
  BY <1>3, <1>4

\* A probe leaves what is left of every task as it is.
LEMMA ProbedLeft ==
  ASSUME UsersType, CoresType, now' = now, NEW S, Refreshed(S), rate' = rate
  PROVE  \A t \in Tasks : Left(t)' = Left(t)
<1> SUFFICES ASSUME NEW t \in Tasks PROVE Left(t)' = Left(t)
  OBVIOUS
<1>1. rate'[t] \in Nat
  BY DEF CoresType
<1>2. \/ left'[t] = Left(t) /\ since'[t] = now
      \/ left'[t] = left[t] /\ since'[t] = since[t] /\ rate'[t] = rate[t]
  BY DEF Refreshed
<1> QED
  BY <1>1, <1>2, LeftUpdated

\* Tasks that have room are on time, and none of them is expelled.
LEMMA RoomyOnTime ==
  ASSUME UsersType, CoresType, NEW c \in Cores, NEW S \in SUBSET Tasks, Roomy(S, c, deadline)
  PROVE  \A t \in S : now <= deadline[t] /\ (Complete(t) \/ ~Late(t))
<1> SUFFICES ASSUME NEW t \in S
             PROVE  now <= deadline[t] /\ (Complete(t) \/ ~Late(t))
  OBVIOUS
<1>1. IsFiniteSet(S)
  BY RatesAssumption, FS_Subset
<1>2. Cardinality(S) \in Nat \ {0}
  BY <1>1, FS_CardinalityType, FS_EmptySet
<1>3. Avail[c] \in Nat \ {0} /\ t \in Tasks
  BY RatesAssumption
<1>4. Left(t) * Cardinality(S) <= Avail[c] * (deadline[t] - now)
  BY DEF Roomy
<1> QED
  BY <1>2, <1>3, <1>4, MeetsDeadline

\* Tasks that execute are on time, and none of them is expelled.
LEMMA RunningOnTime ==
  ASSUME UsersType, CoresType, CoresRun, RatesMeetDeadlines, NEW c \in Cores
  PROVE  \A t \in executing[c] : now <= deadline[t] /\ (Complete(t) \/ ~Late(t))
<1> SUFFICES ASSUME NEW t \in executing[c]
             PROVE  now <= deadline[t] /\ (Complete(t) \/ ~Late(t))
  OBVIOUS
<1>1. t \in Tasks /\ rate[t] \in Nat \ {0}
  BY DEF CoresType, CoresRun
<1>2. Left(t) * 1 <= rate[t] * (deadline[t] - now)
  <2>1. Left(t) \in Nat
    BY <1>1, LeftType
  <2>2. Left(t) <= rate[t] * (deadline[t] - now)
    BY DEF RatesMeetDeadlines
  <2> QED
    BY <2>1, <2>2
<1>3. 1 \in Nat \ {0}
  OBVIOUS
<1> QED
  BY <1>1, <1>2, <1>3, MeetsDeadline

\* The tasks of the lists exe are where they were, or have room on their core.
Accommodated(exe) ==
  \A c \in Cores : exe[c] \subseteq executing[c] \/ Roomy(exe[c], c, deadline)

\* A sweep of such lists expels no task.
LEMMA NoneExpelled ==
  ASSUME UsersType, CoresType, CoresRun, RatesMeetDeadlines,
         NEW exe \in [Cores -> SUBSET Tasks], Accommodated(exe)
  PROVE  /\ Expelled(exe) = {}
         /\ \A c \in Cores : \A t \in exe[c] : now <= deadline[t]
<1>1. ASSUME NEW c \in Cores, NEW t \in exe[c]
      PROVE  now <= deadline[t] /\ (Complete(t) \/ ~Late(t))
  <2>1. CASE exe[c] \subseteq executing[c]
    BY <2>1, RunningOnTime
  <2>2. CASE Roomy(exe[c], c, deadline)
    <3>1. exe[c] \in SUBSET Tasks
      OBVIOUS
    <3> QED
      BY <2>2, <3>1, RoomyOnTime
  <2> QED
    BY <2>1, <2>2 DEF Accommodated
<1> QED
  BY <1>1 DEF Expelled, Fails

\* A sweep of such lists gives every task a rate at which it meets its deadline:
\* one that was there gets no less than it had, and a core that a task joined has
\* room for all.
LEMMA SweepMeetsDeadlines ==
  ASSUME UsersType, CoresInv, RatesMeetDeadlines, SharesAreEqual, now' = now,
         deadline' = deadline, NEW exe \in [Cores -> SUBSET Tasks], Apart(exe),
         Accommodated(exe), NEW kept, Sweep(exe, kept), ExactShares'
  PROVE  RatesMeetDeadlines' /\ SharesAreEqual'
<1>1. CoresType /\ CoresRun
  BY DEF CoresInv
<1>2. \A t \in Tasks : Left(t)' = Left(t)
  BY <1>1, SweptLeft
<1>3. \A c \in Cores : \A t \in Staying(exe, c) : rate'[t] = Share(exe, c)
  BY <1>1, SweptRates
<1>4. \A c \in Cores : executing'[c] = Staying(exe, c) /\ Staying(exe, c) \subseteq exe[c]
  BY DEF Sweep, Staying
<1>5. ASSUME NEW c \in Cores, NEW t \in executing'[c]
      PROVE  /\ Left(t)' <= rate'[t] * (deadline'[t] - now')
             /\ rate'[t] * Cardinality(executing'[c]) <= Avail[c]
  <2> DEFINE S == Staying(exe, c)
             n == Cardinality(S)
             share == Share(exe, c)
             d == deadline[t] - now
             l == Left(t)
  <2>1. t \in S /\ t \in exe[c] /\ t \in Tasks /\ S # {} /\ executing'[c] = S
    BY <1>4
  <2>2. IsFiniteSet(S) /\ n \in Nat /\ share \in Nat \ {0} /\ n * share <= Avail[c]
    BY <2>1, ShareFits
  <2>3. n \in Nat \ {0}
    BY <2>1, <2>2, FS_EmptySet
  <2>4. Avail[c] \in Nat /\ share = Avail[c] \div n
    BY RatesAssumption DEF Share
  <2>5. l \in Nat /\ d \in Int
    BY <1>1, <2>1, Numbers
  <2>6. rate'[t] = share /\ Left(t)' = l /\ deadline'[t] - now' = d
    BY <1>2, <1>3, <2>1
  <2>7. ASSUME exe[c] \subseteq executing[c] PROVE l <= share * d
    <3> DEFINE m == Cardinality(executing[c])
               r == rate[t]
    <3>1. t \in executing[c] /\ r \in Nat
      BY <1>1, <2>1, <2>7 DEF CoresType
    <3>2. l <= r * d /\ r * m <= Avail[c]
      BY <3>1 DEF RatesMeetDeadlines, SharesAreEqual
    <3>3. d >= 0
      <4>1. now <= deadline[t]
        BY <1>1, <3>1, RunningOnTime
      <4> QED
        BY <2>1, <4>1, <1>1, Numbers
    <3>4. n <= m /\ m \in Nat
      <4>1. executing[c] \subseteq Tasks /\ S \subseteq executing[c]
        BY <1>1, <1>4, <2>7 DEF CoresType
      <4>2. IsFiniteSet(executing[c])
        BY <4>1, RatesAssumption, FS_Subset
      <4> QED
        BY <4>1, <4>2, FS_Subset, FS_CardinalityType
    <3> HIDE DEF S, n, share, d, l, m, r
    <3>5. r * n <= r * m /\ r * n \in Nat /\ r * m \in Nat
      BY <2>3, <3>1, <3>4, Products
    <3>6. r <= share
      <4>1. r * n <= Avail[c]
        BY <2>4, <3>2, <3>5
      <4> QED
        BY <2>3, <2>4, <3>1, <4>1, Products
    <3>7. d \in Nat /\ r * d <= share * d
      <4>1. d \in Nat /\ d * r <= d * share
        BY <2>2, <2>5, <3>1, <3>3, <3>6, Products
      <4>2. d * r = r * d /\ d * share = share * d
        BY <2>2, <3>1, <4>1
      <4> QED
        BY <4>1, <4>2
    <3>8. r * d \in Nat /\ share * d \in Nat
      BY <2>2, <3>1, <3>7
    <3> QED
      BY <2>5, <3>2, <3>7, <3>8
  <2>8. ASSUME Roomy(exe[c], c, deadline) PROVE l <= share * d
    <3>1. Roomy(S, c, deadline)
      <4>1. exe[c] \in SUBSET Tasks /\ S \in SUBSET exe[c] /\ deadline \in [Tasks -> Nat]
        BY <1>4 DEF UsersType
      <4> HIDE DEF S
      <4> QED
        BY <1>1, <2>8, <4>1, RoomShrinks
    <3>2. l * n <= Avail[c] * d
      BY <2>1, <3>1 DEF Roomy
    <3>3. Avail[c] % n = 0
      BY <2>1 DEF ExactShares
    <3> HIDE DEF S, n, share, d, l
    <3>4. share * n = Avail[c]
      BY <2>3, <2>4, <3>3, Products
    <3>5. l * n <= (share * n) * d
      BY <3>2, <3>4
    <3> QED
      BY <2>2, <2>3, <2>5, <3>5, Products
  <2>9. l <= share * d
    BY <2>7, <2>8 DEF Accommodated
  <2>10. share * n = n * share
    BY <2>2
  <2> HIDE DEF l, d, n, share, S
  <2>11. rate'[t] * Cardinality(executing'[c]) = share * n
    BY <2>1, <2>6 DEF n
  <2>12. Left(t)' <= rate'[t] * (deadline'[t] - now')
    BY <2>6, <2>9
  <2> QED
    BY <2>2, <2>10, <2>11, <2>12
<1> QED
  BY <1>5 DEF RatesMeetDeadlines, SharesAreEqual

\* A probe that finds every task on time fails none, and gives up no task that is
\* still to arrive.
LEMMA ProbesFailNone ==
  ASSUME UsersType, CoresType, CoresRun, AdmissionInv, NEW S \in SUBSET Cores
  PROVE  /\ \A c \in Cores : ProbedAsg(c) = assigned[c]
         /\ ProbeDead(S) = {}
         /\ \A t \in ProbeDone(S) : now <= deadline[t]
<1>1. ASSUME NEW c \in Cores
      PROVE  ProbedAsg(c) = assigned[c]
  <2>1. \A t \in assigned[c] : t \in Tasks /\ now < deadline[t]
    BY DEF UsersType, AdmissionInv, ArriveAtOnce
  <2>2. \A t \in assigned[c] : ~Late(t)
    <3> TAKE t \in assigned[c]
    <3>1. deadline[t] \in Nat /\ now \in Nat /\ now < deadline[t]
      BY <2>1, Numbers
    <3> QED
      BY <3>1 DEF Late
  <2> QED
    BY <2>2 DEF ProbedAsg
<1>2. ASSUME NEW c \in Cores
      PROVE  Fails(executing[c]) = {} /\ \A t \in executing[c] : now <= deadline[t]
  <2>1. RatesMeetDeadlines
    BY DEF AdmissionInv
  <2> QED
    BY <2>1, RunningOnTime DEF Fails
<1>3. ProbeDead(S) = {}
  BY <1>1, <1>2 DEF ProbeDead, RemovedBy, ProbeDone, ProbedExe
<1>4. \A t \in ProbeDone(S) : now <= deadline[t]
  BY <1>2 DEF ProbeDone, Ends
<1> QED
  BY <1>1, <1>3, <1>4

\* A probe keeps the rates at which the tasks meet their deadlines.
LEMMA ProbeMeetsDeadlines ==
  ASSUME UsersType, CoresType, RatesMeetDeadlines, SharesAreEqual, now' = now,
         \A t \in scheduled : deadline'[t] = deadline[t], PlacedOnce,
         NEW S, Refreshed(S), rate' = rate, executing' \in [Cores -> SUBSET Tasks],
         \A c \in Cores : executing'[c] \subseteq executing[c]
  PROVE  RatesMeetDeadlines' /\ SharesAreEqual'
<1>1. \A t \in Tasks : Left(t)' = Left(t)
  BY ProbedLeft
<1>2. RatesMeetDeadlines'
  <2> SUFFICES ASSUME NEW c \in Cores, NEW t \in executing'[c]
               PROVE  Left(t)' <= rate'[t] * (deadline'[t] - now')
    BY DEF RatesMeetDeadlines
  <2>1. t \in executing[c] /\ t \in Tasks /\ t \in scheduled
    BY DEF PlacedOnce
  <2>2. Left(t) <= rate[t] * (deadline[t] - now)
    BY <2>1 DEF RatesMeetDeadlines
  <2> QED
    BY <1>1, <2>1, <2>2
<1>3. SharesAreEqual'
  <2> SUFFICES ASSUME NEW c \in Cores, NEW t \in executing'[c]
               PROVE  rate'[t] * Cardinality(executing'[c]) <= Avail[c]
    BY DEF SharesAreEqual
  <2> DEFINE n == Cardinality(executing'[c])
             m == Cardinality(executing[c])
             r == rate[t]
  <2>1. t \in executing[c] /\ t \in Tasks /\ executing'[c] \subseteq executing[c]
        /\ executing[c] \subseteq Tasks
    BY DEF CoresType
  <2>2. IsFiniteSet(executing[c])
    BY <2>1, RatesAssumption, FS_Subset
  <2>3. n \in Nat /\ m \in Nat /\ n <= m
    BY <2>1, <2>2, FS_Subset, FS_CardinalityType
  <2>4. r * m <= Avail[c] /\ r \in Nat /\ Avail[c] \in Nat /\ rate'[t] = r
    BY <2>1, RatesAssumption DEF SharesAreEqual, CoresType
  <2> HIDE DEF n, m, r
  <2>5. r * n <= r * m /\ r * n \in Nat /\ r * m \in Nat
    BY <2>3, <2>4, Products
  <2>6. rate'[t] * n <= Avail[c]
    BY <2>4, <2>5
  <2> QED
    BY <2>6 DEF n
<1> QED
  BY <1>2, <1>3

\* A core that admits a task has room for it beside the tasks it keeps.
LEMMA AdmittedHasRoom ==
  ASSUME UsersType, CoresType, NEW c \in Cores, NEW t \in Tasks, NEW dl \in [Tasks -> Nat],
         t \notin ProbedExe(c) \cup ProbedAsg(c), now < dl[t], Admits(c, t, dl)
  PROVE  Roomy(ProbedExe(c) \cup ProbedAsg(c) \cup {t}, c, dl)
<1> DEFINE others == ProbedExe(c) \cup ProbedAsg(c)
<1>1. others \subseteq Tasks
  BY ProbeRemoves DEF UsersType, CoresType
<1>2. IsFiniteSet(others)
  BY <1>1, RatesAssumption, FS_Subset
<1>3. Cardinality(others \cup {t}) = Cardinality(others) + 1
  BY <1>2, FS_AddElement
<1>4. \A x \in others \cup {t} :
        Left(x) * (Cardinality(others) + 1) <= Avail[c] * (dl[x] - now)
  BY DEF Admits
<1> HIDE DEF others
<1>5. Roomy(others \cup {t}, c, dl)
  BY <1>3, <1>4 DEF Roomy
<1> QED
  BY <1>5 DEF others

\* The first core that admits a task is one of those that do, and is scanned.
LEMMA FirstAdmits ==
  ASSUME NEW t, NEW dl, {c \in Cores : Admits(c, t, dl)} # {}
  PROVE  /\ FirstAdmitting(t, dl) \in Cores
         /\ Admits(FirstAdmitting(t, dl), t, dl)
         /\ FirstAdmitting(t, dl) \in UpTo(FirstAdmitting(t, dl))
<1> DEFINE open == {c \in Cores : Admits(c, t, dl)}
<1>1. open \subseteq Nat /\ open # {}
  BY RatesAssumption
<1>2. FirstAdmitting(t, dl) = Min(open)
  BY DEF FirstAdmitting
<1>3. Min(open) \in open
  <2> HIDE DEF open
  <2> QED
    BY <1>1, MinIsLeast
<1>4. FirstAdmitting(t, dl) \in Cores /\ Admits(FirstAdmitting(t, dl), t, dl)
  BY <1>2, <1>3
<1>5. FirstAdmitting(t, dl) \in Nat
  BY <1>4, RatesAssumption
<1> QED
  BY <1>4, <1>5 DEF UpTo

\* An event that expels no task: what ends is done.
LEMMA SettledDone ==
  ASSUME NEW done, NEW dead, Settle(done, dead)
  PROVE  \A x \in Tasks :
           /\ outcome'[x] = "failed" => outcome[x] = "failed" \/ x \in dead
           /\ outcome'[x] = "done" => outcome[x] = "done" \/ x \in done
BY DEF Settle

\* A task that completes in this step does so by its deadline.
DoneInTime ==
  \A t \in Tasks : outcome[t] # "done" /\ outcome'[t] = "done" => now <= deadline[t]

\* The room on a core is that of the tasks that were there, or fewer of them.
LEMMA RoomKept ==
  ASSUME UsersType, CoresType, now' = now, NEW c \in Cores, NEW S \in SUBSET Tasks,
         NEW dl \in [Tasks -> Nat], Roomy(S, c, dl), \A x \in S : Left(x)' = Left(x),
         executing'[c] \cup assigned'[c] \subseteq S,
         \A x \in S : deadline'[x] = dl[x]
  PROVE  Roomy(executing[c] \cup assigned[c], c, deadline)'
<1> DEFINE T == executing'[c] \cup assigned'[c]
<1>1. T \in SUBSET S
  OBVIOUS
<1>2. Roomy(T, c, dl)
  <2> HIDE DEF T
  <2> QED
    BY <1>1, RoomShrinks
<1>3. \A x \in T : Left(x) * Cardinality(T) <= Avail[c] * (dl[x] - now)
  BY <1>2 DEF Roomy
<1>4. \A x \in T : Left(x)' = Left(x) /\ deadline'[x] = dl[x]
  BY <1>1
<1>5. \A x \in T : Left(x)' * Cardinality(T) <= Avail[c] * (deadline'[x] - now')
  <2> HIDE DEF T
  <2> QED
    BY <1>3, <1>4
<1> QED
  BY <1>5 DEF Roomy

\* A submission under Green keeps what was promised to every core's tasks.
LEMMA SubmitGreenAdmits ==
  ASSUME RatesInv, Prompt, AdmissionInv, NEW t \in Tasks, SubmitGreen(t)
  PROVE  AdmissionInv' /\ DoneInTime
<1> DEFINE dl == [deadline EXCEPT ![t] = now + Duration[t]]
           open == {c \in Cores : Admits(c, t, dl)}
           f == FirstAdmitting(t, dl)
           scanned == IF open = {} THEN Cores ELSE UpTo(f)
<1>1. /\ New(t) /\ deadline' = dl
      /\ executing' = [c \in Cores |-> IF c \in scanned THEN ProbedExe(c) ELSE executing[c]]
      /\ assigned' = [c \in Cores |->
           (IF c \in scanned THEN ProbedAsg(c) ELSE assigned[c])
             \cup (IF open # {} /\ c = f THEN {t} ELSE {})]
      /\ Refreshed(scanned)
      /\ UNCHANGED <<script, now, rate, mips, wake, pending>>
  BY DEF SubmitGreen
<1>2. \/ /\ open = {} /\ UNCHANGED <<arriveAt, scheduled>>
         /\ outcome' = [x \in Tasks |-> IF x = t THEN "rejected"
                            ELSE IF x \in ProbeDead(scanned) THEN "failed"
                            ELSE IF x \in ProbeDone(scanned) THEN "done" ELSE outcome[x]]
      \/ /\ open # {} /\ scheduled' = scheduled \cup {t} /\ Send(t)
         /\ Settle(ProbeDone(scanned), ProbeDead(scanned))
  BY DEF SubmitGreen
<1>3. open # {} => f \in Cores /\ Admits(f, t, dl) /\ f \in scanned
  BY FirstAdmits
<1>4. scanned \in SUBSET Cores
  BY DEF UpTo
<1>5. t \notin scheduled /\ dl \in [Tasks -> Nat] /\ now + Duration[t] # Never
  BY <1>1, Created DEF RatesInv
<1>6. /\ UsersType /\ CoresType /\ CoresRun /\ PlacedOnce
      /\ RatesMeetDeadlines /\ SharesAreEqual /\ RoomForAssigned /\ ArriveAtOnce /\ NoneFailed
  BY DEF RatesInv, CoresInv, AdmissionInv
<1>7. now < dl[t] /\ dl[t] = now + Duration[t]
  <2>1. Duration[t] \in Nat \ {0} /\ now \in Nat
    BY <1>6, RatesAssumption DEF UsersType
  <2> QED
    BY <1>6, <2>1 DEF UsersType
<1>8. \A x \in Tasks : x # t => dl[x] = deadline[x]
  BY <1>6 DEF UsersType
<1>9. \A c \in Cores : executing[c] \cup assigned[c] \subseteq scheduled \cap Tasks
  BY <1>6 DEF PlacedOnce, UsersType, CoresType
<1> HIDE DEF dl, open, f, scanned
<1>10. /\ \A c \in Cores : ProbedAsg(c) = assigned[c]
       /\ ProbeDead(scanned) = {}
       /\ \A x \in ProbeDone(scanned) : now <= deadline[x]
  BY <1>4, <1>6, ProbesFailNone DEF AdmissionInv
<1>11. executing' \in [Cores -> SUBSET Tasks] /\ \A c \in Cores : executing'[c] \subseteq executing[c]
  BY <1>1, <1>6, ProbeRemoves DEF CoresType
<1>12. RatesMeetDeadlines' /\ SharesAreEqual'
  <2>1. \A x \in scheduled : deadline'[x] = deadline[x]
    BY <1>1, <1>5, <1>6, <1>8 DEF UsersType
  <2> QED
    BY <1>1, <1>6, <1>11, <2>1, ProbeMeetsDeadlines
<1>13. \A x \in Tasks : Left(x)' = Left(x)
  BY <1>1, <1>6, ProbedLeft
<1>14. RoomForAssigned'
  <2> SUFFICES ASSUME NEW c \in Cores, assigned'[c] # {}
               PROVE  Roomy(executing[c] \cup assigned[c], c, deadline)'
    BY DEF RoomForAssigned
  <2>1. CASE open # {} /\ c = f
    <3> DEFINE S == ProbedExe(c) \cup ProbedAsg(c) \cup {t}
    <3>1. t \notin ProbedExe(c) \cup ProbedAsg(c)
      BY <1>5, <1>9, ProbeRemoves
    <3>2. Roomy(S, c, dl)
      BY <1>3, <1>5, <1>6, <1>7, <2>1, <3>1, AdmittedHasRoom
    <3>3. S \in SUBSET Tasks /\ executing'[c] \cup assigned'[c] \subseteq S
      BY <1>1, <1>3, <1>9, <2>1, ProbeRemoves
    <3>4. \A x \in S : Left(x)' = Left(x) /\ deadline'[x] = dl[x]
      BY <1>1, <1>13, <3>3
    <3> HIDE DEF S
    <3> QED
      BY <1>1, <1>5, <1>6, <3>2, <3>3, <3>4, RoomKept
  <2>2. CASE ~(open # {} /\ c = f)
    <3> DEFINE S == executing[c] \cup assigned[c]
    <3>1. assigned'[c] = assigned[c]
      BY <1>1, <1>10, <2>2
    <3>2. Roomy(S, c, deadline)
      BY <1>6, <3>1 DEF RoomForAssigned
    <3>3. S \in SUBSET Tasks /\ executing'[c] \cup assigned'[c] \subseteq S
      BY <1>9, <1>11, <3>1
    <3>4. \A x \in S : Left(x)' = Left(x) /\ deadline'[x] = deadline[x]
      BY <1>1, <1>5, <1>8, <1>9, <1>13
    <3>5. deadline \in [Tasks -> Nat]
      BY <1>6 DEF UsersType
    <3> HIDE DEF S
    <3> QED
      BY <1>1, <1>6, <3>2, <3>3, <3>4, <3>5, RoomKept
  <2> QED
    BY <2>1, <2>2
<1>15. open # {} => arriveAt' = [arriveAt EXCEPT ![t] = now]
  <2> SUFFICES ASSUME open # {} PROVE arriveAt' = [arriveAt EXCEPT ![t] = now]
    OBVIOUS
  <2>1. PICK d \in script.delays : arriveAt' = [arriveAt EXCEPT ![t] = now + d]
    BY <1>2 DEF Send
  <2>2. d = 0 /\ now \in Nat
    BY <1>6, <2>1 DEF Prompt, UsersType
  <2> QED
    BY <2>1, <2>2
<1>16. Never # now /\ now \in Nat
  <2>1. /\ Never \in Nat /\ Horizon \in Nat /\ Work[t] \in Nat /\ Horizon + Work[t] < Never
    BY RatesAssumption
  <2> QED
    BY <1>6, <2>1 DEF UsersType
<1>17. ArriveAtOnce'
  <2>1. ASSUME NEW x \in Tasks, arriveAt'[x] # Never
        PROVE  arriveAt'[x] = now' /\ now' < deadline'[x]
    <3>1. CASE x = t /\ open # {}
      BY <1>1, <1>6, <1>7, <1>15, <3>1 DEF UsersType
    <3>2. CASE ~(x = t /\ open # {})
      <4>1. arriveAt'[x] = arriveAt[x] /\ arriveAt[x] # Never
        BY <1>2, <1>6, <1>15, <2>1, <3>2 DEF UsersType
      <4>2. arriveAt[x] = now /\ now < deadline[x]
        BY <1>6, <4>1 DEF ArriveAtOnce
      <4>3. x # t
        BY <1>1, <4>1 DEF RatesInv, CreatedFirst, New
      <4> QED
        BY <1>1, <1>8, <4>1, <4>2, <4>3
    <3> QED
      BY <3>1, <3>2
  <2>2. ASSUME NEW c \in Cores, NEW x \in assigned'[c]
        PROVE  arriveAt'[x] # Never
    <3>1. CASE x = t /\ open # {}
      BY <1>6, <1>15, <1>16, <3>1 DEF UsersType
    <3>2. CASE ~(x = t /\ open # {})
      <4>1. x \in assigned[c] /\ x \in Tasks
        BY <1>1, <1>9, <1>10, <2>2, <3>2
      <4>2. arriveAt[x] # Never /\ arriveAt'[x] = arriveAt[x]
        BY <1>2, <1>6, <1>15, <3>2, <4>1 DEF UsersType, ArriveAtOnce
      <4> QED
        BY <4>2
    <3> QED
      BY <3>1, <3>2
  <2> QED
    BY <2>1, <2>2 DEF ArriveAtOnce
<1>18. \A x \in Tasks : /\ outcome'[x] = "failed" => outcome[x] = "failed" /\ (open = {} => x # t)
                        /\ outcome'[x] = "done" => outcome[x] = "done" \/ x \in ProbeDone(scanned)
  <2>1. CASE open = {}
    BY <1>2, <1>10, <2>1
  <2>2. CASE open # {}
    BY <1>2, <1>10, <2>2, SettledDone
  <2> QED
    BY <2>1, <2>2
<1>19. NoneFailed'
  <2> SUFFICES ASSUME NEW x \in Tasks, outcome'[x] = "failed"
               PROVE  x \notin scheduled' /\ arriveAt'[x] = Never /\ deadline'[x] # Never
    BY DEF NoneFailed
  <2>1. outcome[x] = "failed"
    BY <1>18
  <2>2. x \notin scheduled /\ arriveAt[x] = Never /\ deadline[x] # Never
    BY <1>6, <2>1 DEF NoneFailed
  <2>3. x # t
    BY <1>1, <2>2 DEF New
  <2> QED
    BY <1>1, <1>2, <1>6, <1>8, <1>15, <2>2, <2>3 DEF UsersType
<1>20. DoneInTime
  BY <1>10, <1>18 DEF DoneInTime
<1> QED
  BY <1>12, <1>14, <1>17, <1>19, <1>20 DEF AdmissionInv

\* A submission that is decided on arrival promises nothing yet.
LEMMA SubmitBlindAdmits ==
  ASSUME RatesInv, Prompt, AdmissionInv, NEW t \in Tasks, SubmitBlind(t)
  PROVE  AdmissionInv' /\ DoneInTime
<1> DEFINE dl == [deadline EXCEPT ![t] = now + Duration[t]]
<1>1. /\ New(t) /\ deadline' = dl /\ Send(t)
      /\ UNCHANGED <<script, now, scheduled, assigned, executing, left, since, rate, mips, wake,
                     pending, outcome>>
  BY DEF SubmitBlind
<1>2. t \notin scheduled /\ dl \in [Tasks -> Nat] /\ now + Duration[t] # Never
  BY <1>1, Created DEF RatesInv
<1>3. /\ UsersType /\ CoresType /\ PlacedOnce
      /\ RatesMeetDeadlines /\ SharesAreEqual /\ RoomForAssigned /\ ArriveAtOnce /\ NoneFailed
  BY DEF RatesInv, CoresInv, AdmissionInv
<1>4. now < dl[t]
  <2>1. Duration[t] \in Nat \ {0} /\ now \in Nat
    BY <1>3, RatesAssumption DEF UsersType
  <2> QED
    BY <1>3, <2>1 DEF UsersType
<1>5. \A x \in Tasks : x # t => dl[x] = deadline[x]
  BY <1>3 DEF UsersType
<1>6. \A c \in Cores : executing[c] \cup assigned[c] \subseteq scheduled \cap Tasks
  BY <1>3 DEF PlacedOnce, UsersType, CoresType
<1>7. \A c \in Cores : \A x \in executing[c] \cup assigned[c] : x \in Tasks /\ dl[x] = deadline[x]
  BY <1>2, <1>5, <1>6
<1> HIDE DEF dl
<1>8. arriveAt' = [arriveAt EXCEPT ![t] = now]
  <2>1. PICK d \in script.delays : arriveAt' = [arriveAt EXCEPT ![t] = now + d]
    BY <1>1 DEF Send
  <2>2. d = 0 /\ now \in Nat
    BY <1>3, <2>1 DEF Prompt, UsersType
  <2>3. now + d = now
    BY <2>2
  <2> QED
    BY <2>1, <2>3
<1>9. \A x \in Tasks : Left(x)' = Left(x)
  BY <1>1 DEF Left
<1>10. RatesMeetDeadlines' /\ SharesAreEqual'
  BY <1>1, <1>3, <1>7, <1>9 DEF RatesMeetDeadlines, SharesAreEqual
<1>11. RoomForAssigned'
  <2> SUFFICES ASSUME NEW c \in Cores, assigned[c] # {}
               PROVE  Roomy(executing[c] \cup assigned[c], c, deadline)'
    BY <1>1 DEF RoomForAssigned
  <2> DEFINE S == executing[c] \cup assigned[c]
  <2>1. Roomy(S, c, deadline) /\ deadline \in [Tasks -> Nat]
    BY <1>3 DEF RoomForAssigned, UsersType
  <2>2. S \in SUBSET Tasks /\ executing'[c] \cup assigned'[c] \subseteq S
    BY <1>1, <1>6
  <2>3. \A x \in S : Left(x)' = Left(x) /\ deadline'[x] = deadline[x]
    BY <1>1, <1>7, <1>9
  <2> HIDE DEF S
  <2> QED
    BY <1>1, <1>3, <2>1, <2>2, <2>3, RoomKept
<1>12. ArriveAtOnce'
  <2>1. ASSUME NEW x \in Tasks, arriveAt'[x] # Never
        PROVE  arriveAt'[x] = now' /\ now' < deadline'[x]
    BY <1>1, <1>3, <1>4, <1>5, <1>8, <2>1 DEF UsersType, ArriveAtOnce
  <2>2. ASSUME NEW c \in Cores, NEW x \in assigned'[c]
        PROVE  arriveAt'[x] # Never
    <3>1. x \in assigned[c] /\ x \in Tasks /\ x # t
      BY <1>1, <1>2, <1>6, <2>2
    <3> QED
      BY <1>3, <1>8, <3>1 DEF UsersType, ArriveAtOnce
  <2> QED
    BY <2>1, <2>2 DEF ArriveAtOnce
<1>13. NoneFailed'
  <2> SUFFICES ASSUME NEW x \in Tasks, outcome'[x] = "failed"
               PROVE  x \notin scheduled' /\ arriveAt'[x] = Never /\ deadline'[x] # Never
    BY DEF NoneFailed
  <2>1. x \notin scheduled /\ arriveAt[x] = Never /\ deadline[x] # Never
    BY <1>1, <1>3 DEF NoneFailed
  <2>2. x # t
    BY <1>1, <2>1 DEF New
  <2> QED
    BY <1>1, <1>3, <1>5, <1>8, <2>1, <2>2 DEF UsersType
<1>14. DoneInTime
  BY <1>1 DEF DoneInTime
<1> QED
  BY <1>10, <1>11, <1>12, <1>13, <1>14 DEF AdmissionInv

\* The task that arrives starts on the core that has room for it.
LEMMA ArriveScheduledAdmits ==
  ASSUME RatesInv, Prompt, AdmissionInv, ExactShares', NEW t \in Tasks, ArriveScheduled(t)
  PROVE  AdmissionInv' /\ DoneInTime
<1> DEFINE exe == [c \in Cores |-> executing[c] \cup (assigned[c] \cap {t})]
<1>1. /\ arriveAt' = [arriveAt EXCEPT ![t] = Never]
      /\ assigned' = [c \in Cores |-> assigned[c] \ {t}]
      /\ Sweep(exe, pending) /\ Settle(Swept(exe), Expelled(exe))
      /\ UNCHANGED <<script, now, scheduled, deadline>>
  BY DEF ArriveScheduled
<1>2. /\ UsersType /\ CoresType /\ CoresRun /\ PlacedOnce /\ CoresInv
      /\ RatesMeetDeadlines /\ SharesAreEqual /\ RoomForAssigned /\ ArriveAtOnce /\ NoneFailed
  BY DEF RatesInv, CoresInv, AdmissionInv
<1>3. exe \in [Cores -> SUBSET Tasks]
  BY <1>2 DEF UsersType, CoresType
<1>4. Apart(exe)
  BY <1>2 DEF Apart, PlacedOnce
<1>5. \A c \in Cores : /\ exe[c] \subseteq executing[c] \cup assigned[c]
                       /\ assigned[c] = {} => exe[c] = executing[c]
  OBVIOUS
<1> HIDE DEF exe
<1>6. \A c \in Cores : executing[c] \cup assigned[c] \in SUBSET Tasks
  BY <1>2 DEF UsersType, CoresType
<1>7. deadline \in [Tasks -> Nat]
  BY <1>2 DEF UsersType
<1>8. Accommodated(exe)
  <2> SUFFICES ASSUME NEW c \in Cores, assigned[c] # {} PROVE Roomy(exe[c], c, deadline)
    BY <1>5 DEF Accommodated
  <2> DEFINE S == executing[c] \cup assigned[c]
             T == exe[c]
  <2>1. Roomy(S, c, deadline)
    BY <1>2 DEF RoomForAssigned
  <2>2. S \in SUBSET Tasks /\ T \in SUBSET S
    BY <1>5, <1>6
  <2> HIDE DEF S, T
  <2>3. Roomy(T, c, deadline)
    BY <1>2, <1>7, <2>1, <2>2, RoomShrinks
  <2> QED
    BY <2>3 DEF T
<1>9. Expelled(exe) = {} /\ \A c \in Cores : \A x \in exe[c] : now <= deadline[x]
  BY <1>2, <1>3, <1>8, NoneExpelled
<1>10. RatesMeetDeadlines' /\ SharesAreEqual'
  <2> DEFINE kept == pending
  <2>1. Sweep(exe, kept)
    BY <1>1
  <2> HIDE DEF kept
  <2> QED
    BY <1>1, <1>2, <1>3, <1>4, <1>8, <2>1, SweepMeetsDeadlines
<1>11. \A x \in Tasks : Left(x)' = Left(x)
  <2> DEFINE kept == pending
  <2>1. Sweep(exe, kept)
    BY <1>1
  <2> HIDE DEF kept
  <2> QED
    BY <1>1, <1>2, <1>3, <1>4, <2>1, SweptLeft
<1>12. RoomForAssigned'
  <2> SUFFICES ASSUME NEW c \in Cores, assigned'[c] # {}
               PROVE  Roomy(executing[c] \cup assigned[c], c, deadline)'
    BY DEF RoomForAssigned
  <2> DEFINE S == executing[c] \cup assigned[c]
  <2>1. Roomy(S, c, deadline)
    BY <1>1, <1>2 DEF RoomForAssigned
  <2>2. executing'[c] \subseteq exe[c]
    BY <1>1 DEF Sweep, Staying
  <2>3. S \in SUBSET Tasks /\ executing'[c] \cup assigned'[c] \subseteq S
    BY <1>1, <1>5, <1>6, <2>2
  <2>4. \A x \in S : Left(x)' = Left(x) /\ deadline'[x] = deadline[x]
    BY <1>1, <1>6, <1>11
  <2> HIDE DEF S
  <2> QED
    BY <1>1, <1>2, <1>7, <2>1, <2>3, <2>4, RoomKept
<1>13. ArriveAtOnce'
  <2>1. ASSUME NEW c \in Cores, NEW x \in assigned'[c]
        PROVE  arriveAt'[x] # Never
    BY <1>1, <1>2, <1>6, <2>1 DEF UsersType, ArriveAtOnce
  <2> QED
    BY <1>1, <1>2, <2>1 DEF UsersType, ArriveAtOnce
<1>14. \A x \in Tasks : /\ outcome'[x] = "failed" => outcome[x] = "failed"
                        /\ outcome'[x] = "done" => outcome[x] = "done" \/ x \in Swept(exe)
  BY <1>1, <1>9, SettledDone
<1>15. NoneFailed'
  BY <1>1, <1>2, <1>14 DEF UsersType, NoneFailed
<1>16. DoneInTime
  BY <1>9, <1>14 DEF DoneInTime, Swept, Ends
<1> QED
  BY <1>10, <1>12, <1>13, <1>15, <1>16 DEF AdmissionInv

\* A task that is decided on arrival starts on a core that has room for it, or
\* fails without having been admitted.
LEMMA ArriveBlindAdmits ==
  ASSUME RatesInv, Prompt, AdmissionInv, ExactShares', NEW t \in Tasks, ArriveBlind(t)
  PROVE  AdmissionInv' /\ DoneInTime
<1> DEFINE open == {c \in Cores : Admits(c, t, deadline)}
           f == FirstAdmitting(t, deadline)
           scanned == IF open = {} THEN Cores ELSE UpTo(f)
           probed == [c \in Cores |-> IF c \in scanned THEN ProbedExe(c) ELSE executing[c]]
           exe == [c \in Cores |-> probed[c] \cup IF open # {} /\ c = f THEN {t} ELSE {}]
<1>1. /\ arriveAt[t] = now /\ t \notin scheduled
      /\ arriveAt' = [arriveAt EXCEPT ![t] = Never]
      /\ UNCHANGED <<script, now, assigned, deadline>>
  BY DEF ArriveBlind
<1>2. \/ /\ open = {} /\ executing' = probed /\ Refreshed(Cores)
         /\ Settle(ProbeDone(Cores), ProbeDead(Cores) \cup {t})
         /\ UNCHANGED <<scheduled, rate, mips, wake, pending>>
      \/ /\ open # {} /\ scheduled' = scheduled \cup {t} /\ Sweep(exe, pending)
         /\ Settle(ProbeDone(scanned) \cup Swept(exe), ProbeDead(scanned) \cup Expelled(exe))
  BY DEF ArriveBlind
<1>3. open # {} => f \in Cores /\ Admits(f, t, deadline) /\ f \in scanned
  BY FirstAdmits
<1>4. scanned \in SUBSET Cores
  BY DEF UpTo
<1>5. /\ UsersType /\ CoresType /\ CoresRun /\ PlacedOnce /\ CoresInv
      /\ RatesMeetDeadlines /\ SharesAreEqual /\ RoomForAssigned /\ ArriveAtOnce /\ NoneFailed
  BY DEF RatesInv, CoresInv, AdmissionInv
<1> HIDE DEF open, f, scanned
<1>6. probed \in [Cores -> SUBSET Tasks] /\ \A c \in Cores : probed[c] \subseteq executing[c]
  BY <1>5, ProbeRemoves DEF CoresType
<1>7. open # {} => probed[f] = ProbedExe(f)
  BY <1>3
<1> HIDE DEF probed
<1>8. exe \in [Cores -> SUBSET Tasks]
  BY <1>6
<1>9. \A c \in Cores : /\ open # {} /\ c = f => exe[c] = ProbedExe(f) \cup {t}
                       /\ ~(open # {} /\ c = f) => exe[c] \subseteq executing[c]
  BY <1>6, <1>7
<1>10. \A c \in Cores : executing[c] \cup assigned[c] \subseteq scheduled \cap Tasks
  BY <1>5 DEF PlacedOnce, UsersType, CoresType
<1>11. Apart(exe)
  <2>1. \A c, d \in Cores : c # d => executing[c] \cap executing[d] = {}
    BY <1>5 DEF PlacedOnce
  <2>2. \A c \in Cores : t \notin executing[c]
    BY <1>1, <1>10
  <2>3. \A c \in Cores : exe[c] \subseteq executing[c] \cup (IF open # {} /\ c = f THEN {t} ELSE {})
    BY <1>9, ProbeRemoves
  <2> HIDE DEF exe
  <2> QED
    BY <2>1, <2>2, <2>3 DEF Apart
<1> HIDE DEF exe
<1>12. /\ \A c \in Cores : ProbedAsg(c) = assigned[c]
       /\ ProbeDead(scanned) = {} /\ \A x \in ProbeDone(scanned) : now <= deadline[x]
  BY <1>4, <1>5, ProbesFailNone DEF AdmissionInv
<1>13. ProbeDead(Cores) = {} /\ \A x \in ProbeDone(Cores) : now <= deadline[x]
  <2>1. Cores \in SUBSET Cores
    OBVIOUS
  <2> QED
    BY <1>5, <2>1, ProbesFailNone DEF AdmissionInv
<1>14. Never # now /\ now \in Nat
  <2>1. /\ Never \in Nat /\ Horizon \in Nat /\ Work[t] \in Nat /\ Horizon + Work[t] < Never
    BY RatesAssumption
  <2> QED
    BY <1>5, <2>1 DEF UsersType
<1>15. now < deadline[t] /\ deadline \in [Tasks -> Nat]
  BY <1>1, <1>5, <1>14 DEF ArriveAtOnce, UsersType
<1>16. open # {} => Roomy(ProbedExe(f) \cup ProbedAsg(f) \cup {t}, f, deadline)
  <2> SUFFICES ASSUME open # {} PROVE Roomy(ProbedExe(f) \cup ProbedAsg(f) \cup {t}, f, deadline)
    OBVIOUS
  <2>1. t \notin ProbedExe(f) \cup ProbedAsg(f)
    BY <1>1, <1>3, <1>10, ProbeRemoves
  <2> QED
    BY <1>3, <1>5, <1>15, <2>1, AdmittedHasRoom
<1>17. Accommodated(exe)
  <2> SUFFICES ASSUME open # {} PROVE Roomy(exe[f], f, deadline)
    BY <1>3, <1>9 DEF Accommodated
  <2> DEFINE S == ProbedExe(f) \cup ProbedAsg(f) \cup {t}
             T == exe[f]
  <2>1. S \in SUBSET Tasks /\ T \in SUBSET S /\ Roomy(S, f, deadline)
    BY <1>3, <1>9, <1>10, <1>16, ProbeRemoves
  <2> HIDE DEF S, T
  <2>2. Roomy(T, f, deadline)
    BY <1>3, <1>5, <1>15, <2>1, RoomShrinks
  <2> QED
    BY <2>2 DEF T
<1>18. Expelled(exe) = {} /\ \A c \in Cores : \A x \in exe[c] : now <= deadline[x]
  BY <1>5, <1>8, <1>17, NoneExpelled
<1>19. /\ RatesMeetDeadlines' /\ SharesAreEqual' /\ \A x \in Tasks : Left(x)' = Left(x)
       /\ \A c \in Cores : executing'[c] \subseteq exe[c] \/ executing'[c] \subseteq executing[c]
       /\ open = {} => \A c \in Cores : executing'[c] \subseteq executing[c]
  <2>1. CASE open = {}
    <3>1. executing' = probed /\ Refreshed(Cores) /\ rate' = rate
      BY <1>2, <2>1
    <3>2. executing' \in [Cores -> SUBSET Tasks]
          /\ \A c \in Cores : executing'[c] \subseteq executing[c]
      BY <1>6, <3>1
    <3>3. \A x \in scheduled : deadline'[x] = deadline[x]
      BY <1>1
    <3>4. RatesMeetDeadlines' /\ SharesAreEqual'
      BY <1>1, <1>5, <3>1, <3>2, <3>3, ProbeMeetsDeadlines
    <3>5. \A x \in Tasks : Left(x)' = Left(x)
      BY <1>1, <1>5, <3>1, ProbedLeft
    <3> QED
      BY <3>2, <3>4, <3>5
  <2>2. CASE open # {}
    <3> DEFINE kept == pending
    <3>1. Sweep(exe, kept)
      BY <1>2, <2>2
    <3> HIDE DEF kept
    <3>2. RatesMeetDeadlines' /\ SharesAreEqual'
      BY <1>1, <1>5, <1>8, <1>11, <1>17, <3>1, SweepMeetsDeadlines
    <3>3. \A x \in Tasks : Left(x)' = Left(x)
      BY <1>1, <1>5, <1>8, <1>11, <3>1, SweptLeft
    <3>4. \A c \in Cores : executing'[c] \subseteq exe[c]
      BY <3>1 DEF Sweep, Staying
    <3> QED
      BY <2>2, <3>2, <3>3, <3>4
  <2> QED
    BY <2>1, <2>2
<1>20. RoomForAssigned'
  <2> SUFFICES ASSUME NEW c \in Cores, assigned'[c] # {}
               PROVE  Roomy(executing[c] \cup assigned[c], c, deadline)'
    BY DEF RoomForAssigned
  <2>1. ASSUME NEW S \in SUBSET Tasks, Roomy(S, c, deadline),
               executing'[c] \cup assigned'[c] \subseteq S
        PROVE  Roomy(executing[c] \cup assigned[c], c, deadline)'
    <3>1. \A x \in S : Left(x)' = Left(x) /\ deadline'[x] = deadline[x]
      BY <1>1, <1>19
    <3> QED
      BY <1>1, <1>5, <1>15, <2>1, <3>1, RoomKept
  <2>2. CASE executing'[c] \subseteq executing[c]
    <3>1. Roomy(executing[c] \cup assigned[c], c, deadline)
      BY <1>1, <1>5 DEF RoomForAssigned
    <3> QED
      BY <1>1, <1>10, <2>1, <2>2, <3>1
  <2>3. CASE ~(executing'[c] \subseteq executing[c])
    <3>1. open # {} /\ c = f /\ executing'[c] \subseteq ProbedExe(f) \cup {t}
      BY <1>9, <1>19, <2>3
    <3>2. assigned'[c] = ProbedAsg(f)
      BY <1>1, <1>12, <3>1
    <3>3. ProbedExe(f) \cup ProbedAsg(f) \cup {t} \in SUBSET Tasks
      BY <1>10, <3>1, ProbeRemoves
    <3> QED
      BY <1>16, <2>1, <3>1, <3>2, <3>3
  <2> QED
    BY <2>2, <2>3
<1>21. ArriveAtOnce'
  <2>1. \A c \in Cores : t \notin assigned[c] /\ assigned[c] \subseteq Tasks
    BY <1>1, <1>10
  <2> QED
    BY <1>1, <1>5, <2>1 DEF UsersType, ArriveAtOnce
<1>22. \A x \in Tasks :
          /\ outcome'[x] = "failed" => outcome[x] = "failed" \/ (open = {} /\ x = t)
          /\ outcome'[x] = "done" => outcome[x] = "done" \/ now <= deadline[x]
  <2>1. CASE open = {}
    BY <1>2, <1>13, <2>1, SettledDone
  <2>2. CASE open # {}
    <3>1. \A x \in Swept(exe) : now <= deadline[x]
      BY <1>18 DEF Swept, Ends
    <3> QED
      BY <1>2, <1>12, <1>18, <2>2, <3>1, SettledDone
  <2> QED
    BY <2>1, <2>2
<1>23. NoneFailed'
  <2> SUFFICES ASSUME NEW x \in Tasks, outcome'[x] = "failed"
               PROVE  x \notin scheduled' /\ arriveAt'[x] = Never /\ deadline'[x] # Never
    BY DEF NoneFailed
  <2>1. CASE x = t
    <3>1. outcome[t] # "failed" /\ deadline[t] # Never
      BY <1>1, <1>5, <1>14 DEF NoneFailed, RatesInv, CreatedFirst
    <3>2. open = {}
      BY <1>22, <2>1, <3>1
    <3> QED
      BY <1>1, <1>2, <1>5, <2>1, <3>1, <3>2 DEF UsersType
  <2>2. CASE x # t
    <3>1. x \notin scheduled /\ arriveAt[x] = Never /\ deadline[x] # Never
      BY <1>5, <1>22, <2>2 DEF NoneFailed
    <3> QED
      BY <1>1, <1>2, <1>5, <2>2, <3>1 DEF UsersType
  <2> QED
    BY <2>1, <2>2
<1>24. DoneInTime
  BY <1>22 DEF DoneInTime
<1> QED
  BY <1>19, <1>20, <1>21, <1>23, <1>24 DEF AdmissionInv

\* The wake-up only ever raises the shares of the tasks that go on.
LEMMA HandleAdmits ==
  ASSUME RatesInv, Prompt, AdmissionInv, ExactShares', Handle
  PROVE  AdmissionInv' /\ DoneInTime
<1>1. /\ Sweep(executing, Never) /\ Settle(Swept(executing), Expelled(executing))
      /\ UNCHANGED <<script, now, arriveAt, scheduled, assigned, deadline>>
  BY DEF Handle
<1>2. /\ UsersType /\ CoresType /\ CoresRun /\ PlacedOnce /\ CoresInv
      /\ RatesMeetDeadlines /\ SharesAreEqual /\ RoomForAssigned /\ ArriveAtOnce /\ NoneFailed
  BY DEF RatesInv, CoresInv, AdmissionInv
<1>3. executing \in [Cores -> SUBSET Tasks] /\ Apart(executing) /\ Accommodated(executing)
  BY <1>2 DEF CoresType, Apart, PlacedOnce, Accommodated
<1>4. Expelled(executing) = {} /\ \A c \in Cores : \A x \in executing[c] : now <= deadline[x]
  BY <1>2, <1>3, NoneExpelled
<1>5. RatesMeetDeadlines' /\ SharesAreEqual'
  BY <1>1, <1>2, <1>3, SweepMeetsDeadlines
<1>6. \A x \in Tasks : Left(x)' = Left(x)
  BY <1>1, <1>2, <1>3, SweptLeft
<1>7. RoomForAssigned'
  <2> SUFFICES ASSUME NEW c \in Cores, assigned'[c] # {}
               PROVE  Roomy(executing[c] \cup assigned[c], c, deadline)'
    BY DEF RoomForAssigned
  <2> DEFINE S == executing[c] \cup assigned[c]
  <2>1. Roomy(S, c, deadline)
    BY <1>1, <1>2 DEF RoomForAssigned
  <2>2. executing'[c] \subseteq executing[c]
    BY <1>1 DEF Sweep, Staying
  <2>3. S \in SUBSET Tasks /\ executing'[c] \cup assigned'[c] \subseteq S
    BY <1>1, <1>2, <2>2 DEF UsersType, CoresType
  <2>4. \A x \in S : Left(x)' = Left(x) /\ deadline'[x] = deadline[x]
    BY <1>1, <1>6, <2>3
  <2>5. deadline \in [Tasks -> Nat]
    BY <1>2 DEF UsersType
  <2> HIDE DEF S
  <2> QED
    BY <1>1, <1>2, <2>1, <2>3, <2>4, <2>5, RoomKept
<1>8. ArriveAtOnce'
  BY <1>1, <1>2 DEF ArriveAtOnce
<1>9. \A x \in Tasks : /\ outcome'[x] = "failed" => outcome[x] = "failed"
                       /\ outcome'[x] = "done" => outcome[x] = "done" \/ x \in Swept(executing)
  BY <1>1, <1>4, SettledDone
<1>10. NoneFailed'
  BY <1>1, <1>2, <1>9 DEF NoneFailed
<1>11. DoneInTime
  BY <1>4, <1>9 DEF DoneInTime, Swept, Ends
<1> QED
  BY <1>5, <1>7, <1>8, <1>10, <1>11 DEF AdmissionInv

\* A tick takes one share of MIPS off what is left of a task: the wake-up that is
\* queued keeps time from passing its completion.
LEMMA TickWork ==
  ASSUME NEW r \in Nat \ {0}, NEW l \in Nat, NEW s \in Nat, NEW n \in Nat, NEW d \in Int,
         s <= n, n + 1 <= s + (l \div r),
         (IF l > r * (n - s) THEN l - r * (n - s) ELSE 0) <= r * d
  PROVE  (IF l > r * (n + 1 - s) THEN l - r * (n + 1 - s) ELSE 0) <= r * (d - 1)
<1> DEFINE q == l \div r
           k == n - s
<1>1. q \in Nat /\ r * q <= l /\ k \in Nat /\ k + 1 <= q /\ n + 1 - s = k + 1
  <2>1. q \in Nat /\ r * q <= l
    BY Arithmetic
  <2>2. k \in Nat /\ n + 1 - s = k + 1
    OBVIOUS
  <2>3. k + 1 <= q
    <3> HIDE DEF q
    <3> QED
      BY <2>1 DEF q
  <2> QED
    BY <2>1, <2>2, <2>3
<1> HIDE DEF q
<1>2. r * (k + 1) <= r * q
  BY <1>1, Products
<1>3. r * (k + 1) = r * k + r /\ r * k \in Nat /\ r * (d - 1) = r * d - r /\ r * d \in Int
      /\ r * q \in Nat
  BY <1>1
<1>4. (IF l > r * k THEN l - r * k ELSE 0) <= r * d
  OBVIOUS
<1> HIDE DEF k
<1>5. l >= r * k + r
  BY <1>1, <1>2, <1>3
<1>6. l - r * k <= r * d
  BY <1>3, <1>4, <1>5
<1>7. (IF l > r * (k + 1) THEN l - r * (k + 1) ELSE 0) <= r * (d - 1)
  BY <1>3, <1>5, <1>6
<1> QED
  BY <1>1, <1>7

\* Time passes only when no task is about to arrive, and each tick does the work
\* that the deadlines ask for.
LEMMA TickAdmits ==
  ASSUME RatesInv, Prompt, AdmissionInv, Tick
  PROVE  AdmissionInv' /\ DoneInTime
<1>1. /\ now < Horizon /\ pending # now /\ \A t \in Tasks : arriveAt[t] # now
      /\ now' = now + 1
      /\ UNCHANGED <<script, arriveAt, scheduled, assigned, executing, left, since, rate, mips,
                     wake, pending, deadline, outcome>>
  BY DEF Tick
<1>2. /\ UsersType /\ CoresType /\ CoresRun /\ EventQueued /\ WakeupCoversCompletions
      /\ RatesMeetDeadlines /\ SharesAreEqual /\ ArriveAtOnce /\ NoneFailed
  BY DEF RatesInv, CoresInv, AdmissionInv
<1>3. \A t \in Tasks : arriveAt[t] = Never
  BY <1>1, <1>2 DEF ArriveAtOnce
<1>4. \A c \in Cores : assigned[c] = {}
  BY <1>2, <1>3 DEF ArriveAtOnce, UsersType
<1>5. RoomForAssigned' /\ ArriveAtOnce' /\ NoneFailed' /\ SharesAreEqual'
  BY <1>1, <1>2, <1>3, <1>4 DEF RoomForAssigned, ArriveAtOnce, NoneFailed, SharesAreEqual
<1>6. RatesMeetDeadlines'
  <2> SUFFICES ASSUME NEW c \in Cores, NEW t \in executing[c]
               PROVE  Left(t)' <= rate[t] * (deadline[t] - now')
    BY <1>1 DEF RatesMeetDeadlines
  <2> DEFINE r == rate[t]
             l == left[t]
             s == since[t]
             d == deadline[t] - now
  <2>1. t \in Tasks /\ r \in Nat \ {0} /\ l \in Nat /\ s \in Nat /\ s <= now
    BY <1>2 DEF CoresType, CoresRun
  <2>2. now \in Nat /\ deadline[t] \in Nat /\ d \in Int /\ deadline[t] - (now + 1) = d - 1
    BY <1>2, <2>1 DEF UsersType
  <2>3. now < pending /\ pending \in Nat
    <3>1. /\ Never \in Nat /\ Horizon \in Nat /\ Work[t] \in Nat /\ Horizon + Work[t] < Never
      BY <2>1, RatesAssumption
    <3> QED
      BY <1>1, <1>2, <2>2, <3>1 DEF EventQueued, CoresType
  <2>4. pending <= s + (l \div r)
    BY <1>2 DEF WakeupCoversCompletions, Running
  <2>5. (IF l > r * (now - s) THEN l - r * (now - s) ELSE 0) <= r * d
    BY <1>2 DEF RatesMeetDeadlines, Left
  <2>6. Left(t)' = IF l > r * (now + 1 - s) THEN l - r * (now + 1 - s) ELSE 0
    <3>1. left'[t] = l /\ rate'[t] = r /\ since'[t] = s /\ now' = now + 1
      BY <1>1
    <3>2. Left(t)' = IF left'[t] > rate'[t] * (now' - since'[t])
                     THEN left'[t] - rate'[t] * (now' - since'[t]) ELSE 0
      BY DEF Left
    <3> HIDE DEF r, l, s
    <3> QED
      BY <3>1, <3>2, <2>1, <2>2
  <2>7. l \div r \in Nat
    BY <2>1, Arithmetic
  <2> HIDE DEF r, l, s, d
  <2>8. now + 1 <= s + (l \div r)
    BY <2>1, <2>2, <2>3, <2>4, <2>7
  <2>9. Left(t)' <= r * (d - 1)
    BY <2>1, <2>2, <2>5, <2>6, <2>8, TickWork
  <2> QED
    BY <1>1, <2>2, <2>9 DEF r
<1>7. DoneInTime
  BY <1>1 DEF DoneInTime
<1> QED
  BY <1>5, <1>6, <1>7 DEF AdmissionInv

\* Every step keeps what admission promises, while shares are whole.
LEMMA NextAdmits ==
  ASSUME RatesInv, Prompt, AdmissionInv, ExactShares', [Next]_vars
  PROVE  AdmissionInv' /\ DoneInTime
<1>1. ASSUME NEW t \in Tasks, SubmitGreen(t) PROVE AdmissionInv' /\ DoneInTime
  BY <1>1, SubmitGreenAdmits
<1>2. ASSUME NEW t \in Tasks, SubmitBlind(t) PROVE AdmissionInv' /\ DoneInTime
  BY <1>2, SubmitBlindAdmits
<1>3. ASSUME NEW t \in Tasks, ArriveScheduled(t) PROVE AdmissionInv' /\ DoneInTime
  BY <1>3, ArriveScheduledAdmits
<1>4. ASSUME NEW t \in Tasks, ArriveBlind(t) PROVE AdmissionInv' /\ DoneInTime
  BY <1>4, ArriveBlindAdmits
<1>5. CASE Handle
  BY <1>5, HandleAdmits
<1>6. CASE Tick
  BY <1>6, TickAdmits
<1>7. CASE UNCHANGED vars
  <2>1. \A x \in Tasks : Left(x)' = Left(x)
    BY <1>7 DEF vars, Left
  <2>2. RatesMeetDeadlines' /\ SharesAreEqual'
    <3>1. \A c \in Cores : executing[c] \subseteq Tasks
      BY DEF RatesInv, CoresInv, CoresType
    <3> QED
      BY <1>7, <2>1, <3>1 DEF vars, AdmissionInv, RatesMeetDeadlines, SharesAreEqual
  <2>3. RoomForAssigned'
    <3>1. \A c \in Cores : executing[c] \cup assigned[c] \subseteq Tasks
      BY DEF RatesInv, UsersType, CoresInv, CoresType
    <3> QED
      BY <1>7, <2>1, <3>1 DEF vars, AdmissionInv, RoomForAssigned, Roomy
  <2>4. ArriveAtOnce' /\ NoneFailed' /\ DoneInTime
    BY <1>7 DEF vars, AdmissionInv, ArriveAtOnce, NoneFailed, DoneInTime
  <2> QED
    BY <2>2, <2>3, <2>4 DEF AdmissionInv
<1> QED
  BY <1>1, <1>2, <1>3, <1>4, <1>5, <1>6, <1>7 DEF Next

\* At first nothing executes and no task is on its way.
LEMMA InitAdmits == Init => AdmissionInv
<1> SUFFICES ASSUME Init PROVE AdmissionInv
  OBVIOUS
<1>1. RatesMeetDeadlines /\ SharesAreEqual /\ RoomForAssigned /\ ArriveAtOnce
  BY DEF Init, RatesMeetDeadlines, SharesAreEqual, RoomForAssigned, ArriveAtOnce
<1>2. NoneFailed
  BY DEF Init, NoneFailed
<1> QED
  BY <1>1, <1>2 DEF AdmissionInv

\* As long as shares are whole numbers and the network delays no task, what
\* admission promises is kept by every event.
THEOREM AdmissionInvariant == Spec /\ []ExactShares => [](Prompt => AdmissionInv)
<1>1. Init => (Prompt => AdmissionInv)
  BY InitAdmits
<1>2. RatesInv /\ ExactShares' /\ (Prompt => AdmissionInv) /\ [Next]_vars
        => (Prompt => AdmissionInv)'
  <2> SUFFICES ASSUME RatesInv, ExactShares', Prompt => AdmissionInv, [Next]_vars, Prompt'
               PROVE  AdmissionInv'
    OBVIOUS
  <2>1. script' = script
    BY DEF Next, vars, SubmitGreen, SubmitBlind, ArriveScheduled, ArriveBlind, Handle, Tick
  <2>2. Prompt
    BY <2>1 DEF Prompt
  <2> QED
    BY <2>2, NextAdmits
<1> QED
  BY <1>1, <1>2, RatesInvariant, PTL DEF Spec

\* trySchedulingTsk keeps its promise: a task it admits is never failed, whatever
\* is admitted after it, unless the network delays it after its admission.
THEOREM AdmittedTasksMeetDeadlines == Spec /\ []ExactShares => []AdmittedMeetDeadline
<1>1. (Prompt => AdmissionInv) /\ RatesInv => AdmittedMeetDeadline
  BY DEF Prompt, AdmissionInv, NoneFailed, RatesInv, UsersType, AdmittedMeetDeadline
<1> QED
  BY <1>1, AdmissionInvariant, RatesInvariant, PTL

\* Where every number of tasks up to all of them divides the MIPS of a core, as
\* with a unit of MIPS small enough, shares are whole numbers, and the promise holds
\* without more.
THEOREM AdmittedTasksMeetDeadlinesOnFineCores ==
  ASSUME \A c \in Cores : \A n \in 1..Cardinality(Tasks) : Avail[c] % n = 0
  PROVE  Spec => []AdmittedMeetDeadline
<1>1. RatesInv => ExactShares
  <2> SUFFICES ASSUME RatesInv, NEW c \in Cores, executing[c] # {}
               PROVE  Avail[c] % Cardinality(executing[c]) = 0
    BY DEF ExactShares
  <2>1. executing[c] \subseteq Tasks /\ IsFiniteSet(Tasks)
    BY RatesAssumption DEF RatesInv, CoresInv, CoresType
  <2>2. IsFiniteSet(executing[c]) /\ Cardinality(executing[c]) <= Cardinality(Tasks)
    BY <2>1, FS_Subset
  <2>3. Cardinality(executing[c]) \in Nat \ {0} /\ Cardinality(Tasks) \in Nat
    BY <2>1, <2>2, FS_CardinalityType, FS_EmptySet
  <2> QED
    BY <2>2, <2>3
<1> QED
  BY <1>1, RatesInvariant, AdmittedTasksMeetDeadlines, PTL

\* With a network that delays no task, none completes after its deadline: where
\* removeCompleted takes a late task for a success, its arrival was late.
THEOREM PromptTasksCompleteInTime ==
  Spec /\ []ExactShares /\ []Prompt => CompletesByDeadline
<1>1. RatesInv /\ Prompt /\ AdmissionInv /\ ExactShares' /\ [Next]_vars => [DoneInTime]_vars
  BY NextAdmits
<1> QED
  BY <1>1, AdmissionInvariant, RatesInvariant, PTL DEF Spec, CompletesByDeadline, DoneInTime
=============================================================================
