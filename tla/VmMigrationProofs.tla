-------------------------- MODULE VmMigrationProofs ---------------------------
(***************************************************************************)
(* Theorems about VmMigration for any data center, VMs, tasks and          *)
(* migrations: tryToAllocate misses no in-order placement, the books of    *)
(* capacity balance, and a VM that was placed is never left without a      *)
(* host.                                                                   *)
(***************************************************************************)
EXTENDS VmMigrationProperties, FiniteSums, SequenceTheorems

(***************************************************************************)
(* tryToAllocate's single pass over demands and units.                     *)
(***************************************************************************)
\* Induction over an interval, for the set of the numbers that have the property.
LEMMA Induction ==
  ASSUME NEW n \in Nat, NEW S, 0 \in S, \A k \in 0..(n - 1) : k \in S => k + 1 \in S
  PROVE  0..n \subseteq S
<1> DEFINE Bad == {k \in 0..n : k \notin S}
<1>1. ASSUME Bad # {} PROVE FALSE
  <2>1. PICK k \in Bad : \A m \in Bad : k <= m
    <3>1. Bad \subseteq Nat
      OBVIOUS
    <3> HIDE DEF Bad
    <3> QED
      BY <1>1, <3>1, Least
  <2>2. k - 1 \in 0..(n - 1) /\ k - 1 \notin Bad
    BY <2>1
  <2> QED
    BY <2>1, <2>2
<1> QED
  BY <1>1

\* An interval that grows by one number.
LEMMA NextInterval ==
  ASSUME NEW k \in Nat
  PROVE  1..(k + 1) = 1..k \cup {k + 1}
OBVIOUS

\* What is known of a sequence of natural numbers.
LEMMA Vector ==
  ASSUME NEW n \in Nat, NEW S, NEW u \in [1..n -> S]
  PROVE  u \in Seq(S) /\ Len(u) = n /\ DOMAIN u = 1..n
OBVIOUS

-----------------------------------------------------------------------------
\* One demand of the scan of NextFit, and a scan of the first n demands.
ScanStep(units, d, s, k) ==
  LET big == {i \in s.at..Len(units) : s.left[i] >= d[k]}
  IN IF big = {} THEN [s EXCEPT !.at = Len(units) + 1]
     ELSE [left |-> [s.left EXCEPT ![Min(big)] = @ - d[k]],
           at |-> Min(big), place |-> Append(s.place, Min(big))]

Start(units) == [left |-> units, at |-> 1, place |-> <<>>]

Scan(units, d, n, g) ==
  g = [k \in 0..n |-> IF k = 0 THEN Start(units) ELSE ScanStep(units, d, g[k - 1], k)]

\* NextFit in terms of the scan.
LEMMA NextFitDef ==
  ASSUME NEW units, NEW d
  PROVE  NextFit(units, d) = (CHOOSE g : Scan(units, d, Len(d), g))[Len(d)]
BY DEF NextFit, Scan, ScanStep, Start

\* The recursion of the scan has a solution.
LEMMA ScanExists ==
  ASSUME NEW units, NEW d, NEW n \in Nat
  PROVE  \E g : Scan(units, d, n, g)
<1> DEFINE S == {k \in 0..n : \E g : Scan(units, d, k, g)}
<1>1. 0 \in S
  <2> DEFINE g == [k \in 0..0 |-> Start(units)]
  <2>1. g = [k \in 0..0 |-> IF k = 0 THEN Start(units) ELSE ScanStep(units, d, g[k - 1], k)]
    OBVIOUS
  <2> HIDE DEF g
  <2>2. Scan(units, d, 0, g)
    BY <2>1 DEF Scan
  <2> QED
    BY <2>2
<1>2. ASSUME NEW k \in 0..(n - 1), k \in S PROVE k + 1 \in S
  <2>1. PICK g : Scan(units, d, k, g)
    BY <1>2
  <2> DEFINE h == [j \in 0..(k + 1) |-> IF j = k + 1 THEN ScanStep(units, d, g[k], k + 1) ELSE g[j]]
  <2>2. ASSUME NEW j \in 0..(k + 1)
        PROVE  h[j] = IF j = 0 THEN Start(units) ELSE ScanStep(units, d, h[j - 1], j)
    <3>1. CASE j = k + 1
      <4>1. h[j - 1] = g[k] /\ j # 0
        BY <3>1
      <4> QED
        BY <3>1, <4>1
    <3>2. CASE j # k + 1 /\ j # 0
      <4>1. j \in 0..k /\ j - 1 \in 0..k /\ h[j] = g[j] /\ h[j - 1] = g[j - 1]
        BY <3>2
      <4> QED
        BY <2>1, <3>2, <4>1 DEF Scan
    <3>3. CASE j = 0
      BY <2>1, <3>3 DEF Scan
    <3> QED
      BY <3>1, <3>2, <3>3
  <2>3. h = [j \in 0..(k + 1) |-> h[j]]
    OBVIOUS
  <2> HIDE DEF h
  <2>4. Scan(units, d, k + 1, h)
    BY <2>2, <2>3 DEF Scan
  <2> QED
    BY <2>4
<1> HIDE DEF S
<1>3. n \in S
  BY <1>1, <1>2, Induction
<1> QED
  BY <1>3 DEF S

\* The scan, step by step.
ScanOf(units, d) == CHOOSE g : Scan(units, d, Len(d), g)

\* The value of the scan after k demands.
LEMMA ScanValues ==
  ASSUME NEW units, NEW d, Len(d) \in Nat
  PROVE  /\ NextFit(units, d) = ScanOf(units, d)[Len(d)]
         /\ ScanOf(units, d)[0] = Start(units)
         /\ \A k \in 0..(Len(d) - 1) :
               ScanOf(units, d)[k + 1] = ScanStep(units, d, ScanOf(units, d)[k], k + 1)
<1>1. Scan(units, d, Len(d), ScanOf(units, d))
  BY ScanExists DEF ScanOf
<1>2. NextFit(units, d) = ScanOf(units, d)[Len(d)]
  BY NextFitDef DEF ScanOf
<1> DEFINE g == ScanOf(units, d)
<1> HIDE DEF g
<1>3. g[0] = Start(units)
  BY <1>1 DEF Scan, g
<1>4. ASSUME NEW k \in 0..(Len(d) - 1) PROVE g[k + 1] = ScanStep(units, d, g[k], k + 1)
  <2>1. k + 1 \in 0..Len(d) /\ k + 1 # 0 /\ (k + 1) - 1 = k
    OBVIOUS
  <2> QED
    BY <1>1, <2>1 DEF Scan, g
<1> QED
  BY <1>2, <1>3, <1>4 DEF g

-----------------------------------------------------------------------------
\* What the scan has done after k demands, on n units: the demands placed so far
\* are the first ones, in order, none after the unit at hand; what is left of a
\* unit and what was placed there make up the unit.
At(place, i) == {j \in DOMAIN place : place[j] = i}

FittedAt(units, d, n, k, left, at, place) ==
  /\ left \in [1..n -> Nat] /\ at \in 1..(n + 1) /\ place \in Seq(1..n)
  /\ Len(place) <= k /\ (Len(place) < k => at = n + 1)
  /\ \A j \in 1..Len(place) : place[j] <= at
  /\ \A j, l \in 1..Len(place) : j < l => place[j] <= place[l]
  /\ \A i \in 1..n : left[i] + SumFunctionOnSet(d, At(place, i)) = units[i]

Fitted(units, d, n, k, s) ==
  /\ s = [left |-> s.left, at |-> s.at, place |-> s.place]
  /\ FittedAt(units, d, n, k, s.left, s.at, s.place)

\* The sum of some of the demands is a natural number.
LEMMA SumOfDemands ==
  ASSUME NEW m \in Nat, NEW d \in [1..m -> Nat], NEW S, S \subseteq 1..m
  PROVE  IsFiniteSet(S) /\ SumFunctionOnSet(d, S) \in Nat
<1>1. IsFiniteSet(1..m)
  BY FS_Interval
<1>2. IsFiniteSet(S)
  BY <1>1, FS_Subset
<1> QED
  BY <1>2, SumNat

\* A scan that fails at a demand keeps what it placed before.
LEMMA FailFitted ==
  ASSUME NEW n \in Nat, NEW units, NEW d, NEW k \in Nat, NEW left, NEW at, NEW place,
         FittedAt(units, d, n, k, left, at, place)
  PROVE  FittedAt(units, d, n, k + 1, left, n + 1, place)
<1>1. place \in Seq(1..n) /\ Len(place) \in Nat
  BY DEF FittedAt
<1>2. \A j \in 1..Len(place) : place[j] <= n + 1
  <2> TAKE j \in 1..Len(place)
  <2>1. place[j] \in 1..n
    BY <1>1
  <2> QED
    BY <2>1
<1> QED
  BY <1>1, <1>2 DEF FittedAt

\* A demand that fits the unit is placed on it.
LEMMA PlaceFitted ==
  ASSUME NEW n \in Nat, NEW units \in [1..n -> Nat], NEW m \in Nat, NEW d \in [1..m -> Nat],
         NEW k \in 0..(m - 1), NEW left, NEW at, NEW place,
         FittedAt(units, d, n, k, left, at, place),
         NEW a \in 1..n, a >= at, left[a] >= d[k + 1]
  PROVE  FittedAt(units, d, n, k + 1, [left EXCEPT ![a] = @ - d[k + 1]], a, Append(place, a))
<1> DEFINE rest == [left EXCEPT ![a] = @ - d[k + 1]]
           next == Append(place, a)
<1>1. left \in [1..n -> Nat] /\ at \in 1..(n + 1) /\ place \in Seq(1..n)
  BY DEF FittedAt
<1>2. Len(place) = k /\ k \in Nat /\ k + 1 \in 1..m
  BY SMTT(30) DEF FittedAt
<1>3. d[k + 1] \in Nat /\ left[a] \in Nat /\ left[a] - d[k + 1] \in Nat
  BY SMTT(30), <1>1, <1>2
<1>4. /\ rest \in [1..n -> Nat] /\ rest[a] = left[a] - d[k + 1]
      /\ \A i \in 1..n : i # a => rest[i] = left[i]
  BY <1>1, <1>3
<1>5. /\ next \in Seq(1..n) /\ Len(next) = k + 1 /\ DOMAIN next = 1..(k + 1)
      /\ next[k + 1] = a /\ DOMAIN place = 1..k
      /\ \A j \in 1..k : next[j] = place[j]
  BY SMTT(30), <1>1, <1>2
<1>6. \A j \in 1..k : place[j] \in 1..n
  BY <1>1, <1>2, ElementOfSeq
<1>7. \A j \in 1..k : place[j] <= a
  <2> TAKE j \in 1..k
  <2>1. place[j] <= at /\ at <= a
    BY <1>2 DEF FittedAt
  <2>2. place[j] \in Int /\ at \in Int /\ a \in Int
    <3>1. place[j] \in 1..n
      BY <1>6
    <3> QED
      BY SMTT(30), <1>1, <3>1
  <2> QED
    BY SMTT(30), <2>1, <2>2
<1> HIDE DEF rest, next
<1>8. \A j \in 1..(k + 1) : next[j] <= a
  <2> TAKE j \in 1..(k + 1)
  <2>1. j = k + 1 \/ j \in 1..k
    OBVIOUS
  <2> QED
    BY SMTT(30), <1>5, <1>7, <2>1
<1>9. \A j, l \in 1..(k + 1) : j < l => next[j] <= next[l]
  <2> TAKE j, l \in 1..(k + 1)
  <2> HAVE j < l
  <2>1. j \in 1..k /\ (l = k + 1 \/ l \in 1..k)
    OBVIOUS
  <2>2. l \in 1..k => place[j] <= place[l]
    BY <1>2, <2>1 DEF FittedAt
  <2> QED
    BY <1>5, <1>7, <2>1, <2>2
<1>10. ASSUME NEW i \in 1..n
       PROVE  rest[i] + SumFunctionOnSet(d, At(next, i)) = units[i]
  <2> DEFINE T == At(place, i)
  <2>1. left[i] + SumFunctionOnSet(d, T) = units[i]
    BY DEF FittedAt
  <2>2. T \subseteq 1..m /\ k + 1 \notin T
    BY <1>5 DEF At
  <2>3. IsFiniteSet(T) /\ SumFunctionOnSet(d, T) \in Nat
    <3> HIDE DEF T
    <3> QED
      BY <2>2, SumOfDemands
  <2>4. 1..(k + 1) = 1..k \cup {k + 1}
    BY SMTT(30), <1>2
  <2>5. CASE i = a
    <3>1. At(next, i) = T \cup {k + 1}
      BY <1>5, <2>4, <2>5 DEF At
    <3>2. SumFunctionOnSet(d, T \cup {k + 1}) = d[k + 1] + SumFunctionOnSet(d, T)
      <4>1. \A x \in T \cup {k + 1} : d[x] \in Int
        BY SMTT(30), <1>3, <2>2
      <4> HIDE DEF T
      <4> QED
        BY <2>2, <2>3, <4>1, SumAdd
    <3>3. rest[i] = left[i] - d[k + 1] /\ left[i] \in Nat
      BY <1>3, <1>4, <2>5
    <3>4. SumFunctionOnSet(d, At(next, i)) = d[k + 1] + SumFunctionOnSet(d, T)
      BY <3>1, <3>2
    <3>5. \A x, y, z \in Int : (x - y) + (y + z) = x + z
      OBVIOUS
    <3> HIDE DEF T
    <3>6. (left[i] - d[k + 1]) + (d[k + 1] + SumFunctionOnSet(d, T))
            = left[i] + SumFunctionOnSet(d, T)
      BY SMTT(30), <1>3, <2>3, <3>3, <3>5
    <3> QED
      BY <2>1, <3>3, <3>4, <3>6
  <2>6. CASE i # a
    <3>1. At(next, i) = T
      BY <1>5, <2>4, <2>6 DEF At
    <3>2. rest[i] = left[i]
      BY <1>4, <2>6
    <3> QED
      BY <2>1, <3>1, <3>2
  <2> QED
    BY <2>5, <2>6
<1>11. a \in 1..(n + 1) /\ Len(next) <= k + 1 /\ ~(Len(next) < k + 1)
  BY <1>2, <1>5
<1>12. FittedAt(units, d, n, k + 1, rest, a, next)
  BY <1>4, <1>5, <1>8, <1>9, <1>10, <1>11 DEF FittedAt
<1> QED
  BY <1>12 DEF rest, next

\* One step of the scan: the demand goes on the unit at hand or a later one, or nowhere.
LEMMA StepFitted ==
  ASSUME NEW n \in Nat, NEW units \in [1..n -> Nat], NEW m \in Nat, NEW d \in [1..m -> Nat],
         NEW k \in 0..(m - 1), NEW s, Fitted(units, d, n, k, s)
  PROVE  Fitted(units, d, n, k + 1, ScanStep(units, d, s, k + 1))
<1> DEFINE big == {i \in s.at..n : s.left[i] >= d[k + 1]}
           next == ScanStep(units, d, s, k + 1)
<1>1. Len(units) = n
  BY Vector
<1>2. s = [left |-> s.left, at |-> s.at, place |-> s.place] /\ s.at \in 1..(n + 1)
  BY DEF Fitted, FittedAt
<1>3. FittedAt(units, d, n, k, s.left, s.at, s.place)
  BY DEF Fitted
<1>4. CASE big = {}
  <2>1. next = [s EXCEPT !.at = n + 1]
    BY <1>1, <1>4 DEF ScanStep
  <2>2. next = [left |-> s.left, at |-> n + 1, place |-> s.place]
    BY <1>2, <2>1
  <2> HIDE DEF next
  <2>3. FittedAt(units, d, n, k + 1, s.left, n + 1, s.place)
    BY <1>3, FailFitted
  <2> QED
    BY <2>2, <2>3 DEF Fitted, next
<1>5. CASE big # {}
  <2> DEFINE a == Min(big)
  <2>1. a \in big
    <3>1. big \subseteq Nat
      BY <1>2
    <3> HIDE DEF big
    <3> QED
      BY <1>5, <3>1, MinIsLeast
  <2>2. a \in 1..n /\ a >= s.at /\ s.left[a] >= d[k + 1]
    BY <1>2, <2>1
  <2>3. next = [left |-> [s.left EXCEPT ![a] = @ - d[k + 1]], at |-> a, place |-> Append(s.place, a)]
    BY <1>1, <1>5 DEF ScanStep
  <2> HIDE DEF next, a, big
  <2>4. FittedAt(units, d, n, k + 1, [s.left EXCEPT ![a] = @ - d[k + 1]], a, Append(s.place, a))
    BY <1>3, <2>2, PlaceFitted
  <2>5. /\ next = [left |-> next.left, at |-> next.at, place |-> next.place]
        /\ next.left = [s.left EXCEPT ![a] = @ - d[k + 1]]
        /\ next.at = a /\ next.place = Append(s.place, a)
    BY <2>3
  <2> QED
    BY <2>4, <2>5 DEF Fitted, next
<1> QED
  BY <1>4, <1>5

\* The whole scan, by induction over the demands.
LEMMA ScanFitted ==
  ASSUME NEW n \in Nat, NEW units \in [1..n -> Nat], NEW m \in Nat, NEW d \in [1..m -> Nat]
  PROVE  \A k \in 0..m : Fitted(units, d, n, k, ScanOf(units, d)[k])
<1> DEFINE S == {k \in 0..m : Fitted(units, d, n, k, ScanOf(units, d)[k])}
<1>1. Len(d) = m
  BY Vector
<1>2. 0 \in S
  <2>1. Fitted(units, d, n, 0, Start(units))
    <3>1. \A i \in 1..n : At(<<>>, i) = {}
      BY DEF At
    <3>2. SumFunctionOnSet(d, {}) = 0 /\ \A i \in 1..n : units[i] + 0 = units[i]
      BY SumEmpty
    <3>3. <<>> \in Seq(1..n) /\ Len(<<>>) = 0 /\ 1 \in 1..(n + 1)
      OBVIOUS
    <3>4. FittedAt(units, d, n, 0, units, 1, <<>>)
      <4>1. 1..Len(<<>>) = {}
        OBVIOUS
      <4>2. \A i \in 1..n : units[i] + SumFunctionOnSet(d, At(<<>>, i)) = units[i]
        BY <3>1, <3>2
      <4> QED
        BY <3>3, <4>1, <4>2 DEF FittedAt
    <3> QED
      BY <3>4 DEF Fitted, Start
  <2>2. ScanOf(units, d)[0] = Start(units)
    BY <1>1, ScanValues
  <2> QED
    BY <2>1, <2>2
<1>3. ASSUME NEW k \in 0..(m - 1), k \in S PROVE k + 1 \in S
  <2>1. ScanOf(units, d)[k + 1] = ScanStep(units, d, ScanOf(units, d)[k], k + 1)
    BY <1>1, ScanValues
  <2>2. Fitted(units, d, n, k, ScanOf(units, d)[k])
    BY <1>3
  <2>3. Fitted(units, d, n, k + 1, ScanOf(units, d)[k + 1])
    BY <2>1, <2>2, StepFitted
  <2> QED
    BY <2>3
<1>4. 0..m \subseteq S
  <2> HIDE DEF S
  <2> QED
    BY <1>2, <1>3, Induction
<1> QED
  BY <1>4

\* The result of the scan.
LEMMA NextFitFitted ==
  ASSUME NEW n \in Nat, NEW units \in [1..n -> Nat], NEW m \in Nat, NEW d \in [1..m -> Nat]
  PROVE  Fitted(units, d, n, m, NextFit(units, d))
<1>1. Len(d) = m
  BY Vector
<1>2. NextFit(units, d) = ScanOf(units, d)[m]
  BY <1>1, ScanValues
<1>3. m \in 0..m
  OBVIOUS
<1> QED
  BY <1>2, <1>3, ScanFitted

-----------------------------------------------------------------------------
\* An in-order placement of the demands d on the units, and the demands its
\* first k put on unit i.
Fit(units, d, star) ==
  /\ star \in [DOMAIN d -> DOMAIN units]
  /\ \A j, k \in DOMAIN d : j < k => star[j] <= star[k]
  /\ \A i \in DOMAIN units : SumFunctionOnSet(d, At(star, i)) <= units[i]

Load(d, star, k, i) == SumFunctionOnSet(d, {j \in 1..k : star[j] = i})

\* The scan is never behind such a placement: it has placed all demands so far,
\* it is not past the unit of the next one, and it left at least as much there.
Ahead(units, d, n, m, star, k, s) ==
  /\ Len(s.place) = k
  /\ \A j \in (k + 1)..m : s.at <= star[j]
  /\ \A i \in 1..n :
        (k > 0 => star[k] <= i) /\ s.at <= i => units[i] <= s.left[i] + Load(d, star, k, i)

\* What the first k + 1 demands put on each unit.
LEMMA LoadNext ==
  ASSUME NEW n \in Nat, NEW m \in Nat, NEW d \in [1..m -> Nat], NEW star \in [1..m -> 1..n],
         NEW k \in 0..(m - 1), NEW i \in 1..n
  PROVE  /\ Load(d, star, k, i) \in Nat /\ d[k + 1] \in Nat
         /\ star[k + 1] = i => Load(d, star, k + 1, i) = Load(d, star, k, i) + d[k + 1]
         /\ star[k + 1] # i => Load(d, star, k + 1, i) = Load(d, star, k, i)
         /\ Load(d, star, k + 1, i) <= SumFunctionOnSet(d, At(star, i))
<1> DEFINE T == {j \in 1..k : star[j] = i}
           U == {j \in 1..(k + 1) : star[j] = i}
<1>1. k \in Nat /\ k + 1 \in 1..m /\ 1..(k + 1) = 1..k \cup {k + 1}
  <2>1. k \in Nat /\ k + 1 \in 1..m
    OBVIOUS
  <2> QED
    BY <2>1, NextInterval
<1>2. T \subseteq 1..m /\ k + 1 \notin T /\ U \subseteq At(star, i) /\ At(star, i) \subseteq 1..m
  BY <1>1 DEF At
<1>3. IsFiniteSet(T) /\ SumFunctionOnSet(d, T) \in Nat /\ d[k + 1] \in Nat
  <2> HIDE DEF T
  <2> QED
    BY <1>1, <1>2, SumOfDemands
<1>4. SumFunctionOnSet(d, U) <= SumFunctionOnSet(d, At(star, i))
  <2>1. IsFiniteSet(At(star, i))
    BY <1>2, SumOfDemands
  <2> HIDE DEF U
  <2> QED
    BY <1>2, <2>1, SumSubset
<1> DEFINE lt == Load(d, star, k, i)
           lu == Load(d, star, k + 1, i)
<1>7. lt = SumFunctionOnSet(d, T) /\ lu = SumFunctionOnSet(d, U)
  BY DEF Load
<1>5. CASE star[k + 1] = i
  <2>1. U = T \cup {k + 1}
    BY <1>1, <1>5
  <2>2. SumFunctionOnSet(d, T \cup {k + 1}) = d[k + 1] + SumFunctionOnSet(d, T)
    <3>1. \A x \in T \cup {k + 1} : d[x] \in Int
      BY <1>2, <1>3
    <3> HIDE DEF T
    <3> QED
      BY <1>2, <1>3, <3>1, SumAdd
  <2>3. lu = lt + d[k + 1] /\ lt \in Nat /\ d[k + 1] \in Nat /\ lu <= SumFunctionOnSet(d, At(star, i))
    <3> HIDE DEF T, U, lt, lu
    <3>1. lu = d[k + 1] + lt
      BY <1>7, <2>1, <2>2
    <3>2. lu = lt + d[k + 1]
      BY <1>3, <1>7, <3>1
    <3> QED
      BY <1>3, <1>4, <1>7, <3>2
  <2> QED
    BY <1>5, <2>3
<1>6. CASE star[k + 1] # i
  <2>1. U = T
    BY <1>1, <1>6
  <2>2. lu = lt /\ lt \in Nat /\ d[k + 1] \in Nat /\ lu <= SumFunctionOnSet(d, At(star, i))
    <3> HIDE DEF T, U, lt, lu
    <3> QED
      BY <1>3, <1>4, <1>7, <2>1
  <2> QED
    BY <1>6, <2>2
<1> QED
  BY <1>5, <1>6

\* One step of the scan keeps it ahead of any in-order placement.
LEMMA StepAhead ==
  ASSUME NEW n \in Nat, NEW units \in [1..n -> Nat], NEW m \in Nat, NEW d \in [1..m -> Nat],
         NEW star, Fit(units, d, star), NEW k \in 0..(m - 1), NEW s, Fitted(units, d, n, k, s),
         Ahead(units, d, n, m, star, k, s)
  PROVE  Ahead(units, d, n, m, star, k + 1, ScanStep(units, d, s, k + 1))
<1> DEFINE big == {i \in s.at..n : s.left[i] >= d[k + 1]}
           next == ScanStep(units, d, s, k + 1)
           u == star[k + 1]
<1>1. Len(units) = n /\ k \in Nat /\ k + 1 \in 1..m /\ star \in [1..m -> 1..n]
  BY Vector DEF Fit
<1>2. s.at \in 1..(n + 1) /\ s.left \in [1..n -> Nat] /\ s.place \in Seq(1..n)
  BY DEF Fitted, FittedAt
<1>3. u \in 1..n /\ s.at <= u /\ (k > 0 => star[k] <= u)
  BY <1>1 DEF Fit, Ahead
<1>18. star[k + 1] = u
  OBVIOUS
<1> HIDE DEF u
<1>4. /\ Load(d, star, k, u) \in Nat /\ d[k + 1] \in Nat
      /\ Load(d, star, k + 1, u) = Load(d, star, k, u) + d[k + 1]
      /\ Load(d, star, k + 1, u) <= SumFunctionOnSet(d, At(star, u))
  <2> HIDE DEF big, next
  <2>1. star \in [1..m -> 1..n]
    BY <1>1
  <2>2. /\ Load(d, star, k, u) \in Nat /\ d[k + 1] \in Nat
        /\ star[k + 1] = u => Load(d, star, k + 1, u) = Load(d, star, k, u) + d[k + 1]
        /\ Load(d, star, k + 1, u) <= SumFunctionOnSet(d, At(star, u))
    BY <1>3, <2>1, LoadNext
  <2> QED
    BY <1>18, <2>2
<1>5. units[u] <= s.left[u] + Load(d, star, k, u) /\ s.left[u] \in Nat /\ units[u] \in Nat
  BY <1>2, <1>3 DEF Ahead
<1>6. SumFunctionOnSet(d, At(star, u)) <= units[u] /\ SumFunctionOnSet(d, At(star, u)) \in Nat
  <2>1. At(star, u) \subseteq 1..m
    BY <1>1 DEF At
  <2> QED
    BY <1>3, <2>1, SumOfDemands DEF Fit
<1>7. d[k + 1] <= s.left[u]
  BY SMTT(30), <1>4, <1>5, <1>6
<1>8. u \in big
  BY <1>2, <1>3, <1>7
<1> DEFINE a == Min(big)
<1>9. a \in big /\ a <= u
  <2>1. big \subseteq Nat
    BY <1>2
  <2> HIDE DEF big
  <2> QED
    BY <1>8, <2>1, MinIsLeast
<1>10. a \in 1..n /\ s.at <= a
  BY SMTT(30), <1>2, <1>9
<1>11. next = [left |-> [s.left EXCEPT ![a] = @ - d[k + 1]], at |-> a, place |-> Append(s.place, a)]
  BY <1>1, <1>8 DEF ScanStep
<1> HIDE DEF next, a, big
<1>12. /\ next.at = a /\ next.place = Append(s.place, a)
       /\ next.left[a] = s.left[a] - d[k + 1]
       /\ \A i \in 1..n : i # a => next.left[i] = s.left[i]
  BY <1>2, <1>10, <1>11
<1>13. Len(next.place) = k + 1
  BY SMTT(30), <1>2, <1>12 DEF Ahead
<1>14. \A j \in (k + 2)..m : a <= star[j]
  <2> TAKE j \in (k + 2)..m
  <2>1. j \in 1..m /\ k + 1 < j
    BY <1>1
  <2>2. u <= star[j] /\ star[j] \in 1..n
    BY <1>1, <2>1 DEF Fit, u
  <2> QED
    BY <1>3, <1>9, <1>10, <2>2
<1>15. ASSUME NEW i \in 1..n, u <= i
       PROVE  units[i] <= next.left[i] + Load(d, star, k + 1, i)
  <2>1. CASE i = u
    <3>1. next.left[u] = s.left[u] \/ next.left[u] = s.left[u] - d[k + 1]
      BY <1>3, <1>12
    <3>2. units[u] <= next.left[u] + Load(d, star, k + 1, u)
      <4> DEFINE whole == units[u]
                 old == s.left[u]
                 new == next.left[u]
                 before == Load(d, star, k, u)
                 after == Load(d, star, k + 1, u)
                 more == d[k + 1]
      <4>1. whole \in Nat /\ old \in Nat /\ before \in Nat /\ more \in Nat
        BY <1>4, <1>5
      <4>2. whole <= old + before /\ after = before + more /\ (new = old \/ new = old - more)
        BY <1>4, <1>5, <3>1
      <4> HIDE DEF whole, old, new, before, after, more
      <4>3. whole <= new + after
        BY <4>1, <4>2
      <4> QED
        BY <4>3 DEF whole, new, after
    <3> QED
      BY <2>1, <3>2
  <2>2. CASE i # u
    <3>1. i # a /\ s.at <= i /\ (k > 0 => star[k] <= i)
      <4>1. k > 0 => star[k] \in 1..n
        BY <1>1
      <4> QED
        <5>1. \A x, y, z \in Int : x <= y /\ y <= z => x <= z
          OBVIOUS
        <5>2. u \in Int /\ i \in Int /\ a \in Int /\ s.at \in Int /\ (k > 0 => star[k] \in Int)
          BY SMTT(30), <1>2, <1>3, <1>10, <4>1
        <5>3. i # a
          BY <1>9, <1>15, <2>2, <5>2
        <5> QED
          BY <1>15, <1>3, <5>1, <5>2, <5>3
    <3>2. next.left[i] = s.left[i] /\ units[i] <= s.left[i] + Load(d, star, k, i)
      BY <1>12, <3>1 DEF Ahead
    <3>3. Load(d, star, k + 1, i) = Load(d, star, k, i)
      BY ZenonT(60), <1>1, <2>2, LoadNext DEF u
    <3> QED
      BY <3>2, <3>3
  <2> QED
    BY <2>1, <2>2
<1>16. (k + 1) + 1 = k + 2 /\ k + 1 > 0
  BY <1>1
<1>17. Ahead(units, d, n, m, star, k + 1, next)
  BY <1>12, <1>13, <1>14, <1>15, <1>16 DEF Ahead, u
<1> QED
  BY <1>17 DEF next

\* If an in-order placement exists, the scan serves every demand.
LEMMA FitIsFound ==
  ASSUME NEW n \in Nat, NEW units \in [1..n -> Nat], NEW m \in Nat, NEW d \in [1..m -> Nat],
         NEW star, Fit(units, d, star)
  PROVE  Len(NextFit(units, d).place) = m
<1> DEFINE g == ScanOf(units, d)
           S == {k \in 0..m : Ahead(units, d, n, m, star, k, g[k])}
<1>1. Len(d) = m /\ star \in [1..m -> 1..n]
  BY Vector DEF Fit
<1>2. g[0] = Start(units) /\ NextFit(units, d) = g[m]
  BY <1>1, ScanValues
<1>3. 0 \in S
  <2>1. \A i \in 1..n : Load(d, star, 0, i) = 0
    <3>1. \A i \in 1..n : {j \in 1..0 : star[j] = i} = {}
      OBVIOUS
    <3> QED
      BY <3>1, SumEmpty DEF Load
  <2>2. Ahead(units, d, n, m, star, 0, Start(units))
    BY <1>1, <2>1 DEF Ahead, Start
  <2> QED
    BY <1>2, <2>2
<1>4. ASSUME NEW k \in 0..(m - 1), k \in S PROVE k + 1 \in S
  <2>1. g[k + 1] = ScanStep(units, d, g[k], k + 1)
    BY <1>1, ScanValues
  <2>2. Fitted(units, d, n, k, g[k])
    <3>1. k \in 0..m
      OBVIOUS
    <3> QED
      BY <3>1, ScanFitted
  <2>3. Ahead(units, d, n, m, star, k, g[k])
    BY <1>4
  <2> HIDE DEF g
  <2>4. Ahead(units, d, n, m, star, k + 1, g[k + 1])
    BY <2>1, <2>2, <2>3, StepAhead
  <2> QED
    BY <2>4
<1>5. m \in S
  <2> HIDE DEF S
  <2>1. 0..m \subseteq S
    BY <1>3, <1>4, Induction
  <2> QED
    BY <2>1
<1> QED
  BY <1>2, <1>5 DEF Ahead

\* What the scan finds is such a placement, and nothing is lost.
Places(units, d, n, r) ==
  /\ Fit(units, d, r.place)
  /\ r.left \in [1..n -> Nat]
  /\ \A i \in 1..n : r.left[i] + SumFunctionOnSet(d, At(r.place, i)) = units[i]

\* What the scan finds is an in-order placement, and it keeps the books of the provider.
LEMMA ScanPlaces ==
  ASSUME NEW n \in Nat, NEW units \in [1..n -> Nat], NEW m \in Nat, NEW d \in [1..m -> Nat],
         Len(NextFit(units, d).place) = m
  PROVE  Places(units, d, n, NextFit(units, d))
<1> DEFINE r == NextFit(units, d)
<1>1. FittedAt(units, d, n, m, r.left, r.at, r.place)
  BY NextFitFitted DEF Fitted
<1> HIDE DEF r
<1>2. r.left \in [1..n -> Nat] /\ r.place \in Seq(1..n) /\ Len(r.place) = m
  BY <1>1 DEF FittedAt, r
<1>3. r.place \in [1..m -> 1..n]
  BY <1>2, LenProperties
<1>4. \A i \in 1..n : r.left[i] + SumFunctionOnSet(d, At(r.place, i)) = units[i]
  BY <1>1 DEF FittedAt
<1>5. ASSUME NEW i \in 1..n PROVE SumFunctionOnSet(d, At(r.place, i)) <= units[i]
  <2>1. At(r.place, i) \subseteq 1..m
    BY <1>3 DEF At
  <2>2. SumFunctionOnSet(d, At(r.place, i)) \in Nat /\ r.left[i] \in Nat
    BY <1>2, <2>1, SumOfDemands
  <2> QED
    BY <1>4, <2>2
<1>6. \A j, k \in 1..m : j < k => r.place[j] <= r.place[k]
  BY <1>1, <1>2 DEF FittedAt
<1>7. Fit(units, d, r.place)
  BY <1>3, <1>5, <1>6 DEF Fit
<1> QED
  BY <1>2, <1>4, <1>7 DEF Places, r

\* The scan serves a list of demands if and only if an in-order placement does.
LEMMA FitIffServed ==
  ASSUME NEW n \in Nat, NEW units \in [1..n -> Nat], NEW m \in Nat, NEW d \in [1..m -> Nat]
  PROVE  Len(NextFit(units, d).place) = m <=> OrderedFit(units, d)
<1>1. ASSUME NEW star \in [DOMAIN d -> DOMAIN units], NEW i
      PROVE  {k \in DOMAIN d : star[k] = i} = At(star, i)
  BY DEF At
<1>2. OrderedFit(units, d) <=> \E star : Fit(units, d, star)
  BY <1>1 DEF OrderedFit, Fit
<1>3. ASSUME NEW star, Fit(units, d, star) PROVE Len(NextFit(units, d).place) = m
  BY <1>3, FitIsFound
<1>4. Len(NextFit(units, d).place) = m => Fit(units, d, NextFit(units, d).place)
  BY ScanPlaces DEF Places
<1> QED
  BY <1>2, <1>3, <1>4

-----------------------------------------------------------------------------
\* The books of capacity: what is free (f), where each consumer's demands are
\* (l) and what they are (w).
Units(p, t) == 1..Len(Capacity(p)[t])

Vectors(d) == \A t \in Types : d[t] \in Seq(Nat)

Shaped(lc, d) == Vectors(d) /\ \A t \in Types : DOMAIN lc[t] = 1..Len(d[t])

FreeOK(f) ==
  /\ DOMAIN f = Providers
  /\ \A p \in Providers, t \in Types : f[p][t] \in [Units(p, t) -> Nat]

HeldBy(lc, d, p, t, i) == SumFunctionOnSet(d[t], {k \in DOMAIN lc[t] : lc[t][k] = <<p, i>>})

TotalHeld(l, w, p, t, i) ==
  SumFunctionOnSet([c \in Consumers |-> HeldBy(l[c], w[c], p, t, i)], Consumers)

Books(f, l, w) ==
  /\ FreeOK(f)
  /\ l = [c \in Consumers |-> l[c]] /\ w = [c \in Consumers |-> w[c]]
  /\ \A c \in Consumers : Shaped(l[c], w[c])
  /\ \A p \in Providers, t \in Types : \A i \in Units(p, t) :
        f[p][t][i] + TotalHeld(l, w, p, t, i) = Capacity(p)[t][i]

\* The capacity of a provider is a list of natural numbers for each resource.
LEMMA CapacityType ==
  ASSUME NEW p \in Providers, NEW t \in Types
  PROVE  /\ Capacity(p)[t] \in Seq(Nat) /\ Len(Capacity(p)[t]) \in Nat
         /\ \A i \in Units(p, t) : Capacity(p)[t][i] \in Nat /\ i \in Nat
<1>1. Capacity(p)[t] \in Seq(Nat)
  <2>1. CASE p \in Hosts
    <3>1. Capacity(p) = HostCapacity[p] /\ HostCapacity[p] \in [Types -> Seq(Nat)]
      BY <2>1, SizesAssumption DEF Capacity
    <3> QED
      BY <3>1
  <2>2. CASE p \notin Hosts
    <3>1. p \in Vms /\ Capacity(p) = Demand[p]
      BY <2>2 DEF Providers, Capacity
    <3>2. Demand[p] \in [Types -> Seq(Nat \ {0})]
      BY <3>1, SizesAssumption
    <3>3. Capacity(p)[t] \in Seq(Nat \ {0})
      BY <3>1, <3>2
    <3> QED
      BY <3>3
  <2> QED
    BY <2>1, <2>2
<1> QED
  BY <1>1 DEF Units

\* What is held at a unit is a natural number.
LEMMA HeldNat ==
  ASSUME NEW lc, NEW d, Shaped(lc, d), NEW p, NEW t \in Types, NEW i
  PROVE  HeldBy(lc, d, p, t, i) \in Nat
<1> DEFINE m == Len(d[t])
           S == {k \in DOMAIN lc[t] : lc[t][k] = <<p, i>>}
<1>1. m \in Nat /\ d[t] \in [1..m -> Nat] /\ DOMAIN lc[t] = 1..m
  BY LenProperties DEF Shaped, Vectors
<1>2. S \subseteq 1..m
  BY <1>1
<1>3. SumFunctionOnSet(d[t], S) \in Nat
  <2> HIDE DEF m, S
  <2> QED
    BY <1>1, <1>2, SumOfDemands
<1> QED
  BY <1>3 DEF HeldBy

\* Null, where a demand that is nowhere points, is no unit.
LEMMA NullIsNoUnit ==
  ASSUME NEW p \in Providers, NEW t \in Types, NEW i \in Units(p, t)
  PROVE  Null # <<p, i>>
<1>1. i \in Nat
  BY CapacityType
<1> QED
  BY <1>1, ObjectsAssumption

\* A consumer that is nowhere holds nothing at any unit.
LEMMA NowhereHoldsNothing ==
  ASSUME NEW d, Vectors(d)
  PROVE  /\ Shaped(Nowhere(d), d)
         /\ \A p \in Providers, t \in Types : \A i \in Units(p, t) :
               HeldBy(Nowhere(d), d, p, t, i) = 0
<1>1. \A t \in Types : DOMAIN d[t] = 1..Len(d[t])
  BY LenProperties DEF Vectors
<1>2. Shaped(Nowhere(d), d)
  BY <1>1 DEF Shaped, Nowhere
<1>3. ASSUME NEW p \in Providers, NEW t \in Types, NEW i \in Units(p, t)
      PROVE  HeldBy(Nowhere(d), d, p, t, i) = 0
  <2>1. {k \in DOMAIN Nowhere(d)[t] : Nowhere(d)[t][k] = <<p, i>>} = {}
    BY NullIsNoUnit DEF Nowhere
  <2> QED
    BY <2>1, SumEmpty DEF HeldBy
<1> QED
  BY <1>2, <1>3

\* One consumer changes what it holds, by as much as what is free changes.
LEMMA BooksChange ==
  ASSUME NEW f, NEW l, NEW w, Books(f, l, w), NEW c \in Consumers, NEW g, FreeOK(g),
         NEW lc, NEW d, Shaped(lc, d),
         \A p \in Providers, t \in Types : \A i \in Units(p, t) :
            g[p][t][i] + HeldBy(lc, d, p, t, i) = f[p][t][i] + HeldBy(l[c], w[c], p, t, i)
  PROVE  Books(g, [l EXCEPT ![c] = lc], [w EXCEPT ![c] = d])
<1> DEFINE l2 == [l EXCEPT ![c] = lc]
           w2 == [w EXCEPT ![c] = d]
<1>1. /\ DOMAIN l = Consumers /\ DOMAIN w = Consumers /\ FreeOK(f)
      /\ \A b \in Consumers : Shaped(l[b], w[b])
  BY DEF Books
<1>2. /\ l2 = [b \in Consumers |-> l2[b]] /\ w2 = [b \in Consumers |-> w2[b]]
      /\ l2[c] = lc /\ w2[c] = d
      /\ \A b \in Consumers : b # c => l2[b] = l[b] /\ w2[b] = w[b]
  BY <1>1
<1> HIDE DEF l2, w2
<1>3. \A b \in Consumers : Shaped(l2[b], w2[b])
  BY <1>1, <1>2
<1>4. ASSUME NEW p \in Providers, NEW t \in Types, NEW i \in Units(p, t)
      PROVE  g[p][t][i] + TotalHeld(l2, w2, p, t, i) = Capacity(p)[t][i]
  <2> DEFINE old == [b \in Consumers |-> HeldBy(l[b], w[b], p, t, i)]
             new == [b \in Consumers |-> HeldBy(l2[b], w2[b], p, t, i)]
  <2>1. \A b \in Consumers : old[b] \in Int /\ new[b] \in Int
    BY <1>1, <1>3, HeldNat
  <2>2. \A b \in Consumers : b # c => old[b] = new[b]
    BY <1>2
  <2>3. old[c] = HeldBy(l[c], w[c], p, t, i) /\ new[c] = HeldBy(lc, d, p, t, i)
    BY <1>2
  <2>4. f[p][t][i] \in Nat /\ g[p][t][i] \in Nat
    BY <1>1 DEF FreeOK
  <2>5. f[p][t][i] + SumFunctionOnSet(old, Consumers) = Capacity(p)[t][i]
    BY DEF Books, TotalHeld
  <2>6. g[p][t][i] + new[c] = f[p][t][i] + old[c]
    BY <2>3
  <2>7. TotalHeld(l2, w2, p, t, i) = SumFunctionOnSet(new, Consumers)
    BY DEF TotalHeld
  <2> HIDE DEF old, new
  <2>8. SumFunctionOnSet(new, Consumers) = SumFunctionOnSet(old, Consumers) - old[c] + new[c]
    BY <2>1, <2>2, ObjectsAssumption, SumChange
  <2>9. SumFunctionOnSet(old, Consumers) \in Int /\ old[c] \in Int /\ new[c] \in Int
    BY <2>1, ObjectsAssumption, SumType
  <2>10. g[p][t][i] + SumFunctionOnSet(new, Consumers) = f[p][t][i] + SumFunctionOnSet(old, Consumers)
    <3> DEFINE a == g[p][t][i]
               b == f[p][t][i]
               s == SumFunctionOnSet(old, Consumers)
               r == SumFunctionOnSet(new, Consumers)
               x == old[c]
               y == new[c]
    <3>1. a \in Int /\ b \in Int /\ s \in Int /\ x \in Int /\ y \in Int /\ r = s - x + y /\ a + y = b + x
      BY <2>4, <2>6, <2>8, <2>9
    <3> HIDE DEF a, b, s, r, x, y
    <3>2. a + r = b + s
      BY <3>1
    <3> QED
      BY <3>2 DEF a, b, s, r
  <2> QED
    BY <2>5, <2>7, <2>10
<1> QED
  BY <1>2, <1>3, <1>4 DEF Books, l2, w2

\* What the scan of each resource finds on a provider that serves a consumer.
LEMMA ServedPlaces ==
  ASSUME NEW f, FreeOK(f), NEW p \in Providers, NEW d, Vectors(d), TryToAllocate(f, p, d),
         NEW t \in Types
  PROVE  LET r == NextFit(f[p][t], d[t])
             n == Len(Capacity(p)[t])
             m == Len(d[t])
         IN /\ n \in Nat /\ m \in Nat
            /\ f[p][t] \in [1..n -> Nat] /\ d[t] \in [1..m -> Nat]
            /\ Fit(f[p][t], d[t], r.place)
            /\ r.left \in [1..n -> Nat]
            /\ \A i \in 1..n : r.left[i] + SumFunctionOnSet(d[t], At(r.place, i)) = f[p][t][i]
<1>1. Len(d[t]) \in Nat /\ d[t] \in [1..Len(d[t]) -> Nat]
  BY LenProperties DEF Vectors
<1>2. f[p][t] \in [1..Len(Capacity(p)[t]) -> Nat] /\ Len(Capacity(p)[t]) \in Nat
  BY CapacityType DEF FreeOK, Units
<1>3. Len(NextFit(f[p][t], d[t]).place) = Len(d[t])
  BY DEF TryToAllocate, Served
<1> DEFINE units == f[p][t]
           e == d[t]
           n == Len(Capacity(p)[t])
           m == Len(d[t])
           r == NextFit(units, e)
<1>4. n \in Nat /\ m \in Nat /\ units \in [1..n -> Nat] /\ e \in [1..m -> Nat] /\ Len(r.place) = m
  BY <1>1, <1>2, <1>3
<1>5. Places(units, e, n, NextFit(units, e))
  <2> HIDE DEF units, e, n, m
  <2>1. n \in Nat /\ m \in Nat /\ units \in [1..n -> Nat] /\ e \in [1..m -> Nat]
    BY <1>4
  <2>2. Len(NextFit(units, e).place) = m
    BY <1>4
  <2> QED
    BY <2>1, <2>2, ScanPlaces
<1> QED
  BY <1>4, <1>5 DEF Places

\* What tryToAllocate takes for a consumer keeps the books balanced.
LEMMA TakenBooks ==
  ASSUME NEW f, NEW l, NEW w, Books(f, l, w), NEW c \in Consumers, l[c] = Nowhere(w[c]),
         NEW p \in Providers, NEW d, Vectors(d), TryToAllocate(f, p, d)
  PROVE  Books(Taken(f, p, d), [l EXCEPT ![c] = Located(f, p, d)], [w EXCEPT ![c] = d])
<1> DEFINE g == Taken(f, p, d)
           lc == Located(f, p, d)
           place(t) == NextFit(f[p][t], d[t]).place
           left(t) == NextFit(f[p][t], d[t]).left
<1>1. FreeOK(f) /\ DOMAIN f = Providers /\ Vectors(w[c])
  BY DEF Books, FreeOK, Shaped
<1>2. \A t \in Types : left(t) \in [Units(p, t) -> Nat]
  BY <1>1, ServedPlaces DEF Units
<1>3. /\ DOMAIN g = Providers
      /\ \A t \in Types : g[p][t] = left(t)
      /\ \A q \in Providers : q # p => g[q] = f[q]
  BY <1>1 DEF Taken
<1>4. FreeOK(g)
  <2> HIDE DEF g, left
  <2> QED
    BY <1>1, <1>2, <1>3 DEF FreeOK
<1>5. Shaped(lc, d)
  <2>1. \A t \in Types : DOMAIN d[t] = 1..Len(d[t])
    BY LenProperties DEF Vectors
  <2> QED
    BY <2>1 DEF Shaped, Located
<1>6. \A q \in Providers, t \in Types : \A i \in Units(q, t) : HeldBy(l[c], w[c], q, t, i) = 0
  BY <1>1, NowhereHoldsNothing
<1>7. ASSUME NEW q \in Providers, NEW t \in Types, NEW i \in Units(q, t)
      PROVE  g[q][t][i] + HeldBy(lc, d, q, t, i) = f[q][t][i] + HeldBy(l[c], w[c], q, t, i)
  <2>1. DOMAIN lc[t] = DOMAIN d[t] /\ \A k \in DOMAIN d[t] : lc[t][k] = <<p, place(t)[k]>>
    BY DEF Located
  <2>2. f[q][t][i] \in Nat
    BY <1>1 DEF FreeOK
  <2>3. CASE q # p
    <3>1. {k \in DOMAIN lc[t] : lc[t][k] = <<q, i>>} = {}
      <4> HIDE DEF lc, place
      <4> QED
        BY <2>1, <2>3
    <3>2. HeldBy(lc, d, q, t, i) = 0
      BY <3>1, SumEmpty DEF HeldBy
    <3>3. g[q][t][i] = f[q][t][i]
      BY <1>3, <2>3
    <3> QED
      BY <1>6, <3>2, <3>3
  <2>4. CASE q = p
    <3>1. place(t) \in [DOMAIN d[t] -> DOMAIN f[p][t]] /\ i \in 1..Len(Capacity(p)[t])
      BY <1>1, <2>4, ServedPlaces DEF Fit, Units
    <3>2. {k \in DOMAIN lc[t] : lc[t][k] = <<p, i>>} = At(place(t), i)
      <4> HIDE DEF lc, place
      <4> QED
        BY <2>1, <3>1 DEF At
    <3>3. left(t)[i] + SumFunctionOnSet(d[t], At(place(t), i)) = f[p][t][i]
      BY <1>1, <3>1, ServedPlaces
    <3>4. HeldBy(lc, d, p, t, i) = SumFunctionOnSet(d[t], At(place(t), i))
      BY <3>2 DEF HeldBy
    <3>5. g[p][t][i] + HeldBy(lc, d, p, t, i) = f[p][t][i]
      BY <1>3, <3>3, <3>4
    <3> QED
      BY <1>6, <2>2, <2>4, <3>5
  <2> QED
    BY <2>3, <2>4
<1> HIDE DEF g, lc
<1>8. Books(g, [l EXCEPT ![c] = lc], [w EXCEPT ![c] = d])
  BY <1>4, <1>5, <1>7, BooksChange
<1> QED
  BY <1>8 DEF g, lc

\* What a release gives back is of the type of what is free.
LEMMA ReleaseType ==
  ASSUME NEW f, FreeOK(f), NEW lc, NEW d, Shaped(lc, d)
  PROVE  /\ FreeOK(ReleaseAllocation(f, lc, d))
         /\ \A p \in Providers, t \in Types : \A i \in Units(p, t) :
               ReleaseAllocation(f, lc, d)[p][t][i] = f[p][t][i] + HeldBy(lc, d, p, t, i)
<1> DEFINE g == ReleaseAllocation(f, lc, d)
<1>1. \A t \in Types : DOMAIN d[t] = DOMAIN lc[t]
  BY LenProperties DEF Shaped, Vectors
<1>2. \A p, t, i : t \in Types => Returned(lc, d, p, t, i) = HeldBy(lc, d, p, t, i)
  BY <1>1 DEF Returned, HeldBy
<1>3. \A p \in Providers, t \in Types : f[p][t] \in [Units(p, t) -> Nat]
  BY DEF FreeOK
<1>4. /\ DOMAIN g = Providers
      /\ \A p \in Providers, t \in Types :
            g[p][t] = [i \in Units(p, t) |-> f[p][t][i] + HeldBy(lc, d, p, t, i)]
  BY <1>2, <1>3 DEF ReleaseAllocation
<1>5. \A p \in Providers, t \in Types : \A i \in Units(p, t) :
          f[p][t][i] + HeldBy(lc, d, p, t, i) \in Nat
  <2> TAKE p \in Providers, t \in Types
  <2> TAKE i \in Units(p, t)
  <2>1. f[p][t][i] \in Nat /\ HeldBy(lc, d, p, t, i) \in Nat
    BY <1>3, HeldNat
  <2> QED
    BY <2>1
<1> HIDE DEF g
<1>6. ASSUME NEW p \in Providers, NEW t \in Types PROVE g[p][t] \in [Units(p, t) -> Nat]
  <2>1. g[p][t] = [i \in Units(p, t) |-> f[p][t][i] + HeldBy(lc, d, p, t, i)]
    BY <1>4
  <2>2. \A i \in Units(p, t) : f[p][t][i] + HeldBy(lc, d, p, t, i) \in Nat
    BY <1>5
  <2> QED
    BY <2>1, <2>2
<1>7. FreeOK(g)
  BY <1>4, <1>6 DEF FreeOK
<1>8. ASSUME NEW p \in Providers, NEW t \in Types, NEW i \in Units(p, t)
      PROVE  g[p][t][i] = f[p][t][i] + HeldBy(lc, d, p, t, i)
  <2>1. g[p][t] = [j \in Units(p, t) |-> f[p][t][j] + HeldBy(lc, d, p, t, j)]
    BY <1>4
  <2> QED
    BY <2>1
<1> QED
  BY <1>7, <1>8 DEF g

\* Releasing a consumer keeps the books balanced.
LEMMA ReleasedBooks ==
  ASSUME NEW f, NEW l, NEW w, Books(f, l, w), NEW c \in Consumers
  PROVE  Books(ReleaseAllocation(f, l[c], w[c]), [l EXCEPT ![c] = Nowhere(w[c])], w)
<1> DEFINE g == ReleaseAllocation(f, l[c], w[c])
           lc == Nowhere(w[c])
<1>1. FreeOK(f) /\ Shaped(l[c], w[c]) /\ Vectors(w[c])
  BY DEF Books, Shaped
<1>2. FreeOK(g) /\ Shaped(lc, w[c])
  BY <1>1, ReleaseType, NowhereHoldsNothing
<1>3. ASSUME NEW p \in Providers, NEW t \in Types, NEW i \in Units(p, t)
      PROVE  g[p][t][i] + HeldBy(lc, w[c], p, t, i) = f[p][t][i] + HeldBy(l[c], w[c], p, t, i)
  <2>1. g[p][t][i] = f[p][t][i] + HeldBy(l[c], w[c], p, t, i) /\ HeldBy(lc, w[c], p, t, i) = 0
    BY <1>1, ReleaseType, NowhereHoldsNothing
  <2>2. g[p][t][i] \in Nat
    BY <1>2 DEF FreeOK
  <2> QED
    BY <2>1, <2>2
<1>4. [w EXCEPT ![c] = w[c]] = w
  <2>1. w = [b \in Consumers |-> w[b]]
    BY DEF Books
  <2> QED
    BY <2>1
<1> HIDE DEF g, lc
<1>5. Books(g, [l EXCEPT ![c] = lc], [w EXCEPT ![c] = w[c]])
  BY <1>1, <1>2, <1>3, BooksChange
<1> QED
  BY <1>4, <1>5 DEF g, lc

-----------------------------------------------------------------------------
\* The inductive invariant, in parts.  The first two: types, and the books of
\* capacity with what each consumer wants.

W == [c \in Consumers |-> Wanted(c)]

TypeInv ==
  /\ hostOf \in [Vms -> Hosts \cup {Null}]
  /\ hosted \in [Hosts -> SUBSET Vms]
  /\ sources \in [Hosts -> SUBSET Migrations] /\ sinks \in [Hosts -> SUBSET Migrations]
  /\ mig \in [Migrations -> [stage : {"unused", "moving", "refused", "done"},
                             vm : Vms \cup {Null}, target : Hosts \cup {Null}]]
  /\ DOMAIN hostCore = Vms
  /\ DOMAIN vcores = Hosts
  /\ \A h \in Hosts : DOMAIN vcores[h] = DOMAIN HostCapacity[h][Computing]

BooksBalance == Books(free, loc, W)

\* A VM without a host holds nothing.
HomelessHoldNothing == \A v \in Vms : hostOf[v] = Null => loc[v] = Nowhere(Demand[v])

\* The demands d lie on units of h, in order.
InOrder(lc, h, d) ==
  \A t \in Types : \E star \in [DOMAIN d[t] -> Units(h, t)] :
     /\ \A j, k \in DOMAIN d[t] : j < k => star[j] <= star[k]
     /\ \A k \in DOMAIN d[t] : lc[t][k] = <<h, star[k]>>

\* A migration under way holds an in-order placement of its VM on its target.
Reservations ==
  \A m \in Migrations :
     /\ mig[m].stage = "unused" => mig[m] = Unused /\ loc[m] = Nowhere(Wanted(m))
     /\ mig[m].stage # "unused" =>
           mig[m].vm \in Vms /\ mig[m].target \in Hosts /\ hostOf[mig[m].vm] # Null
     /\ mig[m].stage = "moving" => InOrder(loc[m], mig[m].target, Demand[mig[m].vm])

\* Together with three of the properties.
IInv ==
  /\ TypeInv /\ BooksBalance /\ HomelessHoldNothing /\ Reservations
  /\ VmKeepsHome /\ VcoresFollowVm /\ AgentsMatchMigrations

\* Vms, hosts, migrations and tasks are different objects.
LEMMA Apart ==
  /\ \A v \in Vms : v \in Consumers /\ v \in Providers /\ v \notin Hosts
                    /\ v \notin Migrations /\ v \notin Tasks /\ v # Null
  /\ \A m \in Migrations : m \in Consumers /\ m \notin Vms /\ m \notin Tasks
  /\ \A k \in Tasks : k \in Consumers /\ k \notin Vms /\ k \notin Migrations
  /\ \A h \in Hosts : h \in Providers /\ h \notin Vms /\ h # Null
BY ObjectsAssumption DEF Consumers, Providers

\* The demand of a VM is a list of natural numbers for each resource.
LEMMA DemandType ==
  ASSUME NEW v \in Vms
  PROVE  Vectors(Demand[v])
<1>1. Demand[v] \in [Types -> Seq(Nat \ {0})]
  BY SizesAssumption
<1>2. ASSUME NEW t \in Types PROVE Demand[v][t] \in Seq(Nat)
  <2>1. Demand[v][t] \in Seq(Nat \ {0})
    BY <1>1
  <2> QED
    BY <2>1
<1> QED
  BY <1>2 DEF Vectors

\* What a consumer wants: a migration wants what its VM does.
LEMMA WantedType ==
  ASSUME TypeInv
  PROVE  /\ W = [c \in Consumers |-> W[c]]
         /\ \A c \in Consumers : W[c] = Wanted(c) /\ Vectors(Wanted(c))
         /\ \A v \in Vms : Wanted(v) = Demand[v]
         /\ \A m \in Migrations : mig[m].vm \in Vms => Wanted(m) = Demand[mig[m].vm]
<1>1. W = [c \in Consumers |-> W[c]] /\ \A c \in Consumers : W[c] = Wanted(c)
  BY DEF W
<1>2. \A v \in Vms : Wanted(v) = Demand[v]
  BY DEF Wanted
<1>3. \A m \in Migrations : mig[m].vm \in Vms => Wanted(m) = Demand[mig[m].vm]
  BY Apart DEF Wanted
<1>4. ASSUME NEW c \in Consumers PROVE Vectors(Wanted(c))
  <2>1. CASE c \in Vms
    BY <1>2, <2>1, DemandType
  <2>2. CASE c \in Migrations /\ mig[c].vm \in Vms
    BY <1>3, <2>2, DemandType
  <2>3. CASE c \in Migrations /\ mig[c].vm \notin Vms
    <3>1. mig[c].vm = Null
      BY <2>3 DEF TypeInv
    <3>2. Wanted(c) = [t \in Types |-> <<>>]
      BY <2>3, <3>1, Apart DEF Wanted
    <3> QED
      BY <3>2 DEF Vectors
  <2>4. CASE c \in Tasks
    <3>1. Wanted(c) = [t \in Types |-> IF t = Memory THEN <<TaskDemand[c]>> ELSE <<>>]
      BY <2>4, Apart DEF Wanted
    <3>2. TaskDemand[c] \in Nat
      BY <2>4, SizesAssumption
    <3>3. \A t \in Types : Wanted(c)[t] = <<TaskDemand[c]>> \/ Wanted(c)[t] = <<>>
      BY <3>1
    <3>4. <<TaskDemand[c]>> \in Seq(Nat) /\ <<>> \in Seq(Nat)
      BY <3>2
    <3> QED
      BY <3>3, <3>4 DEF Vectors
  <2> QED
    BY <2>1, <2>2, <2>3, <2>4 DEF Consumers
<1> QED
  BY <1>1, <1>2, <1>3, <1>4

\* What addVM does to the books, from those without the VM.
LEMMA AddedBooks ==
  ASSUME TypeInv, NEW f, NEW vc, NEW l, NEW on, NEW h \in Hosts, NEW v \in Vms,
         Books(f, [l EXCEPT ![v] = Nowhere(Demand[v])], W), DOMAIN l = Consumers,
         Added(f, vc, l, on, h, v)
  PROVE  Books(free', loc', W)
<1> DEFINE d == Demand[v]
           l0 == [l EXCEPT ![v] = Nowhere(d)]
<1>1. CASE TryToAllocate(f, h, Demand[v])
  <2>1. free' = Taken(f, h, d) /\ loc' = [l EXCEPT ![v] = Located(f, h, d)]
    BY <1>1 DEF Added
  <2>2. v \in Consumers /\ h \in Providers /\ Vectors(d) /\ W[v] = d
    BY Apart, DemandType, WantedType
  <2>3. l0[v] = Nowhere(W[v]) /\ [l0 EXCEPT ![v] = Located(f, h, d)] = loc'
    BY <2>1, <2>2
  <2>4. [W EXCEPT ![v] = d] = W
    BY <2>2, WantedType
  <2>5. Books(f, l0, W) /\ TryToAllocate(f, h, d)
    BY <1>1
  <2> HIDE DEF d, l0
  <2>6. Books(Taken(f, h, d), [l0 EXCEPT ![v] = Located(f, h, d)], [W EXCEPT ![v] = d])
    BY <2>2, <2>3, <2>5, TakenBooks
  <2> QED
    BY <2>1, <2>3, <2>4, <2>6
<1>2. CASE ~TryToAllocate(f, h, Demand[v])
  BY <1>2 DEF Added
<1> QED
  BY <1>1, <1>2

\* The vcores that pointers hc place on core i of h.
CoresAt(hc, h, i) ==
  {x \in UNION {{v} \X DOMAIN hc[v] : v \in Vms} : hc[x[1]][x[2]] = <<h, i>>}

OnCore(lc, v, h, i) == {<<v, k>> : k \in {k \in DOMAIN lc : lc[k] = <<h, i>>}}

\* The vcores on a core, taken apart by the VM they belong to.
LEMMA CoresAtParts ==
  ASSUME NEW hc, NEW h, NEW i, NEW x
  PROVE  x \in CoresAt(hc, h, i) <=> \E w \in Vms : x \in OnCore(hc[w], w, h, i)
<1>1. ASSUME NEW w \in Vms, x \in OnCore(hc[w], w, h, i) PROVE x \in CoresAt(hc, h, i)
  <2>1. PICK k \in DOMAIN hc[w] : x = <<w, k>> /\ hc[w][k] = <<h, i>>
    BY <1>1 DEF OnCore
  <2>2. x \in {w} \X DOMAIN hc[w] /\ x[1] = w /\ x[2] = k
    BY <2>1
  <2> QED
    BY <2>1, <2>2 DEF CoresAt
<1>2. ASSUME x \in CoresAt(hc, h, i) PROVE \E w \in Vms : x \in OnCore(hc[w], w, h, i)
  <2>1. PICK w \in Vms : x \in {w} \X DOMAIN hc[w]
    BY <1>2 DEF CoresAt
  <2>2. x = <<w, x[2]>> /\ x[1] = w /\ x[2] \in DOMAIN hc[w] /\ hc[x[1]][x[2]] = <<h, i>>
    BY <1>2, <2>1 DEF CoresAt
  <2>3. x \in OnCore(hc[w], w, h, i)
    BY <2>2 DEF OnCore
  <2> QED
    BY <2>3
<1> QED
  BY <1>1, <1>2

\* A vcore that gets a new pointer leaves its old core and joins the new one.
Relinked(hc, new, v, h, i) ==
  (CoresAt(hc, h, i) \ OnCore(hc[v], v, h, i)) \cup OnCore(new[v], v, h, i)

\* Relinking the vcores of one VM leaves those of the others on their cores.
LEMMA CoresAtChange ==
  ASSUME NEW hc, NEW new, NEW v \in Vms, \A w \in Vms : w # v => new[w] = hc[w], NEW h, NEW i
  PROVE  CoresAt(new, h, i) = Relinked(hc, new, v, h, i)
<1>1. ASSUME NEW lc, NEW w \in Vms, NEW x \in OnCore(lc, w, h, i) PROVE x[1] = w
  BY DEF OnCore
<1>2. ASSUME NEW x
      PROVE  x \in CoresAt(new, h, i) <=>
               \/ x \in CoresAt(hc, h, i) /\ x \notin OnCore(hc[v], v, h, i)
               \/ x \in OnCore(new[v], v, h, i)
  <2>1. CASE x[1] = v
    <3>1. x \in CoresAt(new, h, i) <=> x \in OnCore(new[v], v, h, i)
      BY <1>1, <2>1, CoresAtParts
    <3>2. x \in CoresAt(hc, h, i) <=> x \in OnCore(hc[v], v, h, i)
      BY <1>1, <2>1, CoresAtParts
    <3> QED
      BY <3>1, <3>2
  <2>2. CASE x[1] # v
    <3>1. x \in CoresAt(new, h, i) <=> x \in CoresAt(hc, h, i)
      BY <1>1, <2>2, CoresAtParts
    <3>2. x \notin OnCore(hc[v], v, h, i) /\ x \notin OnCore(new[v], v, h, i)
      BY <1>1, <2>2
    <3> QED
      BY <3>1, <3>2
  <2> QED
    BY <2>1, <2>2
<1> QED
  BY <1>2 DEF Relinked

\* VcoresFollowVm, by VM and by physical core.
LEMMA VcoresDef ==
  VcoresFollowVm <=>
     /\ \A v \in Vms : hostCore[v] = loc[v][Computing]
     /\ \A h \in Hosts : \A i \in DOMAIN vcores[h] : vcores[h][i] = CoresAt(hostCore, h, i)
BY DEF VcoresFollowVm, CoresAt

\* addVM links the vcores of the VM to the cores it was given.
LEMMA AddedCores ==
  ASSUME TypeInv, NEW f, NEW vc, NEW l, NEW on, NEW h \in Hosts, NEW v \in Vms,
         DOMAIN l = Consumers,
         \A w \in Vms : w # v => hostCore[w] = l[w][Computing],
         DOMAIN vc = Hosts, \A g \in Hosts : DOMAIN vc[g] = DOMAIN vcores[g],
         \A g \in Hosts : \A i \in DOMAIN vc[g] :
            vc[g][i] = CoresAt(hostCore, g, i) \ OnCore(hostCore[v], v, g, i),
         Added(f, vc, l, on, h, v)
  PROVE  VcoresFollowVm' /\ DOMAIN hostCore' = Vms /\ DOMAIN vcores' = Hosts
         /\ \A g \in Hosts : DOMAIN vcores'[g] = DOMAIN vcores[g]
<1>1. v \in Consumers /\ DOMAIN hostCore = Vms /\ \A w \in Vms : w \in Consumers
  BY Apart DEF TypeInv
<1>2. \A w \in Vms : w # v => hostCore'[w] = hostCore[w] /\ loc'[w] = l[w]
  BY <1>1 DEF Added
<1>3. Computing \in Types
  BY SizesAssumption
<1>4. CASE TryToAllocate(f, h, Demand[v])
  <2> DEFINE lc == Located(f, h, Demand[v])
  <2>1. /\ hostCore' = [hostCore EXCEPT ![v] = lc[Computing]]
        /\ loc' = [l EXCEPT ![v] = lc]
        /\ vcores' = AddVcores(vc, h, v, lc)
    BY <1>4 DEF Added
  <2>2. hostCore'[v] = lc[Computing] /\ loc'[v] = lc
    BY <1>1, <2>1
  <2>3. \A k \in DOMAIN lc[Computing] : \E i : lc[Computing][k] = <<h, i>>
    BY <1>3 DEF Located
  <2> HIDE DEF lc
  <2>4. /\ DOMAIN vcores' = Hosts
        /\ \A g \in Hosts : g # h => vcores'[g] = vc[g]
        /\ vcores'[h] = [i \in DOMAIN vc[h] |-> vc[h][i] \cup OnCore(lc[Computing], v, h, i)]
    BY <2>1 DEF AddVcores, OnCore
  <2>5. ASSUME NEW g \in Hosts, NEW i \in DOMAIN vcores'[g]
        PROVE  vcores'[g][i] = CoresAt(hostCore', g, i)
    <3>1. CoresAt(hostCore', g, i) =
            (CoresAt(hostCore, g, i) \ OnCore(hostCore[v], v, g, i)) \cup OnCore(lc[Computing], v, g, i)
      <4> DEFINE new == hostCore'
                 old == hostCore
      <4>1. (\A w \in Vms : w # v => new[w] = old[w]) /\ new[v] = lc[Computing]
        BY <1>2, <2>2
      <4> HIDE DEF new, old
      <4>2. CoresAt(new, g, i) = Relinked(old, new, v, g, i)
        BY ZenonT(60), <4>1, CoresAtChange
      <4>3. CoresAt(new, g, i) = (CoresAt(old, g, i) \ OnCore(old[v], v, g, i)) \cup OnCore(lc[Computing], v, g, i)
        BY <4>1, <4>2 DEF Relinked
      <4> QED
        BY <4>3 DEF new, old
    <3>2. CASE g = h
      <4>1. i \in DOMAIN vc[h]
        BY <2>4, <3>2
      <4> QED
        BY <2>4, <3>1, <3>2, <4>1
    <3>3. CASE g # h
      <4>1. OnCore(lc[Computing], v, g, i) = {}
        BY <2>3, <3>3 DEF OnCore
      <4> QED
        BY <2>4, <3>1, <3>3, <4>1
    <3> QED
      BY <3>2, <3>3
  <2>6. \A w \in Vms : hostCore'[w] = loc'[w][Computing]
    BY <1>2, <2>2
  <2>7. DOMAIN hostCore' = Vms
    BY <1>1, <2>1
  <2>8. \A g \in Hosts : DOMAIN vcores'[g] = DOMAIN vc[g]
    BY <2>4
  <2>9. VcoresFollowVm'
    BY <2>5, <2>6 DEF VcoresFollowVm, CoresAt
  <2> QED
    BY <2>4, <2>7, <2>8, <2>9
<1>5. CASE ~TryToAllocate(f, h, Demand[v])
  <2> DEFINE lc == Nowhere(Demand[v])
  <2>1. /\ hostCore' = [hostCore EXCEPT ![v] = lc[Computing]]
        /\ loc' = [l EXCEPT ![v] = lc]
        /\ vcores' = vc
    BY <1>5 DEF Added
  <2>2. hostCore'[v] = lc[Computing] /\ loc'[v] = lc
    BY <1>1, <2>1
  <2>3. \A k \in DOMAIN lc[Computing] : lc[Computing][k] = Null
    BY <1>3 DEF Nowhere
  <2> HIDE DEF lc
  <2>4. ASSUME NEW g \in Hosts, NEW i \in DOMAIN vcores'[g]
        PROVE  vcores'[g][i] = CoresAt(hostCore', g, i)
    <3>1. CoresAt(hostCore', g, i) =
            (CoresAt(hostCore, g, i) \ OnCore(hostCore[v], v, g, i)) \cup OnCore(lc[Computing], v, g, i)
      <4> DEFINE new == hostCore'
                 old == hostCore
      <4>1. (\A w \in Vms : w # v => new[w] = old[w]) /\ new[v] = lc[Computing]
        BY <1>2, <2>2
      <4> HIDE DEF new, old
      <4>2. CoresAt(new, g, i) = Relinked(old, new, v, g, i)
        BY <4>1, CoresAtChange
      <4>3. CoresAt(new, g, i) = (CoresAt(old, g, i) \ OnCore(old[v], v, g, i)) \cup OnCore(lc[Computing], v, g, i)
        BY <4>1, <4>2 DEF Relinked
      <4> QED
        BY <4>3 DEF new, old
    <3>2. i \in Nat
      <4>1. i \in DOMAIN HostCapacity[g][Computing] /\ HostCapacity[g][Computing] \in Seq(Nat)
        BY <1>3, <2>1, SizesAssumption DEF TypeInv
      <4> QED
        BY <4>1, LenProperties
    <3>3. OnCore(lc[Computing], v, g, i) = {}
      <4>1. Null # <<g, i>>
        BY <3>2, Apart, ObjectsAssumption
      <4> QED
        BY <2>3, <4>1 DEF OnCore
    <3> QED
      BY <2>1, <3>1, <3>3
  <2>5. \A w \in Vms : hostCore'[w] = loc'[w][Computing]
    BY <1>2, <2>2
  <2>6. DOMAIN hostCore' = Vms
    BY <1>1, <2>1
  <2>7. VcoresFollowVm'
    BY <2>4, <2>5 DEF VcoresFollowVm, CoresAt
  <2> QED
    BY <2>1, <2>6, <2>7
<1> QED
  BY <1>4, <1>5

-----------------------------------------------------------------------------
\* What was placed in order fits again where it was, if only others gave room
\* back since.
LEMMA KeepsRoom ==
  ASSUME NEW g, FreeOK(g), NEW lc, NEW d, Shaped(lc, d), NEW h \in Providers, InOrder(lc, h, d),
         \A t \in Types : \A i \in Units(h, t) : HeldBy(lc, d, h, t, i) <= g[h][t][i]
  PROVE  TryToAllocate(g, h, d)
<1> SUFFICES ASSUME NEW t \in Types PROVE Served(g, h, d, t)
  BY DEF TryToAllocate
<1> DEFINE n == Len(Capacity(h)[t])
           m == Len(d[t])
           units == g[h][t]
           e == d[t]
<1>1. n \in Nat /\ units \in [1..n -> Nat]
  BY CapacityType DEF FreeOK, Units
<1>2. m \in Nat /\ e \in [1..m -> Nat] /\ DOMAIN e = 1..m /\ DOMAIN lc[t] = 1..m
  BY LenProperties DEF Shaped, Vectors
<1>3. PICK star \in [DOMAIN e -> 1..n] :
         /\ \A j, k \in DOMAIN e : j < k => star[j] <= star[k]
         /\ \A k \in DOMAIN e : lc[t][k] = <<h, star[k]>>
  BY DEF InOrder, Units
<1>4. ASSUME NEW i \in 1..n PROVE SumFunctionOnSet(e, At(star, i)) <= units[i]
  <2>1. At(star, i) = {k \in DOMAIN lc[t] : lc[t][k] = <<h, i>>}
    BY <1>2, <1>3 DEF At
  <2>2. HeldBy(lc, d, h, t, i) = SumFunctionOnSet(e, At(star, i))
    BY <2>1 DEF HeldBy
  <2> QED
    BY <2>2 DEF Units
<1>5. DOMAIN units = 1..n
  BY <1>1
<1> HIDE DEF n, m, units, e
<1>6. Fit(units, e, star)
  BY <1>3, <1>4, <1>5 DEF Fit
<1>7. Len(NextFit(units, e).place) = m
  BY <1>1, <1>2, <1>6, FitIsFound
<1> QED
  BY <1>7 DEF Served, m, units, e

\* What the scan placed is an in-order placement on the provider.
LEMMA LocatedInOrder ==
  ASSUME NEW f, FreeOK(f), NEW h \in Providers, NEW d, Vectors(d), TryToAllocate(f, h, d)
  PROVE  InOrder(Located(f, h, d), h, d)
<1> SUFFICES ASSUME NEW t \in Types
             PROVE  \E star \in [DOMAIN d[t] -> Units(h, t)] :
                       /\ \A j, k \in DOMAIN d[t] : j < k => star[j] <= star[k]
                       /\ \A k \in DOMAIN d[t] : Located(f, h, d)[t][k] = <<h, star[k]>>
  BY DEF InOrder
<1> DEFINE star == NextFit(f[h][t], d[t]).place
<1>1. Fit(f[h][t], d[t], star)
  BY ServedPlaces
<1>2. DOMAIN f[h][t] = Units(h, t)
  BY DEF FreeOK
<1>3. \A k \in DOMAIN d[t] : Located(f, h, d)[t][k] = <<h, star[k]>>
  BY DEF Located
<1> HIDE DEF star
<1> QED
  BY <1>1, <1>2, <1>3 DEF Fit

\* A VM that is nowhere has no vcore on any core.
LEMMA NowhereOnNoCore ==
  ASSUME TypeInv, NEW v \in Vms, NEW g \in Hosts, NEW i \in DOMAIN vcores[g]
  PROVE  OnCore(Nowhere(Demand[v])[Computing], v, g, i) = {}
<1>1. Computing \in Types /\ i \in DOMAIN HostCapacity[g][Computing]
  BY SizesAssumption DEF TypeInv
<1>2. HostCapacity[g][Computing] \in Seq(Nat)
  BY <1>1, SizesAssumption
<1>3. Null # <<g, i>>
  BY <1>1, <1>2, LenProperties, Apart, ObjectsAssumption
<1> QED
  BY <1>1, <1>3 DEF OnCore, Nowhere

-----------------------------------------------------------------------------
\* The initial states satisfy the invariant.
LEMMA InitInv ==
  ASSUME Init
  PROVE  IInv
<1>1. TypeInv
  BY DEF Init, TypeInv, Unused
<1>2. \A c \in Consumers : loc[c] = Nowhere(Wanted(c))
  <2> SUFFICES ASSUME NEW c \in Consumers PROVE loc[c] = Nowhere(Wanted(c))
    OBVIOUS
  <2> DEFINE d == IF c \in Vms THEN Demand[c]
                  ELSE [t \in Types |-> IF c \in Tasks /\ t = Memory
                                        THEN <<TaskDemand[c]>> ELSE <<>>]
  <2>1. loc[c] = Nowhere(d)
    BY DEF Init
  <2>2. CASE c \in Vms
    BY <2>2 DEF Wanted, Init
  <2>3. CASE c \in Migrations
    <3>1. d = [t \in Types |-> <<>>]
      BY <2>3, Apart
    <3>2. Wanted(c) = [t \in Types |-> <<>>]
      BY <2>3, Apart DEF Wanted, Init, Unused
    <3> HIDE DEF d
    <3> QED
      BY <2>1, <3>1, <3>2
  <2>4. CASE c \in Tasks
    <3>1. d = [t \in Types |-> IF t = Memory THEN <<TaskDemand[c]>> ELSE <<>>]
      BY <2>4, Apart
    <3>2. Wanted(c) = [t \in Types |-> IF t = Memory THEN <<TaskDemand[c]>> ELSE <<>>]
      BY <2>4, Apart DEF Wanted
    <3> HIDE DEF d
    <3> QED
      BY <2>1, <3>1, <3>2
  <2> QED
    BY <2>2, <2>3, <2>4 DEF Consumers
<1>3. FreeOK(free)
  <2>1. DOMAIN free = Providers /\ \A p \in Providers : free[p] = Capacity(p)
    BY DEF Init, Capacity
  <2>2. ASSUME NEW p \in Providers, NEW t \in Types PROVE Capacity(p)[t] \in [Units(p, t) -> Nat]
    BY CapacityType, LenProperties DEF Units
  <2> QED
    BY <2>1, <2>2 DEF FreeOK
<1>4. BooksBalance
  <2>1. loc = [c \in Consumers |-> loc[c]]
    BY DEF Init
  <2>2. \A c \in Consumers : W[c] = Wanted(c) /\ Vectors(Wanted(c))
    BY <1>1, WantedType
  <2>3. \A c \in Consumers : Shaped(loc[c], W[c])
    BY <1>2, <2>2, NowhereHoldsNothing
  <2>4. ASSUME NEW p \in Providers, NEW t \in Types, NEW i \in Units(p, t)
        PROVE  free[p][t][i] + TotalHeld(loc, W, p, t, i) = Capacity(p)[t][i]
    <3> DEFINE held == [c \in Consumers |-> HeldBy(loc[c], W[c], p, t, i)]
    <3>1. \A c \in Consumers : held[c] = 0
      BY <1>2, <2>2, NowhereHoldsNothing
    <3>2. SumFunctionOnSet(held, Consumers) = 0
      <4> HIDE DEF held
      <4> QED
        BY <3>1, ObjectsAssumption, SumZero
    <3>3. TotalHeld(loc, W, p, t, i) = 0
      BY <3>2 DEF TotalHeld
    <3>4. free[p][t][i] = Capacity(p)[t][i] /\ Capacity(p)[t][i] \in Nat
      BY CapacityType DEF Init, Capacity
    <3> QED
      BY <3>3, <3>4
  <2>5. W = [c \in Consumers |-> W[c]]
    BY <1>1, WantedType
  <2> QED
    BY <1>3, <2>1, <2>3, <2>4, <2>5 DEF BooksBalance, Books
<1>5. \A v \in Vms : loc[v] = Nowhere(Demand[v])
  BY <1>1, <1>2, Apart, WantedType
<1>6. HomelessHoldNothing
  BY <1>5 DEF HomelessHoldNothing
<1>7. Reservations
  BY <1>2, Apart DEF Reservations, Init, Unused
<1>8. VmKeepsHome
  BY Apart DEF VmKeepsHome, Init, Unused
<1>9. VcoresFollowVm
  <2>1. ASSUME NEW v \in Vms PROVE hostCore[v] = Nowhere(Demand[v])[Computing]
    BY SizesAssumption DEF Init, Nowhere
  <2>2. ASSUME NEW h \in Hosts, NEW i \in DOMAIN vcores[h]
        PROVE  vcores[h][i] = CoresAt(hostCore, h, i)
    <3>1. vcores[h][i] = {}
      BY DEF Init
    <3>2. \A v \in Vms : OnCore(hostCore[v], v, h, i) = {}
      BY <1>1, <2>1, NowhereOnNoCore
    <3>3. \A x : x \notin CoresAt(hostCore, h, i)
      BY <3>2, CoresAtParts
    <3> QED
      BY <3>1, <3>3
  <2> QED
    BY <1>5, <2>1, <2>2, VcoresDef
<1>10. AgentsMatchMigrations
  BY DEF AgentsMatchMigrations, Init, Unused
<1> QED
  BY <1>1, <1>4, <1>6, <1>7, <1>8, <1>9, <1>10 DEF IInv

-----------------------------------------------------------------------------
\* A step that only moves the demands of tasks.
LEMMA GuestStep ==
  ASSUME IInv, UNCHANGED <<hostOf, hosted, hostCore, vcores, mig, sources, sinks>>,
         \A c \in Vms \cup Migrations : loc'[c] = loc[c], Books(free', loc', W)
  PROVE  IInv'
<1>1. W' = W
  BY DEF W, Wanted
<1>2. TypeInv'
  BY DEF IInv, TypeInv
<1>3. BooksBalance'
  BY <1>1 DEF BooksBalance
<1>4. HomelessHoldNothing'
  BY DEF IInv, HomelessHoldNothing
<1>5. Reservations'
  <2>1. \A m \in Migrations : Wanted(m)' = Wanted(m)
    BY DEF Wanted
  <2> QED
    BY <2>1 DEF IInv, Reservations
<1>6. VmKeepsHome' /\ AgentsMatchMigrations'
  BY DEF IInv, VmKeepsHome, AgentsMatchMigrations
<1>7. VcoresFollowVm'
  BY DEF IInv, VcoresFollowVm
<1> QED
  BY <1>2, <1>3, <1>4, <1>5, <1>6, <1>7 DEF IInv

\* Serving a task on a VM keeps the invariant.
LEMMA GuestInv ==
  ASSUME IInv, NEW k \in Tasks, NEW v \in Vms, Guest(k, v)
  PROVE  IInv'
<1> DEFINE d == Wanted(k)
<1>1. Books(free, loc, W) /\ W[k] = d /\ Vectors(d) /\ k \in Consumers /\ v \in Providers
  BY Apart, WantedType DEF IInv, BooksBalance
<1>2. loc[k] = Nowhere(W[k]) /\ TryToAllocate(free, v, d)
  BY <1>1 DEF Guest
<1>3. free' = Taken(free, v, d) /\ loc' = [loc EXCEPT ![k] = Located(free, v, d)]
  BY DEF Guest
<1>4. [W EXCEPT ![k] = d] = W
  BY <1>1, WantedType DEF IInv
<1> HIDE DEF d
<1>5. Books(Taken(free, v, d), [loc EXCEPT ![k] = Located(free, v, d)], [W EXCEPT ![k] = d])
  BY <1>1, <1>2, TakenBooks
<1>6. Books(free', loc', W)
  BY <1>3, <1>4, <1>5
<1>7. \A c \in Vms \cup Migrations : loc'[c] = loc[c]
  BY <1>3, Apart
<1> QED
  BY <1>6, <1>7, GuestStep DEF Guest

\* Releasing a task keeps the invariant.
LEMMA GuestLeavesInv ==
  ASSUME IInv, NEW k \in Tasks, GuestLeaves(k)
  PROVE  IInv'
<1>1. Books(free, loc, W) /\ W[k] = Wanted(k) /\ k \in Consumers
  BY Apart, WantedType DEF IInv, BooksBalance
<1>2. /\ free' = ReleaseAllocation(free, loc[k], W[k])
      /\ loc' = [loc EXCEPT ![k] = Nowhere(W[k])]
  BY <1>1 DEF GuestLeaves
<1>3. Books(free', loc', W)
  BY <1>1, <1>2, ReleasedBooks
<1>4. \A c \in Vms \cup Migrations : loc'[c] = loc[c]
  BY <1>2, Apart
<1> QED
  BY <1>3, <1>4, GuestStep DEF GuestLeaves

-----------------------------------------------------------------------------
\* Placing a VM keeps the invariant.
LEMMA AddVmInv ==
  ASSUME IInv, NEW v \in Vms, NEW h \in Hosts, AddVm(v, h)
  PROVE  IInv'
<1>1. /\ TypeInv /\ Books(free, loc, W) /\ loc = [c \in Consumers |-> loc[c]]
      /\ hostOf[v] = Null /\ loc[v] = Nowhere(Demand[v]) /\ hostCore[v] = loc[v][Computing]
  BY DEF IInv, BooksBalance, Books, AddVm, HomelessHoldNothing, VcoresFollowVm
<1>2. Added(free, vcores, loc, hosted, h, v) /\ UNCHANGED <<mig, sources, sinks>>
  BY DEF AddVm
<1>3. W' = W /\ \A m \in Migrations : Wanted(m)' = Wanted(m)
  BY <1>2 DEF W, Wanted
<1>4. BooksBalance'
  <2>1. [loc EXCEPT ![v] = Nowhere(Demand[v])] = loc
    BY <1>1
  <2>2. Books(free', loc', W)
    BY <1>1, <1>2, <2>1, AddedBooks
  <2> QED
    BY <1>3, <2>2 DEF BooksBalance
<1>5. /\ VcoresFollowVm' /\ DOMAIN hostCore' = Vms /\ DOMAIN vcores' = Hosts
      /\ \A g \in Hosts : DOMAIN vcores'[g] = DOMAIN vcores[g]
  <2>1. \A w \in Vms : hostCore[w] = loc[w][Computing]
    BY DEF IInv, VcoresFollowVm
  <2>2. ASSUME NEW g \in Hosts, NEW i \in DOMAIN vcores[g]
        PROVE  vcores[g][i] = CoresAt(hostCore, g, i) \ OnCore(hostCore[v], v, g, i)
    <3>1. vcores[g][i] = CoresAt(hostCore, g, i)
      BY VcoresDef DEF IInv
    <3>2. OnCore(hostCore[v], v, g, i) = {}
      BY <1>1, NowhereOnNoCore
    <3> QED
      BY <3>1, <3>2
  <2>3. DOMAIN vcores = Hosts /\ DOMAIN loc = Consumers
    BY <1>1 DEF TypeInv
  <2> QED
    BY <1>1, <1>2, <2>1, <2>2, <2>3, AddedCores
<1>6. /\ \A w \in Vms : w # v => hostOf'[w] = hostOf[w] /\ loc'[w] = loc[w]
      /\ \A m \in Migrations : loc'[m] = loc[m]
      /\ hostOf'[v] = Null => loc'[v] = Nowhere(Demand[v])
      /\ hostOf' \in [Vms -> Hosts \cup {Null}] /\ hosted' \in [Hosts -> SUBSET Vms]
      /\ \A g \in Hosts, w \in Vms : w \in hosted'[g] <=> hostOf'[w] = g
  <2>1. v \in Consumers /\ DOMAIN loc = Consumers /\ hostOf \in [Vms -> Hosts \cup {Null}]
        /\ hosted \in [Hosts -> SUBSET Vms]
        /\ \A g \in Hosts, w \in Vms : w \in hosted[g] <=> hostOf[w] = g
    BY <1>1, Apart DEF TypeInv, IInv, VmKeepsHome
  <2>2. CASE TryToAllocate(free, h, Demand[v])
    <3>1. /\ hostOf' = [hostOf EXCEPT ![v] = h] /\ hosted' = [hosted EXCEPT ![h] = @ \cup {v}]
          /\ \E x : loc' = [loc EXCEPT ![v] = x]
      BY <1>2, <2>2 DEF Added
    <3> QED
      BY <1>1, <2>1, <3>1, Apart
  <2>3. CASE ~TryToAllocate(free, h, Demand[v])
    <3>1. /\ hostOf' = [hostOf EXCEPT ![v] = Null] /\ hosted' = hosted
          /\ loc' = [loc EXCEPT ![v] = Nowhere(Demand[v])]
      BY <1>2, <2>3 DEF Added
    <3> QED
      BY <1>1, <2>1, <3>1, Apart
  <2> QED
    BY <2>2, <2>3
<1>7. TypeInv'
  BY <1>1, <1>2, <1>5, <1>6 DEF TypeInv
<1>8. HomelessHoldNothing'
  BY <1>6 DEF IInv, HomelessHoldNothing
<1>9. \A m \in Migrations : mig[m].stage # "unused" => mig[m].vm \in Vms /\ mig[m].vm # v
  BY <1>1 DEF IInv, Reservations
<1>10. Reservations'
  BY <1>2, <1>3, <1>6, <1>9 DEF IInv, Reservations
<1>11. VmKeepsHome'
  BY <1>2, <1>6, <1>9 DEF IInv, VmKeepsHome
<1>12. AgentsMatchMigrations'
  <2>1. \A m \in Migrations : mig[m].stage \in {"moving", "refused"}
           => hostOf'[mig[m].vm] = hostOf[mig[m].vm]
    BY <1>6, <1>9
  <2> QED
    BY <1>2, <2>1 DEF IInv, AgentsMatchMigrations
<1> QED
  BY <1>4, <1>5, <1>7, <1>8, <1>10, <1>11, <1>12 DEF IInv

-----------------------------------------------------------------------------
\* Starting a migration, or refusing it, keeps the invariant.
LEMMA MigrateVmInv ==
  ASSUME IInv, NEW m \in Migrations, NEW v \in Vms, NEW h \in Hosts, MigrateVm(m, v, h)
  PROVE  IInv'
<1> DEFINE d == Demand[v]
           ok == TryToAllocate(free, h, d)
<1>1. /\ TypeInv /\ Books(free, loc, W) /\ loc = [c \in Consumers |-> loc[c]]
      /\ mig[m].stage = "unused" /\ mig[m] = Unused /\ loc[m] = Nowhere(Wanted(m))
      /\ hostOf[v] # Null
  BY DEF IInv, BooksBalance, Books, MigrateVm, Reservations
<1>2. /\ sources' = [sources EXCEPT ![hostOf[v]] = @ \cup {m}]
      /\ sinks' = [sinks EXCEPT ![h] = @ \cup {m}]
      /\ mig' = [mig EXCEPT ![m] = [stage |-> IF ok THEN "moving" ELSE "refused",
                                    vm |-> v, target |-> h]]
      /\ free' = IF ok THEN Taken(free, h, d) ELSE free
      /\ loc' = [loc EXCEPT ![m] = IF ok THEN Located(free, h, d) ELSE Nowhere(d)]
      /\ UNCHANGED <<hostOf, hosted, hostCore, vcores>>
  BY DEF MigrateVm
<1>3. /\ m \in Consumers /\ h \in Providers /\ Vectors(d) /\ W[m] = Wanted(m)
      /\ hostOf[v] \in Hosts /\ v # Null
  BY <1>1, Apart, DemandType, WantedType DEF TypeInv
<1>4. /\ mig' \in [Migrations -> [stage : {"unused", "moving", "refused", "done"},
                                  vm : Vms \cup {Null}, target : Hosts \cup {Null}]]
      /\ mig'[m].vm = v /\ mig'[m].target = h
      /\ mig'[m].stage = IF ok THEN "moving" ELSE "refused"
      /\ \A o \in Migrations : o # m => mig'[o] = mig[o]
  <2> HIDE DEF ok, d
  <2> QED
    BY <1>1, <1>2 DEF TypeInv
<1>5. TypeInv'
  <2>1. sources' \in [Hosts -> SUBSET Migrations] /\ sinks' \in [Hosts -> SUBSET Migrations]
    BY <1>1, <1>2, <1>3 DEF TypeInv
  <2> QED
    BY <1>1, <1>2, <1>4, <2>1 DEF TypeInv
<1>6. W' = [W EXCEPT ![m] = d]
  <2>1. W' = [c \in Consumers |-> Wanted(c)']
    BY DEF W
  <2>2. Wanted(m)' = d
    BY <1>3, <1>4, Apart DEF Wanted
  <2>3. \A c \in Consumers : c # m => Wanted(c)' = Wanted(c)
    BY <1>4 DEF Wanted
  <2>4. W = [c \in Consumers |-> Wanted(c)]
    BY DEF W
  <2> HIDE DEF d
  <2> QED
    BY <1>3, <2>1, <2>2, <2>3, <2>4
<1>7. Books(free', loc', [W EXCEPT ![m] = d])
  <2>1. CASE ok
    <3>1. Books(Taken(free, h, d), [loc EXCEPT ![m] = Located(free, h, d)], [W EXCEPT ![m] = d])
      <4>1. loc[m] = Nowhere(W[m]) /\ TryToAllocate(free, h, d)
        BY <1>1, <1>3, <2>1
      <4> HIDE DEF d, ok
      <4> QED
        BY <1>1, <1>3, <4>1, TakenBooks
    <3> QED
      BY <1>2, <2>1, <3>1
  <2>2. CASE ~ok
    <3>1. FreeOK(free) /\ Vectors(W[m])
      BY <1>1, <1>3 DEF Books, Shaped
    <3>2. Shaped(Nowhere(d), d) /\ loc[m] = Nowhere(W[m])
      BY <1>1, <1>3, NowhereHoldsNothing
    <3>3. \A p \in Providers, t \in Types : \A i \in Units(p, t) :
             free[p][t][i] + HeldBy(Nowhere(d), d, p, t, i)
               = free[p][t][i] + HeldBy(loc[m], W[m], p, t, i)
      BY <1>3, <3>1, <3>2, NowhereHoldsNothing
    <3>4. Books(free, [loc EXCEPT ![m] = Nowhere(d)], [W EXCEPT ![m] = d])
      <4> DEFINE none == Nowhere(d)
      <4> HIDE DEF none, d
      <4> QED
        BY <1>1, <1>3, <3>1, <3>2, <3>3, BooksChange DEF none
    <3> QED
      BY <1>2, <2>2, <3>4
  <2> QED
    BY <2>1, <2>2
<1>8. BooksBalance'
  BY <1>6, <1>7 DEF BooksBalance
<1>9. \A c \in Consumers : c # m => loc'[c] = loc[c]
  BY <1>1, <1>2
<1>10. HomelessHoldNothing'
  BY <1>2, <1>9, Apart DEF IInv, HomelessHoldNothing
<1>11. VmKeepsHome'
  BY <1>1, <1>2, <1>4 DEF IInv, VmKeepsHome
<1>12. VcoresFollowVm'
  <2>1. \A w \in Vms : loc'[w] = loc[w]
    BY <1>9, Apart
  <2> QED
    BY <1>2, <2>1 DEF IInv, VcoresFollowVm
<1>13. Reservations'
  <2> SUFFICES ASSUME NEW o \in Migrations
               PROVE /\ mig'[o].stage = "unused" => mig'[o] = Unused /\ loc'[o] = Nowhere(Wanted(o)')
                     /\ mig'[o].stage # "unused" =>
                           mig'[o].vm \in Vms /\ mig'[o].target \in Hosts /\ hostOf'[mig'[o].vm] # Null
                     /\ mig'[o].stage = "moving" => InOrder(loc'[o], mig'[o].target, Demand[mig'[o].vm])
    BY DEF Reservations, Unused, Nowhere, InOrder
  <2>1. CASE o # m
    <3>1. mig'[o] = mig[o] /\ loc'[o] = loc[o] /\ Wanted(o)' = Wanted(o) /\ hostOf' = hostOf
      BY <1>2, <1>4, <1>9, <2>1, Apart DEF Wanted
    <3> QED
      BY <3>1 DEF IInv, Reservations
  <2>2. CASE o = m
    <3>1. ok => InOrder(loc'[m], h, d)
      <4>1. FreeOK(free)
        BY <1>1 DEF Books
      <4>2. ok => loc'[m] = Located(free, h, d)
        BY <1>1, <1>2, <1>3
      <4> QED
        BY <1>3, <4>1, <4>2, LocatedInOrder
    <3> QED
      BY <1>1, <1>2, <1>4, <2>2, <3>1
  <2> QED
    BY <2>1, <2>2
<1>14. AgentsMatchMigrations'
  <2> SUFFICES ASSUME NEW o \in Migrations,
                      \A n \in Migrations \ {o} : mig'[n].vm # mig'[o].vm \/ mig'[n].vm = Null
               PROVE  IF mig'[o].stage \in {"moving", "refused"}
                      THEN /\ {g \in Hosts : o \in sources'[g]} = {hostOf'[mig'[o].vm]}
                           /\ {g \in Hosts : o \in sinks'[g]} = {mig'[o].target}
                      ELSE {g \in Hosts : o \in sources'[g]} = {} /\ {g \in Hosts : o \in sinks'[g]} = {}
    BY DEF AgentsMatchMigrations
  <2>1. \A g \in Hosts : o # m => (o \in sources'[g] <=> o \in sources[g]) /\ (o \in sinks'[g] <=> o \in sinks[g])
    BY <1>1, <1>2, <1>3 DEF TypeInv
  <2>2. CASE o # m
    <3>1. \A n \in Migrations \ {o} : mig[n].vm # mig[o].vm \/ mig[n].vm = Null
      BY <1>1, <1>4, <2>2 DEF Unused
    <3> QED
      BY <1>2, <1>4, <2>1, <2>2, <3>1 DEF IInv, AgentsMatchMigrations
  <2>3. CASE o = m
    <3>1. {g \in Hosts : m \in sources[g]} = {} /\ {g \in Hosts : m \in sinks[g]} = {}
      BY <1>1 DEF IInv, AgentsMatchMigrations, Unused
    <3>2. /\ {g \in Hosts : m \in sources'[g]} = {hostOf[v]}
          /\ {g \in Hosts : m \in sinks'[g]} = {h}
      BY <1>1, <1>2, <1>3, <3>1 DEF TypeInv
    <3>3. mig'[m].stage \in {"moving", "refused"}
      BY <1>4
    <3> QED
      BY <1>2, <1>4, <2>3, <3>2, <3>3
  <2> QED
    BY <2>2, <2>3
<1> QED
  BY <1>5, <1>8, <1>10, <1>11, <1>12, <1>13, <1>14 DEF IInv

-----------------------------------------------------------------------------
\* Ending a migration keeps the invariant: the VM fits where its room was reserved.
LEMMA FinalizeInv ==
  ASSUME IInv, NEW m \in Migrations, Finalize(m)
  PROVE  IInv'
<1> DEFINE v == mig[m].vm
           h == mig[m].target
           d == Demand[v]
           f1 == Released(m)
           l1 == Forgotten(m)
           f2 == ReleaseAllocation(f1, loc[v], d)
           vc == RemoveVcores(vcores, v)
           on == [hosted EXCEPT ![hostOf[v]] = @ \ {v}]
<1>1. /\ mig[m].stage = "moving"
      /\ sources' = [sources EXCEPT ![hostOf[v]] = @ \ {m}]
      /\ sinks' = [sinks EXCEPT ![h] = @ \ {m}]
      /\ mig' = [mig EXCEPT ![m].stage = "done"]
      /\ Added(ReleaseAllocation(f1, loc[v], Demand[v]), vc, l1, on, h, v)
  BY DEF Finalize, Moved
<1>2. /\ TypeInv /\ Books(free, loc, W) /\ loc = [c \in Consumers |-> loc[c]]
      /\ v \in Vms /\ h \in Hosts /\ hostOf[v] # Null /\ hostOf[v] \in Hosts
      /\ InOrder(loc[m], h, d)
  BY ZenonT(60), <1>1 DEF IInv, BooksBalance, Books, Reservations, TypeInv
<1>3. /\ m \in Consumers /\ v \in Consumers /\ v # m /\ h \in Providers
      /\ W[m] = d /\ Wanted(m) = d /\ W[v] = d /\ Vectors(d) /\ v # Null
  BY <1>2, Apart, WantedType, DemandType
<1>4. f1 = ReleaseAllocation(free, loc[m], d) /\ l1 = [loc EXCEPT ![m] = Nowhere(d)]
  BY <1>3 DEF Released, Forgotten
<1>5. mig' \in [Migrations -> [stage : {"unused", "moving", "refused", "done"},
                               vm : Vms \cup {Null}, target : Hosts \cup {Null}]]
      /\ mig'[m].stage = "done" /\ mig'[m].vm = v /\ mig'[m].target = h
      /\ \A o \in Migrations : o # m => mig'[o] = mig[o]
  <2>1. /\ \A o \in Migrations : o # m => mig'[o] = mig[o]
        /\ mig'[m] = [mig[m] EXCEPT !.stage = "done"]
        /\ mig' = [o \in Migrations |-> mig'[o]]
    BY <1>1, <1>2 DEF TypeInv
  <2>2. \A o \in Migrations : mig[o] \in [stage : {"unused", "moving", "refused", "done"},
                                         vm : Vms \cup {Null}, target : Hosts \cup {Null}]
    BY <1>2 DEF TypeInv
  <2>3. mig'[m].stage = "done" /\ mig'[m].vm = v /\ mig'[m].target = h
        /\ mig'[m] \in [stage : {"unused", "moving", "refused", "done"},
                        vm : Vms \cup {Null}, target : Hosts \cup {Null}]
    BY <2>1, <2>2
  <2> HIDE DEF v, h
  <2> QED
    BY <2>1, <2>2, <2>3
<1> HIDE DEF v, h, d, f1, l1, f2, vc, on
<1>6. Books(f1, l1, W)
  BY <1>2, <1>3, <1>4, ReleasedBooks
<1>7. l1 = [c \in Consumers |-> l1[c]] /\ l1[v] = loc[v] /\ l1[m] = Nowhere(d)
      /\ \A c \in Consumers : c # m => l1[c] = loc[c]
  BY <1>2, <1>3, <1>4
<1>8. f2 = ReleaseAllocation(f1, loc[v], d)
  BY DEF f2
<1>9. Books(f2, [l1 EXCEPT ![v] = Nowhere(d)], W)
  BY <1>3, <1>6, <1>7, <1>8, ReleasedBooks
<1>10. TryToAllocate(f2, h, d)
  <2>1. FreeOK(free) /\ Shaped(loc[m], d) /\ FreeOK(f1) /\ Shaped(loc[v], d) /\ FreeOK(f2)
    BY <1>2, <1>3, <1>6, <1>9 DEF Books
  <2>2. ASSUME NEW t \in Types, NEW i \in Units(h, t)
        PROVE  HeldBy(loc[m], d, h, t, i) <= f2[h][t][i]
    <3>1. f1[h][t][i] = free[h][t][i] + HeldBy(loc[m], d, h, t, i)
      BY <1>3, <1>4, <2>1, ReleaseType
    <3>2. f2[h][t][i] = f1[h][t][i] + HeldBy(loc[v], d, h, t, i)
      BY <1>3, <1>8, <2>1, ReleaseType
    <3>3. free[h][t][i] \in Nat /\ HeldBy(loc[m], d, h, t, i) \in Nat /\ HeldBy(loc[v], d, h, t, i) \in Nat
      BY <1>3, <2>1, HeldNat DEF FreeOK
    <3> QED
      BY <3>1, <3>2, <3>3
  <2> QED
    BY <1>2, <1>3, <2>1, <2>2, KeepsRoom
<1>11. Added(f2, vc, l1, on, h, v)
  BY <1>1, <1>8 DEF d
<1>12. /\ hostOf' = [hostOf EXCEPT ![v] = h] /\ hosted' = [on EXCEPT ![h] = @ \cup {v}]
       /\ \E x : loc' = [l1 EXCEPT ![v] = x]
  BY <1>10, <1>11 DEF Added, d
<1>13. W' = W /\ \A c \in Consumers : Wanted(c)' = Wanted(c)
  <2>1. \A o \in Migrations : mig'[o].vm = mig[o].vm
    BY <1>5 DEF v
  <2>2. \A c \in Consumers : Wanted(c)' = Wanted(c)
    BY <2>1 DEF Wanted
  <2> QED
    BY <2>2 DEF W
<1>14. BooksBalance'
  <2>1. Books(f2, [l1 EXCEPT ![v] = Nowhere(Demand[v])], W) /\ DOMAIN l1 = Consumers
    BY <1>7, <1>9 DEF d
  <2>2. Books(free', loc', W)
    BY <1>2, <1>11, <2>1, AddedBooks
  <2> QED
    BY <1>13, <2>2 DEF BooksBalance
<1>15. /\ VcoresFollowVm' /\ DOMAIN hostCore' = Vms /\ DOMAIN vcores' = Hosts
       /\ \A g \in Hosts : DOMAIN vcores'[g] = DOMAIN vcores[g]
  <2>1. \A w \in Vms : w # v => hostCore[w] = l1[w][Computing]
    BY <1>7, Apart DEF IInv, VcoresFollowVm
  <2>2. /\ DOMAIN vc = Hosts /\ DOMAIN l1 = Consumers
        /\ \A g \in Hosts : vc[g] = [i \in DOMAIN vcores[g] |-> vcores[g][i] \ OnCore(hostCore[v], v, g, i)]
    BY <1>7 DEF vc, RemoveVcores, OnCore
  <2>3. \A g \in Hosts : DOMAIN vc[g] = DOMAIN vcores[g]
    BY <2>2
  <2>4. ASSUME NEW g \in Hosts, NEW i \in DOMAIN vc[g]
        PROVE  vc[g][i] = CoresAt(hostCore, g, i) \ OnCore(hostCore[v], v, g, i)
    <3>1. vcores[g][i] = CoresAt(hostCore, g, i)
      BY <2>3, VcoresDef DEF IInv
    <3> QED
      BY <2>2, <3>1
  <2> QED
    BY <1>2, <1>11, <2>1, <2>2, <2>3, <2>4, AddedCores
<1>16. /\ \A w \in Vms : w # v => hostOf'[w] = hostOf[w] /\ loc'[w] = loc[w]
       /\ \A o \in Migrations : o # m => loc'[o] = loc[o]
       /\ hostOf'[v] = h
       /\ hostOf' \in [Vms -> Hosts \cup {Null}] /\ hosted' \in [Hosts -> SUBSET Vms]
       /\ \A g \in Hosts, w \in Vms : w \in hosted'[g] <=> hostOf'[w] = g
  <2>1. /\ hostOf \in [Vms -> Hosts \cup {Null}] /\ hosted \in [Hosts -> SUBSET Vms]
        /\ \A g \in Hosts, w \in Vms : w \in hosted[g] <=> hostOf[w] = g
    BY <1>2 DEF TypeInv, IInv, VmKeepsHome
  <2>2. on = [hosted EXCEPT ![hostOf[v]] = @ \ {v}]
    BY DEF on
  <2> QED
    BY <1>2, <1>3, <1>7, <1>12, <2>1, <2>2, Apart
<1>17. /\ sources' \in [Hosts -> SUBSET Migrations] /\ sinks' \in [Hosts -> SUBSET Migrations]
       /\ \A g \in Hosts, o \in Migrations :
             o # m => (o \in sources'[g] <=> o \in sources[g]) /\ (o \in sinks'[g] <=> o \in sinks[g])
       /\ \A g \in Hosts : (m \in sources'[g] <=> m \in sources[g] /\ g # hostOf[v])
                           /\ (m \in sinks'[g] <=> m \in sinks[g] /\ g # h)
  BY <1>1, <1>2 DEF TypeInv, v, h
<1>18. TypeInv'
  BY <1>2, <1>5, <1>15, <1>16, <1>17 DEF TypeInv
<1>19. HomelessHoldNothing'
  BY <1>2, <1>16, Apart DEF IInv, HomelessHoldNothing
<1>20. \A w \in Vms : hostOf[w] # Null => hostOf'[w] # Null
  BY <1>2, <1>16, Apart
<1>21. Reservations'
  <2> SUFFICES ASSUME NEW o \in Migrations
               PROVE /\ mig'[o].stage = "unused" => mig'[o] = Unused /\ loc'[o] = Nowhere(Wanted(o)')
                     /\ mig'[o].stage # "unused" =>
                           mig'[o].vm \in Vms /\ mig'[o].target \in Hosts /\ hostOf'[mig'[o].vm] # Null
                     /\ mig'[o].stage = "moving" => InOrder(loc'[o], mig'[o].target, Demand[mig'[o].vm])
    BY DEF Reservations, Unused, Nowhere, InOrder
  <2>1. CASE o # m
    <3>1. mig'[o] = mig[o] /\ loc'[o] = loc[o] /\ Wanted(o)' = Wanted(o)
      BY <1>5, <1>13, <1>16, <2>1, Apart
    <3> QED
      BY <1>20, <3>1 DEF IInv, Reservations
  <2>2. CASE o = m
    BY <1>2, <1>5, <1>20, <2>2
  <2> QED
    BY <2>1, <2>2
<1>22. VmKeepsHome'
  <2>1. \A o \in Migrations : mig'[o].stage # "unused" => hostOf'[mig'[o].vm] # Null
    BY <1>21 DEF Reservations
  <2> QED
    BY <1>16, <2>1 DEF VmKeepsHome
<1>23. AgentsMatchMigrations'
  <2> SUFFICES ASSUME NEW o \in Migrations,
                      \A n \in Migrations \ {o} : mig'[n].vm # mig'[o].vm \/ mig'[n].vm = Null
               PROVE  IF mig'[o].stage \in {"moving", "refused"}
                      THEN /\ {g \in Hosts : o \in sources'[g]} = {hostOf'[mig'[o].vm]}
                           /\ {g \in Hosts : o \in sinks'[g]} = {mig'[o].target}
                      ELSE {g \in Hosts : o \in sources'[g]} = {} /\ {g \in Hosts : o \in sinks'[g]} = {}
    BY DEF AgentsMatchMigrations
  <2>1. \A n \in Migrations : mig'[n].vm = mig[n].vm
    BY <1>5 DEF v
  <2>2. IF mig[o].stage \in {"moving", "refused"}
        THEN /\ {g \in Hosts : o \in sources[g]} = {hostOf[mig[o].vm]}
             /\ {g \in Hosts : o \in sinks[g]} = {mig[o].target}
        ELSE {g \in Hosts : o \in sources[g]} = {} /\ {g \in Hosts : o \in sinks[g]} = {}
    BY <2>1 DEF IInv, AgentsMatchMigrations
  <2>3. CASE o # m
    <3>1. mig'[o] = mig[o] /\ mig[o].vm # v
      BY <1>3, <1>5, <2>1, <2>3
    <3>2. mig[o].stage \in {"moving", "refused"} => hostOf'[mig[o].vm] = hostOf[mig[o].vm]
      BY <1>16, <3>1 DEF IInv, Reservations
    <3> QED
      BY <1>17, <2>2, <2>3, <3>1, <3>2
  <2>4. CASE o = m
    <3>1. {g \in Hosts : m \in sources[g]} = {hostOf[v]} /\ {g \in Hosts : m \in sinks[g]} = {h}
      BY <1>1, <2>2, <2>4 DEF v, h
    <3>2. {g \in Hosts : m \in sources'[g]} = {} /\ {g \in Hosts : m \in sinks'[g]} = {}
      BY <1>17, <3>1
    <3> QED
      BY <1>5, <2>4, <3>2
  <2> QED
    BY <2>3, <2>4
<1> QED
  BY <1>14, <1>15, <1>18, <1>19, <1>21, <1>22, <1>23 DEF IInv

-----------------------------------------------------------------------------
\* The invariant holds in every reachable state: the books of capacity balance,
\* a VM without a host holds nothing, a migration under way holds an in-order
\* placement on its target, and the links between objects agree.
THEOREM PlacementInvariant == Spec => []IInv
<1>1. IInv /\ [Next]_vars => IInv'
  <2> SUFFICES ASSUME IInv, [Next]_vars PROVE IInv'
    OBVIOUS
  <2>1. CASE \E v \in Vms, h \in Hosts : AddVm(v, h)
    BY <2>1, AddVmInv
  <2>2. CASE \E k \in Tasks, v \in Vms : Guest(k, v)
    BY <2>2, GuestInv
  <2>3. CASE \E k \in Tasks : GuestLeaves(k)
    BY <2>3, GuestLeavesInv
  <2>4. CASE \E m \in Migrations, v \in Vms, h \in Hosts : MigrateVm(m, v, h)
    BY <2>4, MigrateVmInv
  <2>5. CASE \E m \in Migrations : Finalize(m)
    BY <2>5, FinalizeInv
  <2>6. CASE UNCHANGED vars
    <3>1. /\ UNCHANGED <<hostOf, hosted, hostCore, vcores, mig, sources, sinks>>
          /\ free' = free /\ loc' = loc
      BY <2>6 DEF vars, placement
    <3>2. Books(free', loc', W) /\ \A c \in Vms \cup Migrations : loc'[c] = loc[c]
      BY <3>1 DEF IInv, BooksBalance
    <3> QED
      BY <3>1, <3>2, GuestStep
  <2> QED
    BY <2>1, <2>2, <2>3, <2>4, <2>5, <2>6 DEF Next
<1> QED
  BY <1>1, InitInv, PTL DEF Spec

\* Whatever the order of placements, refusals, releases and overlapping
\* migrations, what is free and what is held at a unit add up to its capacity
\* and no unit is overdrawn.
THEOREM CapacityIsConserved == Spec => []CapacityConserved
<1>1. IInv => CapacityConserved
  <2> SUFFICES ASSUME IInv, NEW p \in Providers, NEW t \in Types, NEW i \in DOMAIN free[p][t]
               PROVE  /\ free[p][t][i] \in Nat
                      /\ free[p][t][i] + SumFunctionOnSet([c \in Consumers |-> Held(c, p, t, i)], Consumers)
                           = Capacity(p)[t][i]
    BY DEF CapacityConserved
  <2>1. Books(free, loc, W) /\ \A c \in Consumers : W[c] = Wanted(c)
    BY WantedType DEF IInv, BooksBalance
  <2>2. free[p][t] \in [Units(p, t) -> Nat]
    BY <2>1 DEF Books, FreeOK
  <2>3. i \in Units(p, t) /\ free[p][t][i] \in Nat
    BY <2>2
  <2>4. \A c \in Consumers : Held(c, p, t, i) = HeldBy(loc[c], W[c], p, t, i)
    BY <2>1 DEF Held, HeldBy
  <2>5. [c \in Consumers |-> Held(c, p, t, i)] = [c \in Consumers |-> HeldBy(loc[c], W[c], p, t, i)]
    BY <2>4
  <2>6. free[p][t][i] + TotalHeld(loc, W, p, t, i) = Capacity(p)[t][i]
    BY <2>1, <2>3 DEF Books
  <2> QED
    BY <2>3, <2>5, <2>6 DEF TotalHeld
<1> QED
  BY <1>1, PlacementInvariant, PTL

\* A VM that was placed is on a host for ever after: the addVM of a migration's
\* end never fails, because the room its reservation gave back is still there.
THEOREM PlacedVmsStayPlaced == Spec => []VmKeepsHome
BY PlacementInvariant, PTL DEF IInv

\* The lists of the physical cores and the pointers of the vcores agree through
\* every migration.
THEOREM VcoresFollowTheirVm == Spec => []VcoresFollowVm
BY PlacementInvariant, PTL DEF IInv

\* The agents of a VM's only migration are those of its stage, on the VM's host
\* and on the target.
THEOREM AgentsFollowTheirMigration == Spec => []AgentsMatchMigrations
BY PlacementInvariant, PTL DEF IInv

\* tryToAllocate's single pass serves a VM if and only if some in-order
\* placement does.
THEOREM NextFitIsComplete == Spec => []NextFitMissesNothing
<1>1. IInv => NextFitMissesNothing
  <2> SUFFICES ASSUME IInv, NEW h \in Hosts, NEW v \in Vms, NEW t \in Types
               PROVE  Served(free, h, Demand[v], t) <=> OrderedFit(free[h][t], Demand[v][t])
    BY DEF NextFitMissesNothing
  <2> DEFINE units == free[h][t]
             d == Demand[v][t]
             n == Len(Capacity(h)[t])
             m == Len(d)
  <2>1. h \in Providers
    BY Apart
  <2>2. n \in Nat /\ units \in [1..n -> Nat]
    BY <2>1, CapacityType DEF IInv, BooksBalance, Books, FreeOK, Units
  <2>3. m \in Nat /\ d \in [1..m -> Nat]
    BY DemandType, LenProperties DEF Vectors
  <2>4. Len(NextFit(units, d).place) = m <=> OrderedFit(units, d)
    <3> HIDE DEF units, d, n, m
    <3> QED
      BY <2>2, <2>3, FitIffServed
  <2> QED
    BY <2>4 DEF Served
<1> QED
  BY <1>1, PlacementInvariant, PTL
===============================================================================
