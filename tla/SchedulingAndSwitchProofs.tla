---------------------- MODULE SchedulingAndSwitchProofs ----------------------
(***************************************************************************)
(* What the schedulers that score or draw return, for any number of        *)
(* providers, any scores and ties, and any RAND_MAX; and after it the      *)
(* account of a switch, which is exact for any power figures, delay,       *)
(* number of slots and length of the simulation, and its sleep timer.  The *)
(* two components share nothing: DcScheduling is about decisions, and its  *)
(* specification is DecisionSpec; Spec is that of SwitchEnergy.            *)
(***************************************************************************)
EXTENDS DcSchedulingProperties, SwitchEnergyProperties, FiniteSums

\* The nonlinear arithmetic of the draws.
LEMMA Arithmetic ==
  /\ \A r, b \in Nat, n \in Nat \ {0} : r < b => r * n < b * n
  /\ \A a, n \in Nat, b \in Nat \ {0} : a < b * n => a \div b \in Nat /\ a \div b + 1 <= n
  /\ \A a, b, n \in Nat : a <= b => a * n <= b * n
  /\ \A a, b \in Nat : a * b = b * a /\ a * b \in Nat
<1>1. \A r, b \in Nat, n \in Nat \ {0} : r < b => r * n < b * n
  OBVIOUS
<1>2. \A a, n \in Nat, b \in Nat \ {0} : a < b * n => a \div b \in Nat /\ a \div b + 1 <= n
  OBVIOUS
<1>3. \A a, b, n \in Nat : a <= b => a * n <= b * n
  OBVIOUS
<1>4. \A a, b \in Nat : a * b = b * a /\ a * b \in Nat
  OBVIOUS
<1> QED
  BY <1>1, <1>2, <1>3, <1>4

\* A function of natural numbers has a largest value on a finite set.
LEMMA Greatest ==
  ASSUME NEW S, IsFiniteSet(S), S # {}, NEW f, \A x \in S : f[x] \in Nat
  PROVE  \E x \in S : \A y \in S : f[y] <= f[x]
<1> DEFINE b == SumFunctionOnSet(f, S)
           T == {b - f[x] : x \in S}
<1>1. b \in Nat /\ \A x \in S : f[x] <= b
  BY SumNat
<1> HIDE DEF b
<1>2. T \subseteq Nat /\ T # {}
  BY <1>1
<1>3. PICK n \in T : \A m \in T : n <= m
  <2> HIDE DEF T
  <2> QED
    BY <1>2, Least
<1>4. PICK x \in S : n = b - f[x]
  OBVIOUS
<1>5. \A y \in S : f[y] <= f[x]
  <2> TAKE y \in S
  <2>1. b - f[x] <= b - f[y]
    BY <1>3, <1>4
  <2> QED
    BY <1>1, <2>1
<1> QED
  BY <1>5

-----------------------------------------------------------------------------
\* What the schedulers see.
TypeInv ==
  /\ offers \in [Providers -> Offer] /\ rnd \in 0..RandMax
  /\ kind \in {"none", "best", "heros", "probabilistic"}

\* Finitely many providers answer.
LEMMA CandidatesFinite ==
  ASSUME NEW o, NEW S, S \subseteq Candidates(o)
  PROVE  IsFiniteSet(S) /\ IsFiniteSet(Candidates(o))
<1>1. IsFiniteSet(Providers)
  BY SchedulingAssumption, FS_Interval DEF Providers
<1>2. Candidates(o) \subseteq Providers
  BY DEF Candidates
<1> QED
  BY <1>1, <1>2, FS_Subset

\* Scores and ties are natural numbers.
LEMMA OfferType ==
  ASSUME NEW o \in [Providers -> Offer], NEW p \in Providers
  PROVE  o[p].score \in Nat /\ o[p].tie \in Nat
<1>1. o[p].score \in Scores /\ o[p].tie \in Ties
  BY DEF Offer
<1> QED
  BY <1>1, SchedulingAssumption

\* The comparison of HEROS orders the candidates by score and then by tie: one
\* that is not beaten exists, and it beats all that are.
LEMMA SomeUnbeaten ==
  ASSUME NEW o \in [Providers -> Offer], Candidates(o) # {}
  PROVE  Unbeaten(o) # {}
<1> DEFINE C == Candidates(o)
           score == [p \in Providers |-> o[p].score]
           tie == [p \in Providers |-> o[p].tie]
<1>1. C \subseteq Providers /\ IsFiniteSet(C)
  <2>1. C \subseteq Providers
    BY DEF Candidates
  <2> QED
    BY <2>1, CandidatesFinite
<1>2. \A p \in C : score[p] \in Nat /\ tie[p] \in Nat /\ score[p] = o[p].score /\ tie[p] = o[p].tie
  BY <1>1, OfferType
<1> HIDE DEF C, score, tie
<1>3. PICK s \in C : \A q \in C : score[q] <= score[s]
  BY <1>1, <1>2, Greatest DEF C
<1> DEFINE B == {p \in C : score[p] = score[s]}
<1>4. B \subseteq C /\ B # {} /\ IsFiniteSet(B)
  BY <1>1, FS_Subset
<1>5. PICK p \in B : \A q \in B : tie[q] <= tie[p]
  <2> HIDE DEF B
  <2> QED
    BY <1>2, <1>4, Greatest
<1>6. \A q \in C : ~HerosLess(o, p, q)
  <2> TAKE q \in C
  <2>1. score[q] <= score[p] /\ (score[q] = score[p] => tie[q] <= tie[p])
    BY <1>3, <1>5
  <2> QED
    BY <1>2, <2>1 DEF HerosLess
<1> QED
  BY <1>4, <1>6 DEF Unbeaten, C

\* A candidate that no other beats beats every one that is beaten.
LEMMA UnbeatenBeats ==
  ASSUME NEW o \in [Providers -> Offer], NEW u \in Unbeaten(o), NEW p \in Candidates(o),
         p \notin Unbeaten(o)
  PROVE  HerosLess(o, p, u)
<1>1. PICK q \in Candidates(o) : HerosLess(o, p, q)
  BY DEF Unbeaten
<1>2. ~HerosLess(o, u, q) /\ u \in Providers /\ p \in Providers /\ q \in Providers
  BY DEF Unbeaten, Candidates
<1>3. /\ o[p].score \in Nat /\ o[q].score \in Nat /\ o[u].score \in Nat
      /\ o[p].tie \in Nat /\ o[q].tie \in Nat /\ o[u].tie \in Nat
  BY <1>2, OfferType
<1> QED
  BY <1>1, <1>2, <1>3 DEF HerosLess

\* Whatever rand() returns short of RAND_MAX, the place drawn is one of the best.
LEMMA RankAmongBest ==
  ASSUME NEW n \in Nat \ {0}, NEW r \in 0..RandMax, r # RandMax
  PROVE  Rank(r, n) \in Nat /\ Rank(r, n) <= n
<1>1. r \in Nat /\ RandMax \in Nat \ {0} /\ r < RandMax
  BY SchedulingAssumption
<1>2. r * n < RandMax * n /\ r * n \in Nat /\ RandMax * n = n * RandMax
  BY <1>1, Arithmetic
<1>3. (r * n) \div RandMax \in Nat /\ (r * n) \div RandMax + 1 <= n
  <2> DEFINE a == r * n
  <2>1. a \in Nat /\ a < RandMax * n
    BY <1>2
  <2> HIDE DEF a
  <2>2. a \div RandMax \in Nat /\ a \div RandMax + 1 <= n
    BY <1>1, <2>1, Arithmetic
  <2> QED
    BY <2>2 DEF a
<1> QED
  BY <1>3 DEF Rank

\* The provider at one of the first places of the sorted list is one of the best.
LEMMA AtRankUnbeaten ==
  ASSUME NEW o \in [Providers -> Offer], NEW k \in Nat, k <= Cardinality(Unbeaten(o)),
         NEW p \in AtRank(o, k)
  PROVE  p \in Unbeaten(o)
<1> DEFINE above == {q \in Candidates(o) : HerosLess(o, p, q)}
           equal == {q \in Candidates(o) : ~HerosLess(o, p, q) /\ ~HerosLess(o, q, p)}
<1>1. p \in Candidates(o) /\ k \in (Cardinality(above) + 1)..(Cardinality(above) + Cardinality(equal))
  BY DEF AtRank
<1>2. IsFiniteSet(above) /\ IsFiniteSet(equal) /\ Unbeaten(o) \subseteq Candidates(o)
  BY CandidatesFinite DEF Unbeaten
<1>3. Cardinality(above) \in Nat /\ Cardinality(equal) \in Nat
  BY <1>2, FS_CardinalityType
<1>4. ASSUME p \notin Unbeaten(o) PROVE FALSE
  <2>1. Unbeaten(o) \subseteq above
    BY <1>1, <1>2, <1>4, UnbeatenBeats
  <2> HIDE DEF above, equal
  <2>2. Cardinality(Unbeaten(o)) <= Cardinality(above) /\ Cardinality(Unbeaten(o)) \in Nat
    BY <1>2, <2>1, FS_Subset, FS_CardinalityType
  <2> QED
    BY <1>1, <1>3, <2>2
<1> QED
  BY <1>4

\* HEROS picks one of the best unless rand() returns RAND_MAX.
LEMMA HerosChoice ==
  ASSUME NEW o \in [Providers -> Offer], NEW r \in 0..RandMax, r # RandMax, NEW p \in Heros(o, r)
  PROVE  IF \E q \in Providers : o[q].fits THEN p \in Unbeaten(o) ELSE p = NoPick
<1> DEFINE best == Unbeaten(o)
           n == Cardinality(best)
<1>1. best \subseteq Candidates(o) /\ IsFiniteSet(best) /\ IsFiniteSet(Candidates(o))
  BY CandidatesFinite DEF Unbeaten
<1>2. n \in Nat /\ (best # {} => n # 0) /\ n <= Cardinality(Candidates(o))
      /\ Cardinality(Candidates(o)) \in Nat
  BY <1>1, FS_CardinalityType, FS_EmptySet, FS_Subset
<1>3. (\E q \in Providers : o[q].fits) <=> best # {}
  <2>1. (\E q \in Providers : o[q].fits) <=> Candidates(o) # {}
    BY DEF Candidates
  <2> QED
    BY <1>1, <2>1, SomeUnbeaten
<1>4. CASE best = {}
  <2>1. Heros(o, r) = {NoPick}
    BY <1>4 DEF Heros
  <2> QED
    BY <1>3, <1>4, <2>1
<1>5. CASE best # {} /\ n = 1
  <2>1. Heros(o, r) = best
    BY <1>5 DEF Heros
  <2> QED
    BY <1>3, <1>5, <2>1
<1>6. CASE best # {} /\ n # 1
  <2>1. Rank(r, n) \in Nat /\ Rank(r, n) <= n
    <3> HIDE DEF n, best
    <3> QED
      BY <1>2, <1>6, RankAmongBest
  <2>2. ~(Rank(r, n) > Cardinality(Candidates(o)))
    <3> HIDE DEF n, best
    <3> QED
      BY <1>2, <2>1
  <2>3. Heros(o, r) = AtRank(o, Rank(r, n))
    BY <1>6, <2>2 DEF Heros
  <2>4. p \in AtRank(o, Rank(r, n))
    BY <2>3
  <2>5. p \in Unbeaten(o)
    BY <2>1, <2>4, AtRankUnbeaten
  <2> QED
    BY <1>3, <1>6, <2>5
<1> QED
  BY <1>4, <1>5, <1>6

\* BestScore picks a provider that fits with the highest score.
LEMMA BestChoice ==
  ASSUME NEW o \in [Providers -> Offer], NEW p \in Best(o), p # NoPick
  PROVE  o[p].fits /\ \A q \in Providers : o[q].fits => o[q].score <= o[p].score
<1> DEFINE best == {c \in Candidates(o) : \A q \in Candidates(o) : ~ScoreLess(o, c, q)}
<1>1. best # {} /\ p = Min(best)
  BY DEF Best
<1>2. p \in best
  <2>1. best \subseteq Nat
    BY DEF Candidates, Providers
  <2> HIDE DEF best
  <2> QED
    BY <1>1, <2>1, MinIsLeast
<1>3. p \in Providers /\ o[p].fits /\ \A q \in Candidates(o) : ~(o[p].score < o[q].score)
  BY <1>2 DEF Candidates, ScoreLess
<1>4. \A q \in Providers : o[q].fits => o[q].score <= o[p].score
  <2> TAKE q \in Providers
  <2>1. o[q].fits => ~(o[p].score < o[q].score)
    BY <1>3 DEF Candidates
  <2> QED
    BY <1>3, <2>1, OfferType
<1> QED
  BY <1>3, <1>4

\* The cumulated scores are natural numbers.
LEMMA CumulativeType ==
  ASSUME NEW o \in [Providers -> Offer], NEW p \in Providers
  PROVE  Cumulative(o, p) \in Nat
<1>1. IsFiniteSet(1..p) /\ 1..p \subseteq Providers
  BY SchedulingAssumption, FS_Interval DEF Providers
<1> DEFINE score == [q \in Providers |-> o[q].score]
<1>2. \A q \in 1..p : score[q] \in Nat
  BY <1>1, OfferType
<1> HIDE DEF score
<1>3. SumFunctionOnSet(score, 1..p) \in Nat
  BY <1>1, <1>2, SumNat
<1> QED
  BY <1>3 DEF Cumulative, score

\* The provider the draw falls on covers the number drawn.
LEMMA ProbabilisticChoice ==
  ASSUME NEW o \in [Providers -> Offer], NEW r \in 0..RandMax, NEW p \in Probabilistic(o, r)
  PROVE  /\ p \in Providers
         /\ r * Cumulative(o, NProviders) <= RandMax * Cumulative(o, p)
         /\ p > 1 => RandMax * Cumulative(o, p - 1) < r * Cumulative(o, NProviders)
<1> DEFINE all == Cumulative(o, NProviders)
           S == NotBelow(o, r)
<1>1. NProviders \in Providers /\ r \in Nat /\ RandMax \in Nat /\ r <= RandMax
  BY SchedulingAssumption DEF Providers
<1>2. all \in Nat
  BY <1>1, CumulativeType
<1>3. r * all <= RandMax * all /\ RandMax * all = all * RandMax
  <2> HIDE DEF all
  <2> QED
    BY <1>1, <1>2, Arithmetic
<1>4. NProviders \in S
  BY <1>1, <1>3 DEF NotBelow
<1>5. p = Min(S)
  BY <1>4 DEF Probabilistic
<1>6. p \in S /\ \A q \in S : p <= q
  <2>1. S \subseteq Nat
    BY DEF NotBelow, Providers
  <2> HIDE DEF S
  <2> QED
    BY <1>4, <1>5, <2>1, MinIsLeast
<1>7. p \in Providers /\ Cumulative(o, p) * RandMax >= r * all
  BY <1>6 DEF NotBelow
<1>8. /\ Cumulative(o, p) \in Nat
      /\ Cumulative(o, p) * RandMax = RandMax * Cumulative(o, p)
      /\ RandMax * Cumulative(o, p) \in Nat /\ r * all \in Nat
  <2>1. Cumulative(o, p) \in Nat
    BY <1>7, CumulativeType
  <2> HIDE DEF all
  <2> QED
    BY <1>1, <1>2, <2>1, Arithmetic
<1>9. ASSUME p > 1 PROVE RandMax * Cumulative(o, p - 1) < r * all
  <2> DEFINE q == p - 1
             c == Cumulative(o, q)
  <2>1. q \in Providers /\ ~(p <= q)
    BY <1>7, <1>9, SchedulingAssumption DEF Providers
  <2>2. ~(c * RandMax >= r * all)
    BY <1>6, <2>1 DEF NotBelow
  <2>3. c \in Nat
    BY <2>1, CumulativeType
  <2> HIDE DEF q, c, all
  <2>4. c * RandMax = RandMax * c /\ RandMax * c \in Nat
    BY <1>1, <2>3, Arithmetic
  <2>5. RandMax * c < r * all
    BY <1>8, <2>2, <2>4
  <2> QED
    BY <2>5 DEF c, q
<1> HIDE DEF all
<1>10. r * all <= RandMax * Cumulative(o, p)
  BY <1>7, <1>8
<1> QED
  BY <1>7, <1>9, <1>10 DEF all

-----------------------------------------------------------------------------
Decided == TypeInv /\ PicksBest /\ DrawFallsOnProvider

\* What was decided by the last call agrees with the offers it saw.
LEMMA DecidedInvariant == DecisionSpec => []Decided
<1>1. DecisionInit => Decided
  <2> SUFFICES ASSUME DecisionInit PROVE Decided
    OBVIOUS
  <2>1. 0 \in 0..RandMax
    BY SchedulingAssumption
  <2> QED
    BY <2>1 DEF DecisionInit, Decided, TypeInv, PicksBest, HerosPicksBest, DrawFallsOnProvider
<1>2. Decided /\ [DecisionNext]_decisionVars => Decided'
  <2> SUFFICES ASSUME Decided, [DecisionNext]_decisionVars PROVE Decided'
    OBVIOUS
  <2>1. offers \in [Providers -> Offer]
    BY DEF Decided, TypeInv
  <2>2. CASE ScheduleBest
    <3>1. kind' = "best" /\ rnd' = 0 /\ pick' \in Best(offers) /\ offers' = offers
      BY <2>2 DEF ScheduleBest, Decide
    <3>2. 0 \in 0..RandMax
      BY SchedulingAssumption
    <3>3. pick' # NoPick => /\ offers[pick'].fits
                            /\ \A q \in Providers : offers[q].fits => offers[q].score <= offers[pick'].score
      BY <2>1, <3>1, BestChoice
    <3>4. PicksBest'
      BY <3>1, <3>3 DEF PicksBest, HerosPicksBest
    <3> QED
      BY <2>1, <3>1, <3>2, <3>4 DEF Decided, TypeInv, DrawFallsOnProvider
  <2>3. ASSUME NEW r \in 0..RandMax, Decide("heros", r, Heros(offers, r)) PROVE Decided'
    <3>1. kind' = "heros" /\ rnd' = r /\ pick' \in Heros(offers, r) /\ offers' = offers
      BY <2>3 DEF Decide
    <3>2. r # RandMax => IF \E q \in Providers : offers[q].fits
                         THEN pick' \in Unbeaten(offers) ELSE pick' = NoPick
      BY <2>1, <3>1, HerosChoice
    <3>3. pick' \in Unbeaten(offers) =>
             /\ pick' \in Providers /\ offers[pick'].fits
             /\ \A q \in Providers : offers[q].fits => ~HerosLess(offers, pick', q)
      BY DEF Unbeaten, Candidates
    <3>4. HerosPicksBest'
      BY <3>1, <3>2, <3>3 DEF HerosPicksBest, HerosLess
    <3> QED
      BY <2>1, <3>1, <3>4 DEF Decided, TypeInv, PicksBest, DrawFallsOnProvider
  <2>4. ASSUME NEW r \in 0..RandMax, Decide("probabilistic", r, Probabilistic(offers, r))
        PROVE  Decided'
    <3>1. kind' = "probabilistic" /\ rnd' = r /\ pick' \in Probabilistic(offers, r) /\ offers' = offers
      BY <2>4 DEF Decide
    <3>2. /\ pick' \in Providers
          /\ r * Cumulative(offers, NProviders) <= RandMax * Cumulative(offers, pick')
          /\ pick' > 1 => RandMax * Cumulative(offers, pick' - 1) < r * Cumulative(offers, NProviders)
      BY <2>1, <3>1, ProbabilisticChoice
    <3>3. DrawFallsOnProvider'
      BY <3>1, <3>2 DEF DrawFallsOnProvider, Cumulative
    <3> QED
      BY <2>1, <3>1, <3>3 DEF Decided, TypeInv, PicksBest, HerosPicksBest
  <2>5. CASE UNCHANGED decisionVars
    <3>1. offers' = offers /\ kind' = kind /\ rnd' = rnd /\ pick' = pick
      BY <2>5 DEF decisionVars
    <3> QED
      BY <3>1 DEF Decided, TypeInv, PicksBest, HerosPicksBest, HerosLess, DrawFallsOnProvider, Cumulative
  <2> QED
    BY <2>2, <2>3, <2>4, <2>5 DEF DecisionNext, ScheduleHeros, ScheduleProbabilistic
<1> QED
  BY <1>1, <1>2, PTL DEF DecisionSpec

\* The schedulers that look for the best provider find it, whatever the offers
\* and the draw: a provider that can take the task, and that no other beats.
THEOREM BestIsPicked == DecisionSpec => []PicksBest
BY DecidedInvariant, PTL DEF Decided

\* The probabilistic draw always falls on a provider, the one on whose stretch of
\* the summed scores it lies, for every list of positive scores.
THEOREM DrawIsProvided == DecisionSpec => []DrawFallsOnProvider
BY DecidedInvariant, PTL DEF Decided

-----------------------------------------------------------------------------
(* The energy meter of a switch.                                            *)

\* The inductive invariant: the property and the types its sums need.
MeterInv ==
    /\ now \in Int /\ slots \in Int /\ ports \in Int /\ sampled \in Int
    /\ rate \in Int /\ consumed \in Int /\ drawn \in Int
    /\ ~enabled => rate = 0
    /\ EnergyIsIntegral

\* A rate of nothing, or over no time, costs nothing.
LEMMA NothingOutstanding ==
    \A r, t, u \in Int : t = u \/ r = 0 => r * (t - u) = 0
  OBVIOUS

\* Billing up to now leaves nothing outstanding, whatever the rate becomes.
LEMMA BillSettles ==
    ASSUME MeterInv, NEW n \in Int, Bill(n), UNCHANGED <<now, drawn>>, rate' \in Int
    PROVE  consumed' \in Int /\ sampled' \in Int /\ EnergyIsIntegral'
<1>1. consumed' = drawn /\ sampled' = now /\ now' = now /\ drawn' = drawn
  BY DEF MeterInv, Bill, EnergyIsIntegral
<1>2. now' \in Int /\ sampled' \in Int /\ now' = sampled'
  BY <1>1 DEF MeterInv
<1>3. rate' * (now' - sampled') = 0
  BY <1>2, NothingOutstanding
<1>4. consumed' + 0 = drawn'
  BY <1>1 DEF MeterInv
<1>5. EnergyIsIntegral'
  BY <1>3, <1>4 DEF EnergyIsIntegral
<1> QED
  BY <1>1, <1>5 DEF MeterInv

\* updateEnergy keeps the account, whether or not it bills.
LEMMA UpdateEnergyKeeps ==
    ASSUME MeterInv, NEW n \in Int, UpdateEnergy(n), UNCHANGED <<now, drawn>>, slots' \in Int
    PROVE  MeterInv'
<1>1. CASE enabled /\ n # ports
  <2>1. Bill(n) /\ enabled' /\ ports' = n /\ rate' = ComputeCurrentRate(n)
    BY <1>1 DEF UpdateEnergy
  <2>2. rate' \in Int
    BY <2>1, SwitchAssumption DEF ComputeCurrentRate
  <2>3. consumed' \in Int /\ sampled' \in Int /\ EnergyIsIntegral'
    BY <2>1, <2>2, BillSettles
  <2> QED
    BY <2>1, <2>2, <2>3 DEF MeterInv
<1>2. CASE ~(enabled /\ n # ports)
  <2>1. UNCHANGED meter
    BY <1>2 DEF UpdateEnergy
  <2> QED
    BY <2>1 DEF MeterInv, EnergyIsIntegral, meter
<1> QED
  BY <1>1, <1>2

\* Nothing is drawn or billed in the beginning.
LEMMA InitMeter == Init => MeterInv
  BY DEF Init, MeterInv, EnergyIsIntegral

\* One step per action; time is the only one that adds to both sides.
LEMMA NextMeter == MeterInv /\ [Next]_vars => MeterInv'
<1> SUFFICES ASSUME MeterInv, [Next]_vars PROVE MeterInv'
  OBVIOUS
<1>1. CASE Start
  <2>1. rate' \in Int /\ ports' \in Int
    BY <1>1, SwitchAssumption DEF Start, MeterInv, ComputeCurrentRate
  <2>2. rate' * (now' - sampled') = 0 /\ rate * (now - sampled) = 0
    BY <1>1, <2>1, NothingOutstanding DEF Start, MeterInv
  <2>3. consumed = drawn
    BY <1>1, <2>2 DEF Start, MeterInv, EnergyIsIntegral
  <2>4. EnergyIsIntegral'
    BY <1>1, <2>2, <2>3 DEF Start, MeterInv, EnergyIsIntegral
  <2> QED
    BY <1>1, <2>1, <2>4 DEF Start, MeterInv
<1>2. CASE Forward
  BY <1>2, UpdateEnergyKeeps DEF Forward, MeterInv
<1>3. CASE Install
  BY <1>3, SwitchAssumption DEF Install, MeterInv, EnergyIsIntegral, meter
<1>4. CASE Timeout
  <2>1. rate' \in Int
    BY <1>4 DEF Timeout
  <2>2. consumed' \in Int /\ sampled' \in Int /\ EnergyIsIntegral'
    BY <1>4, <2>1, BillSettles DEF Timeout, MeterInv
  <2> QED
    BY <1>4, <2>1, <2>2 DEF Timeout, MeterInv
<1>5. CASE Stop
  BY <1>5, UpdateEnergyKeeps DEF Stop, Settle, MeterInv
<1>6. CASE Tick
  <2>1. rate * (now + 1 - sampled) = rate * (now - sampled) + rate
    BY DEF MeterInv
  <2> QED
    BY <1>6, <2>1 DEF Tick, MeterInv, EnergyIsIntegral, meter
<1>7. CASE UNCHANGED vars
  BY <1>7 DEF vars, MeterInv, EnergyIsIntegral, meter
<1> QED
  BY <1>1, <1>2, <1>3, <1>4, <1>5, <1>6, <1>7 DEF Next

\* In every simulation the energy billed to a switch, with what is still to be
\* billed, is the sum of its power over time (updateEnergy, timeout, stop).
THEOREM EnergyAccounted == Spec => []EnergyIsIntegral
<1>1. MeterInv => EnergyIsIntegral
  BY DEF MeterInv
<1> QED
  BY <1>1, InitMeter, NextMeter, PTL DEF Spec

\* A step that stops the meter bills everything, unless it knows of slot 0 only.
LEMMA StopBills == MeterInv /\ [Next]_vars =>
                       [~stopped /\ stopped' /\ ports # 0 => consumed' = drawn]_vars
<1> SUFFICES ASSUME MeterInv, [Next]_vars, ~stopped, stopped', ports # 0
             PROVE  consumed' = drawn
  OBVIOUS
<1>1. Stop
  BY DEF Next, vars, Start, Forward, Install, Timeout, Tick
<1>2. CASE enabled
  BY <1>1, <1>2 DEF Stop, Settle, UpdateEnergy, Bill, MeterInv, EnergyIsIntegral
<1>3. CASE ~enabled
  <2>1. rate * (now - sampled) = 0
    BY <1>3, NothingOutstanding DEF MeterInv
  <2>2. consumed = drawn
    BY <2>1 DEF MeterInv, EnergyIsIntegral
  <2> QED
    BY <1>1, <1>3, <2>2 DEF Stop, Settle, UpdateEnergy, meter
<1> QED
  BY <1>2, <1>3

\* stop leaves no energy unbilled in any simulation, unless the highest slot
\* the meter knows of is 0 (SwitchEnergyModel::stop).
THEOREM StopSettlesAccount == Spec => StopSettles
<1> QED
  BY InitMeter, NextMeter, StopBills, PTL DEF Spec, StopSettles

-----------------------------------------------------------------------------
\* A timer that is set was set by the last change of the ports.
TimerInv ==
    /\ now \in Nat /\ slots \in Nat \union {-1}
    /\ timer # Never => enabled /\ dns /\ Delay # 0 /\ timer = sampled + Delay

\* The timer and the last sample move together.
LEMMA UpdateEnergyTimer ==
    ASSUME TimerInv, NEW n, UpdateEnergy(n), UNCHANGED <<now, dns>>
    PROVE  timer' # Never => enabled' /\ dns' /\ Delay # 0 /\ timer' = sampled' + Delay
BY DEF TimerInv, UpdateEnergy, Bill, Resched, meter

\* Every step keeps that.
LEMMA NextTimer == TimerInv /\ [Next]_vars => TimerInv'
<1> SUFFICES ASSUME TimerInv, [Next]_vars PROVE TimerInv'
  OBVIOUS
<1>1. CASE Start
  BY <1>1 DEF Start, TimerInv
<1>2. CASE Forward
  BY <1>2, UpdateEnergyTimer DEF Forward, TimerInv
<1>3. CASE Install
  BY <1>3, SwitchAssumption DEF Install, TimerInv, meter
<1>4. CASE Timeout
  BY <1>4 DEF Timeout, TimerInv
<1>5. CASE Stop
  BY <1>5, UpdateEnergyTimer DEF Stop, Settle, TimerInv
<1>6. CASE Tick
  BY <1>6 DEF Tick, TimerInv, meter
<1>7. CASE UNCHANGED vars
  BY <1>7 DEF vars, TimerInv, meter
<1> QED
  BY <1>1, <1>2, <1>3, <1>4, <1>5, <1>6, <1>7 DEF Next

\* Only a switch that is asleep draws nothing: the power of one without ports,
\* whose highest slot is -1, is not zero either.
LEMMA AwakeDraws ==
    ASSUME Base # PortPower, NEW n \in Nat \union {-1}
    PROVE  ComputeCurrentRate(n) # 0
<1>1. CASE n = -1
  BY <1>1, SwitchAssumption DEF ComputeCurrentRate
<1>2. CASE n \in Nat
  <2>1. n * PortPower \in Nat
    BY <1>2, SwitchAssumption
  <2> QED
    BY <2>1, SwitchAssumption DEF ComputeCurrentRate
<1> QED
  BY <1>1, <1>2

\* updateEnergy does not put the switch to sleep.
LEMMA UpdateEnergyAwake ==
    ASSUME Base # PortPower, NEW n \in Nat \union {-1}, UpdateEnergy(n), rate # 0
    PROVE  rate' # 0
BY AwakeDraws DEF UpdateEnergy, meter

\* A step that puts a switch to sleep is the timer of its last change.
LEMMA SleepIsDue ==
    ASSUME Base # PortPower
    PROVE  TimerInv /\ [Next]_vars =>
               [rate # 0 /\ rate' = 0 /\ enabled => now = sampled + Delay]_vars
<1> SUFFICES ASSUME TimerInv, [Next]_vars, rate # 0, rate' = 0, enabled
             PROVE  now = sampled + Delay
  OBVIOUS
<1>1. ~Forward /\ ~Stop
  <2>1. 0 \in Nat \union {-1} /\ slots \in Nat \union {-1}
    BY DEF TimerInv
  <2> QED
    BY <2>1, UpdateEnergyAwake DEF Forward, Stop, Settle
<1>2. Timeout
  BY <1>1 DEF Next, vars, meter, Start, Install, Tick
<1>3. timer # Never
  BY <1>2, SwitchAssumption DEF Timeout, TimerInv
<1> QED
  BY <1>2, <1>3 DEF Timeout, TimerInv

\* The sleep timer of a switch goes off a full Delay after the last change of its
\* ports, in use or not: resched in updateEnergy leaves no earlier one behind.  One whose
\* chassis draws as much as a port would draw nothing with its highest slot at
\* -1, and be taken for one asleep.
THEOREM SleepWaitsForDelay ==
    ASSUME Base # PortPower
    PROVE  Spec => SleepsAfterDelay
<1>1. Init => TimerInv
  BY DEF Init, TimerInv
<1>2. TimerInv /\ [Next]_vars => [rate # 0 /\ rate' = 0 /\ enabled => now = sampled + Delay]_vars
  BY SleepIsDue
<1> QED
  BY <1>1, <1>2, NextTimer, PTL DEF Spec, SleepsAfterDelay
=============================================================================
