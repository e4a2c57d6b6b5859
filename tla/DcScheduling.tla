---------------------------- MODULE DcScheduling ----------------------------
(***************************************************************************)
(* How the scheduler of the data center chooses a provider from scores:    *)
(* the best score (BestDENS), HEROS, and the probabilistic choice (Random, *)
(* RandDENS).  The scores themselves are floating-point formulas of load   *)
(* and link load; here every decision sees arbitrary small scores.  The    *)
(* providers keep the order of the data center's list.                     *)
(***************************************************************************)
EXTENDS Integers, FiniteSetsExt

CONSTANTS
    NProviders,
    Scores,         \* values of calculateScore
    Ties,           \* values of performancePerWattMax * comm_potential_
    RandMax,        \* RAND_MAX
    NoPick, Thrown

ASSUME SchedulingAssumption ==
    /\ NProviders \in Nat \ {0} /\ RandMax \in Nat \ {0}
    /\ Scores \subseteq Nat \ {0} /\ Ties \subseteq Nat

Providers == 1..NProviders
Offer == [score : Scores, tie : Ties, fits : BOOLEAN]

VARIABLES
    kind,           \* the scheduler that decided
    offers,         \* what it saw of each provider
    rnd,            \* what rand() returned
    pick            \* the provider chosen, NoPick, or Thrown by at()

decisionVars == <<kind, offers, rnd, pick>>

\* herosComparator, and ProviderScore's own comparison, which has no ties.
HerosLess(o, p, q) ==
    IF o[p].score # o[q].score THEN o[p].score < o[q].score ELSE o[p].tie < o[q].tie
ScoreLess(o, p, q) == o[p].score < o[q].score

Candidates(o) == {p \in Providers : o[p].fits}

\* max_element returns the first of the best.
Best(o) ==
    LET best == {p \in Candidates(o) : \A q \in Candidates(o) : ~ScoreLess(o, p, q)}
    IN  IF best = {} THEN {NoPick} ELSE {Min(best)}

\* The providers that HEROS counts as equally good, from the back of its list.
Unbeaten(o) == {p \in Candidates(o) : \A q \in Candidates(o) : ~HerosLess(o, p, q)}

\* Mutant: the best of the sorted list is counted twice.
RankOffByOne(r, n) == (r * n) \div RandMax + 2

\* The place, from the back of the sorted list, that HEROS draws among n best.
Rank(r, n) == (r * n) \div RandMax + 1

\* The providers that may stand at place rank from the back: std::sort leaves
\* equal ones in any order.
AtRank(o, rank) ==
    {p \in Candidates(o) :
        LET above == {q \in Candidates(o) : HerosLess(o, p, q)}
            equal == {q \in Candidates(o) : ~HerosLess(o, p, q) /\ ~HerosLess(o, q, p)}
        IN  rank \in (Cardinality(above) + 1)..(Cardinality(above) + Cardinality(equal))}

Heros(o, r) ==
    LET best == Unbeaten(o)
        n == Cardinality(best)
    IN  IF best = {} THEN {NoPick}
        ELSE IF n = 1 THEN best
        ELSE IF Rank(r, n) > Cardinality(Candidates(o)) THEN {Thrown}
        ELSE AtRank(o, Rank(r, n))

Cumulative(o, p) == SumFunctionOnSet([q \in Providers |-> o[q].score], 1..p)

\* Mutant: upper_bound instead of lower_bound.
NotBelowStrict(o, r) ==
    {p \in Providers : Cumulative(o, p) * RandMax > r * Cumulative(o, NProviders)}

\* lower_bound: the providers whose cumulative score is not below the draw.
NotBelow(o, r) ==
    {p \in Providers : Cumulative(o, p) * RandMax >= r * Cumulative(o, NProviders)}

\* Every provider takes part, whether or not the task fits.
Probabilistic(o, r) ==
    IF NotBelow(o, r) = {} THEN {Thrown} ELSE {Min(NotBelow(o, r))}

DecisionInit ==
    /\ kind = "none" /\ rnd = 0 /\ pick = NoPick
    /\ offers \in [Providers -> Offer]

\* scheduleTask of one scheduler; the model looks at one decision at a time.
Decide(k, r, choice) ==
    /\ kind = "none"
    /\ kind' = k /\ rnd' = r /\ pick' \in choice
    /\ UNCHANGED offers

ScheduleBest == Decide("best", 0, Best(offers))
ScheduleHeros == \E r \in 0..RandMax : Decide("heros", r, Heros(offers, r))
ScheduleProbabilistic ==
    \E r \in 0..RandMax : Decide("probabilistic", r, Probabilistic(offers, r))

DecisionNext == ScheduleBest \/ ScheduleHeros \/ ScheduleProbabilistic

DecisionSpec == DecisionInit /\ [][DecisionNext]_decisionVars
=============================================================================
