----------------------- MODULE DcSchedulingProperties -----------------------
(* What a choice from scores promises.                                       *)
EXTENDS DcScheduling

\* HEROS gives the task to a provider that can take it and that no other
\* beats, and never reads outside its list, unless rand() returned RAND_MAX,
\* when the cast reaches one place past the best.
HerosPicksBest ==
    kind = "heros" /\ rnd # RandMax =>
        IF \E p \in Providers : offers[p].fits
        THEN /\ pick \in Providers /\ offers[pick].fits
             /\ \A q \in Providers : offers[q].fits => ~HerosLess(offers, pick, q)
        ELSE pick = NoPick

\* The schedulers that look for the best provider find it: HEROS, and the
\* best-score scheduler, which gives the task to a provider that can take it.
PicksBest ==
    /\ HerosPicksBest
    /\ kind = "best" /\ pick # NoPick =>
         /\ offers[pick].fits
         /\ \A q \in Providers : offers[q].fits => offers[q].score <= offers[pick].score

\* The draw always falls on a provider, rand() = RAND_MAX and 0 included: the
\* one on whose stretch of the summed scores it lies.
DrawFallsOnProvider ==
    kind = "probabilistic" =>
        /\ pick \in Providers
        /\ rnd * Cumulative(offers, NProviders) <= RandMax * Cumulative(offers, pick)
        /\ pick > 1 => RandMax * Cumulative(offers, pick - 1)
                           < rnd * Cumulative(offers, NProviders)
=============================================================================
