----------------------- MODULE SwitchEnergyProperties -----------------------
(* What the energy meter of a switch promises.                               *)
EXTENDS SwitchEnergy

\* What was billed, and what the current rate has cost since the last sample,
\* is all that the switch has drawn: however ports change and the timer fires,
\* no stretch of time is billed twice, left out, or billed at another rate.
EnergyIsIntegral == consumed + rate * (now - sampled) = drawn

\* stop settles the account, unless the meter last saw slot 0 as the highest:
\* then the call changes nothing and the time since the last sample is lost.
StopSettles == [][~stopped /\ stopped' /\ ports # 0 => consumed' = drawn]_vars

\* The switch is put to sleep a full Delay after the last change of its ports,
\* never by a timer that an earlier change had set.
SleepsAfterDelay == [][rate # 0 /\ rate' = 0 /\ enabled => now = sampled + Delay]_vars
=============================================================================
