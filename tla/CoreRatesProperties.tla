------------------------- MODULE CoreRatesProperties -------------------------
(***************************************************************************)
(* What must be true of a provider in time (CoreRates).                    *)
(***************************************************************************)
EXTENDS CoreRates

Running == UNION {executing[c] : c \in Cores}

\* Every variable has its type: the power of a core is none or all it has, a task
\* that executes makes progress, and energy is billed up to a time that has come.
Typed ==
  /\ now \in 0..Horizon
  /\ arriveAt \in [Tasks -> Nat] /\ deadline \in [Tasks -> Nat]
  /\ scheduled \subseteq Tasks
  /\ assigned \in [Cores -> SUBSET Tasks] /\ executing \in [Cores -> SUBSET Tasks]
  /\ left \in [Tasks -> Nat] /\ since \in [Tasks -> 0..Horizon] /\ rate \in [Tasks -> Nat]
  /\ \A c \in Cores : mips[c] \in {0, Avail[c]}
  /\ \A c \in Cores : \A t \in executing[c] : rate[t] > 0
  /\ wake \in Nat /\ pending \in Nat
  /\ outcome \in [Tasks -> {"none", "rejected", "done", "failed"}]
  /\ billed \in Nat /\ lastBill \in 0..now

\* The numbers of the instance divide: what is left of every task that executes
\* is worked off, and its core is shared out, without remainder.
WholeShares ==
  \A c \in Cores : \A t \in executing[c] :
    left[t] % rate[t] = 0 /\ Avail[c] % Cardinality(executing[c]) = 0

\* The types, and that the integer clock loses nothing: every shared rate and
\* every completion falls on a whole number of ticks.
TypeOK == Typed /\ WholeShares

\* The provider has one event for all its cores, moved and cancelled by each of
\* them: it is always in the queue, no later than the earliest completion.
WakeupCoversCompletions ==
  \A t \in Running : pending <= since[t] + left[t] \div rate[t]

\* A core never promises more than it has: the shares add up to the rate its
\* energy is billed at.
SharesWithinRate ==
  \A c \in Cores : SumFunctionOnSet(rate, executing[c]) <= mips[c]

\* Whenever the power drawn changes, the time since the last update has been
\* billed at the old power.
BilledBeforeChange ==
  [][Power' # Power => billed' = billed + (now - lastBill) * Power /\ lastBill' = now]_vars

\* A task that was admitted is never failed: admission leaves every task of the
\* core enough MIPS to meet its deadline, whatever is admitted later.  Only a
\* network that delays a task after its admission can make it late.
AdmittedMeetDeadline ==
  script.delays = {0} => \A t \in scheduled : outcome[t] # "failed"

\* A task that completes does so by its deadline.
CompletesByDeadline ==
  [][\A t \in Tasks : outcome[t] # "done" /\ outcome'[t] = "done" => now <= deadline[t]]_vars
=============================================================================
