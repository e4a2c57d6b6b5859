------------------------------ MODULE MCRates -------------------------------
(***************************************************************************)
(* One provider with two cores of 4 MIPS per tick, under three scripts:    *)
(* Green without network delays, Green with them, and a scheduler that     *)
(* decides on arrival with them.                                           *)
(***************************************************************************)
EXTENDS CoreRatesProperties, TLC

CONSTANTS t1, t2, t3, t4

MCCores == 1..2
MCAvail == 1 :> 4 @@ 2 :> 4
MCWork == [t \in Tasks |-> (t1 :> 8 @@ t2 :> 8 @@ t3 :> 16 @@ t4 :> 4)[t]]
MCDuration == [t \in Tasks |-> (t1 :> 4 @@ t2 :> 5 @@ t3 :> 11 @@ t4 :> 1)[t]]
MCPrompt == [green |-> TRUE, delays |-> {0}, workload |-> Tasks]
MCLate == [green |-> TRUE, delays |-> {0, 2, 4}, workload |-> {t1, t2, t4}]
MCBlind == [green |-> FALSE, delays |-> {0, 2, 4}, workload |-> {t1, t2, t4}]
MCScripts == {MCPrompt, MCLate, MCBlind}
MCLateOnly == {MCLate}
=============================================================================
