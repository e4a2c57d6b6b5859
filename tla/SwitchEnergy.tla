---------------------------- MODULE SwitchEnergy ----------------------------
(***************************************************************************)
(* The energy meter of one switch.  The classifier of the switch calls it  *)
(* for every packet with its highest slot, the power follows that number,  *)
(* and with dynamic shutdown (DNS) a timer puts the switch to sleep.  The  *)
(* script starts it, stops it at End, and reads it a little later.         *)
(***************************************************************************)
EXTENDS Integers

CONSTANTS
    Base,           \* eChassis_ + eLineCard_
    PortPower,      \* ePort_
    MaxSlots,       \* bound: the highest slot the classifier may come to have
    DNS,            \* the values eDNS_enabled_ may have
    Delay,          \* eDNS_delay_, in ticks
    End, Finish,    \* when the script stops the meter, and when it reads it
    Never           \* the timer is not set

ASSUME SwitchAssumption ==
    /\ Base \in Nat \ {0} /\ PortPower \in Nat /\ MaxSlots \in Nat
    /\ DNS \subseteq BOOLEAN /\ Delay \in Nat /\ End \in Nat /\ Finish \in Nat
    /\ Never \notin Nat

VARIABLES
    dns,            \* eDNS_enabled_
    now,            \* Scheduler::clock()
    slots,          \* Classifier::maxslot()
    enabled,        \* eEnabled_
    rate,           \* eCurrentRate_
    ports,          \* eActivePorts_
    consumed,       \* eConsumed_
    sampled,        \* eLastSample_
    timer,          \* when energytimer_ expires
    stopped,        \* the script has called stop
    drawn           \* history: the rate of every tick, summed

meter == <<enabled, rate, ports, consumed, sampled, timer>>
vars == <<dns, now, slots, meter, stopped, drawn>>

ComputeCurrentRate(n) == Base + n * PortPower

\* Mutant: the time until now is billed at the new rate.
BillAtNewRate(n) ==
    /\ consumed' = consumed + ComputeCurrentRate(n) * (now - sampled)
    /\ sampled' = now

\* The time since the last sample is billed at the rate there was.
Bill(n) ==
    /\ consumed' = consumed + rate * (now - sampled)
    /\ sampled' = now

\* Mutant: a timer that is running is left to expire.
KeepTimer == IF timer = Never THEN now + Delay ELSE timer

Resched == now + Delay

UpdateEnergy(n) ==
    IF enabled /\ n # ports
    THEN /\ Bill(n)
         /\ ports' = n
         /\ rate' = ComputeCurrentRate(n)
         /\ timer' = IF dns /\ Delay # 0 THEN Resched ELSE timer
         /\ UNCHANGED enabled
    ELSE UNCHANGED meter

-----------------------------------------------------------------------------
Init ==
    /\ dns \in DNS
    /\ now = 0 /\ slots = -1
    /\ enabled = FALSE /\ rate = 0 /\ ports = 0 /\ consumed = 0 /\ sampled = 0
    /\ timer = Never
    /\ stopped = FALSE /\ drawn = 0

\* start: with DNS on the switch begins asleep.
Start ==
    /\ ~enabled /\ ~stopped
    /\ enabled' = TRUE /\ sampled' = now /\ ports' = slots
    /\ rate' = IF dns THEN 0 ELSE ComputeCurrentRate(slots)
    /\ UNCHANGED <<dns, now, slots, consumed, timer, stopped, drawn>>

\* A packet goes through the classifier.
Forward ==
    /\ UpdateEnergy(slots)
    /\ UNCHANGED <<dns, now, slots, stopped, drawn>>

\* Routes and ports are installed and cleared.
Install ==
    /\ slots' \in -1..MaxSlots
    /\ UNCHANGED <<dns, now, meter, stopped, drawn>>

Timeout ==
    /\ timer = now
    /\ Bill(ports)
    /\ rate' = 0 /\ timer' = Never
    /\ UNCHANGED <<dns, now, slots, enabled, ports, stopped, drawn>>

\* Mutant: stop leaves the number of ports as it is.
StopWithPorts == UpdateEnergy(ports)

Settle == UpdateEnergy(0)

Stop ==
    /\ now = End /\ ~stopped
    /\ stopped' = TRUE
    /\ Settle
    /\ UNCHANGED <<dns, now, slots, drawn>>

\* Time passes when nothing is due now.
Tick ==
    /\ now < Finish /\ timer # now /\ (now = End => stopped)
    /\ now' = now + 1
    /\ drawn' = drawn + rate
    /\ UNCHANGED <<dns, slots, meter, stopped>>

Next == Start \/ Forward \/ Install \/ Timeout \/ Stop \/ Tick

Spec == Init /\ [][Next]_vars
=============================================================================
