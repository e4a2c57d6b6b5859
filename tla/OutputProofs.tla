---------------------------- MODULE OutputProofs ----------------------------
(***************************************************************************)
(* A channel that is not re-attached, for any outputs, lengths, window and *)
(* number of retransmissions: a waiting output has a pointer ahead of it,  *)
(* which TCP has still to send as long as it sends nothing twice; the      *)
(* numbers of the agent belong together, an exit means that the output has *)
(* arrived, and outputs leave first-in first-out.                          *)
(***************************************************************************)
EXTENDS OutputProperties, FiniteSums, SequenceTheorems

Packet == [seq : Int, ptr : Outputs \union {None}]

\* A waiting output has a pointer ahead of it, with TCP or on the way.
PointerAhead == queue # <<>> => current # None \/ \E n \in DOMAIN net : net[n].ptr # None

AgentInv ==
    /\ net \in Seq(Packet)
    /\ queue \in Seq(Outputs)
    /\ current \in Outputs \union {None}
    /\ curseq \in Int /\ tseq \in Int /\ acked \in Int /\ maxseq \in Int
    /\ PointerAhead

ChannelInv == AgentInv /\ got \subseteq Int /\ acks \in Seq(Int) /\ timeouts \in Nat

Pointed(packets) == \E n \in DOMAIN packets : packets[n].ptr # None

\* However much send_much sends, a pointer that TCP holds or that is on the
\* way is still held, or on the way, afterwards.
LEMMA SendKeepsPointer ==
    ASSUME NEW rest \in Seq(Packet), NEW ptr \in Outputs \union {None},
           NEW cs \in Int, NEW from \in Int, NEW ack \in Int, maxseq \in Int,
           SendMuch(rest, ptr, cs, from, ack)
    PROVE  /\ net' \in Seq(Packet)
           /\ current' \in Outputs \union {None}
           /\ curseq' \in Int /\ tseq' \in Int /\ maxseq' \in Int
           /\ ptr # None \/ Pointed(rest) => current' # None \/ Pointed(net)'
<1>1. PICK win \in 1..Window :
        LET total == WithSyn(cs, from)
            upto == Lesser(ack + win, total - 1)
            final == IF Starts(from) /\ cs = 1 THEN 0 ELSE total - 1
            burst == [i \in 1..(upto - from + 1) |->
                        [seq |-> from + i - 1,
                         ptr |-> PointerOn(from + i - 1, from, ptr, final)]]
        IN  IF from > upto
            THEN /\ net' = rest /\ tseq' = from /\ curseq' = cs /\ current' = ptr
                 /\ UNCHANGED maxseq
            ELSE /\ net' = rest \o burst
                 /\ tseq' = upto + 1
                 /\ curseq' = total
                 /\ maxseq' = Greater(maxseq, upto)
                 /\ current' = PointerLeft(from..upto, ptr, final)
  BY DEF SendMuch
<1> DEFINE total == WithSyn(cs, from)
           upto == Lesser(ack + win, total - 1)
           final == IF Starts(from) /\ cs = 1 THEN 0 ELSE total - 1
           burst == [i \in 1..(upto - from + 1) |->
                        [seq |-> from + i - 1,
                         ptr |-> PointerOn(from + i - 1, from, ptr, final)]]
<1>2. win \in Int /\ total \in Int /\ upto \in Int /\ final \in Int
  BY ChannelAssumption DEF WithSyn, Lesser
<1>3. CASE from > upto
  BY <1>1, <1>3 DEF Pointed
<1>4. CASE ~(from > upto)
  <2> HIDE DEF total, upto, final, burst
  <2>1. /\ net' = rest \o burst /\ tseq' = upto + 1 /\ curseq' = total
        /\ maxseq' = Greater(maxseq, upto)
        /\ current' = PointerLeft(from..upto, ptr, final)
    BY <1>1, <1>4 DEF total, upto, final, burst
  <2>2. burst \in Seq(Packet)
    <3>1. \A i \in 1..(upto - from + 1) :
            [seq |-> from + i - 1, ptr |-> PointerOn(from + i - 1, from, ptr, final)] \in Packet
      BY <1>2 DEF Packet, PointerOn
    <3>2. upto - from + 1 \in Nat
      BY <1>2, <1>4
    <3> QED
      BY <3>1, <3>2 DEF burst
  <2>3. /\ DOMAIN burst = 1..(upto - from + 1) /\ Len(burst) = upto - from + 1
        /\ \A i \in DOMAIN burst : burst[i].ptr = PointerOn(from + i - 1, from, ptr, final)
    BY <1>2, <1>4 DEF burst
  <2>4. ASSUME Pointed(rest) PROVE Pointed(net)'
    <3>1. PICK n \in DOMAIN rest : rest[n].ptr # None
      BY <2>4 DEF Pointed
    <3>2. n \in DOMAIN (rest \o burst) /\ (rest \o burst)[n] = rest[n]
      BY <2>2, <3>1
    <3> QED
      BY <2>1, <3>1, <3>2 DEF Pointed
  <2>5. ASSUME ptr # None PROVE current' # None \/ Pointed(net)'
    <3>1. CASE final \notin from..upto
      BY <2>1, <2>5, <3>1 DEF PointerLeft
    <3>2. CASE final \in from..upto
      <4> DEFINE k == final - from + 1
      <4>1. k \in DOMAIN burst /\ from + k - 1 = final
        BY <1>2, <2>3, <3>2
      <4>2. burst[k].ptr = ptr
        BY <2>3, <4>1 DEF PointerOn
      <4>3. /\ Len(rest) + k \in DOMAIN (rest \o burst)
            /\ (rest \o burst)[Len(rest) + k] = burst[k]
        BY SMTT(30), <2>2, <2>3, <4>1
      <4> QED
        BY <2>1, <2>5, <4>2, <4>3 DEF Pointed
    <3> QED
      BY <3>1, <3>2
  <2> QED
    BY <1>2, <2>1, <2>2, <2>4, <2>5 DEF PointerLeft, Greater
<1> QED
  BY <1>3, <1>4

\* Asking the agent to send leaves no output waiting without a trigger.
LEMMA TryToSendKeepsPointer ==
    ASSUME AgentInv, NEW rest \in Seq(Packet), NEW q \in Seq(Outputs), TryToSend(rest, q)
    PROVE  AgentInv'
<1> USE DEF AgentInv
<1>1. CASE current = None /\ q # <<>>
  <2> DEFINE o == Head(q)
             cs == curseq + Packets[o]
  <2>1. o \in Outputs /\ Tail(q) \in Seq(Outputs) /\ o # None
    BY <1>1, ChannelAssumption
  <2>2. cs \in Int
    BY <2>1, ChannelAssumption
  <2>3. queue' = Tail(q) /\ acked' = acked /\ SendMuch(rest, o, cs, tseq, acked)
    BY <1>1 DEF TryToSend
  <2> HIDE DEF o, cs
  <2>4. /\ net' \in Seq(Packet) /\ current' \in Outputs \union {None}
        /\ curseq' \in Int /\ tseq' \in Int /\ maxseq' \in Int
        /\ current' # None \/ Pointed(net)'
    BY <2>1, <2>2, <2>3, SendKeepsPointer
  <2> QED
    BY <2>1, <2>3, <2>4 DEF PointerAhead, Pointed
<1>2. CASE ~(current = None /\ q # <<>>)
  BY <1>2 DEF TryToSend, PointerAhead, agent
<1> QED
  BY <1>1, <1>2

\* Nor does a retransmission,
LEMMA ResumeKeepsPointer ==
    ASSUME ChannelInv, Resume, UNCHANGED <<queue, acked, got>>, acks' \in Seq(Int)
    PROVE  ChannelInv'
<1> USE DEF ChannelInv, AgentInv
<1>1. SendMuch(net, current, curseq, acked + 1, acked) /\ timeouts' = timeouts + 1
  BY DEF Resume
<1>2. acked + 1 \in Int
  OBVIOUS
<1>3. /\ net' \in Seq(Packet) /\ current' \in Outputs \union {None}
      /\ curseq' \in Int /\ tseq' \in Int /\ maxseq' \in Int
      /\ current # None \/ Pointed(net) => current' # None \/ Pointed(net)'
  BY <1>1, <1>2, SendKeepsPointer
<1> QED
  BY <1>1, <1>3 DEF PointerAhead, Pointed

\* or a packet that a duplicate acknowledgement brings out.
LEMMA SendOneKeepsPointer ==
    ASSUME ChannelInv, NEW dups, SendOne(dups), UNCHANGED <<queue, acked, got>>,
           acks' \in Seq(Int)
    PROVE  ChannelInv'
<1> USE DEF ChannelInv, AgentInv
<1> DEFINE p == [seq |-> tseq, ptr |-> None]
<1>1. CASE /\ net' = Append(net, p) /\ tseq' = tseq + 1 /\ maxseq' = Greater(maxseq, tseq)
           /\ UNCHANGED <<current, curseq, timeouts>>
  <2>1. p \in Packet
    BY DEF Packet
  <2> HIDE DEF p
  <2>2. net' \in Seq(Packet) /\ \A n \in DOMAIN net : n \in DOMAIN net' /\ net'[n] = net[n]
    BY <1>1, <2>1
  <2> QED
    BY <1>1, <2>2 DEF PointerAhead, Greater
<1>2. CASE UNCHANGED <<net, current, curseq, tseq, maxseq, timeouts>>
  BY <1>2 DEF PointerAhead
<1> QED
  BY <1>1, <1>2 DEF SendOne

LEMMA InitChannel == Init => ChannelInv
BY DEF Init, ChannelInv, AgentInv, PointerAhead, Packet

LEMMA StepChannel == ChannelInv /\ [Step]_vars => ChannelInv'
<1> SUFFICES ASSUME ChannelInv, [Step]_vars PROVE ChannelInv'
  OBVIOUS
<1> USE DEF ChannelInv, AgentInv
<1>1. ASSUME NEW o \in Outputs, Submit(o) PROVE ChannelInv'
  <2>1. Append(queue, o) \in Seq(Outputs) /\ UNCHANGED <<got, acks, timeouts>>
    BY <1>1 DEF Submit
  <2> QED
    BY <1>1, <2>1, TryToSendKeepsPointer DEF Submit
<1>2. CASE Recv
  <2>1. net # <<>> /\ Head(net) \in Packet /\ Tail(net) \in Seq(Packet)
    BY <1>2 DEF Recv
  <2>2. got' \subseteq Int /\ acks' \in Seq(Int) /\ timeouts' = timeouts
    <3>1. got' \subseteq Int /\ timeouts' = timeouts
      BY <1>2, <2>1 DEF Recv, Packet
    <3>2. PICK a \in got' \union {-1} : acks' = Append(acks, a)
      BY <1>2 DEF Recv
    <3>3. a \in Int
      BY <3>1
    <3> QED
      BY <3>1, <3>2, <3>3
  <2>3. CASE Head(net).ptr # None
    <3>1. TryToSend(Tail(net), queue)
      BY <1>2, <2>3 DEF Recv, AskNext
    <3> QED
      BY <2>1, <2>2, <3>1, TryToSendKeepsPointer
  <2>4. CASE Head(net).ptr = None
    <3>1. net' = Tail(net) /\ UNCHANGED <<queue, current, agent>>
      BY <1>2, <2>4 DEF Recv
    <3>2. ASSUME Pointed(net) PROVE Pointed(net)'
      <4>1. PICK n \in DOMAIN net : net[n].ptr # None
        BY <3>2 DEF Pointed
      <4>2. n # 1 /\ n \in 1..Len(net)
        BY <2>1, <2>4, <4>1
      <4>3. n - 1 \in DOMAIN Tail(net) /\ Tail(net)[n - 1] = net[n]
        BY <2>1, <4>2
      <4> QED
        BY <3>1, <4>1, <4>3 DEF Pointed
    <3> QED
      BY <2>1, <2>2, <3>1, <3>2 DEF PointerAhead, Pointed, agent
  <2> QED
    BY <2>3, <2>4
<1>3. CASE Ack
  <2>1. /\ acks # <<>> /\ acks' = Tail(acks) /\ UNCHANGED <<queue, got>>
        /\ (Head(acks) > acked /\ NewAck(Head(acks))) \/ (Head(acks) = acked /\ DupAck)
    BY <1>3 DEF Ack
  <2>2. Head(acks) \in Int /\ acks' \in Seq(Int)
    BY <2>1
  <2>3. CASE NewAck(Head(acks))
    <3> DEFINE a == Head(acks)
               from == Greater(tseq, a + 1)
    <3>1. acked' = a /\ SendMuch(net, current, curseq, from, a) /\ timeouts' = timeouts
      BY <2>3 DEF NewAck
    <3>2. a \in Int /\ from \in Int
      BY <2>2 DEF Greater
    <3> HIDE DEF a, from
    <3> QED
      BY <2>1, <2>2, <3>1, <3>2, SendKeepsPointer DEF PointerAhead, Pointed
  <2>4. CASE DupAck
    <3>1. CASE Resume
      BY <2>1, <2>2, <2>4, <3>1, ResumeKeepsPointer DEF DupAck
    <3>2. CASE SendOne(dupacks + 1)
      BY <2>1, <2>2, <2>4, <3>2, SendOneKeepsPointer DEF DupAck
    <3>3. CASE UNCHANGED <<net, current, curseq, tseq, maxseq, timeouts>>
      BY <2>1, <2>2, <2>4, <3>3 DEF DupAck, PointerAhead
    <3> QED
      BY <2>4, <3>1, <3>2, <3>3 DEF DupAck
  <2> QED
    BY <2>1, <2>3, <2>4
<1>4. CASE Timeout
  <2>1. Resume /\ UNCHANGED <<queue, acked, got, acks>>
    BY <1>4 DEF Timeout
  <2> QED
    BY <2>1, ResumeKeepsPointer
<1>5. CASE UNCHANGED vars
  BY <1>5 DEF vars, agent, PointerAhead
<1> QED
  BY <1>1, <1>2, <1>3, <1>4, <1>5 DEF Step

-----------------------------------------------------------------------------
\* The stream, for the packets on the way, the queue, what the sink has and what
\* it has recorded: StreamInv takes those of the state, a lemma those within a step.

\* The numbers of the agent belong together.
Numbers(packets, G) ==
    /\ curseq \in Int /\ tseq \in Int /\ acked \in Int /\ maxseq \in Int
    /\ -1 <= acked /\ acked <= maxseq /\ maxseq <= curseq - 1 /\ tseq \in 0..curseq
    /\ G \subseteq 0..maxseq /\ 0..acked \subseteq G
    /\ \A n \in DOMAIN packets : packets[n].seq \in 0..maxseq

\* Before the SYN there is nothing.
Silent(packets, e) ==
    maxseq = -1 => curseq = 0 /\ packets = <<>> /\ e = <<>> /\ current = None

\* What waits in the queue was not handed to TCP, and waits once.
Waiting(q) ==
    /\ \A n \in DOMAIN q : last[q[n]] = -1
    /\ \A m, n \in DOMAIN q : m # n => q[m] # q[n]

\* What is further was handed to TCP; the pointer TCP holds is of the output it
\* was given last.
Handed(packets, e) ==
    /\ current # None => last[current] = curseq - 1
    /\ \A n \in DOMAIN packets : packets[n].ptr # None => last[packets[n].ptr] # -1
    /\ \A n \in DOMAIN e : last[e[n]] # -1

\* The stream is as long as what was handed to TCP, and the SYN.
Produced ==
    /\ IsFiniteSet({o \in Outputs : last[o] # -1})
    /\ curseq = SumFunctionOnSet(Packets, {o \in Outputs : last[o] # -1})
                    + (IF maxseq = -1 THEN 0 ELSE 1)

Seqs(packets) == {packets[n].seq : n \in DOMAIN packets}

\* Nothing is skipped: when a packet arrives, the sink has all those before it.
NoGap(packets, G) ==
    \A n \in DOMAIN packets : 0..packets[n].seq \subseteq G \union {packets[k].seq : k \in 1..n}

\* Every packet before the next to send arrived or is on the way.
AllSent(packets, G) == 0..(tseq - 1) \subseteq G \union Seqs(packets)

\* A pointer rides on the last packet of its output, but for a first output of
\* one packet, whose pointer rides on the SYN, ahead of all others.
RidesOnLast(packets, e, l) ==
    \A n \in DOMAIN packets : packets[n].ptr # None =>
        \/ packets[n].seq = l[packets[n].ptr]
        \/ n = 1 /\ l[packets[n].ptr] = 1 /\ e = <<>>

Delivered(G, e) ==
    \A n \in DOMAIN e : 0..last[e[n]] \subseteq G \/ (n = 1 /\ last[e[n]] = 1)

Stream(packets, q, G, e) ==
    /\ packets \in Seq(Packet) /\ q \in Seq(Outputs) /\ e \in Seq(Outputs)
    /\ current \in Outputs \union {None} /\ last \in [Outputs -> Nat \union {-1}]
    /\ Numbers(packets, G) /\ Silent(packets, e) /\ Waiting(q) /\ Handed(packets, e) /\ Produced
    /\ NoGap(packets, G) /\ AllSent(packets, G)
    /\ RidesOnLast(packets, e, last) /\ Delivered(G, e)

StreamInv == Stream(net, queue, got, exited)

\* The acknowledgements on the way are of packets the sink has, and never go down.
AckInv ==
    /\ acks \in Seq(Nat) /\ dupacks \in Nat
    /\ \A n \in DOMAIN acks : acked <= acks[n] /\ 0..acks[n] \subseteq got
    /\ \A m, n \in DOMAIN acks : m < n => acks[m] <= acks[n]

-----------------------------------------------------------------------------
\* send_much, when the stream ends before total and the pointer rides on packet
\* final: the burst is what lies between from and upto, if anything does.
Sends(rest, ptr, cs, from, ack, total, final, upto) ==
    /\ upto <= total - 1 /\ (ack < total - 1 => ack < upto)
    /\ from > upto => /\ net' = rest /\ tseq' = from /\ curseq' = cs
                      /\ current' = ptr /\ maxseq' = maxseq
    /\ from <= upto =>
         /\ tseq' = upto + 1 /\ curseq' = total /\ maxseq' = Greater(maxseq, upto)
         /\ current' = IF final \in from..upto THEN None ELSE ptr
         /\ \E burst \in Seq(Packet) :
              /\ net' = rest \o burst /\ Len(burst) = upto - from + 1
              /\ \A i \in 1..Len(burst) :
                   /\ burst[i].seq = from + i - 1
                   /\ burst[i].ptr = IF from + i - 1 = final THEN ptr ELSE None

LEMMA SendCases ==
    ASSUME NEW rest, NEW ptr \in Outputs \union {None}, NEW cs \in Int, NEW from \in Int,
           NEW ack \in Int, SendMuch(rest, ptr, cs, from, ack)
    PROVE  \E upto \in Int :
             Sends(rest, ptr, cs, from, ack, WithSyn(cs, from),
                   IF Starts(from) /\ cs = 1 THEN 0 ELSE WithSyn(cs, from) - 1, upto)
<1>1. PICK win \in 1..Window :
        LET total == WithSyn(cs, from)
            upto == Lesser(ack + win, total - 1)
            final == IF Starts(from) /\ cs = 1 THEN 0 ELSE total - 1
            burst == [i \in 1..(upto - from + 1) |->
                        [seq |-> from + i - 1,
                         ptr |-> PointerOn(from + i - 1, from, ptr, final)]]
        IN  IF from > upto
            THEN /\ net' = rest /\ tseq' = from /\ curseq' = cs /\ current' = ptr
                 /\ UNCHANGED maxseq
            ELSE /\ net' = rest \o burst
                 /\ tseq' = upto + 1
                 /\ curseq' = total
                 /\ maxseq' = Greater(maxseq, upto)
                 /\ current' = PointerLeft(from..upto, ptr, final)
  BY DEF SendMuch
<1> DEFINE total == WithSyn(cs, from)
           upto == Lesser(ack + win, total - 1)
           final == IF Starts(from) /\ cs = 1 THEN 0 ELSE total - 1
           burst == [i \in 1..(upto - from + 1) |->
                        [seq |-> from + i - 1,
                         ptr |-> PointerOn(from + i - 1, from, ptr, final)]]
<1>2. total \in Int /\ upto \in Int /\ final \in Int
  BY ChannelAssumption DEF WithSyn, Lesser
<1>3. upto <= total - 1 /\ (ack < total - 1 => ack < upto)
  <2> HIDE DEF total
  <2> QED
    BY <1>2, ChannelAssumption DEF Lesser
<1>4. from > upto => /\ net' = rest /\ tseq' = from /\ curseq' = cs
                    /\ current' = ptr /\ maxseq' = maxseq
  BY <1>1
<1>5. ASSUME from <= upto
      PROVE  /\ tseq' = upto + 1 /\ curseq' = total /\ maxseq' = Greater(maxseq, upto)
             /\ current' = (IF final \in from..upto THEN None ELSE ptr)
             /\ net' = rest \o burst
             /\ burst \in Seq(Packet) /\ Len(burst) = upto - from + 1
             /\ \A i \in 1..Len(burst) :
                   /\ burst[i].seq = from + i - 1
                   /\ burst[i].ptr = IF from + i - 1 = final THEN ptr ELSE None
  <2>1. ~(from > upto)
    BY <1>2, <1>5
  <2> HIDE DEF total, upto, final
  <2>2. /\ tseq' = upto + 1 /\ curseq' = total /\ maxseq' = Greater(maxseq, upto)
        /\ current' = PointerLeft(from..upto, ptr, final) /\ net' = rest \o burst
    BY <1>1, <2>1 DEF total, upto, final
  <2>3. \A i \in 1..(upto - from + 1) :
          [seq |-> from + i - 1, ptr |-> PointerOn(from + i - 1, from, ptr, final)] \in Packet
    BY <1>2 DEF Packet, PointerOn
  <2>4. upto - from + 1 \in Nat
    BY <1>2, <1>5
  <2>5. burst \in Seq(Packet) /\ Len(burst) = upto - from + 1
    BY <2>3, <2>4
  <2>6. \A i \in 1..Len(burst) : /\ burst[i].seq = from + i - 1
                                 /\ burst[i].ptr = PointerOn(from + i - 1, from, ptr, final)
    BY <2>5
  <2> HIDE DEF burst
  <2> QED
    BY <2>2, <2>5, <2>6 DEF PointerLeft, PointerOn
<1> HIDE DEF total, upto, final, burst
<1>6. Sends(rest, ptr, cs, from, ack, total, final, upto)
  BY <1>3, <1>4, <1>5 DEF Sends
<1> QED
  BY <1>2, <1>6 DEF total, final

\* What a burst starts from: the packets before it are covered, and the pointer
\* is of the output that ends the stream.
Ready(rest, ptr, cs, from, ack, G, e, l) ==
    /\ rest \in Seq(Packet) /\ ptr \in Outputs \union {None} /\ cs \in Int /\ from \in 0..cs
    /\ ack \in Int /\ maxseq \in Int /\ -1 <= ack /\ ack <= maxseq /\ maxseq <= cs - 1
    /\ G \subseteq 0..maxseq /\ \A n \in DOMAIN rest : rest[n].seq \in 0..maxseq
    /\ maxseq = -1 => cs > 0 /\ from = 0 /\ rest = <<>> /\ e = <<>>
    /\ NoGap(rest, G) /\ 0..(from - 1) \subseteq G \union Seqs(rest)
    /\ RidesOnLast(rest, e, l) /\ (ptr # None => l[ptr] = WithSyn(cs, from) - 1)

\* The numbers after a burst.
LEMMA SendNumbers ==
    ASSUME NEW rest, NEW ptr, NEW cs, NEW from, NEW ack, NEW G, NEW e, NEW l,
           Ready(rest, ptr, cs, from, ack, G, e, l), SendMuch(rest, ptr, cs, from, ack)
    PROVE  /\ curseq' \in Int /\ tseq' \in Int /\ maxseq' \in Int
           /\ curseq' = WithSyn(cs, from) /\ tseq' \in 0..curseq'
           /\ maxseq <= maxseq' /\ maxseq' # -1 /\ maxseq' <= curseq' - 1
           /\ current' \in {None, ptr}
           /\ curseq' = IF maxseq = -1 THEN cs + 1 ELSE cs
<1> DEFINE total == WithSyn(cs, from)
           final == IF Starts(from) /\ cs = 1 THEN 0 ELSE total - 1
<1>1. /\ ptr \in Outputs \union {None} /\ cs \in Int /\ from \in Int /\ ack \in Int
      /\ 0 <= from /\ from <= cs
      /\ maxseq \in Int /\ -1 <= ack /\ ack <= maxseq /\ maxseq <= cs - 1
      /\ maxseq = -1 => cs > 0 /\ from = 0
  BY DEF Ready
<1>2. PICK upto \in Int : Sends(rest, ptr, cs, from, ack, total, final, upto)
  BY <1>1, SendCases
<1>3. total = IF maxseq = -1 THEN cs + 1 ELSE cs
  BY <1>1 DEF WithSyn, Starts
<1>4. CASE from > upto
  <2>1. maxseq # -1
    <3> HIDE DEF total
    <3> QED
      BY <1>1, <1>2, <1>3, <1>4 DEF Sends
  <2>2. total = cs
    BY <1>3, <2>1
  <2> HIDE DEF total
  <2> QED
    BY <1>1, <1>2, <1>4, <2>1, <2>2 DEF Sends, total
<1>5. CASE from <= upto
  <2> HIDE DEF final
  <2>1. /\ tseq' = upto + 1 /\ curseq' = total /\ maxseq' = Greater(maxseq, upto)
        /\ current' \in {None, ptr}
    BY <1>2, <1>5 DEF Sends
  <2>2. total \in Int /\ upto <= total - 1 /\ 0 <= upto /\ maxseq <= total - 1
    <3> HIDE DEF total
    <3> QED
      BY <1>1, <1>2, <1>3, <1>5 DEF Sends
  <2> HIDE DEF total
  <2> QED
    BY <1>1, <1>3, <1>5, <2>1, <2>2 DEF Greater, total
<1>6. from > upto \/ from <= upto
  BY <1>1
<1> QED
  BY <1>4, <1>5, <1>6

\* The packets after a burst: still without a gap, and the pointer rides last.
LEMMA SendPackets ==
    ASSUME NEW rest, NEW ptr, NEW cs, NEW from, NEW ack, NEW G, NEW e, NEW l,
           Ready(rest, ptr, cs, from, ack, G, e, l), SendMuch(rest, ptr, cs, from, ack)
    PROVE  /\ net' \in Seq(Packet)
           /\ \A n \in DOMAIN net' : net'[n].seq \in 0..maxseq'
           /\ \A n \in DOMAIN net' : net'[n].ptr \in {None, ptr}
                                       \/ \E k \in DOMAIN rest : rest[k].ptr = net'[n].ptr
           /\ NoGap(net', G) /\ 0..(tseq' - 1) \subseteq G \union Seqs(net')
           /\ RidesOnLast(net', e, l)
<1> DEFINE total == WithSyn(cs, from)
           final == IF Starts(from) /\ cs = 1 THEN 0 ELSE total - 1
<1>1. /\ rest \in Seq(Packet) /\ ptr \in Outputs \union {None} /\ cs \in Int
      /\ from \in Int /\ 0 <= from /\ ack \in Int
      /\ maxseq \in Int /\ maxseq <= cs - 1
      /\ \A n \in DOMAIN rest : rest[n].seq \in 0..maxseq
      /\ maxseq = -1 => rest = <<>> /\ e = <<>>
      /\ NoGap(rest, G) /\ 0..(from - 1) \subseteq G \union Seqs(rest)
      /\ RidesOnLast(rest, e, l) /\ (ptr # None => l[ptr] = total - 1)
  BY DEF Ready
<1>2. PICK upto \in Int : Sends(rest, ptr, cs, from, ack, total, final, upto)
  BY <1>1, SendCases
<1>3. CASE from > upto
  BY <1>1, <1>2, <1>3 DEF Sends
<1>4. CASE from <= upto
  <2>1. PICK burst \in Seq(Packet) :
          /\ net' = rest \o burst /\ Len(burst) = upto - from + 1
          /\ \A i \in 1..Len(burst) :
               /\ burst[i].seq = from + i - 1
               /\ burst[i].ptr = IF from + i - 1 = final THEN ptr ELSE None
    BY <1>2, <1>4 DEF Sends
  <2>2. tseq' = upto + 1 /\ maxseq' = Greater(maxseq, upto) /\ upto <= total - 1
    BY <1>2, <1>4 DEF Sends
  <2> DEFINE all == rest \o burst
             r == Len(rest)
  <2>3. /\ r \in Nat /\ Len(burst) \in Nat /\ Len(all) = r + Len(burst)
        /\ DOMAIN all = 1..(r + Len(burst)) /\ DOMAIN rest = 1..r /\ all \in Seq(Packet)
    <3>1. rest \in Seq(Packet) /\ burst \in Seq(Packet)
      BY <1>1
    <3>2. /\ r \in Nat /\ Len(burst) \in Nat /\ Len(all) = r + Len(burst)
          /\ DOMAIN all = 1..Len(all) /\ DOMAIN rest = 1..r
      BY <3>1
    <3>3. all \in Seq(Packet)
      BY <3>1
    <3> QED
      BY <3>2, <3>3
  <2>4. \A n \in 1..r : all[n] = rest[n]
    BY <1>1, <2>1
  <2>5. \A n \in DOMAIN all : n \notin 1..r =>
          /\ n - r \in 1..Len(burst) /\ all[n] = burst[n - r]
    <3>1. rest \in Seq(Packet) /\ burst \in Seq(Packet)
      BY <1>1
    <3> QED
      BY <2>3, <3>1
  <2>6. \A n \in DOMAIN all : n \notin 1..r =>
          /\ all[n].seq = from + (n - r) - 1 /\ n - r >= 1 /\ n - r <= upto - from + 1
          /\ all[n].ptr = IF from + (n - r) - 1 = final THEN ptr ELSE None
    BY <2>1, <2>5
  <2> HIDE DEF all, r, final
  <2>7. \A n \in DOMAIN all : all[n].seq \in 0..maxseq'
    <3> SUFFICES ASSUME NEW n \in DOMAIN all PROVE all[n].seq \in 0..maxseq'
      OBVIOUS
    <3>1. CASE n \in 1..r
      BY SMTT(30), <1>1, <2>2, <2>3, <2>4, <3>1 DEF Greater
    <3>2. CASE n \notin 1..r
      BY SMTT(30), <1>1, <2>2, <2>3, <2>6, <3>2 DEF Greater
    <3> QED
      BY <3>1, <3>2
  <2>8. NoGap(all, G)
    <3> SUFFICES ASSUME NEW n \in DOMAIN all, NEW s \in 0..all[n].seq, s \notin G
                 PROVE  \E k \in 1..n : all[k].seq = s
      BY DEF NoGap
    <3>1. CASE n \in 1..r
      <4>1. n \in DOMAIN rest /\ s \in 0..rest[n].seq
        BY <2>3, <2>4, <3>1
      <4>2. PICK k \in 1..n : rest[k].seq = s
        BY <1>1, <4>1 DEF NoGap
      <4> QED
        BY <2>3, <2>4, <3>1, <4>2
    <3>2. CASE n \notin 1..r /\ s \in 0..(from - 1)
      <4>1. PICK k \in DOMAIN rest : rest[k].seq = s
        BY <1>1, <3>2 DEF Seqs
      <4>2. k \in 1..n /\ all[k] = rest[k]
        BY <2>3, <2>4, <3>2, <4>1
      <4> QED
        BY <4>1, <4>2
    <3>3. CASE n \notin 1..r /\ s \notin 0..(from - 1)
      <4> DEFINE k == r + (s - from) + 1
      <4>1. /\ all[n].seq = from + (n - r) - 1 /\ n - r >= 1 /\ n \in Int /\ s \in Int
            /\ from <= s /\ s <= all[n].seq
        BY <1>1, <2>3, <2>6, <3>3
      <4>2. k \in 1..n /\ k \in DOMAIN all /\ k \notin 1..r /\ k - r = s - from + 1
        <5>1. from \in Int /\ r \in Nat
          BY <1>1, <2>3
        <5>2. k \in Int /\ r < k /\ k <= n /\ k - r = s - from + 1
          BY <4>1, <5>1
        <5>3. DOMAIN all = 1..(r + Len(burst)) /\ Len(burst) \in Nat /\ n \in DOMAIN all
          BY <2>3
        <5> HIDE DEF k
        <5> QED
          BY <4>1, <5>1, <5>2, <5>3
      <4> HIDE DEF k
      <4>3. all[k].seq = s
        BY <1>1, <2>6, <4>1, <4>2
      <4> QED
        BY <4>2, <4>3
    <3> QED
      BY <3>1, <3>2, <3>3
  <2>9. 0..(tseq' - 1) \subseteq G \union Seqs(all)
    <3> SUFFICES ASSUME NEW s \in 0..upto, s \notin G
                 PROVE  \E k \in DOMAIN all : all[k].seq = s
      BY <1>4, <2>2 DEF Seqs
    <3>1. CASE s \in 0..(from - 1)
      <4>1. PICK k \in DOMAIN rest : rest[k].seq = s
        BY <1>1, <3>1 DEF Seqs
      <4> QED
        BY <2>3, <2>4, <4>1
    <3>2. CASE s \notin 0..(from - 1)
      <4> DEFINE k == r + (s - from) + 1
      <4>1. s \in Int /\ from <= s /\ s <= upto
        BY <1>1, <3>2
      <4>2. k \in DOMAIN all /\ k \notin 1..r /\ k - r = s - from + 1
        <5>1. from \in Int /\ r \in Nat /\ Len(burst) = upto - from + 1
          BY <1>1, <2>1, <2>3
        <5>2. k \in Int /\ r < k /\ k <= r + Len(burst) /\ k - r = s - from + 1
          BY <4>1, <5>1
        <5>3. DOMAIN all = 1..(r + Len(burst)) /\ Len(burst) \in Nat
          BY <2>3
        <5> HIDE DEF k
        <5> QED
          BY <5>1, <5>2, <5>3
      <4> HIDE DEF k
      <4>3. all[k].seq = s
        BY <1>1, <2>6, <4>1, <4>2
      <4> QED
        BY <4>2, <4>3
    <3> QED
      BY <3>1, <3>2
  <2>10. RidesOnLast(all, e, l)
    <3> SUFFICES ASSUME NEW n \in DOMAIN all, all[n].ptr # None
                 PROVE  \/ all[n].seq = l[all[n].ptr]
                        \/ n = 1 /\ l[all[n].ptr] = 1 /\ e = <<>>
      BY DEF RidesOnLast
    <3>1. CASE n \in 1..r
      BY <1>1, <2>3, <2>4, <3>1 DEF RidesOnLast
    <3>2. CASE n \notin 1..r
      <4>1. all[n].seq = final /\ all[n].ptr = ptr /\ ptr # None /\ l[ptr] = total - 1
        BY <1>1, <2>6, <3>2
      <4>2. CASE ~(Starts(from) /\ cs = 1)
        BY <4>1, <4>2 DEF final
      <4>3. CASE Starts(from) /\ cs = 1
        <5>1. maxseq = -1 /\ from = 0 /\ final = 0 /\ total = 2 /\ rest = <<>> /\ e = <<>>
          BY <1>1, <4>3 DEF Starts, WithSyn, final
        <5>2. r = 0
          BY <5>1 DEF r
        <5>3. all[n].seq = n - 1 /\ n \in Int
          BY <2>3, <2>6, <3>2, <5>1, <5>2
        <5> QED
          BY <4>1, <5>1, <5>3
      <4> QED
        BY <4>2, <4>3
    <3> QED
      BY <3>1, <3>2
  <2>11. \A n \in DOMAIN all : all[n].ptr \in {None, ptr}
                                 \/ \E k \in DOMAIN rest : rest[k].ptr = all[n].ptr
    BY <2>3, <2>4, <2>6
  <2>12. net' = all
    BY <2>1 DEF all
  <2> QED
    BY <2>3, <2>7, <2>8, <2>9, <2>10, <2>11, <2>12
<1>5. from > upto \/ from <= upto
  BY <1>1
<1> QED
  BY <1>3, <1>4, <1>5

-----------------------------------------------------------------------------
\* The stream after a burst that is not for a new output.
LEMMA ResumeStream ==
    ASSUME StreamInv, maxseq # -1, NEW from, NEW ack, from \in 0..curseq, ack \in Int,
           -1 <= ack, ack <= maxseq, 0..ack \subseteq got,
           0..(from - 1) \subseteq got \union Seqs(net),
           SendMuch(net, current, curseq, from, ack),
           acked' = ack, UNCHANGED <<queue, got, exited, last>>
    PROVE  StreamInv'
<1>1. /\ net \in Seq(Packet) /\ queue \in Seq(Outputs) /\ exited \in Seq(Outputs)
      /\ current \in Outputs \union {None} /\ last \in [Outputs -> Nat \union {-1}]
      /\ Numbers(net, got) /\ Waiting(queue) /\ Handed(net, exited) /\ Produced
      /\ NoGap(net, got) /\ RidesOnLast(net, exited, last) /\ Delivered(got, exited)
  BY DEF StreamInv, Stream
<1>2. WithSyn(curseq, from) = curseq
  BY DEF WithSyn, Starts
<1>3. Ready(net, current, curseq, from, ack, got, exited, last)
  BY <1>1, <1>2 DEF Ready, Numbers, Handed
<1>4. /\ curseq' \in Int /\ tseq' \in Int /\ maxseq' \in Int
      /\ tseq' \in 0..curseq'
      /\ maxseq <= maxseq' /\ maxseq' # -1 /\ maxseq' <= curseq' - 1
      /\ current' \in {None, current} /\ curseq' = curseq
  BY <1>2, <1>3, SendNumbers
<1>5. /\ net' \in Seq(Packet)
      /\ \A n \in DOMAIN net' : net'[n].seq \in 0..maxseq'
      /\ \A n \in DOMAIN net' : net'[n].ptr \in {None, current}
                                  \/ \E k \in DOMAIN net : net[k].ptr = net'[n].ptr
      /\ NoGap(net', got) /\ 0..(tseq' - 1) \subseteq got \union Seqs(net')
      /\ RidesOnLast(net', exited, last)
  BY <1>3, SendPackets
<1>6. Numbers(net, got)'
  <2>1. maxseq \in Int /\ got \subseteq 0..maxseq
    BY <1>1 DEF Numbers
  <2> QED
    BY <1>4, <1>5, <2>1 DEF Numbers
<1>7. Silent(net, exited)'
  BY <1>4 DEF Silent
<1>8. Waiting(queue)'
  BY <1>1 DEF Waiting
<1>9. Handed(net, exited)'
  <2>1. ASSUME NEW n \in DOMAIN net', net'[n].ptr # None PROVE last[net'[n].ptr] # -1
    <3>1. CASE net'[n].ptr = current
      <4>1. last[current] = curseq - 1 /\ curseq \in Int /\ 0 <= maxseq /\ maxseq <= curseq - 1
            /\ maxseq \in Int
        BY <1>1, <2>1, <3>1 DEF Handed, Numbers
      <4> QED
        BY <3>1, <4>1
    <3>2. CASE \E k \in DOMAIN net : net[k].ptr = net'[n].ptr
      BY <1>1, <2>1, <3>2 DEF Handed
    <3> QED
      BY <1>5, <2>1, <3>1, <3>2
  <2> QED
    BY <1>1, <1>4, <2>1 DEF Handed
<1>10. Produced'
  BY <1>1, <1>4 DEF Produced
<1>11. NoGap(net, got)' /\ AllSent(net, got)'
  BY <1>5 DEF NoGap, AllSent, Seqs
<1>12. RidesOnLast(net, exited, last)'
  BY <1>5 DEF RidesOnLast
<1>13. Delivered(got, exited)'
  BY <1>1 DEF Delivered
<1>14. /\ (net \in Seq(Packet))' /\ (queue \in Seq(Outputs))' /\ (exited \in Seq(Outputs))'
       /\ (current \in Outputs \union {None})' /\ (last \in [Outputs -> Nat \union {-1}])'
  BY <1>1, <1>4, <1>5
<1> QED
  BY <1>6, <1>7, <1>8, <1>9, <1>10, <1>11, <1>12, <1>13, <1>14 DEF StreamInv, Stream

\* What leaves the stream alone.
LEMMA SameStream ==
    ASSUME StreamInv, UNCHANGED <<net, current, curseq, tseq, maxseq>>,
           UNCHANGED <<queue, acked, got, exited, last>>
    PROVE  StreamInv'
<1>1. Stream(net', queue', got', exited')
  BY DEF StreamInv
<1> QED
  BY <1>1 DEF StreamInv, Stream, Numbers, Silent, Waiting, Handed, Produced,
              NoGap, AllSent, Seqs, RidesOnLast, Delivered

\* The stream after a retransmission.
LEMMA RetransmitStream ==
    ASSUME StreamInv, maxseq # -1, Resume, UNCHANGED <<queue, acked, got, exited, last>>
    PROVE  StreamInv'
<1> DEFINE from == acked + 1
<1>1. /\ curseq \in Int /\ acked \in Int /\ maxseq \in Int
      /\ -1 <= acked /\ acked <= maxseq /\ maxseq <= curseq - 1 /\ 0..acked \subseteq got
  BY DEF StreamInv, Stream, Numbers
<1>2. from \in 0..curseq
  BY <1>1
<1>3. 0..(from - 1) \subseteq got \union Seqs(net)
  <2>1. 0..(from - 1) = 0..acked
    BY <1>1
  <2> QED
    BY <1>1, <2>1
<1> HIDE DEF from
<1>4. SendMuch(net, current, curseq, from, acked)
  BY DEF Resume, from
<1> QED
  BY <1>1, <1>2, <1>3, <1>4, ResumeStream

\* The stream after send_one: the packet that follows those that were sent.
LEMMA SendOneStream ==
    ASSUME StreamInv, maxseq # -1, NEW dups, SendOne(dups),
           UNCHANGED <<queue, acked, got, exited, last>>
    PROVE  StreamInv'
<1> DEFINE p == [seq |-> tseq, ptr |-> None]
           k == Len(net) + 1
<1>1. /\ net \in Seq(Packet) /\ queue \in Seq(Outputs) /\ exited \in Seq(Outputs)
      /\ current \in Outputs \union {None} /\ last \in [Outputs -> Nat \union {-1}]
      /\ Numbers(net, got) /\ Silent(net, exited) /\ Waiting(queue) /\ Handed(net, exited)
      /\ Produced /\ NoGap(net, got) /\ AllSent(net, got)
      /\ RidesOnLast(net, exited, last) /\ Delivered(got, exited)
  BY DEF StreamInv, Stream
<1>2. /\ curseq \in Int /\ tseq \in Int /\ acked \in Int /\ maxseq \in Int
      /\ -1 <= acked /\ acked <= maxseq /\ maxseq <= curseq - 1 /\ 0 <= tseq /\ tseq <= curseq
      /\ got \subseteq 0..maxseq /\ 0..acked \subseteq got
      /\ \A n \in DOMAIN net : net[n].seq \in 0..maxseq
  BY <1>1 DEF Numbers
<1>3. CASE /\ tseq < curseq /\ net' = Append(net, p) /\ tseq' = tseq + 1
           /\ maxseq' = Greater(maxseq, tseq) /\ UNCHANGED <<current, curseq, timeouts>>
  <2>1. p \in Packet /\ p.seq = tseq /\ p.ptr = None
    BY <1>2 DEF Packet
  <2> HIDE DEF p
  <2>2. /\ net' \in Seq(Packet) /\ k \in DOMAIN net' /\ net'[k] = p /\ DOMAIN net = 1..(k - 1)
        /\ k \in Nat /\ \A n \in DOMAIN net : n \in DOMAIN net' /\ net'[n] = net[n] /\ n <= k
        /\ \A n \in DOMAIN net' : n = k \/ n \in DOMAIN net
    BY <1>1, <1>3, <2>1
  <2> HIDE DEF k
  <2>3. /\ maxseq' \in Int /\ maxseq <= maxseq' /\ tseq <= maxseq' /\ maxseq' <= curseq - 1
        /\ maxseq' # -1
    BY <1>2, <1>3 DEF Greater
  <2>4. Numbers(net, got)'
    <3>1. \A n \in DOMAIN net' : net'[n].seq \in 0..maxseq'
      BY <1>2, <2>1, <2>2, <2>3
    <3>2. tseq' \in 0..curseq
      BY <1>2, <1>3
    <3> QED
      BY <1>2, <1>3, <2>3, <3>1, <3>2 DEF Numbers
  <2>5. Silent(net, exited)' /\ Waiting(queue)'
    BY <1>1, <2>3 DEF Silent, Waiting
  <2>6. Handed(net, exited)'
    BY <1>1, <1>3, <2>1, <2>2 DEF Handed
  <2>7. Produced'
    BY <1>1, <1>3, <2>3 DEF Produced
  <2>8. 0..tseq \subseteq got \union Seqs(net')
    <3> SUFFICES ASSUME NEW s \in 0..tseq, s \notin got
                 PROVE  \E n \in DOMAIN net' : net'[n].seq = s
      BY DEF Seqs
    <3>1. CASE s = tseq
      BY <2>1, <2>2, <3>1
    <3>2. CASE s \in 0..(tseq - 1)
      <4>1. PICK n \in DOMAIN net : net[n].seq = s
        BY <1>1, <3>2 DEF AllSent, Seqs
      <4> QED
        BY <2>2, <4>1
    <3> QED
      BY <1>2, <3>1, <3>2
  <2>9. AllSent(net, got)'
    BY <1>2, <1>3, <2>8 DEF AllSent, Seqs
  <2>10. NoGap(net, got)'
    <3> SUFFICES ASSUME NEW n \in DOMAIN net', NEW s \in 0..net'[n].seq, s \notin got
                 PROVE  \E m \in 1..n : net'[m].seq = s
      BY DEF NoGap
    <3>1. CASE n \in DOMAIN net
      <4>1. s \in 0..net[n].seq
        BY <2>2, <3>1
      <4>2. PICK m \in 1..n : net[m].seq = s
        BY <1>1, <3>1, <4>1 DEF NoGap
      <4>3. m \in DOMAIN net
        BY <2>2, <3>1, <4>2
      <4> QED
        BY <2>2, <4>2, <4>3
    <3>2. CASE n = k
      <4>1. PICK m \in DOMAIN net' : net'[m].seq = s
        BY <2>1, <2>2, <2>8, <3>2 DEF Seqs
      <4>2. m \in 1..k
        BY <2>2, <4>1
      <4> QED
        BY <3>2, <4>1, <4>2
    <3> QED
      BY <2>2, <3>1, <3>2
  <2>11. RidesOnLast(net, exited, last)'
    BY <1>1, <2>1, <2>2 DEF RidesOnLast
  <2>12. Delivered(got, exited)'
    BY <1>1 DEF Delivered
  <2>13. /\ (net \in Seq(Packet))' /\ (queue \in Seq(Outputs))' /\ (exited \in Seq(Outputs))'
         /\ (current \in Outputs \union {None})' /\ (last \in [Outputs -> Nat \union {-1}])'
    BY <1>1, <1>3, <2>2
  <2> QED
    BY <2>4, <2>5, <2>6, <2>7, <2>9, <2>10, <2>11, <2>12, <2>13 DEF StreamInv, Stream
<1>4. CASE UNCHANGED <<net, current, curseq, tseq, maxseq, timeouts>>
  BY <1>4, SameStream
<1> QED
  BY <1>3, <1>4 DEF SendOne

\* The stream after tryToSend.
LEMMA TryToSendStream ==
    ASSUME NEW rest, NEW q, NEW G, NEW e, Stream(rest, q, G, e), TryToSend(rest, q),
           got' = G, exited' = e
    PROVE  StreamInv'
<1>1. /\ rest \in Seq(Packet) /\ q \in Seq(Outputs) /\ e \in Seq(Outputs)
      /\ current \in Outputs \union {None} /\ last \in [Outputs -> Nat \union {-1}]
      /\ Numbers(rest, G) /\ Silent(rest, e) /\ Waiting(q) /\ Handed(rest, e) /\ Produced
      /\ NoGap(rest, G) /\ AllSent(rest, G)
      /\ RidesOnLast(rest, e, last) /\ Delivered(G, e)
  BY DEF Stream
<1>2. CASE ~(current = None /\ q # <<>>)
  <2>1. /\ queue' = q /\ net' = rest /\ curseq' = curseq /\ tseq' = tseq /\ acked' = acked
        /\ maxseq' = maxseq /\ current' = current /\ last' = last
    BY <1>2 DEF TryToSend, agent
  <2>2. Numbers(net, got)' /\ Silent(net, exited)' /\ Waiting(queue)' /\ Handed(net, exited)'
    BY <1>1, <2>1 DEF Numbers, Silent, Waiting, Handed
  <2>3. Produced'
    BY <1>1, <2>1 DEF Produced
  <2>4. NoGap(net, got)' /\ AllSent(net, got)'
    BY <1>1, <2>1 DEF NoGap, AllSent, Seqs
  <2>5. RidesOnLast(net, exited, last)' /\ Delivered(got, exited)'
    BY <1>1, <2>1 DEF RidesOnLast, Delivered
  <2>6. /\ (net \in Seq(Packet))' /\ (queue \in Seq(Outputs))' /\ (exited \in Seq(Outputs))'
        /\ (current \in Outputs \union {None})' /\ (last \in [Outputs -> Nat \union {-1}])'
    BY <1>1, <2>1
  <2> QED
    BY <2>2, <2>3, <2>4, <2>5, <2>6 DEF StreamInv, Stream
<1>3. CASE current = None /\ q # <<>>
  <2> DEFINE o == Head(q)
             cs == curseq + Packets[o]
  <2>1. /\ queue' = Tail(q) /\ acked' = acked
        /\ last' = [last EXCEPT ![o] = WithSyn(cs, tseq) - 1]
        /\ SendMuch(rest, o, cs, tseq, acked)
    BY <1>3 DEF TryToSend
  <2>2. o \in Outputs /\ o # None /\ Packets[o] \in Nat /\ Packets[o] > 0 /\ cs \in Int
    <3>1. o \in Outputs
      BY <1>1, <1>3
    <3> QED
      BY <1>1, <3>1, ChannelAssumption DEF Numbers
  <2>3. cs = curseq + Packets[o] /\ last[o] = -1
    <3>1. 1 \in DOMAIN q /\ o = q[1]
      BY <1>1, <1>3
    <3> QED
      BY <1>1, <3>1 DEF Waiting
  <2>4. Tail(q) \in Seq(Outputs) /\ \A n \in DOMAIN Tail(q) : n + 1 \in DOMAIN q /\ Tail(q)[n] = q[n + 1]
    BY <1>1, <1>3
  <2>5. \A n \in DOMAIN q : n # 1 => q[n] # o
    <3>1. 1 \in DOMAIN q /\ o = q[1]
      BY <1>1, <1>3
    <3> QED
      BY <1>1, <3>1 DEF Waiting
  <2> HIDE DEF o, cs
  <2>6. last'[o] = WithSyn(cs, tseq) - 1 /\ \A x \in Outputs : x # o => last'[x] = last[x]
    BY <1>1, <2>1, <2>2
  <2>7. /\ curseq \in Int /\ tseq \in Int /\ acked \in Int /\ maxseq \in Int
        /\ -1 <= acked /\ acked <= maxseq /\ maxseq <= curseq - 1 /\ 0 <= tseq /\ tseq <= curseq
        /\ G \subseteq 0..maxseq /\ 0..acked \subseteq G
        /\ \A n \in DOMAIN rest : rest[n].seq \in 0..maxseq
    BY <1>1 DEF Numbers
  <2>8. \A n \in DOMAIN rest : rest[n].ptr \in Outputs \union {None}
    <3>1. \A n \in DOMAIN rest : rest[n] \in Packet
      BY <1>1
    <3> QED
      BY <3>1 DEF Packet
  <2>9. \A n \in DOMAIN rest : rest[n].ptr # None => last'[rest[n].ptr] = last[rest[n].ptr]
    <3> SUFFICES ASSUME NEW n \in DOMAIN rest, rest[n].ptr # None
                 PROVE  last'[rest[n].ptr] = last[rest[n].ptr]
      OBVIOUS
    <3>1. rest[n].ptr \in Outputs /\ last[rest[n].ptr] # -1
      BY <1>1, <2>8 DEF Handed
    <3> QED
      BY <2>3, <2>6, <3>1
  <2>10. \A n \in DOMAIN e : e[n] # o /\ last'[e[n]] = last[e[n]]
    <3> SUFFICES ASSUME NEW n \in DOMAIN e PROVE e[n] # o /\ last'[e[n]] = last[e[n]]
      OBVIOUS
    <3>1. e[n] \in Outputs /\ last[e[n]] # -1
      BY <1>1 DEF Handed
    <3> QED
      BY <2>3, <2>6, <3>1
  <2>11. Ready(rest, o, cs, tseq, acked, G, e, last')
    <3>1. RidesOnLast(rest, e, last')
      BY <1>1, <2>9 DEF RidesOnLast
    <3>2. maxseq = -1 => cs > 0 /\ tseq = 0 /\ rest = <<>> /\ e = <<>>
      BY <1>1, <2>2, <2>3, <2>7 DEF Silent
    <3>3. 0..(tseq - 1) \subseteq G \union Seqs(rest)
      BY <1>1 DEF AllSent
    <3>4. tseq \in 0..cs /\ maxseq <= cs - 1
      BY <2>2, <2>3, <2>7
    <3> QED
      BY <1>1, <2>2, <2>6, <2>7, <3>1, <3>2, <3>3, <3>4 DEF Ready
  <2>12. /\ curseq' \in Int /\ tseq' \in Int /\ maxseq' \in Int
         /\ curseq' = WithSyn(cs, tseq) /\ tseq' \in 0..curseq'
         /\ maxseq <= maxseq' /\ maxseq' # -1 /\ maxseq' <= curseq' - 1
         /\ current' \in {None, o}
         /\ curseq' = IF maxseq = -1 THEN cs + 1 ELSE cs
    BY <2>1, <2>11, SendNumbers
  <2>13. /\ net' \in Seq(Packet)
         /\ \A n \in DOMAIN net' : net'[n].seq \in 0..maxseq'
         /\ \A n \in DOMAIN net' : net'[n].ptr \in {None, o}
                                     \/ \E k \in DOMAIN rest : rest[k].ptr = net'[n].ptr
         /\ NoGap(net', G) /\ 0..(tseq' - 1) \subseteq G \union Seqs(net')
         /\ RidesOnLast(net', e, last')
    BY <2>1, <2>11, SendPackets
  <2>14. last'[o] = curseq' - 1 /\ last'[o] # -1 /\ last'[o] \in Nat
    <3>1. curseq' - 1 \in Nat
      BY <2>2, <2>3, <2>7, <2>12
    <3> QED
      BY <2>6, <2>12, <3>1
  <2>15. Numbers(net, got)'
    BY <2>1, <2>7, <2>12, <2>13 DEF Numbers
  <2>16. Silent(net, exited)'
    BY <2>12 DEF Silent
  <2>17. Waiting(queue)'
    <3>1. \A n \in DOMAIN Tail(q) : last'[Tail(q)[n]] = -1
      <4> SUFFICES ASSUME NEW n \in DOMAIN Tail(q) PROVE last'[Tail(q)[n]] = -1
        OBVIOUS
      <4>1. n \in Nat /\ n # 0 /\ n + 1 \in DOMAIN q /\ Tail(q)[n] = q[n + 1]
        BY <1>1, <1>3, <2>4
      <4>2. q[n + 1] # o /\ last[q[n + 1]] = -1 /\ q[n + 1] \in Outputs
        BY <1>1, <2>5, <4>1 DEF Waiting
      <4> QED
        BY <2>6, <4>1, <4>2
    <3>2. \A m, n \in DOMAIN Tail(q) : m # n => Tail(q)[m] # Tail(q)[n]
      <4> SUFFICES ASSUME NEW m \in DOMAIN Tail(q), NEW n \in DOMAIN Tail(q), m # n
                   PROVE  Tail(q)[m] # Tail(q)[n]
        OBVIOUS
      <4>1. m \in Nat /\ n \in Nat /\ m + 1 # n + 1
        BY <1>1, <1>3
      <4> QED
        BY <1>1, <2>4, <4>1 DEF Waiting
    <3> QED
      BY <2>1, <3>1, <3>2 DEF Waiting
  <2>18. Handed(net, exited)'
    <3>1. ASSUME NEW n \in DOMAIN net', net'[n].ptr # None PROVE last'[net'[n].ptr] # -1
      <4>1. CASE net'[n].ptr = o
        BY <2>14, <4>1
      <4>2. CASE \E k \in DOMAIN rest : rest[k].ptr = net'[n].ptr
        <5>1. PICK k \in DOMAIN rest : rest[k].ptr = net'[n].ptr
          BY <4>2
        <5> QED
          BY <1>1, <2>9, <3>1, <5>1 DEF Handed
      <4> QED
        BY <2>13, <3>1, <4>1, <4>2
    <3>2. \A n \in DOMAIN e : last'[e[n]] # -1
      BY <1>1, <2>10 DEF Handed
    <3>3. current' # None => last'[current'] = curseq' - 1
      BY <2>12, <2>14
    <3> QED
      BY <3>1, <3>2, <3>3 DEF Handed
  <2>19. Produced'
    <3> DEFINE S == {x \in Outputs : last[x] # -1}
               T == {x \in Outputs : last'[x] # -1}
    <3>1. IsFiniteSet(S) /\ curseq = SumFunctionOnSet(Packets, S) + (IF maxseq = -1 THEN 0 ELSE 1)
      BY <1>1 DEF Produced
    <3>2. o \notin S /\ T = S \union {o}
      BY <2>2, <2>3, <2>6, <2>14
    <3>3. \A x \in S \union {o} : Packets[x] \in Int
      BY <2>2, ChannelAssumption
    <3> HIDE DEF S, T
    <3>4. IsFiniteSet(T)
      BY <3>1, <3>2, FS_AddElement
    <3>5. SumFunctionOnSet(Packets, T) = Packets[o] + SumFunctionOnSet(Packets, S)
      BY <3>1, <3>2, <3>3, SumAdd
    <3>6. SumFunctionOnSet(Packets, S) \in Int
      BY <3>1, <3>3, SumType
    <3>7. curseq' = SumFunctionOnSet(Packets, T) + 1
      <4>1. CASE maxseq = -1
        BY <2>2, <2>3, <2>7, <2>12, <3>1, <3>5, <3>6, <4>1
      <4>2. CASE maxseq # -1
        BY <2>2, <2>3, <2>7, <2>12, <3>1, <3>5, <3>6, <4>2
      <4> QED
        BY <4>1, <4>2
    <3> QED
      BY <2>12, <3>4, <3>7 DEF Produced, T
  <2>20. NoGap(net, got)' /\ AllSent(net, got)'
    BY <2>13 DEF NoGap, AllSent, Seqs
  <2>21. RidesOnLast(net, exited, last)'
    BY <2>13 DEF RidesOnLast
  <2>22. Delivered(got, exited)'
    BY <1>1, <2>10 DEF Delivered
  <2>23. last' \in [Outputs -> Nat \union {-1}]
    BY <1>1, <2>1, <2>6, <2>14
  <2>24. current' \in Outputs \union {None} /\ queue' \in Seq(Outputs) /\ exited' \in Seq(Outputs)
    BY <1>1, <2>1, <2>2, <2>4, <2>12
  <2> QED
    BY <2>13, <2>15, <2>16, <2>17, <2>18, <2>19, <2>20, <2>21, <2>22, <2>23, <2>24 DEF StreamInv, Stream
<1> QED
  BY <1>2, <1>3

\* An output that is appended to the queue.
LEMMA SubmitStream ==
    ASSUME StreamInv, NEW o \in Outputs, last[o] = -1, ~Contains(queue, o)
    PROVE  Stream(net, Append(queue, o), got, exited)
<1> DEFINE q == Append(queue, o)
<1>1. queue \in Seq(Outputs) /\ Waiting(queue)
  BY DEF StreamInv, Stream
<1>2. \A n \in DOMAIN queue : queue[n] # o
  BY <1>1 DEF Contains
<1>3. /\ q \in Seq(Outputs) /\ Len(q) = Len(queue) + 1 /\ Len(queue) \in Nat
      /\ DOMAIN q = 1..Len(q) /\ DOMAIN queue = 1..Len(queue)
      /\ q[Len(queue) + 1] = o /\ \A n \in 1..Len(queue) : q[n] = queue[n]
  BY <1>1
<1> HIDE DEF q
<1>4. \A n \in DOMAIN q : n = Len(queue) + 1 \/ n \in DOMAIN queue
  BY <1>3
<1>5. \A n \in DOMAIN q : last[q[n]] = -1
  BY <1>1, <1>3, <1>4 DEF Waiting
<1>6. \A m, n \in DOMAIN q : m # n => q[m] # q[n]
  <2> SUFFICES ASSUME NEW m \in DOMAIN q, NEW n \in DOMAIN q, m # n PROVE q[m] # q[n]
    OBVIOUS
  <2>1. CASE m \in DOMAIN queue /\ n \in DOMAIN queue
    BY <1>1, <1>3, <2>1 DEF Waiting
  <2>2. CASE m \in DOMAIN queue /\ n \notin DOMAIN queue
    BY <1>2, <1>3, <1>4, <2>2
  <2>3. CASE m \notin DOMAIN queue /\ n \in DOMAIN queue
    BY <1>2, <1>3, <1>4, <2>3
  <2> QED
    BY <1>4, <2>1, <2>2, <2>3
<1>7. Waiting(q)
  BY <1>5, <1>6 DEF Waiting
<1> QED
  BY <1>3, <1>7 DEF StreamInv, Stream, q

\* What the sink takes from the way: the packet, and the end of its output.
LEMMA RecvStream ==
    ASSUME StreamInv, net # <<>>
    PROVE  LET p == Head(net) IN
           Stream(Tail(net), queue, got \union {p.seq},
                  IF p.ptr # None THEN Append(exited, p.ptr) ELSE exited)
<1> DEFINE p == Head(net)
           t == Tail(net)
           G == got \union {p.seq}
           e == IF p.ptr # None THEN Append(exited, p.ptr) ELSE exited
<1>1. /\ net \in Seq(Packet) /\ queue \in Seq(Outputs) /\ exited \in Seq(Outputs)
      /\ current \in Outputs \union {None} /\ last \in [Outputs -> Nat \union {-1}]
      /\ Numbers(net, got) /\ Silent(net, exited) /\ Waiting(queue) /\ Handed(net, exited)
      /\ Produced /\ NoGap(net, got) /\ AllSent(net, got)
      /\ RidesOnLast(net, exited, last) /\ Delivered(got, exited)
  BY DEF StreamInv, Stream
<1>2. /\ t \in Seq(Packet) /\ p = net[1] /\ p \in Packet /\ 1 \in DOMAIN net
      /\ DOMAIN net = 1..Len(net) /\ DOMAIN t = 1..Len(t) /\ Len(net) = Len(t) + 1
      /\ Len(t) \in Nat
  BY <1>1
<1>3. \A n \in DOMAIN t : n \in Nat /\ n # 0 /\ n + 1 \in DOMAIN net /\ t[n] = net[n + 1]
  BY <1>1, <1>2
<1>4. \A n \in DOMAIN net : n = 1 \/ (n - 1 \in DOMAIN t /\ t[n - 1] = net[n])
  BY <1>1, <1>2
<1>5. p.seq \in Int /\ p.ptr \in Outputs \union {None}
  BY <1>2 DEF Packet
<1> HIDE DEF t, p
<1>6. Numbers(t, G)
  <2>1. p.seq \in 0..maxseq
    BY <1>1, <1>2 DEF Numbers
  <2>2. \A n \in DOMAIN t : t[n].seq \in 0..maxseq
    BY <1>1, <1>3 DEF Numbers
  <2> QED
    BY <1>1, <2>1, <2>2 DEF Numbers
<1>7. maxseq # -1
  <2>1. p.seq \in 0..maxseq /\ maxseq \in Int
    BY <1>1, <1>2 DEF Numbers
  <2> QED
    BY <2>1
<1>8. Silent(t, e)
  BY <1>7 DEF Silent
<1>9. /\ e \in Seq(Outputs)
      /\ \A n \in DOMAIN e : \/ n \in DOMAIN exited /\ e[n] = exited[n]
                             \/ /\ n = Len(exited) + 1 /\ e[n] = p.ptr
                                /\ p.ptr \in Outputs /\ p.ptr # None
  <2>1. CASE p.ptr # None
    <3>1. p.ptr \in Outputs /\ e = Append(exited, p.ptr)
      BY <1>5, <2>1
    <3> HIDE DEF e
    <3>2. e \in Seq(Outputs) /\ DOMAIN e = 1..(Len(exited) + 1) /\ Len(exited) \in Nat
          /\ DOMAIN exited = 1..Len(exited) /\ e[Len(exited) + 1] = p.ptr
          /\ \A n \in 1..Len(exited) : e[n] = exited[n]
      BY <1>1, <3>1
    <3>3. \A n \in 1..(Len(exited) + 1) : n = Len(exited) + 1 \/ n \in 1..Len(exited)
      BY <3>2
    <3> QED
      BY <2>1, <3>1, <3>2, <3>3
  <2>2. CASE p.ptr = None
    BY <1>1, <2>2
  <2> QED
    BY <2>1, <2>2
<1>10. p.ptr # None => \/ p.seq = last[p.ptr]
                       \/ last[p.ptr] = 1 /\ exited = <<>>
  BY <1>1, <1>2 DEF RidesOnLast
<1>11. 0..p.seq \subseteq G
  <2>1. 0..p.seq \subseteq got \union {net[k].seq : k \in 1..1}
    BY <1>1, <1>2 DEF NoGap
  <2> QED
    BY <1>2, <2>1
<1>12. Handed(t, e)
  <2>1. \A n \in DOMAIN t : t[n].ptr # None => last[t[n].ptr] # -1
    BY <1>1, <1>3 DEF Handed
  <2>2. p.ptr # None => last[p.ptr] # -1
    BY <1>1, <1>2 DEF Handed
  <2> HIDE DEF e
  <2>3. \A n \in DOMAIN e : last[e[n]] # -1
    BY <1>1, <1>9, <2>2 DEF Handed
  <2> QED
    BY <1>1, <2>1, <2>3 DEF Handed
<1>13. NoGap(t, G)
  <2> SUFFICES ASSUME NEW n \in DOMAIN t, NEW s \in 0..t[n].seq, s \notin G
               PROVE  \E k \in 1..n : t[k].seq = s
    BY DEF NoGap
  <2>1. n \in Nat /\ n # 0 /\ n + 1 \in DOMAIN net /\ t[n] = net[n + 1]
    BY <1>3
  <2>2. PICK k \in 1..(n + 1) : net[k].seq = s
    BY SMTT(30), <1>1, <2>1 DEF NoGap
  <2>3. k # 1
    BY <1>2, <2>2
  <2>4. k - 1 \in 1..n /\ k \in DOMAIN net
    BY <1>2, <2>1, <2>2, <2>3
  <2>5. t[k - 1] = net[k]
    BY <1>4, <2>3, <2>4
  <2> QED
    BY <2>2, <2>4, <2>5
<1>14. AllSent(t, G)
  <2> SUFFICES ASSUME NEW s \in 0..(tseq - 1), s \notin G PROVE \E k \in DOMAIN t : t[k].seq = s
    BY DEF AllSent, Seqs
  <2>1. PICK k \in DOMAIN net : net[k].seq = s
    BY <1>1 DEF AllSent, Seqs
  <2>2. k # 1
    BY <1>2, <2>1
  <2> QED
    BY <1>4, <2>1, <2>2
<1>15. RidesOnLast(t, e, last)
  <2> SUFFICES ASSUME NEW n \in DOMAIN t, t[n].ptr # None PROVE t[n].seq = last[t[n].ptr]
    BY DEF RidesOnLast
  <2>1. n + 1 \in DOMAIN net /\ t[n] = net[n + 1] /\ n + 1 # 1
    BY <1>3
  <2> QED
    BY <1>1, <2>1 DEF RidesOnLast
<1>16. Delivered(G, e)
  <2> HIDE DEF e
  <2> SUFFICES ASSUME NEW n \in DOMAIN e
               PROVE  0..last[e[n]] \subseteq G \/ (n = 1 /\ last[e[n]] = 1)
    BY DEF Delivered
  <2>1. CASE n \in DOMAIN exited /\ e[n] = exited[n]
    <3>1. 0..last[exited[n]] \subseteq got \/ (n = 1 /\ last[exited[n]] = 1)
      BY <1>1, <2>1 DEF Delivered
    <3> QED
      BY <2>1, <3>1
  <2>2. CASE n = Len(exited) + 1 /\ e[n] = p.ptr /\ p.ptr # None
    <3>1. CASE p.seq = last[p.ptr]
      BY <1>11, <2>2, <3>1
    <3>2. CASE last[p.ptr] = 1 /\ exited = <<>>
      BY <2>2, <3>2
    <3> QED
      BY <1>10, <2>2, <3>1, <3>2
  <2> QED
    BY <1>9, <2>1, <2>2
<1> HIDE DEF e, G
<1>17. Stream(t, queue, G, e)
  BY <1>1, <1>2, <1>6, <1>8, <1>9, <1>12, <1>13, <1>14, <1>15, <1>16 DEF Stream
<1> QED
  BY <1>17 DEF t, G, e, p

LEMMA InitStream == Init => StreamInv
<1> SUFFICES ASSUME Init PROVE StreamInv
  OBVIOUS
<1>1. /\ queue = <<>> /\ current = None /\ curseq = 0 /\ tseq = 0 /\ acked = -1 /\ maxseq = -1
      /\ net = <<>> /\ got = {} /\ exited = <<>> /\ last = [o \in Outputs |-> -1]
  BY DEF Init
<1>2. Produced
  <2>1. {o \in Outputs : last[o] # -1} = {}
    BY <1>1
  <2>2. curseq = SumFunctionOnSet(Packets, {}) + 0
    BY <1>1, SumEmpty
  <2> QED
    BY <1>1, <2>1, <2>2, FS_EmptySet DEF Produced
<1>3. Numbers(net, got) /\ Silent(net, exited) /\ Waiting(queue) /\ Handed(net, exited)
  BY <1>1 DEF Numbers, Silent, Waiting, Handed
<1>4. /\ NoGap(net, got) /\ AllSent(net, got)
      /\ RidesOnLast(net, exited, last) /\ Delivered(got, exited)
  BY <1>1 DEF NoGap, AllSent, Seqs, RidesOnLast, Delivered
<1>5. /\ net \in Seq(Packet) /\ queue \in Seq(Outputs) /\ exited \in Seq(Outputs)
      /\ current \in Outputs \union {None} /\ last \in [Outputs -> Nat \union {-1}]
  BY <1>1
<1> QED
  BY <1>2, <1>3, <1>4, <1>5 DEF StreamInv, Stream

\* Every step keeps the stream.
LEMMA StepStream == StreamInv /\ AckInv /\ [Step]_vars => StreamInv'
<1> SUFFICES ASSUME StreamInv, AckInv, [Step]_vars PROVE StreamInv'
  OBVIOUS
<1>1. Numbers(net, got) /\ Silent(net, exited) /\ AllSent(net, got)
  BY DEF StreamInv, Stream
<1>2. /\ curseq \in Int /\ tseq \in Int /\ acked \in Int /\ maxseq \in Int
      /\ -1 <= acked /\ acked <= maxseq /\ maxseq <= curseq - 1 /\ 0 <= tseq /\ tseq <= curseq
      /\ got \subseteq 0..maxseq /\ 0..acked \subseteq got
  BY <1>1 DEF Numbers
<1>3. ASSUME NEW o \in Outputs, Submit(o) PROVE StreamInv'
  <2>1. /\ last[o] = -1 /\ ~Contains(queue, o)
        /\ TryToSend(net, Append(queue, o)) /\ got' = got /\ exited' = exited
    BY <1>3 DEF Submit
  <2>2. Stream(net, Append(queue, o), got, exited)
    BY <2>1, SubmitStream
  <2> QED
    BY <2>1, <2>2, TryToSendStream
<1>4. CASE Recv
  <2> DEFINE p == Head(net)
             G == got \union {p.seq}
  <2>1. net # <<>> /\ got' = G
    BY <1>4 DEF Recv
  <2>2. CASE p.ptr # None
    <3>1. exited' = Append(exited, p.ptr) /\ TryToSend(Tail(net), queue)
      BY <1>4, <2>2 DEF Recv, AskNext
    <3>2. Stream(Tail(net), queue, G, Append(exited, p.ptr))
      BY <2>1, <2>2, RecvStream
    <3> HIDE DEF G, p
    <3> QED
      BY <2>1, <3>1, <3>2, TryToSendStream
  <2>3. CASE p.ptr = None
    <3>1. /\ exited' = exited /\ net' = Tail(net) /\ queue' = queue /\ current' = current
          /\ curseq' = curseq /\ tseq' = tseq /\ acked' = acked /\ maxseq' = maxseq
          /\ last' = last
      BY <1>4, <2>3 DEF Recv, agent
    <3>2. Stream(Tail(net), queue, G, exited)
      BY <2>1, <2>3, RecvStream
    <3> HIDE DEF G, p
    <3>3. Stream(net', queue, got', exited)
      BY <2>1, <3>1, <3>2
    <3> QED
      BY <3>1, <3>3 DEF StreamInv, Stream, Numbers, Silent, Waiting, Handed, Produced,
                        NoGap, AllSent, Seqs, RidesOnLast, Delivered
  <2> QED
    BY <2>2, <2>3
<1>5. CASE Ack
  <2>1. /\ acks # <<>> /\ UNCHANGED <<queue, got, exited, last>>
        /\ (Head(acks) > acked /\ NewAck(Head(acks))) \/ (Head(acks) = acked /\ DupAck)
    BY <1>5 DEF Ack
  <2> DEFINE a == Head(acks)
             from == Greater(tseq, a + 1)
  <2>2. a \in Nat /\ 0..a \subseteq got
    <3>1. acks \in Seq(Nat) /\ 1 \in DOMAIN acks /\ a = acks[1]
      BY <2>1 DEF AckInv
    <3> QED
      BY <3>1 DEF AckInv
  <2> HIDE DEF a
  <2>3. a \in Int /\ 0 <= a /\ a <= maxseq /\ maxseq # -1
    BY <1>2, <2>2
  <2>4. CASE NewAck(a)
    <3>1. from \in 0..curseq
      BY <1>2, <2>3 DEF Greater
    <3>2. 0..(from - 1) \subseteq got \union Seqs(net)
      <4>1. CASE from = tseq
        BY <1>1, <4>1 DEF AllSent
      <4>2. CASE from = a + 1
        <5>1. 0..(from - 1) = 0..a
          BY <2>3, <4>2
        <5> QED
          BY <2>2, <5>1
      <4> QED
        BY <4>1, <4>2 DEF Greater
    <3>3. acked' = a /\ SendMuch(net, current, curseq, from, a)
      BY <2>4 DEF NewAck
    <3>4. -1 <= a
      BY <2>3
    <3> HIDE DEF from
    <3> QED
      BY <2>1, <2>2, <2>3, <3>1, <3>2, <3>3, <3>4, ResumeStream
  <2>5. CASE DupAck
    <3>1. CASE Resume
      BY <2>1, <2>3, <2>5, <3>1, RetransmitStream DEF DupAck
    <3>2. CASE SendOne(dupacks + 1)
      BY <2>1, <2>3, <2>5, <3>2, SendOneStream DEF DupAck
    <3>3. CASE UNCHANGED <<net, current, curseq, tseq, maxseq, timeouts>>
      BY <2>1, <2>5, <3>3, SameStream DEF DupAck
    <3> QED
      BY <2>5, <3>1, <3>2, <3>3 DEF DupAck
  <2> QED
    BY <2>1, <2>4, <2>5 DEF a
<1>6. CASE Timeout
  <2>1. acked < maxseq /\ Resume /\ UNCHANGED <<queue, acked, got, exited, last>>
    BY <1>6 DEF Timeout
  <2>2. maxseq # -1
    BY <1>2, <2>1
  <2> QED
    BY <2>1, <2>2, RetransmitStream
<1>7. CASE UNCHANGED vars
  BY <1>7, SameStream DEF vars, agent
<1> QED
  BY <1>3, <1>4, <1>5, <1>6, <1>7 DEF Step

\* Every step keeps the acknowledgements in order.
LEMMA StepAcks == StreamInv /\ AckInv /\ [Step]_vars => AckInv'
<1> SUFFICES ASSUME StreamInv, AckInv, [Step]_vars PROVE AckInv'
  OBVIOUS
<1>1. /\ net \in Seq(Packet) /\ acked \in Int /\ 0..acked \subseteq got /\ NoGap(net, got)
      /\ \A n \in DOMAIN net : net[n].seq \in 0..maxseq
  BY DEF StreamInv, Stream, Numbers
<1>2. /\ acks \in Seq(Nat) /\ dupacks \in Nat
      /\ \A n \in DOMAIN acks : acked <= acks[n] /\ 0..acks[n] \subseteq got
      /\ \A m, n \in DOMAIN acks : m < n => acks[m] <= acks[n]
  BY DEF AckInv
<1>3. ASSUME UNCHANGED <<acked, dupacks, got, acks>> PROVE AckInv'
  BY <1>2, <1>3 DEF AckInv
<1>4. ASSUME NEW o \in Outputs, Submit(o) PROVE AckInv'
  <2>1. UNCHANGED <<acked, dupacks, got, acks>>
    BY <1>4 DEF Submit, TryToSend, agent
  <2> QED
    BY <1>3, <2>1
<1>5. CASE Recv
  <2> DEFINE p == Head(net)
  <2>1. /\ net # <<>> /\ got' = got \union {p.seq} /\ acked' = acked /\ dupacks' = dupacks
    BY <1>5 DEF Recv, AskNext, TryToSend, agent
  <2>2. PICK a \in got' \union {-1} : InOrder(a, got') /\ acks' = Append(acks, a)
    BY <1>5 DEF Recv
  <2>3. 0 \in got' /\ got' \subseteq Nat
    <3>1. 1 \in DOMAIN net /\ p = net[1]
      BY <1>1, <2>1
    <3>2. p.seq \in Nat
      BY <1>1, <3>1
    <3>3. 0..p.seq \subseteq got \union {net[n].seq : n \in 1..1}
      BY <1>1, <3>1 DEF NoGap
    <3>4. got \subseteq Nat
      BY DEF StreamInv, Stream, Numbers
    <3>5. 0 \in got \union {p.seq}
      BY <3>1, <3>2, <3>3
    <3> QED
      BY <2>1, <3>2, <3>4, <3>5
  <2> HIDE DEF p
  <2>4. 0..a \subseteq got' /\ a + 1 \notin got' /\ acks' = Append(acks, a)
    BY <2>2 DEF InOrder
  <2>5. a \in Nat
    BY <2>2, <2>3, <2>4
  <2>6. \A s \in Int : 0..s \subseteq got' => s <= a
    <3> SUFFICES ASSUME NEW s \in Int, s > a PROVE ~(0..s \subseteq got')
      BY <2>5
    <3>1. a + 1 \in 0..s
      BY <2>5
    <3> QED
      BY <2>4, <3>1
  <2>7. acked <= a /\ \A n \in DOMAIN acks : acks[n] <= a /\ acks[n] \in Nat
    <3>1. \A n \in DOMAIN acks : acks[n] \in Nat
      BY <1>2
    <3> QED
      BY <1>1, <1>2, <2>1, <2>6, <3>1
  <2> DEFINE k == Len(acks) + 1
  <2>8. /\ acks' \in Seq(Nat) /\ k \in Nat /\ acks'[k] = a
        /\ \A n \in DOMAIN acks : acks'[n] = acks[n] /\ n < k
        /\ \A n \in DOMAIN acks' : n \in Nat /\ n <= k /\ (n = k \/ n \in DOMAIN acks)
    BY <1>2, <2>4, <2>5
  <2> HIDE DEF k
  <2>9. \A n \in DOMAIN acks' : acked' <= acks'[n] /\ 0..acks'[n] \subseteq got'
    BY <1>2, <2>1, <2>4, <2>7, <2>8
  <2>10. \A m, n \in DOMAIN acks' : m < n => acks'[m] <= acks'[n]
    <3> SUFFICES ASSUME NEW m \in DOMAIN acks', NEW n \in DOMAIN acks', m < n
                 PROVE  acks'[m] <= acks'[n]
      OBVIOUS
    <3>1. m \in DOMAIN acks
      BY <2>8
    <3>2. CASE n \in DOMAIN acks
      BY <1>2, <2>8, <3>1, <3>2
    <3>3. CASE n = k
      BY <2>7, <2>8, <3>1, <3>3
    <3> QED
      BY <2>8, <3>2, <3>3
  <2> QED
    BY <1>2, <2>1, <2>8, <2>9, <2>10 DEF AckInv
<1>6. CASE Ack
  <2> DEFINE a == Head(acks)
             t == Tail(acks)
  <2>1. /\ acks # <<>> /\ acks' = t /\ got' = got
        /\ (a > acked /\ NewAck(a)) \/ (a = acked /\ DupAck)
    BY <1>6 DEF Ack
  <2>2. /\ t \in Seq(Nat) /\ 1 \in DOMAIN acks /\ a = acks[1] /\ a \in Nat
        /\ \A n \in DOMAIN t : n \in Nat /\ 1 < n + 1 /\ n + 1 \in DOMAIN acks /\ t[n] = acks[n + 1]
    BY <1>2, <2>1
  <2> HIDE DEF a, t
  <2>3. acked' \in {a, acked} /\ dupacks' \in Nat
    BY <1>2, <2>1 DEF NewAck, DupAck
  <2>4. \A n \in DOMAIN t : /\ acked' <= t[n] /\ 0..t[n] \subseteq got'
    <3> SUFFICES ASSUME NEW n \in DOMAIN t PROVE acked' <= t[n] /\ 0..t[n] \subseteq got'
      OBVIOUS
    <3> DEFINE j == n + 1
    <3>1. j \in DOMAIN acks /\ 1 < j /\ t[n] = acks[j]
      BY <2>2
    <3> HIDE DEF j
    <3> QED
      BY <1>2, <2>1, <2>2, <2>3, <3>1
  <2>5. \A m, n \in DOMAIN t : m < n => t[m] <= t[n]
    <3> SUFFICES ASSUME NEW m \in DOMAIN t, NEW n \in DOMAIN t, m < n PROVE t[m] <= t[n]
      OBVIOUS
    <3> DEFINE i == m + 1
               j == n + 1
    <3>1. i \in DOMAIN acks /\ j \in DOMAIN acks /\ i < j /\ t[m] = acks[i] /\ t[n] = acks[j]
      BY <2>2
    <3> HIDE DEF i, j
    <3> QED
      BY <1>2, <3>1
  <2> QED
    BY <2>1, <2>2, <2>3, <2>4, <2>5 DEF AckInv
<1>7. CASE Timeout
  BY <1>3, <1>7 DEF Timeout
<1>8. CASE UNCHANGED vars
  BY <1>3, <1>8 DEF vars, agent
<1> QED
  BY <1>4, <1>5, <1>6, <1>7, <1>8 DEF Step

LEMMA InitAcks == Init => AckInv
BY DEF Init, AckInv

\* What the invariant is for.
LEMMA StreamOK == StreamInv /\ AckInv => TypeOK /\ ExitMeansDelivered
<1> SUFFICES ASSUME StreamInv, AckInv PROVE TypeOK /\ ExitMeansDelivered
  OBVIOUS
<1>1. /\ net \in Seq(Packet) /\ queue \in Seq(Outputs) /\ exited \in Seq(Outputs)
      /\ current \in Outputs \union {None} /\ last \in [Outputs -> Nat \union {-1}]
      /\ Numbers(net, got) /\ Produced /\ Delivered(got, exited)
  BY DEF StreamInv, Stream
<1>2. \A n \in DOMAIN net : net[n].ptr \in Outputs \union {None}
  <2>1. \A n \in DOMAIN net : net[n] \in Packet
    <3>1. net \in Seq(Packet)
      BY <1>1
    <3> QED
      BY <3>1
  <2> QED
    BY <2>1 DEF Packet
<1>3. \A n \in DOMAIN acks : acks[n] \in acked..maxseq
  <2> SUFFICES ASSUME NEW n \in DOMAIN acks PROVE acks[n] \in acked..maxseq
    OBVIOUS
  <2>1. acks[n] \in Nat /\ acked <= acks[n] /\ 0..acks[n] \subseteq got
    BY DEF AckInv
  <2>2. acks[n] \in got
    BY <2>1
  <2> QED
    BY <1>1, <2>1, <2>2 DEF Numbers
<1> QED
  BY <1>1, <1>2, <1>3 DEF TypeOK, Numbers, Produced, Delivered, ExitMeansDelivered, AckInv

\* Every variable has its type and the numbers of the agent belong together,
\* however packets are acknowledged and sent again: nothing is acknowledged that
\* was not sent or sent that was not produced, and sendmsg and the SYN make the
\* stream as long as the outputs handed to TCP, counting none twice.
THEOREM TypesHold == SettledSpec => []TypeOK
<1> QED
  BY InitStream, InitAcks, StepStream, StepAcks, StreamOK, PTL DEF SettledSpec

\* TskOutSink records the exit of an output when the packet with its pointer
\* arrives; all its packets have arrived by then, whatever TCP sends again, since
\* the pointer rides on the last of them and what travels has no gap.  The one
\* exception is a first output of one packet, whose pointer rides on the SYN.
THEOREM ExitAfterDelivery == SettledSpec => []ExitMeansDelivered
<1> QED
  BY InitStream, InitAcks, StepStream, StepAcks, StreamOK, PTL DEF SettledSpec

-----------------------------------------------------------------------------
\* Before the first retransmission the sink has the first h packets of the stream
\* and those that follow are on the way, each once; each acknowledgement is of more
\* than the one before; and a pointer that TCP holds is still to be sent.
Fresh(h) ==
    /\ got = 0..(h - 1) /\ acked < h /\ tseq = h + Len(net)
    /\ \A n \in DOMAIN net : net[n].seq = h + n - 1
    /\ \A n \in DOMAIN acks : acked < acks[n] /\ acks[n] < h
    /\ \A m, n \in DOMAIN acks : m < n => acks[m] < acks[n]
    /\ current # None => tseq < curseq

FreshInv == timeouts = 0 => \E h \in Nat : Fresh(h)

\* A burst that follows what is on the way.
LEMMA SendFresh ==
    ASSUME NEW h \in Nat, NEW rest \in Seq(Packet), \A n \in DOMAIN rest : rest[n].seq = h + n - 1,
           NEW ptr \in Outputs \union {None}, NEW cs \in Int, NEW from \in Int, NEW ack \in Int,
           from = h + Len(rest), ptr # None => from < cs, SendMuch(rest, ptr, cs, from, ack)
    PROVE  /\ tseq' = h + Len(net') /\ \A n \in DOMAIN net' : net'[n].seq = h + n - 1
           /\ current' # None => tseq' < curseq'
<1> DEFINE total == WithSyn(cs, from)
           final == IF Starts(from) /\ cs = 1 THEN 0 ELSE total - 1
<1>1. PICK upto \in Int : Sends(rest, ptr, cs, from, ack, total, final, upto)
  BY SendCases
<1>2. CASE from > upto
  BY <1>1, <1>2 DEF Sends
<1>3. CASE from <= upto
  <2>1. total \in Int /\ upto <= total - 1 /\ (final = total - 1 \/ final = from)
    <3>1. total \in Int /\ (final = total - 1 \/ final = from)
      BY DEF WithSyn, Starts
    <3> HIDE DEF total, final
    <3> QED
      BY <1>1, <3>1 DEF Sends
  <2> HIDE DEF total, final
  <2>2. /\ tseq' = upto + 1 /\ curseq' = total
        /\ current' = IF final \in from..upto THEN None ELSE ptr
    BY <1>1, <1>3 DEF Sends
  <2>3. PICK burst \in Seq(Packet) :
          /\ net' = rest \o burst /\ Len(burst) = upto - from + 1
          /\ \A i \in 1..Len(burst) : burst[i].seq = from + i - 1
    BY <1>1, <1>3 DEF Sends
  <2> DEFINE r == Len(rest)
             all == rest \o burst
  <2>4. /\ r \in Nat /\ Len(burst) \in Nat /\ DOMAIN all = 1..(r + Len(burst))
        /\ DOMAIN rest = 1..r /\ Len(all) = r + Len(burst)
        /\ \A n \in 1..r : all[n] = rest[n]
        /\ \A n \in DOMAIN all : n \notin 1..r => n - r \in 1..Len(burst) /\ all[n] = burst[n - r]
    <3> QED
      BY SMTT(30)
  <2> HIDE DEF all
  <2>5. \A n \in DOMAIN all : all[n].seq = h + n - 1
    <3> SUFFICES ASSUME NEW n \in DOMAIN all PROVE all[n].seq = h + n - 1
      OBVIOUS
    <3> HIDE DEF r
    <3>1. CASE n \in 1..r
      BY <2>4, <3>1
    <3>2. CASE n \notin 1..r
      <4> DEFINE i == n - r
      <4>1. i \in 1..Len(burst) /\ all[n] = burst[i]
        BY <2>4, <3>2
      <4>2. from + i - 1 = h + n - 1
        BY <2>4 DEF r
      <4> HIDE DEF i
      <4> QED
        BY <2>3, <4>1, <4>2
    <3> QED
      BY <3>1, <3>2
  <2>6. tseq' = h + Len(all)
    BY <2>2, <2>3, <2>4
  <2>7. current' # None => tseq' < curseq'
    BY <1>3, <2>1, <2>2
  <2>8. net' = all
    BY <2>3 DEF all
  <2> QED
    BY <2>5, <2>6, <2>7, <2>8
<1> QED
  BY <1>2, <1>3

\* tryToSend, when the stream goes on after what the caller leaves.
LEMMA TryToSendFresh ==
    ASSUME StreamInv, NEW h \in Nat, NEW rest \in Seq(Packet), NEW q \in Seq(Outputs),
           \A n \in DOMAIN rest : rest[n].seq = h + n - 1, tseq = h + Len(rest),
           current # None => tseq < curseq, TryToSend(rest, q)
    PROVE  /\ tseq' = h + Len(net') /\ \A n \in DOMAIN net' : net'[n].seq = h + n - 1
           /\ current' # None => tseq' < curseq'
           /\ acked' = acked
<1>1. CASE ~(current = None /\ q # <<>>)
  BY <1>1 DEF TryToSend, agent
<1>2. CASE current = None /\ q # <<>>
  <2> DEFINE o == Head(q)
             cs == curseq + Packets[o]
  <2>1. SendMuch(rest, o, cs, tseq, acked) /\ acked' = acked
    BY <1>2 DEF TryToSend
  <2>2. o \in Outputs
    BY <1>2
  <2>3. Packets[o] \in Nat \ {0}
    BY <2>2, ChannelAssumption
  <2>4. curseq \in Int /\ tseq \in Int /\ acked \in Int /\ tseq <= curseq
    BY DEF StreamInv, Stream, Numbers
  <2>5. cs \in Int /\ tseq < cs
    BY <2>3, <2>4
  <2> HIDE DEF o, cs
  <2> QED
    BY <2>1, <2>2, <2>4, <2>5, SendFresh
<1> QED
  BY <1>1, <1>2

LEMMA InitFresh == Init => FreshInv
<1> SUFFICES ASSUME Init PROVE Fresh(0)
  BY DEF FreshInv
<1> QED
  BY DEF Init, Fresh

LEMMA StepFresh == ChannelInv /\ StreamInv /\ AckInv /\ FreshInv /\ [Step]_vars => FreshInv'
<1> SUFFICES ASSUME ChannelInv, StreamInv, AckInv, FreshInv, [Step]_vars, timeouts' = 0
             PROVE  \E h \in Nat : Fresh(h)'
  BY DEF FreshInv
<1>1. timeouts \in Nat /\ net \in Seq(Packet) /\ queue \in Seq(Outputs)
  BY DEF ChannelInv, AgentInv
<1>2. /\ curseq \in Int /\ tseq \in Int /\ acked \in Int /\ acks \in Seq(Nat)
      /\ current \in Outputs \union {None}
  BY DEF StreamInv, Stream, Numbers, AckInv
<1>3. ~Resume
  BY <1>1 DEF Resume
<1>4. timeouts = 0
  BY <1>1, <1>3 DEF Step, Submit, Recv, Ack, Timeout, NewAck, DupAck, SendOne, vars
<1>5. PICK h \in Nat : Fresh(h)
  BY <1>4 DEF FreshInv
<1>6. /\ got = 0..(h - 1) /\ acked < h /\ tseq = h + Len(net)
      /\ \A n \in DOMAIN net : net[n].seq = h + n - 1
      /\ \A n \in DOMAIN acks : acked < acks[n] /\ acks[n] < h
      /\ \A m, n \in DOMAIN acks : m < n => acks[m] < acks[n]
      /\ current # None => tseq < curseq
  BY <1>5 DEF Fresh
<1>7. ASSUME NEW o \in Outputs, Submit(o) PROVE Fresh(h)'
  <2>1. TryToSend(net, Append(queue, o)) /\ got' = got /\ acks' = acks
    BY <1>7 DEF Submit
  <2>2. Append(queue, o) \in Seq(Outputs)
    BY <1>1
  <2>3. /\ tseq' = h + Len(net') /\ \A n \in DOMAIN net' : net'[n].seq = h + n - 1
        /\ current' # None => tseq' < curseq'
        /\ acked' = acked
    BY <1>1, <1>6, <2>1, <2>2, TryToSendFresh
  <2> QED
    BY <1>6, <2>1, <2>3 DEF Fresh
<1>8. CASE Recv
  <2> DEFINE t == Tail(net)
             j == h + 1
  <2>1. net # <<>> /\ got' = got \union {Head(net).seq}
    BY <1>8 DEF Recv
  <2>2. /\ t \in Seq(Packet) /\ Head(net) = net[1] /\ 1 \in DOMAIN net /\ Len(net) = Len(t) + 1
        /\ Len(t) \in Nat
        /\ \A n \in DOMAIN t : n \in Nat /\ n + 1 \in DOMAIN net /\ t[n] = net[n + 1]
    BY <1>1, <2>1
  <2>3. Head(net).seq = h /\ got' = 0..h
    <3>1. net[1].seq = h + 1 - 1
      BY <1>6, <2>2
    <3>2. Head(net).seq = h
      BY <2>2, <3>1
    <3> QED
      BY <1>6, <2>1, <3>2
  <2>4. tseq = j + Len(t) /\ j \in Nat
    BY <1>6, <2>2
  <2>5. \A n \in DOMAIN t : t[n].seq = j + n - 1
    <3> SUFFICES ASSUME NEW n \in DOMAIN t PROVE t[n].seq = j + n - 1
      OBVIOUS
    <3> DEFINE i == n + 1
    <3>1. i \in DOMAIN net /\ t[n] = net[i] /\ h + i - 1 = j + n - 1
      BY <2>2
    <3> HIDE DEF i, j
    <3> QED
      BY <1>6, <3>1
  <2>6. PICK a \in got' \union {-1} : InOrder(a, got') /\ acks' = Append(acks, a)
    BY <1>8 DEF Recv
  <2>7. a = h
    <3>1. a \in Int /\ -1 <= a /\ a <= h /\ a + 1 \notin 0..h
      BY <2>3, <2>6 DEF InOrder
    <3> QED
      BY <3>1
  <2> HIDE DEF t, j
  <2>8. /\ tseq' = j + Len(net') /\ \A n \in DOMAIN net' : net'[n].seq = j + n - 1
        /\ current' # None => tseq' < curseq'
        /\ acked' = acked
    <3>1. CASE Head(net).ptr # None
      <4>1. TryToSend(t, queue)
        BY <1>8, <3>1 DEF Recv, AskNext, t
      <4> QED
        BY <1>1, <1>6, <2>2, <2>4, <2>5, <4>1, TryToSendFresh
    <3>2. CASE Head(net).ptr = None
      <4>1. net' = t /\ UNCHANGED <<current, agent>>
        BY <1>8, <3>2 DEF Recv, t
      <4> QED
        BY <1>6, <2>4, <2>5, <4>1 DEF agent
    <3> QED
      BY <3>1, <3>2
  <2>9. got' = 0..(j - 1) /\ acked' < j
    BY <1>2, <1>6, <2>3, <2>8 DEF j
  <2> DEFINE k == Len(acks) + 1
  <2>10. /\ k \in Nat /\ acks'[k] = h
         /\ \A n \in DOMAIN acks : acks'[n] = acks[n] /\ n < k /\ acks[n] \in Nat
         /\ \A n \in DOMAIN acks' : n \in Nat /\ n <= k /\ (n = k \/ n \in DOMAIN acks)
    BY <1>2, <2>6, <2>7
  <2> HIDE DEF k
  <2>11. \A n \in DOMAIN acks' : acked' < acks'[n] /\ acks'[n] < j
    <3> SUFFICES ASSUME NEW n \in DOMAIN acks' PROVE acked' < acks'[n] /\ acks'[n] < j
      OBVIOUS
    <3>1. CASE n \in DOMAIN acks
      <4>1. acks'[n] \in Nat /\ acked < acks'[n] /\ acks'[n] < h
        BY <1>6, <2>10, <3>1
      <4> QED
        BY <2>8, <4>1 DEF j
    <3>2. CASE n = k
      BY <1>6, <2>8, <2>10, <3>2 DEF j
    <3> QED
      BY <2>10, <3>1, <3>2
  <2>12. \A m, n \in DOMAIN acks' : m < n => acks'[m] < acks'[n]
    <3> SUFFICES ASSUME NEW m \in DOMAIN acks', NEW n \in DOMAIN acks', m < n
                 PROVE  acks'[m] < acks'[n]
      OBVIOUS
    <3>1. m \in DOMAIN acks
      BY <2>10
    <3>2. CASE n \in DOMAIN acks
      BY <1>6, <2>10, <3>1, <3>2
    <3>3. CASE n = k
      BY <1>6, <2>10, <3>1, <3>3
    <3> QED
      BY <2>10, <3>2, <3>3
  <2>13. Fresh(j)'
    <3> SUFFICES got' = 0..(j' - 1) /\ acked' < j' /\ tseq' = j' + Len(net')
                 /\ (\A n \in DOMAIN net' : net'[n].seq = j' + n - 1)
                 /\ (\A n \in DOMAIN acks' : acked' < acks'[n] /\ acks'[n] < j')
                 /\ (\A m, n \in DOMAIN acks' : m < n => acks'[m] < acks'[n])
                 /\ (current' # None => tseq' < curseq')
      BY DEF Fresh
    <3>1. j' = j
      BY DEF j
    <3> QED
      BY <2>8, <2>9, <2>11, <2>12, <3>1
  <2> QED
    BY <2>4, <2>13 DEF j
<1>9. CASE Ack
  <2> DEFINE a == Head(acks)
             t == Tail(acks)
             from == Greater(tseq, a + 1)
  <2>1. /\ acks # <<>> /\ acks' = t /\ got' = got
        /\ (a > acked /\ NewAck(a)) \/ (a = acked /\ DupAck)
    BY <1>9 DEF Ack
  <2>2. /\ t \in Seq(Nat) /\ 1 \in DOMAIN acks /\ a = acks[1] /\ a \in Nat
        /\ \A n \in DOMAIN t : n \in Nat /\ 1 < n + 1 /\ n + 1 \in DOMAIN acks /\ t[n] = acks[n + 1]
    BY <1>2, <2>1
  <2> HIDE DEF a, t
  <2>3. acked < a /\ a < h
    BY <1>6, <2>2
  <2>4. /\ acked' = a /\ SendMuch(net, current, curseq, from, a)
    BY <1>2, <2>1, <2>2, <2>3 DEF NewAck
  <2>5. from = tseq
    <3>1. Len(net) \in Nat
      BY <1>1
    <3> QED
      BY <1>6, <2>2, <2>3, <3>1 DEF Greater
  <2> HIDE DEF from
  <2>6. /\ tseq' = h + Len(net') /\ \A n \in DOMAIN net' : net'[n].seq = h + n - 1
        /\ current' # None => tseq' < curseq'
    <3>1. a \in Int
      BY <2>2
    <3> QED
      BY <1>1, <1>2, <1>6, <2>4, <2>5, <3>1, SendFresh
  <2>7. \A n \in DOMAIN t : a < t[n] /\ t[n] < h
    <3> SUFFICES ASSUME NEW n \in DOMAIN t PROVE a < t[n] /\ t[n] < h
      OBVIOUS
    <3> DEFINE i == n + 1
    <3>1. i \in DOMAIN acks /\ 1 < i /\ t[n] = acks[i]
      BY <2>2
    <3> HIDE DEF i
    <3> QED
      BY <1>6, <2>2, <3>1
  <2>8. \A m, n \in DOMAIN t : m < n => t[m] < t[n]
    <3> SUFFICES ASSUME NEW m \in DOMAIN t, NEW n \in DOMAIN t, m < n PROVE t[m] < t[n]
      OBVIOUS
    <3> DEFINE i == m + 1
               j == n + 1
    <3>1. i \in DOMAIN acks /\ j \in DOMAIN acks /\ i < j /\ t[m] = acks[i] /\ t[n] = acks[j]
      BY <2>2
    <3> HIDE DEF i, j
    <3> QED
      BY <1>6, <3>1
  <2>9. Fresh(h)'
    BY <1>6, <2>1, <2>3, <2>4, <2>6, <2>7, <2>8 DEF Fresh
  <2> QED
    BY <2>9
<1>10. CASE UNCHANGED vars
  <2>1. Fresh(h)'
    BY <1>6, <1>10 DEF vars, agent, Fresh
  <2> QED
    BY <2>1
<1> QED
  BY <1>3, <1>7, <1>8, <1>9, <1>10 DEF Step, Timeout

\* Every output that waits in the queue of ProviderOutAgent has something coming
\* for it: a pointer on the way, whose packet TskOutSink receives and asks for the
\* next, or one that TCP has packets left to carry.  With TCP alone that is so as
\* long as it sends nothing twice; later the pointer is still there, but send_one
\* may have sent the last packet that could carry it.
THEOREM QueueWaitsBehindPointer == SettledSpec => []QueueHasTrigger
<1>1. ChannelInv /\ FreshInv => QueueHasTrigger
  <2> SUFFICES ASSUME ChannelInv, FreshInv, queue # <<>>, current # None
               PROVE  tseq < curseq \/ timeouts > 0
    BY DEF QueueHasTrigger, ChannelInv, AgentInv, PointerAhead
  <2>1. timeouts \in Nat
    BY DEF ChannelInv
  <2>2. CASE timeouts = 0
    BY <2>2 DEF FreshInv, Fresh
  <2> QED
    BY <2>1, <2>2
<1> QED
  BY <1>1, InitChannel, InitStream, InitAcks, InitFresh,
     StepChannel, StepStream, StepAcks, StepFresh, PTL DEF SettledSpec

-----------------------------------------------------------------------------
\* What the recursion of Pointers demands of a function over 0..k.
FirstRec(packets, k, g) ==
    g = [n \in 0..k |-> IF n = 0 THEN <<>>
                        ELSE IF packets[n].ptr = None THEN g[n - 1]
                        ELSE Append(g[n - 1], packets[n].ptr)]

\* The pointers in terms of their recursion.
LEMMA PointersDef ==
    ASSUME NEW packets
    PROVE  Pointers(packets) = (CHOOSE g : FirstRec(packets, Len(packets), g))[Len(packets)]
BY DEF Pointers, FirstRec

\* One step of the recursion.
LEMMA FirstRecValue ==
    ASSUME NEW packets, NEW k \in Nat, NEW g, FirstRec(packets, k, g), NEW n \in 0..k
    PROVE  g[n] = IF n = 0 THEN <<>>
                  ELSE IF packets[n].ptr = None THEN g[n - 1]
                  ELSE Append(g[n - 1], packets[n].ptr)
BY DEF FirstRec

\* The recursion has a solution.
LEMMA FirstRecExists ==
    ASSUME NEW packets, NEW k \in Nat
    PROVE  \E g : FirstRec(packets, k, g)
<1> DEFINE Bad == {j \in Nat : ~\E g : FirstRec(packets, j, g)}
<1>1. ASSUME Bad # {} PROVE FALSE
  <2>1. PICK j \in Bad : \A m \in Bad : j <= m
    <3>1. Bad \subseteq Nat
      OBVIOUS
    <3> HIDE DEF Bad
    <3> QED
      BY <1>1, <3>1, Least
  <2>2. CASE j = 0
    <3> DEFINE g == [n \in 0..0 |-> <<>>]
    <3>1. FirstRec(packets, 0, g)
      BY DEF FirstRec
    <3> QED
      BY <2>1, <2>2, <3>1
  <2>3. CASE j # 0
    <3>1. j - 1 \in Nat /\ j - 1 \notin Bad
      BY <2>1, <2>3
    <3>2. PICK g : FirstRec(packets, j - 1, g)
      BY <3>1
    <3> DEFINE h == [n \in 0..j |-> IF n < j THEN g[n]
                                    ELSE IF packets[n].ptr = None THEN g[n - 1]
                                    ELSE Append(g[n - 1], packets[n].ptr)]
    <3>3. ASSUME NEW n \in 0..j
          PROVE  h[n] = IF n = 0 THEN <<>>
                        ELSE IF packets[n].ptr = None THEN h[n - 1]
                        ELSE Append(h[n - 1], packets[n].ptr)
      <4>1. CASE n < j
        <5>1. n \in 0..(j - 1) /\ h[n] = g[n] /\ (n # 0 => h[n - 1] = g[n - 1])
          BY <2>1, <4>1
        <5>2. g[n] = IF n = 0 THEN <<>> ELSE IF packets[n].ptr = None THEN g[n - 1]
                     ELSE Append(g[n - 1], packets[n].ptr)
          <6> HIDE DEF h
          <6> QED
            BY <3>1, <3>2, <5>1, FirstRecValue
        <5> HIDE DEF h
        <5> QED
          BY <5>1, <5>2
      <4>2. CASE n = j
        <5>1. n # 0 /\ n - 1 \in 0..j /\ n - 1 < j /\ ~(n < j)
          BY <2>1, <2>3, <4>2
        <5> QED
          BY <5>1
      <4> QED
        BY <2>1, <4>1, <4>2
    <3>4. h = [n \in 0..j |-> h[n]]
      OBVIOUS
    <3> HIDE DEF h
    <3>5. FirstRec(packets, j, h)
      BY <3>3, <3>4 DEF FirstRec
    <3> QED
      BY <2>1, <3>5
  <2> QED
    BY <2>2, <2>3
<1> QED
  BY <1>1

\* Where two sequences agree, so do the solutions.
LEMMA FirstRecAgree ==
    ASSUME NEW s, NEW t, NEW j \in Nat, NEW k \in Nat, j <= k,
           NEW g, FirstRec(s, j, g), NEW h, FirstRec(t, k, h), \A n \in 1..j : s[n] = t[n]
    PROVE  g[j] = h[j]
<1> DEFINE Bad == {n \in 0..j : g[n] # h[n]}
<1>1. ASSUME Bad # {} PROVE FALSE
  <2>1. PICK n \in Bad : \A m \in Bad : n <= m
    <3>1. Bad \subseteq Nat
      OBVIOUS
    <3> HIDE DEF Bad
    <3> QED
      BY <1>1, <3>1, Least
  <2>2. /\ g[n] = IF n = 0 THEN <<>> ELSE IF s[n].ptr = None THEN g[n - 1]
                  ELSE Append(g[n - 1], s[n].ptr)
        /\ h[n] = IF n = 0 THEN <<>> ELSE IF t[n].ptr = None THEN h[n - 1]
                  ELSE Append(h[n - 1], t[n].ptr)
    <3>1. n \in 0..j /\ n \in 0..k
      OBVIOUS
    <3> HIDE DEF Bad
    <3> QED
      BY <3>1, FirstRecValue
  <2>3. n # 0
    BY <2>2
  <2>4. n - 1 \in 0..j /\ n - 1 \notin Bad
    BY <2>1, <2>3
  <2> QED
    BY <2>2, <2>3, <2>4
<1> QED
  BY <1>1

\* No packets, no pointers.
LEMMA PointersEmpty == Pointers(<<>>) = <<>>
<1> DEFINE g == CHOOSE g : FirstRec(<<>>, 0, g)
<1>1. FirstRec(<<>>, 0, g)
  BY FirstRecExists
<1>2. Len(<<>>) = 0
  OBVIOUS
<1>3. Pointers(<<>>) = g[0]
  BY <1>2, PointersDef
<1> HIDE DEF g
<1>4. g[0] = IF 0 = 0 THEN <<>> ELSE IF <<>>[0].ptr = None THEN g[0 - 1]
             ELSE Append(g[0 - 1], <<>>[0].ptr)
  <2>1. 0 \in Nat /\ 0 \in 0..0
    OBVIOUS
  <2> QED
    BY Zenon, <1>1, <2>1, FirstRecValue
<1> QED
  BY <1>3, <1>4

\* One packet more.
LEMMA PointersAppend ==
    ASSUME NEW s \in Seq(Packet), NEW p \in Packet
    PROVE  Pointers(Append(s, p)) = IF p.ptr = None THEN Pointers(s) ELSE Append(Pointers(s), p.ptr)
<1> DEFINE t == Append(s, p)
           j == Len(s)
           g == CHOOSE g : FirstRec(s, j, g)
           h == CHOOSE h : FirstRec(t, j + 1, h)
<1>1. j \in Nat /\ j + 1 \in Nat /\ Len(t) = j + 1 /\ t[j + 1] = p /\ \A n \in 1..j : s[n] = t[n]
  BY AppendProperties
<1> HIDE DEF t, j
<1>2. FirstRec(s, j, g) /\ FirstRec(t, j + 1, h)
  BY <1>1, FirstRecExists
<1>3. Pointers(s) = g[j]
  BY PointersDef DEF j
<1>4. Pointers(t) = h[j + 1]
  BY <1>1, PointersDef
<1> HIDE DEF g, h
<1>5. g[j] = h[j]
  BY <1>1, <1>2, FirstRecAgree
<1>6. h[j + 1] = IF t[j + 1].ptr = None THEN h[j] ELSE Append(h[j], t[j + 1].ptr)
  <2>1. j + 1 \in 0..(j + 1) /\ j + 1 # 0 /\ (j + 1) - 1 = j
    BY <1>1
  <2> QED
    BY <1>1, <1>2, <2>1, FirstRecValue
<1> QED
  BY <1>1, <1>3, <1>4, <1>5, <1>6 DEF t

\* The first n packets, one by one.
LEMMA PrefixStep ==
    ASSUME NEW s \in Seq(Packet), NEW n \in 1..Len(s)
    PROVE  /\ s[n] \in Packet /\ SubSeq(s, 1, n - 1) \in Seq(Packet)
           /\ SubSeq(s, 1, n) = Append(SubSeq(s, 1, n - 1), s[n])
<1>1. s[n] \in Packet /\ \A i \in 1..(n - 1) : s[i] \in Packet
  OBVIOUS
<1>2. SubSeq(s, 1, n - 1) \in Seq(Packet)
  BY <1>1, SubSeqProperties
<1>3. SubSeq(s, 1, n) = SubSeq(s, 1, n - 1) \o <<s[n]>>
  <2>1. 1 \in 1..Len(s) /\ n \in 1..Len(s)
    OBVIOUS
  <2> QED
    BY <2>1, SubSeqRecursiveSecond
<1>4. Append(SubSeq(s, 1, n - 1), s[n]) = SubSeq(s, 1, n - 1) \o <<s[n]>>
  BY <1>1, <1>2, AppendIsConcat
<1> QED
  BY <1>1, <1>2, <1>3, <1>4

\* The pointers of packets that point into S.
LEMMA PointersType ==
    ASSUME NEW s \in Seq(Packet), NEW S, \A n \in DOMAIN s : s[n].ptr \in S \union {None}
    PROVE  Pointers(s) \in Seq(S)
<1> DEFINE Bad == {n \in 0..Len(s) : Pointers(SubSeq(s, 1, n)) \notin Seq(S)}
<1>1. ASSUME Bad # {} PROVE FALSE
  <2>1. PICK n \in Bad : \A m \in Bad : n <= m
    <3>1. Bad \subseteq Nat
      OBVIOUS
    <3> HIDE DEF Bad
    <3> QED
      BY <1>1, <3>1, Least
  <2>2. n # 0
    <3>1. SubSeq(s, 1, 0) = <<>> /\ <<>> \in Seq(S)
      BY SubSeqEmpty
    <3> QED
      BY <2>1, <3>1, PointersEmpty
  <2>3. n \in 1..Len(s) /\ n - 1 \in 0..Len(s) /\ n - 1 \notin Bad
    BY <2>1, <2>2
  <2>4. s[n].ptr \in S \union {None}
    BY <2>3
  <2>5. Pointers(SubSeq(s, 1, n)) = IF s[n].ptr = None THEN Pointers(SubSeq(s, 1, n - 1))
                                    ELSE Append(Pointers(SubSeq(s, 1, n - 1)), s[n].ptr)
    <3> DEFINE u == SubSeq(s, 1, n - 1)
    <3>1. u \in Seq(Packet) /\ s[n] \in Packet /\ SubSeq(s, 1, n) = Append(u, s[n])
      BY <2>3, PrefixStep
    <3> HIDE DEF u
    <3>2. Pointers(Append(u, s[n])) = IF s[n].ptr = None THEN Pointers(u)
                                      ELSE Append(Pointers(u), s[n].ptr)
      BY <3>1, PointersAppend
    <3> QED
      BY <3>1, <3>2 DEF u
  <2>6. Pointers(SubSeq(s, 1, n - 1)) \in Seq(S)
    BY <2>3
  <2>7. Pointers(SubSeq(s, 1, n)) \in Seq(S)
    <3> HIDE DEF Bad
    <3>1. CASE s[n].ptr = None
      BY <2>5, <2>6, <3>1
    <3>2. CASE s[n].ptr # None
      <4>1. s[n].ptr \in S
        BY <2>4, <3>2
      <4> QED
        BY <2>5, <2>6, <3>2, <4>1, AppendProperties
    <3> QED
      BY <3>1, <3>2
  <2> QED
    BY <2>7
<1>2. SubSeq(s, 1, Len(s)) = s /\ Len(s) \in 0..Len(s)
  BY SubSeqFull, LenProperties
<1> QED
  BY <1>1, <1>2

\* All point to outputs.
LEMMA PointersAreOutputs ==
    ASSUME NEW s \in Seq(Packet)
    PROVE  Pointers(s) \in Seq(Outputs)
<1>1. \A n \in DOMAIN s : s[n] \in Packet
  OBVIOUS
<1>2. \A n \in DOMAIN s : s[n].ptr \in Outputs \union {None}
  BY <1>1 DEF Packet
<1> QED
  BY <1>2, PointersType

\* Pointers of what follows come after.
LEMMA PointersConcat ==
    ASSUME NEW s \in Seq(Packet), NEW t \in Seq(Packet)
    PROVE  Pointers(s \o t) = Pointers(s) \o Pointers(t)
<1> DEFINE P(n) == SubSeq(t, 1, n)
           Bad == {n \in 0..Len(t) : Pointers(s \o P(n)) # Pointers(s) \o Pointers(P(n))}
<1>1. ASSUME Bad # {} PROVE FALSE
  <2>1. PICK n \in Bad : \A m \in Bad : n <= m
    <3>1. Bad \subseteq Nat
      OBVIOUS
    <3> HIDE DEF Bad
    <3> QED
      BY <1>1, <3>1, Least
  <2>2. n # 0
    <3>1. P(0) = <<>>
      BY SubSeqEmpty
    <3>2. s \o <<>> = s
      BY ConcatEmptySeq
    <3>3. Pointers(s) \o <<>> = Pointers(s)
      BY PointersAreOutputs, ConcatEmptySeq
    <3> QED
      BY <2>1, <3>1, <3>2, <3>3, PointersEmpty
  <2>3. n \in 1..Len(t) /\ n - 1 \in 0..Len(t) /\ n - 1 \notin Bad
    <3>1. n \in 0..Len(t) /\ Len(t) \in Nat
      BY LenProperties
    <3> HIDE DEF Bad
    <3> QED
      BY <2>1, <2>2, <3>1
  <2>4. t[n] \in Packet /\ P(n - 1) \in Seq(Packet) /\ P(n) = Append(P(n - 1), t[n])
    BY <2>3, PrefixStep
  <2>5. Pointers(s \o P(n - 1)) = Pointers(s) \o Pointers(P(n - 1))
    BY <2>3
  <2>6. Pointers(s \o P(n)) # Pointers(s) \o Pointers(P(n))
    OBVIOUS
  <2> DEFINE u == P(n - 1)
             q == t[n]
  <2>7. u \in Seq(Packet) /\ q \in Packet /\ q.ptr \in Outputs \union {None}
    BY <2>4 DEF Packet
  <2>8. Pointers(s \o u) = Pointers(s) \o Pointers(u)
    BY <2>5
  <2>9. Pointers(s \o Append(u, q)) # Pointers(s) \o Pointers(Append(u, q))
    BY <2>4, <2>6
  <2> HIDE DEF u, q, P, Bad
  <2>10. s \o Append(u, q) = Append(s \o u, q) /\ s \o u \in Seq(Packet)
    <3>1. Append(u, q) = u \o <<q>> /\ <<q>> \in Seq(Packet)
      BY <2>7, AppendIsConcat
    <3>2. s \o u \in Seq(Packet)
      BY <2>7, ConcatProperties
    <3>3. Append(s \o u, q) = (s \o u) \o <<q>>
      BY <2>7, <3>2, AppendIsConcat
    <3>4. (s \o u) \o <<q>> = s \o (u \o <<q>>)
      BY SMTT(30), <2>7, <3>1, ConcatAssociative
    <3> QED
      BY <3>1, <3>2, <3>3, <3>4
  <2>11. /\ Pointers(s \o Append(u, q)) = IF q.ptr = None THEN Pointers(s \o u)
                                          ELSE Append(Pointers(s \o u), q.ptr)
         /\ Pointers(Append(u, q)) = IF q.ptr = None THEN Pointers(u) ELSE Append(Pointers(u), q.ptr)
    BY <2>7, <2>10, PointersAppend
  <2>12. CASE q.ptr = None
    BY <2>8, <2>9, <2>11, <2>12
  <2>13. CASE q.ptr # None
    <3> DEFINE a == Pointers(s)
               b == Pointers(u)
               x == q.ptr
    <3>1. a \in Seq(Outputs) /\ b \in Seq(Outputs) /\ x \in Outputs
      BY <2>7, <2>13, PointersAreOutputs
    <3>2. Append(a \o b, x) # a \o Append(b, x)
      BY <2>8, <2>9, <2>11, <2>13
    <3> HIDE DEF a, b, x
    <3>3. Append(b, x) = b \o <<x>> /\ <<x>> \in Seq(Outputs)
      BY <3>1, AppendIsConcat
    <3>4. a \o b \in Seq(Outputs)
      BY <3>1, ConcatProperties
    <3>5. Append(a \o b, x) = (a \o b) \o <<x>>
      BY <3>1, <3>4, AppendIsConcat
    <3>6. (a \o b) \o <<x>> = a \o (b \o <<x>>)
      BY SMTT(30), <3>1, <3>3, ConcatAssociative
    <3> QED
      BY <3>2, <3>3, <3>5, <3>6
  <2> QED
    BY <2>12, <2>13
<1>2. P(Len(t)) = t /\ Len(t) \in 0..Len(t)
  BY SubSeqFull, LenProperties
<1> QED
  BY <1>1, <1>2

\* A sequence in which packet k at most has a pointer.
LEMMA PointersOfBurst ==
    ASSUME NEW s \in Seq(Packet), NEW k \in Int, NEW ptr \in Outputs \union {None},
           \A n \in 1..Len(s) : s[n].ptr = IF n = k THEN ptr ELSE None
    PROVE  Pointers(s) = IF k \in 1..Len(s) /\ ptr # None THEN <<ptr>> ELSE <<>>
<1> DEFINE Right(n) == Pointers(SubSeq(s, 1, n)) = IF k \in 1..n /\ ptr # None THEN <<ptr>> ELSE <<>>
           Bad == {n \in 0..Len(s) : ~Right(n)}
<1>1. ASSUME Bad # {} PROVE FALSE
  <2>1. PICK n \in Bad : \A m \in Bad : n <= m
    <3>1. Bad \subseteq Nat
      OBVIOUS
    <3> HIDE DEF Bad
    <3> QED
      BY <1>1, <3>1, Least
  <2>2. n # 0
    <3>1. SubSeq(s, 1, 0) = <<>>
      BY SubSeqEmpty
    <3>2. k \notin 1..0
      OBVIOUS
    <3>3. Right(0)
      BY <3>1, <3>2, PointersEmpty
    <3> QED
      BY <3>3
  <2>3. n \in 1..Len(s) /\ n - 1 \in 0..Len(s) /\ n - 1 \notin Bad
    BY <2>1, <2>2
  <2>4. Right(n - 1) /\ ~Right(n)
    BY <2>3
  <2>5. Pointers(SubSeq(s, 1, n)) = IF s[n].ptr = None THEN Pointers(SubSeq(s, 1, n - 1))
                                    ELSE Append(Pointers(SubSeq(s, 1, n - 1)), s[n].ptr)
    <3> DEFINE u == SubSeq(s, 1, n - 1)
    <3>1. u \in Seq(Packet) /\ s[n] \in Packet /\ SubSeq(s, 1, n) = Append(u, s[n])
      BY <2>3, PrefixStep
    <3> HIDE DEF u
    <3>2. Pointers(Append(u, s[n])) = IF s[n].ptr = None THEN Pointers(u)
                                      ELSE Append(Pointers(u), s[n].ptr)
      BY <3>1, PointersAppend
    <3> QED
      BY <3>1, <3>2 DEF u
  <2>6. CASE n = k /\ ptr # None
    <3>1. s[n].ptr = ptr /\ k \notin 1..(n - 1) /\ k \in 1..n
      BY <2>3, <2>6
    <3>2. Append(<<>>, ptr) = <<ptr>>
      OBVIOUS
    <3> QED
      BY <2>4, <2>5, <2>6, <3>1, <3>2
  <2>7. CASE ~(n = k /\ ptr # None)
    <3>1. s[n].ptr = None
      BY <2>3, <2>7
    <3>2. (k \in 1..n /\ ptr # None) <=> (k \in 1..(n - 1) /\ ptr # None)
      BY <2>3, <2>7
    <3> QED
      BY <2>4, <2>5, <3>1, <3>2
  <2> QED
    BY <2>6, <2>7
<1>2. SubSeq(s, 1, Len(s)) = s /\ Len(s) \in 0..Len(s)
  BY SubSeqFull, LenProperties
<1>3. Right(Len(s))
  BY <1>1, <1>2
<1> QED
  BY <1>2, <1>3

\* The first packet.
LEMMA PointersHead ==
    ASSUME NEW s \in Seq(Packet), s # <<>>
    PROVE  Pointers(s) = (IF Head(s).ptr = None THEN <<>> ELSE <<Head(s).ptr>>) \o Pointers(Tail(s))
<1>1. /\ Head(s) \in Packet /\ Tail(s) \in Seq(Packet)
      /\ <<Head(s)>> \in Seq(Packet) /\ <<Head(s)>> = Append(<<>>, Head(s)) /\ <<>> \in Seq(Packet)
  BY HeadTailProperties
<1>2. s = <<Head(s)>> \o Tail(s)
  <2>1. Len(s) \in Nat /\ Len(s) # 0 /\ Head(s) = s[1]
    BY EmptySeq
  <2>2. 1 \in 1..Len(s) /\ Len(s) \in 1..Len(s)
    BY <2>1
  <2>3. SubSeq(s, 1, Len(s)) = <<s[1]>> \o SubSeq(s, 1 + 1, Len(s))
    BY <2>2, SubSeqRecursiveFirst
  <2> QED
    BY <2>1, <2>3, SubSeqFull, TailIsSubSeq
<1>3. Pointers(<<Head(s)>>) = IF Head(s).ptr = None THEN <<>> ELSE <<Head(s).ptr>>
  <2>1. Append(<<>>, Head(s).ptr) = <<Head(s).ptr>>
    OBVIOUS
  <2>2. Pointers(Append(<<>>, Head(s))) =
            IF Head(s).ptr = None THEN Pointers(<<>>) ELSE Append(Pointers(<<>>), Head(s).ptr)
    BY <1>1, PointersAppend
  <2> QED
    BY <1>1, <2>1, <2>2, PointersEmpty
<1> QED
  BY <1>1, <1>2, <1>3, PointersConcat

-----------------------------------------------------------------------------
\* The pointer that waits with TCP, as a sequence.
Held(ptr) == IF ptr = None THEN <<>> ELSE <<ptr>>

\* What Service takes for pending.
Pending == Pointers(net) \o Held(current) \o queue

\* However much send_much sends, the pointers keep their order.
LEMMA SendPointers ==
    ASSUME NEW rest \in Seq(Packet), NEW ptr \in Outputs \union {None}, NEW cs \in Int,
           NEW from \in Int, NEW ack \in Int, SendMuch(rest, ptr, cs, from, ack)
    PROVE  Pointers(net') \o Held(current') = Pointers(rest) \o Held(ptr)
<1> DEFINE total == WithSyn(cs, from)
           final == IF Starts(from) /\ cs = 1 THEN 0 ELSE total - 1
<1>1. PICK upto \in Int : Sends(rest, ptr, cs, from, ack, total, final, upto)
  BY SendCases
<1>2. final \in Int
  BY DEF WithSyn
<1> HIDE DEF total, final
<1>3. CASE from > upto
  BY <1>1, <1>3 DEF Sends
<1>4. CASE from <= upto
  <2>1. current' = IF final \in from..upto THEN None ELSE ptr
    BY <1>1, <1>4 DEF Sends
  <2>2. PICK burst \in Seq(Packet) :
          /\ net' = rest \o burst /\ Len(burst) = upto - from + 1
          /\ \A i \in 1..Len(burst) :
               /\ burst[i].seq = from + i - 1
               /\ burst[i].ptr = IF from + i - 1 = final THEN ptr ELSE None
    BY <1>1, <1>4 DEF Sends
  <2> DEFINE k == final - from + 1
  <2>3. k \in Int /\ \A i \in 1..Len(burst) : burst[i].ptr = IF i = k THEN ptr ELSE None
    <3>1. k \in Int /\ \A i \in Int : from + i - 1 = final <=> i = k
      BY <1>2
    <3>2. \A i \in 1..Len(burst) : i \in Int
      OBVIOUS
    <3> HIDE DEF k
    <3> QED
      BY <2>2, <3>1, <3>2
  <2>4. final \in from..upto <=> k \in 1..Len(burst)
    BY <1>2, <1>4, <2>2
  <2> HIDE DEF k
  <2>5. Pointers(burst) = IF k \in 1..Len(burst) /\ ptr # None THEN <<ptr>> ELSE <<>>
    BY <2>3, PointersOfBurst
  <2>6. Pointers(net') = Pointers(rest) \o Pointers(burst)
    BY <2>2, PointersConcat
  <2>7. Pointers(rest) \in Seq(Outputs)
    BY PointersAreOutputs
  <2>8. CASE final \in from..upto
    <3>1. Pointers(burst) = Held(ptr) /\ Held(current') = <<>>
      BY <2>1, <2>4, <2>5, <2>8 DEF Held
    <3>2. Pointers(rest) \o Held(ptr) \in Seq(Outputs)
      <4>1. Held(ptr) \in Seq(Outputs)
        BY DEF Held
      <4> QED
        BY <2>7, <4>1, ConcatProperties
    <3> QED
      BY <2>6, <3>1, <3>2, ConcatEmptySeq
  <2>9. CASE final \notin from..upto
    <3>1. Pointers(burst) = <<>> /\ current' = ptr
      BY <2>1, <2>4, <2>5, <2>9
    <3> QED
      BY <2>6, <2>7, <3>1, ConcatEmptySeq
  <2> QED
    BY <2>8, <2>9
<1>5. from > upto \/ from <= upto
  OBVIOUS
<1> QED
  BY <1>3, <1>4, <1>5

\* tryToSend does not reorder what is pending.
LEMMA TryToSendPending ==
    ASSUME NEW rest, NEW q, NEW G, NEW e, Stream(rest, q, G, e), TryToSend(rest, q)
    PROVE  Pending' = Pointers(rest) \o Held(current) \o q
<1>1. /\ rest \in Seq(Packet) /\ q \in Seq(Outputs)
      /\ curseq \in Int /\ tseq \in Int /\ acked \in Int
  BY DEF Stream, Numbers
<1>2. CASE ~(current = None /\ q # <<>>)
  <2>1. net' = rest /\ current' = current /\ queue' = q
    BY <1>2 DEF TryToSend
  <2> QED
    BY <2>1 DEF Pending
<1>3. CASE current = None /\ q # <<>>
  <2> DEFINE o == Head(q)
             cs == curseq + Packets[o]
             a == Pointers(rest)
             r == Tail(q)
  <2>1. queue' = r /\ SendMuch(rest, o, cs, tseq, acked)
    BY <1>3 DEF TryToSend
  <2>2. o \in Outputs /\ r \in Seq(Outputs) /\ q = <<o>> \o r
    <3>1. o \in Outputs /\ r \in Seq(Outputs) /\ o = q[1] /\ Len(q) \in Nat /\ Len(q) # 0
      BY <1>1, <1>3
    <3>2. SubSeq(q, 1, Len(q)) = <<q[1]>> \o SubSeq(q, 1 + 1, Len(q))
      <4>1. 1 \in 1..Len(q) /\ Len(q) \in 1..Len(q)
        BY <3>1
      <4> QED
        BY <1>1, <4>1, SubSeqRecursiveFirst
    <3>3. SubSeq(q, 1, Len(q)) = q /\ r = SubSeq(q, 2, Len(q))
      BY <1>1, <1>3, SubSeqFull, TailIsSubSeq
    <3> QED
      BY <3>1, <3>2, <3>3
  <2>3. o # None /\ cs \in Int
    BY <1>1, <2>2, ChannelAssumption
  <2>4. a \in Seq(Outputs)
    BY <1>1, PointersAreOutputs
  <2> HIDE DEF o, cs, r
  <2>5. Pointers(net') \o Held(current') = a \o Held(o)
    BY <1>1, <2>1, <2>2, <2>3, SendPointers
  <2>6. Held(o) = <<o>> /\ Held(current) = <<>> /\ a \o <<>> = a
    BY <1>3, <2>3, <2>4, ConcatEmptySeq DEF Held
  <2>7. (a \o <<o>>) \o r = a \o (<<o>> \o r)
    <3> HIDE DEF a
    <3>1. <<o>> \in Seq(Outputs)
      BY <2>2
    <3> QED
      BY <2>2, <2>4, <3>1, ConcatAssociative
  <2> HIDE DEF a
  <2>8. Pending' = (a \o Held(o)) \o r
    BY <2>1, <2>5 DEF Pending
  <2> QED
    BY <2>2, <2>6, <2>7, <2>8 DEF a
<1> QED
  BY <1>2, <1>3

LEMMA InitService == Init => Service!Init
<1> SUFFICES ASSUME Init PROVE Service!Init
  OBVIOUS
<1>1. net = <<>> /\ current = None /\ queue = <<>> /\ exited = <<>>
  BY DEF Init
<1>2. <<>> \o <<>> \o <<>> = <<>>
  OBVIOUS
<1> QED
  BY <1>1, <1>2, PointersEmpty DEF Service!Init

\* A step of the channel is a step of the service, or changes no output there.
LEMMA StepService == StreamInv /\ AckInv /\ [Step]_vars => Service!Next
<1> SUFFICES ASSUME StreamInv, AckInv, [Step]_vars
             PROVE  \/ \E o \in Outputs : Service!Submit(o)
                    \/ Service!Exit
                    \/ UNCHANGED <<Pending, exited>>
  <2>1. (current # None /\ tseq = curseq)' \in BOOLEAN
    OBVIOUS
  <2> QED
    BY <2>1 DEF Service!Next, Pending, Held
<1> DEFINE a == Pointers(net)
           c == Held(current)
<1>1. /\ net \in Seq(Packet) /\ queue \in Seq(Outputs) /\ exited \in Seq(Outputs)
      /\ current \in Outputs \union {None} /\ last \in [Outputs -> Nat \union {-1}]
      /\ Numbers(net, got) /\ Silent(net, exited) /\ Handed(net, exited) /\ Stream(net, queue, got, exited)
  BY DEF StreamInv, Stream
<1>2. a \in Seq(Outputs) /\ c \in Seq(Outputs)
  BY <1>1, PointersAreOutputs DEF Held
<1>3. curseq \in Int /\ tseq \in Int /\ acked \in Int /\ maxseq \in Int /\ maxseq <= curseq - 1 /\ -1 <= maxseq
  BY <1>1 DEF Numbers
<1>4. ASSUME NEW o \in Outputs, Submit(o) PROVE Service!Submit(o)
  <2>1. /\ last[o] = -1 /\ ~Contains(queue, o)
        /\ TryToSend(net, Append(queue, o)) /\ exited' = exited
    BY <1>4 DEF Submit
  <2>2. Stream(net, Append(queue, o), got, exited)
    BY <2>1, SubmitStream
  <2>3. Pending' = a \o c \o Append(queue, o)
    BY <2>1, <2>2, TryToSendPending
  <2>4. a \o c \o Append(queue, o) = Append(Pending, o)
    <3> DEFINE ac == a \o c
    <3>1. ac \in Seq(Outputs)
      BY <1>2, ConcatProperties
    <3> HIDE DEF a, c
    <3>2. Pending = ac \o queue
      BY DEF Pending, a, c
    <3> HIDE DEF ac
    <3>3. Append(queue, o) = queue \o <<o>> /\ <<o>> \in Seq(Outputs)
      BY <1>1, AppendIsConcat
    <3>4. ac \o queue \in Seq(Outputs)
      BY <1>1, <3>1, ConcatProperties
    <3>5. Append(ac \o queue, o) = (ac \o queue) \o <<o>>
      BY <3>4, AppendIsConcat
    <3>6. (ac \o queue) \o <<o>> = ac \o (queue \o <<o>>)
      BY SMTT(30), <1>1, <3>1, <3>3, ConcatAssociative
    <3> QED
      BY <3>2, <3>3, <3>5, <3>6 DEF ac
  <2>5. ~Contains(Pending \o exited, o)
    <3> DEFINE S == Outputs \ {o}
    <3>1. a \in Seq(S)
      <4>1. \A n \in DOMAIN net : net[n] \in Packet
        BY <1>1
      <4>2. \A n \in DOMAIN net : net[n].ptr \in S \union {None}
        BY <1>1, <2>1, <4>1 DEF Packet, Handed
      <4> HIDE DEF S
      <4> QED
        BY <1>1, <4>2, PointersType
    <3>2. c \in Seq(S)
      <4>1. current # None => last[current] = curseq - 1 /\ maxseq # -1
        BY <1>1 DEF Handed, Silent
      <4>2. current # None => current # o
        BY <1>3, <2>1, <4>1
      <4>3. CASE current = None
        BY <4>3 DEF Held
      <4>4. CASE current # None
        <5>1. current \in S
          BY <1>1, <4>2, <4>4
        <5> HIDE DEF S
        <5> QED
          BY <4>4, <5>1 DEF Held
      <4> QED
        BY <4>3, <4>4
    <3>3. queue \in Seq(S)
      <4>1. \A n \in 1..Len(queue) : queue[n] \in S
        BY <1>1, <2>1 DEF Contains
      <4> QED
        BY <1>1, <4>1
    <3>4. exited \in Seq(S)
      <4>1. \A n \in 1..Len(exited) : exited[n] \in S
        BY <1>1, <2>1 DEF Handed
      <4> QED
        BY <1>1, <4>1
    <3> HIDE DEF a, c, S
    <3>5. a \o c \in Seq(S)
      BY <3>1, <3>2, ConcatProperties
    <3>6. (a \o c) \o queue \in Seq(S)
      BY <3>3, <3>5, ConcatProperties
    <3>7. Pending \in Seq(S)
      BY <3>6 DEF Pending, a, c
    <3>8. Pending \o exited \in Seq(S)
      BY <3>4, <3>7, ConcatProperties
    <3>9. \A s \in Seq(S) : ~Contains(s, o)
      <4> SUFFICES ASSUME NEW s \in Seq(S), NEW i \in 1..Len(s), s[i] = o PROVE FALSE
        BY DEF Contains
      <4>1. s[i] \in S
        OBVIOUS
      <4> QED
        BY <4>1 DEF S
    <3> QED
      BY <3>8, <3>9
  <2>6. Pending' = Append(Pending, o) /\ exited' = exited
    BY <2>1, <2>3, <2>4
  <2>7. ~Service!Contains(Pending \o exited, o)
    BY <2>5 DEF Contains, Service!Contains
  <2> HIDE DEF a, c
  <2> QED
    BY <2>6, <2>7 DEF Service!Submit, Pending, Held
<1>5. CASE Recv
  <2> DEFINE p == Head(net)
             t == Tail(net)
             b == Pointers(t)
  <2>1. net # <<>> /\ t \in Seq(Packet) /\ p.ptr \in Outputs \union {None}
    <3>1. net # <<>>
      BY <1>5 DEF Recv
    <3>2. t \in Seq(Packet) /\ p \in Packet
      BY <1>1, <3>1
    <3> QED
      BY <3>1, <3>2 DEF Packet
  <2>2. b \in Seq(Outputs)
    BY <2>1, PointersAreOutputs
  <2>3. a = (IF p.ptr = None THEN <<>> ELSE <<p.ptr>>) \o b
    BY <1>1, <2>1, PointersHead
  <2>4. CASE p.ptr # None
    <3>1. exited' = Append(exited, p.ptr) /\ TryToSend(t, queue)
      BY <1>5, <2>4 DEF Recv, AskNext
    <3>2. Stream(t, queue, got \union {p.seq}, Append(exited, p.ptr))
      BY <2>1, <2>4, RecvStream
    <3>3. Pending' = b \o c \o queue
      <4> HIDE DEF t, p
      <4> QED
        BY <3>1, <3>2, TryToSendPending
    <3> DEFINE x == p.ptr
               bc == b \o c
               bcq == bc \o queue
    <3>4. x \in Outputs /\ a = <<x>> \o b /\ <<x>> \in Seq(Outputs)
      BY <2>1, <2>3, <2>4
    <3> HIDE DEF a, b, c, x
    <3>5. bc \in Seq(Outputs)
      BY <1>2, <2>2, ConcatProperties
    <3>6. a \o c = <<x>> \o bc
      BY <1>2, <2>2, <3>4, ConcatAssociative
    <3> HIDE DEF bc
    <3>7. bcq \in Seq(Outputs)
      BY <1>1, <3>5, ConcatProperties
    <3>8. (a \o c) \o queue = <<x>> \o bcq
      <4>1. (<<x>> \o bc) \o queue = <<x>> \o (bc \o queue)
        BY <1>1, <3>4, <3>5, ConcatAssociative
      <4> QED
        BY <3>6, <4>1
    <3>9. Pending = <<x>> \o bcq
      BY <3>8 DEF Pending, a, c
    <3>10. Pending' = bcq
      BY <3>3 DEF bc, c
    <3> HIDE DEF bcq
    <3>11. /\ <<x>> \o bcq # <<>> /\ Head(<<x>> \o bcq) = x /\ Tail(<<x>> \o bcq) = bcq
      <4> DEFINE w == <<x>> \o bcq
      <4>1. /\ w \in Seq(Outputs) /\ Len(w) = 1 + Len(bcq) /\ Len(bcq) \in Nat
            /\ \A i \in 1..(1 + Len(bcq)) : w[i] = IF i <= 1 THEN x ELSE bcq[i - 1]
        <5>1. Len(<<x>>) = 1 /\ <<x>>[1] = x
          OBVIOUS
        <5>2. /\ w \in Seq(Outputs) /\ Len(w) = Len(<<x>>) + Len(bcq)
              /\ \A i \in 1..(Len(<<x>>) + Len(bcq)) :
                    w[i] = IF i <= Len(<<x>>) THEN <<x>>[i] ELSE bcq[i - Len(<<x>>)]
          BY <3>4, <3>7, ConcatProperties
        <5>3. Len(bcq) \in Nat
          BY <3>7
        <5> HIDE DEF w
        <5>4. \A i \in 1..(1 + Len(bcq)) : i <= 1 => i = 1
          BY <5>3
        <5> QED
          BY <5>1, <5>2, <5>3, <5>4
      <4> HIDE DEF w
      <4>2. w # <<>> /\ w[1] = x
        BY <4>1
      <4>3. Tail(w) \in Seq(Outputs) /\ Len(Tail(w)) = Len(bcq)
            /\ \A i \in 1..Len(bcq) : Tail(w)[i] = bcq[i]
        <5>1. /\ Tail(w) \in Seq(Outputs) /\ Len(Tail(w)) = Len(w) - 1
              /\ \A i \in 1..Len(Tail(w)) : Tail(w)[i] = w[i + 1]
          BY <4>1, <4>2
        <5> QED
          BY <4>1, <5>1
      <4>4. Tail(w) = bcq
        BY <3>7, <4>3, SeqEqual
      <4>5. Head(w) = w[1]
        BY <4>1, <4>2
      <4> QED
        BY <4>2, <4>4, <4>5 DEF w
    <3>12. Pending # <<>> /\ exited' = Append(exited, Head(Pending)) /\ Pending' = Tail(Pending)
      BY <3>1, <3>9, <3>10, <3>11 DEF x
    <3>13. Service!Exit
      BY <3>12 DEF Service!Exit, Pending, Held
    <3> QED
      BY <3>13
  <2>5. CASE p.ptr = None
    <3>1. exited' = exited /\ net' = t /\ queue' = queue /\ current' = current
      BY <1>5, <2>5 DEF Recv
    <3>2. a = b
      BY <2>2, <2>3, <2>5, ConcatEmptySeq
    <3> QED
      BY <3>1, <3>2 DEF Pending
  <2> QED
    BY <2>4, <2>5
<1>6. ASSUME Resume, UNCHANGED <<queue, exited>> PROVE UNCHANGED <<Pending, exited>>
  <2>1. SendMuch(net, current, curseq, acked + 1, acked)
    BY <1>6 DEF Resume
  <2>2. acked + 1 \in Int
    BY <1>3
  <2>3. Pointers(net') \o Held(current') = a \o c
    BY <1>1, <1>3, <2>1, <2>2, SendPointers
  <2> QED
    BY <1>6, <2>3 DEF Pending
<1>7. CASE Ack
  <2>1. /\ acks # <<>> /\ queue' = queue /\ exited' = exited
        /\ NewAck(Head(acks)) \/ DupAck
    BY <1>7 DEF Ack
  <2>2. CASE NewAck(Head(acks))
    <3> DEFINE x == Head(acks)
               from == Greater(tseq, x + 1)
    <3>1. SendMuch(net, current, curseq, from, x)
      BY <2>2 DEF NewAck
    <3>2. x \in Int /\ from \in Int
      <4>1. x \in Int
        BY <2>1 DEF AckInv
      <4> HIDE DEF x
      <4> QED
        BY <1>3, <4>1 DEF Greater
    <3> HIDE DEF x, from
    <3>3. Pointers(net') \o Held(current') = a \o c
      BY <1>1, <1>3, <3>1, <3>2, SendPointers
    <3> QED
      BY <2>1, <3>3 DEF Pending
  <2>3. CASE DupAck
    <3>1. CASE Resume
      BY <1>6, <2>1, <3>1
    <3>2. CASE SendOne(dupacks + 1)
      <4> DEFINE p == [seq |-> tseq, ptr |-> None]
      <4>1. current' = current /\ (net' = Append(net, p) \/ net' = net)
        BY <3>2 DEF SendOne
      <4>2. p \in Packet /\ p.ptr = None
        BY <1>3 DEF Packet
      <4> HIDE DEF p
      <4>3. Pointers(net') = Pointers(net)
        BY <1>1, <4>1, <4>2, PointersAppend
      <4> QED
        BY <2>1, <4>1, <4>3 DEF Pending
    <3>3. CASE UNCHANGED <<net, current, curseq, tseq, maxseq, timeouts>>
      BY <2>1, <3>3 DEF Pending
    <3> QED
      BY <2>3, <3>1, <3>2, <3>3 DEF DupAck
  <2> QED
    BY <2>1, <2>2, <2>3
<1>8. CASE Timeout
  BY <1>6, <1>8 DEF Timeout
<1>9. CASE UNCHANGED vars
  BY <1>9 DEF vars, Pending
<1> QED
  BY <1>4, <1>5, <1>7, <1>8, <1>9 DEF Step

\* The safety part of ImplementsService.
ServesInOrder == Service!Init /\ [][Service!Next]_Service!vars

\* sendmsg, tryToSend, TCP with its retransmissions and duplicate acknowledgements
\* and TskOutSink are together a first-in first-out queue: each output leaves at most
\* once, and after those before it.
THEOREM OutputsLeaveInOrder == SettledSpec => ServesInOrder
<1>1. StreamInv /\ AckInv /\ [Step]_vars => [Service!Next]_Service!vars
  BY StepService
<1> QED
  BY <1>1, InitStream, InitAcks, StepStream, StepAcks, InitService, PTL
     DEF SettledSpec, ServesInOrder
=============================================================================
