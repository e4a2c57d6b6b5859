---------------------------- MODULE OutputChannel ----------------------------
(***************************************************************************)
(* The output channel of one provider: the queue of ProviderOutAgent, the  *)
(* TCP agent under it with the pointer that GreenCloud adds to it, and the *)
(* TskOutSink at the core switch.                                          *)
(*                                                                         *)
(* The pointer of an output travels on the packet that is the last one     *)
(* queued when it is sent; the sink takes that packet for the end of the   *)
(* output and asks the agent for the next.  The window and the moments of  *)
(* timeouts are TCP's: any may come, since the congestion control has no   *)
(* part in the protocol.  The sink acknowledges every packet.              *)
(***************************************************************************)
EXTENDS Integers, Sequences, SequencesExt

CONSTANTS
    Outputs,        \* the tasks' outputs
    Packets,        \* [Outputs -> length of the output in packets]
    Window,         \* bound: the largest window of the agent
    MaxTimeouts,    \* bound: timeouts and duplicate-ack recoveries
    MaxMoves,       \* bound: migrations of the VM that owns the channel
    None

ASSUME ChannelAssumption ==
    /\ Packets \in [Outputs -> Nat \ {0}]
    /\ Window \in Nat \ {0} /\ MaxTimeouts \in Nat /\ MaxMoves \in Nat
    /\ None \notin Outputs

VARIABLES
    queue,          \* ProviderOutAgent::poabuf_
    current,        \* TcpAgent::current_pointer_
    curseq,         \* TcpAgent::curseq_: packets the application produced
    tseq,           \* TcpAgent::t_seqno_: the next packet to send
    acked,          \* TcpAgent::highest_ack_ and last_ack_
    maxseq,         \* TcpAgent::maxseq_: -1 before the SYN
    dupacks,        \* TcpAgent::dupacks_
    net,            \* the packets on the way, [seq, ptr]
    got,            \* the sequence numbers the sink has
    acks,           \* the acknowledgements on the way back
    exited,         \* tasks whose dc_exit_time_ is set, in order
    last,           \* history: the last packet of each output handed to TCP
    timeouts, moves

agent == <<curseq, tseq, acked, maxseq>>
vars == <<queue, current, agent, dupacks, net, got, acks, exited, last, timeouts, moves>>

NumDupAcks == 3

Lesser(a, b) == IF a < b THEN a ELSE b
Greater(a, b) == IF a > b THEN a ELSE b

Init ==
    /\ queue = <<>> /\ current = None
    /\ curseq = 0 /\ tseq = 0 /\ acked = -1 /\ maxseq = -1
    /\ dupacks = 0
    /\ net = <<>> /\ got = {} /\ acks = <<>> /\ exited = <<>>
    /\ last = [o \in Outputs |-> -1]
    /\ timeouts = 0 /\ moves = 0

-----------------------------------------------------------------------------
(* send_much, with the numbers and the packets on the way that the caller   *)
(* leaves.  Packet 0 is the SYN: the first time it is sent it adds a packet *)
(* to the stream, after the test for the last packet was made.              *)

\* Mutants: the pointer rides on the first packet of the output's burst; it
\* rides on every packet.
PointerOnFirst(s, from, ptr, final) == IF s = from THEN ptr ELSE None
PointerOnAll(s, from, ptr, final) == ptr

\* The pointer that packet s carries, when the burst starts at from.
PointerOn(s, from, ptr, final) == IF s = final THEN ptr ELSE None

PointerLeft(sent, ptr, final) == IF final \in sent THEN None ELSE ptr

\* Mutant: the SYN adds a packet each time it is sent.
StartsAgain(from) == from = 0

Starts(from) == maxseq = -1 /\ from = 0

WithSyn(cs, from) == IF Starts(from) THEN cs + 1 ELSE cs

SendMuch(rest, ptr, cs, from, ack) ==
    \E win \in 1..Window :
        LET total == WithSyn(cs, from)
            upto == Lesser(ack + win, total - 1)
            \* with one packet queued the SYN itself passes for the last
            final == IF Starts(from) /\ cs = 1 THEN 0 ELSE total - 1
            burst == [i \in 1..(upto - from + 1) |->
                        [seq |-> from + i - 1,
                         ptr |-> PointerOn(from + i - 1, from, ptr, final)]]
        IN  IF from > upto
            THEN /\ net' = rest /\ tseq' = from /\ curseq' = cs /\ current' = ptr
                 /\ UNCHANGED maxseq
            ELSE /\ net' = rest \o burst
                 /\ tseq' = upto + 1
                 /\ curseq' = total
                 /\ maxseq' = Greater(maxseq, upto)
                 /\ current' = PointerLeft(from..upto, ptr, final)

-----------------------------------------------------------------------------
(* The agent and the sink.                                                  *)

\* tryToSend with the queue and the packets on the way that the caller leaves:
\* the head of the queue goes to TCP unless a pointer still waits there.
TryToSend(rest, q) ==
    IF current = None /\ q # <<>>
    THEN LET o == Head(q)
             cs == curseq + Packets[o]
         IN  /\ queue' = Tail(q)
             /\ last' = [last EXCEPT ![o] = WithSyn(cs, tseq) - 1]
             /\ SendMuch(rest, o, cs, tseq, acked)
             /\ UNCHANGED acked
    ELSE /\ queue' = q /\ net' = rest
         /\ UNCHANGED <<agent, current, last>>

\* Mutant: the sink does not ask the agent for the next output.
NoNext(rest, q) ==
    /\ queue' = q /\ net' = rest
    /\ UNCHANGED <<agent, current, last>>

AskNext(rest, q) == TryToSend(rest, q)

\* A task completes: sendTaskOutput, ProviderOutAgent::sendmsg.
Submit(o) ==
    /\ last[o] = -1 /\ ~Contains(queue, o)
    /\ TryToSend(net, Append(queue, o))
    /\ UNCHANGED <<dupacks, got, acks, exited, timeouts, moves>>

\* The last packet of the stream that arrived with all those before it.
InOrder(a, arrived) == 0..a \subseteq arrived /\ a + 1 \notin arrived

\* TskOutSink::recv, the packets arriving in the order they were sent.  The
\* acknowledgement that TcpSink::recv sends in the end is cumulative.
Recv ==
    /\ net # <<>>
    /\ LET p == Head(net) IN
       /\ got' = got \union {p.seq}
       /\ IF p.ptr # None
          THEN /\ exited' = Append(exited, p.ptr)
               /\ AskNext(Tail(net), queue)
          ELSE /\ net' = Tail(net)
               /\ UNCHANGED <<queue, current, agent, last, exited>>
    /\ \E a \in got' \union {-1} : InOrder(a, got') /\ acks' = Append(acks, a)
    /\ UNCHANGED <<dupacks, timeouts, moves>>

-----------------------------------------------------------------------------
(* Acknowledgements and retransmission.                                     *)

\* Whatever TCP takes for lost, it resumes after the last packet acknowledged
\* (reset_rtx_timer).
Resume ==
    /\ timeouts < MaxTimeouts
    /\ timeouts' = timeouts + 1
    /\ SendMuch(net, current, curseq, acked + 1, acked)

NewAck(a) ==
    /\ acked' = a
    /\ dupacks' = 0
    /\ SendMuch(net, current, curseq, Greater(tseq, a + 1), a)
    /\ UNCHANGED timeouts

\* send_one: the next packet, just outside the window and, even if it is the
\* last, without the pointer.  The send_much that follows sends nothing, for it
\* sent all that this window allows when it ran last.
SendOne(dups) ==
    \E win \in 1..Window :
        IF tseq < curseq /\ tseq <= acked + Lesser(Window, win + dups)
        THEN /\ net' = Append(net, [seq |-> tseq, ptr |-> None])
             /\ tseq' = tseq + 1
             /\ maxseq' = Greater(maxseq, tseq)
             /\ UNCHANGED <<current, curseq, timeouts>>
        ELSE UNCHANGED <<net, current, curseq, tseq, maxseq, timeouts>>

\* The third duplicate starts a retransmission, unless it belongs to the losses
\* that the one before repairs (recover_); those after it do nothing.
DupAck ==
    LET dups == dupacks + 1 IN
    /\ dupacks' = dups
    /\ \/ dups < NumDupAcks /\ SendOne(dups)
       \/ dups = NumDupAcks /\ Resume
       \/ dups >= NumDupAcks /\ UNCHANGED <<net, current, curseq, tseq, maxseq, timeouts>>
    /\ UNCHANGED acked

\* TcpAgent::recv.  The sink's numbers never go down and come in order, so that
\* none is below the last.
Ack ==
    /\ acks # <<>>
    /\ acks' = Tail(acks)
    /\ LET a == Head(acks) IN (a > acked /\ NewAck(a)) \/ (a = acked /\ DupAck)
    /\ UNCHANGED <<queue, got, exited, last, moves>>

\* The retransmission timer.
Timeout ==
    /\ acked < maxseq
    /\ Resume
    /\ UNCHANGED <<queue, acked, dupacks, got, acks, exited, last, moves>>

\* finalizeMigration re-attaches the agent and the sink of the VM: what was on
\* the way goes to ports that are no longer theirs, unless the sink comes back
\* to the same switch and is given the same port.
Reattach ==
    /\ moves < MaxMoves
    /\ moves' = moves + 1
    /\ net' \in {<<>>, net} /\ acks' = <<>>
    /\ UNCHANGED <<queue, current, agent, dupacks, got, exited, last, timeouts>>

Step == Recv \/ Ack \/ Timeout \/ \E o \in Outputs : Submit(o)
Next == Step \/ Reattach

Fairness == WF_vars(Recv) /\ WF_vars(Ack)

\* A channel of a host, or of a VM that is never migrated, and one that is.
SettledSpec == Init /\ [][Step]_vars /\ Fairness
MigratingSpec == Init /\ [][Next]_vars
=============================================================================
