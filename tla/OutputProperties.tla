-------------------------- MODULE OutputProperties --------------------------
(***************************************************************************)
(* What the output channel promises.                                       *)
(***************************************************************************)
EXTENDS OutputChannel, FiniteSetsExt

\* Every variable has its type, and the agent's numbers belong together: what
\* is acknowledged was sent, what was sent was produced, and the stream is as
\* long as the outputs handed to TCP and the SYN, counted once.
TypeOK ==
    /\ queue \in Seq(Outputs) /\ exited \in Seq(Outputs)
    /\ current \in Outputs \union {None}
    /\ last \in [Outputs -> Nat \union {-1}]
    /\ \A n \in DOMAIN net : net[n].seq \in 0..maxseq /\ net[n].ptr \in Outputs \union {None}
    /\ -1 <= acked /\ acked <= maxseq /\ maxseq <= curseq - 1 /\ tseq \in 0..curseq
    /\ got \subseteq 0..maxseq
    /\ dupacks \in Nat /\ \A n \in DOMAIN acks : acks[n] \in acked..maxseq
    /\ curseq = SumFunctionOnSet(Packets, {o \in Outputs : last[o] # -1})
                    + (IF maxseq = -1 THEN 0 ELSE 1)

\* The pointers that travel on packets, in the order in which they were sent.
Pointers(packets) ==
    LET first[n \in 0..Len(packets)] ==
            IF n = 0 THEN <<>>
            ELSE IF packets[n].ptr = None THEN first[n - 1]
            ELSE Append(first[n - 1], packets[n].ptr)
    IN  first[Len(packets)]

\* The pointer of an output is in one place: on a packet, with TCP, or in the
\* queue, in this order.  The channel is blocked while TCP holds a pointer and has
\* nothing left to send: send_one sent the last packet of the stream without it.
Service == INSTANCE OutputService WITH
    pending <- Pointers(net) \o (IF current = None THEN <<>> ELSE <<current>>) \o queue,
    blocked <- current # None /\ tseq = curseq

\* The channel is a first-in first-out service: with every retransmission and
\* duplicate acknowledgement, and with new outputs arriving at any moment, no output
\* is lost, duplicated or overtaken, and none is left behind for any reason but the
\* one above, that of the duplicate acknowledgements that follow a retransmission.
ImplementsService == Service!Spec

\* An output waits in the queue only while something will come to fetch it: a
\* packet with a pointer on the way, or a pointer that TCP has a packet left to
\* carry.  Once TCP has retransmitted, the pointer it holds may have none: the
\* packet went out in answer to a duplicate acknowledgement.
QueueHasTrigger ==
    queue # <<>> =>
        \/ \E n \in DOMAIN net : net[n].ptr # None
        \/ current # None /\ (tseq < curseq \/ timeouts > 0)

\* The exit of an output is recorded, and its host billed for the end of the
\* communication, when all its packets have arrived; but for the first output
\* of the channel when it is one packet long: its pointer rides on the SYN.
ExitMeansDelivered ==
    \A n \in DOMAIN exited :
        0..last[exited[n]] \subseteq got \/ (n = 1 /\ last[exited[n]] = 1)
=============================================================================
