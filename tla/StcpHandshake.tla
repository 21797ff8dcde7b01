--------------------------- MODULE StcpHandshake ---------------------------
(***************************************************************************)
(* Connection set-up of STCP: the loop of transport_init() in transport.c, *)
(* run by one transport thread at each end, and what the control loop does *)
(* with handshake packets that arrive after an end is established.  Every  *)
(* receive in that loop blocks without a timeout and nothing is ever       *)
(* retransmitted, so the set-up only completes on a line that loses none   *)
(* of the packets it needs.                                                *)
(*                                                                         *)
(* The set-up takes four packets, not three: the second branch of the loop *)
(* answers every SYN, the peer's SYN|ACK included, with a SYN|ACK of its   *)
(* own, and the branch written for a SYN|ACK in SYN_SENT comes after it.   *)
(***************************************************************************)
EXTENDS StcpNetwork, Integers

CONSTANT InitialSeqs   \* the values generate_initial_seq_num() may draw

ASSUME InitialSeqsAssumption == InitialSeqs \subseteq 0..255

Endpoint == {"active", "passive"}
Peer(e) == IF e = "active" THEN "passive" ELSE "active"

Flags == {{"SYN"}, {"SYN", "ACK"}, {"ACK"}}
Packet == [flags : Flags, seq : Nat, ack : Nat]

State == {"LISTEN", "SYN_RECEIVED", "SYN_SENT", "ESTABLISHED"}

\* The fields of context_t the set-up uses.
Context == [state : State, initialSeq : Nat, lastSentSeq : Nat,
            ackNum : Nat, nextSeqExpected : Nat]

VARIABLES
  isn,    \* what each end drew; never assigned again
  ctx,    \* ctx[e]: context_t of the transport thread at e
  line    \* line[e]: the line that delivers to e

vars == <<isn, ctx, line>>

\* calloc() leaves connection_state at 0, which is CSTATE_LISTEN.
NewContext(s) == [state |-> "LISTEN", initialSeq |-> s, lastSentSeq |-> 0,
                  ackNum |-> 0, nextSeqExpected |-> 0]

Init == /\ isn \in [Endpoint -> InitialSeqs]
        /\ ctx = [e \in Endpoint |-> NewContext(isn[e])]
        /\ line = [e \in Endpoint |-> EmptyLine]

\* Mutants: a SYN takes no sequence number, at the sender or at the receiver.
SynAckedSame(c) == c.initialSeq
NextAfterSame(p) == p.seq

\* A SYN takes one sequence number: the number that acknowledges the end's own
\* SYN, and the number expected after the peer's.
SynAcked(c) == c.initialSeq + 1
NextAfter(p) == p.seq + 1

\* What sending a SYN assigns.
SynSent(c, s) == [c EXCEPT !.state = s, !.lastSentSeq = SynAcked(c)]

\* Mutant: the end goes on sending from its SYN's number.
EstablishedUnadvanced(c) == [c EXCEPT !.state = "ESTABLISHED"]

\* The assignments both arms of the first branch share.
Established(c) == [c EXCEPT !.state = "ESTABLISHED", !.initialSeq = c.lastSentSeq]

\* Mutant: ackNum keeps the number the peer's SYN carried.
ExpectingOwn(c, p) == [c EXCEPT !.ackNum = p.seq, !.nextSeqExpected = NextAfter(p)]

\* The number taken from a peer's SYN.
Expecting(c, p) == [c EXCEPT !.ackNum = NextAfter(p), !.nextSeqExpected = NextAfter(p)]

Arriving(e) == Head(line[e].wire)

\* e takes a packet and answers with p: stcp_network_recv, stcp_network_send.
Answer(e, p) ==
  \E l \in NetworkSend(line[Peer(e)], p) :
    line' = [line EXCEPT ![e] = Received(@), ![Peer(e)] = l]

\* e takes a packet and answers nothing.
Consume(e) == line' = [line EXCEPT ![e] = Received(@)]

-----------------------------------------------------------------------------
(* transport_init()                                                        *)

\* The active end sends its SYN and enters the receive loop.
Connect(e) ==
  /\ e = "active" /\ ctx[e].state = "LISTEN"
  /\ \E l \in NetworkSend(line[Peer(e)],
                          [flags |-> {"SYN"}, seq |-> ctx[e].initialSeq, ack |-> 0]) :
       line' = [line EXCEPT ![Peer(e)] = l]
  /\ ctx' = [ctx EXCEPT ![e] = SynSent(@, "SYN_SENT")]
  /\ UNCHANGED isn

\* The end is inside the receive loop with a packet to take.
Waiting(e) == /\ line[e].wire # <<>>
              /\ \/ ctx[e].state \in {"SYN_SENT", "SYN_RECEIVED"}
                 \/ ctx[e].state = "LISTEN" /\ e = "passive"

AcceptsAck(e, p) == "ACK" \in p.flags /\ ctx[e].state = "SYN_RECEIVED"

\* Mutant: a SYN|ACK in SYN_SENT is left to the branch that comes later.
AcceptsSynListening(e, p) == "SYN" \in p.flags /\ ctx[e].state = "LISTEN"

AcceptsSyn(e, p) == "SYN" \in p.flags /\ ctx[e].state \in {"SYN_SENT", "LISTEN"}

\* First branch, SYN|ACK: the peer's number is taken and an ACK goes back.
RecvSynAck(e) ==
  LET p == Arriving(e) IN
  /\ Waiting(e) /\ AcceptsAck(e, p) /\ "SYN" \in p.flags
  /\ ctx[e].lastSentSeq = p.ack
  /\ ctx' = [ctx EXCEPT ![e] = Expecting(Established(@), p)]
  /\ Answer(e, [flags |-> {"ACK"}, seq |-> ctx'[e].initialSeq, ack |-> NextAfter(p)])
  /\ UNCHANGED isn

\* First branch, plain ACK.
RecvAck(e) ==
  LET p == Arriving(e) IN
  /\ Waiting(e) /\ AcceptsAck(e, p) /\ "SYN" \notin p.flags
  /\ ctx[e].lastSentSeq = p.ack
  /\ ctx' = [ctx EXCEPT ![e] = Established(@)]
  /\ Consume(e)
  /\ UNCHANGED isn

\* First branch, assert(ctx->lastSentSeq == recvPacket->th_ack) fails.
AssertFails(e) == AcceptsAck(e, Arriving(e)) /\ ctx[e].lastSentSeq # Arriving(e).ack

\* Second branch: any SYN in LISTEN or SYN_SENT is answered with SYN|ACK.
RecvSyn(e) ==
  LET p == Arriving(e) IN
  /\ Waiting(e) /\ AcceptsSyn(e, p)
  /\ ctx' = [ctx EXCEPT ![e] = SynSent(Expecting(@, p), "SYN_RECEIVED")]
  /\ Answer(e, [flags |-> {"SYN", "ACK"}, seq |-> ctx[e].initialSeq, ack |-> NextAfter(p)])
  /\ UNCHANGED isn

\* No branch applies: the packet is dropped and the loop receives again.
Ignore(e) ==
  LET p == Arriving(e) IN
  /\ Waiting(e) /\ ~AcceptsAck(e, p) /\ ~AcceptsSyn(e, p)
  /\ Consume(e)
  /\ UNCHANGED <<isn, ctx>>

-----------------------------------------------------------------------------
(* control_loop() and unpack_and_recv_data(), for handshake packets only   *)

\* A SYN below ackNum is acknowledged again and otherwise ignored.
RecvStaleSyn(e) ==
  LET p == Arriving(e) IN
  /\ ctx[e].state = "ESTABLISHED" /\ line[e].wire # <<>>
  /\ "SYN" \in p.flags /\ p.seq < ctx[e].ackNum
  /\ Answer(e, [flags |-> {"ACK"}, seq |-> ctx[e].initialSeq, ack |-> ctx[e].ackNum])
  /\ UNCHANGED <<isn, ctx>>

\* An ACK matches no entry of the still empty sentPackets.
RecvStaleAck(e) ==
  /\ ctx[e].state = "ESTABLISHED" /\ line[e].wire # <<>>
  /\ Arriving(e).flags = {"ACK"}
  /\ Consume(e)
  /\ UNCHANGED <<isn, ctx>>

Receive(e) == \/ RecvSynAck(e)
              \/ RecvAck(e)
              \/ RecvSyn(e)
              \/ Ignore(e)
              \/ RecvStaleSyn(e)
              \/ RecvStaleAck(e)

Next == \E e \in Endpoint : Connect(e) \/ Receive(e)

\* A transport thread keeps running: it sends its SYN, and a receive with a
\* packet queued returns.
Spec == Init /\ [][Next]_vars /\ \A e \in Endpoint : WF_vars(Connect(e)) /\ WF_vars(Receive(e))
-----------------------------------------------------------------------------
(* Properties                                                              *)

TypeOK == /\ isn \in [Endpoint -> InitialSeqs]
          /\ ctx \in [Endpoint -> Context]
          /\ line \in [Endpoint -> Lines(Packet)]

\* Synchronised ends know each other's first sequence number.
Synchronised == {"SYN_RECEIVED", "ESTABLISHED"}

\* The two asserts of the first branch hold: whatever the line drops, repeats
\* or delivers late, an end in SYN_RECEIVED is never given an acknowledgement of
\* anything but its own SYN (an old packet would abort the whole process).
AssertsHold == \A e \in Endpoint : Waiting(e) => ~AssertFails(e)

\* An end is established only when its peer is at least in SYN_RECEIVED, and
\* then the next number it will send is the one the peer expects, both ways.
\* The data transfer starts from exactly this agreement.
EstablishedAgree ==
  \A e \in Endpoint : ctx[e].state = "ESTABLISHED" =>
    /\ ctx[Peer(e)].state \in Synchronised
    /\ ctx[e].initialSeq = ctx[Peer(e)].nextSeqExpected
    /\ ctx[e].nextSeqExpected = isn[Peer(e)] + 1

\* A late or repeated handshake packet never enters the data path of an
\* established end, where a SYN flag means data: its number is below ackNum.
StaleSynIsOld ==
  \A e \in Endpoint : \A p \in InFlight(line[e]) :
    ctx[e].state = "ESTABLISHED" /\ "SYN" \in p.flags => p.seq < ctx[e].ackNum

\* Where the network tampers with nothing the set-up completes at both ends: the
\* two blocking receive loops never wait for each other.
Untampered == \A e \in Endpoint : line[e].faults = 0
SetUpCompletes ==
  []Untampered => <>(\A e \in Endpoint : ctx[e].state = "ESTABLISHED")

\* What makes the above inductive: what the state of e says of its context c
\* and of its peer's context d, and what a packet that may still reach e says
\* of e and of the context d of its sender.
ContextConsistent(e, c, d) ==
  /\ c.initialSeq = IF c.state = "ESTABLISHED" THEN isn[e] + 1 ELSE isn[e]
  /\ c.state # "LISTEN" => c.lastSentSeq = isn[e] + 1
  /\ c.state \in Synchronised => /\ c.ackNum = isn[Peer(e)] + 1
                                 /\ c.nextSeqExpected = isn[Peer(e)] + 1
  /\ c.state = "ESTABLISHED" => d.state \in Synchronised

PacketConsistent(e, p, d) ==
  /\ "SYN" \in p.flags => p.seq = isn[Peer(e)]
  /\ "ACK" \in p.flags => p.ack = isn[e] + 1 /\ d.state \in Synchronised

\* The set-up keeps contexts and packets in flight consistent.
Consistent == \A e \in Endpoint :
                /\ ContextConsistent(e, ctx[e], ctx[Peer(e)])
                /\ \A p \in InFlight(line[e]) : PacketConsistent(e, p, ctx[Peer(e)])
=============================================================================
