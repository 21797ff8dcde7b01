---------------------------- MODULE StcpTransfer ----------------------------
(***************************************************************************)
(* An established STCP connection: control_loop() of transport.c and the   *)
(* functions it calls, at both ends, from the state the set-up leaves to   *)
(* the end of both transport threads.  A thread repeats one pass: wait for *)
(* an event, handle every event of that wake-up, and clear acknowledged    *)
(* packets before waiting again.                                           *)
(*                                                                         *)
(* A packet's payload is the pair of its offset and length in the stream   *)
(* its sender's application wrote.  The line and network_recv_queue are    *)
(* one FIFO: a packet still on it may or may not have reached the queue.   *)
(*                                                                         *)
(* The module is about connections on which fewer than LOCALRECVLEN bytes  *)
(* arrive at an end; what the receive buffer does to longer ones is the    *)
(* subject of StcpRecvBuffer.                                              *)
(***************************************************************************)
EXTENDS StcpNetwork, Integers, FiniteSetsExt

CONSTANTS
  HeaderLen,   \* sizeof(struct tcphdr)
  MaxPayload,  \* MAXPAYLOAD: header and data
  RecvLen,     \* LOCALRECVLEN and CONGESTIONWIN
  MaxRetries,  \* a packet is dropped when it times out after this many resends
  Isn,         \* Isn[e]: the number e's SYN carried
  Script,      \* Script[e]: the lengths e's application writes, in order
  Closers      \* the ends whose application calls myclose() in the end

Endpoint == {"active", "passive"}
Peer(e) == IF e = "active" THEN "passive" ELSE "active"

ASSUME TransferAssumption ==
  /\ HeaderLen \in Nat \ {0} /\ MaxPayload \in Nat /\ MaxPayload > HeaderLen
  /\ RecvLen \in Nat /\ MaxPayload <= RecvLen
  /\ MaxRetries \in Nat
  /\ Isn \in [Endpoint -> 0..255]
  /\ Script \in [Endpoint -> Seq(Nat \ {0})]
  /\ Closers \subseteq Endpoint

State == {"ESTABLISHED", "FINWAIT1", "FINWAIT2", "CLOSE_WAIT", "LAST_ACK", "CLOSED"}

\* kind: TH_SYN is data, TH_FIN or TH_ACK; off and len: the payload.
Packet == [kind : {"DATA", "FIN", "ACK"}, seq : Nat, ack : Nat, win : Int,
           off : Nat, len : Nat]

TotalLen(p) == HeaderLen + p.len
AckNumOf(p) == p.seq + TotalLen(p)

VARIABLES
  ctx,       \* ctx[e]: context_t with its two packet lists
  line,      \* line[e]: the packets on their way to e
  toWrite,   \* toWrite[e]: what e's application has yet to write
  appQueue,  \* appQueue[e]: app_recv_queue, the lengths of the waiting writes
  taken,     \* taken[e]: bytes of e's stream handed to the transport layer
  closeReq,  \* closeReq[e]: close_requested
  closed,    \* closed[e]: e's application has called myclose()
  inbox,     \* inbox[e]: all that was put on app_send_queue; a zero length is EOF
  given      \* given[e]: offsets of packets a timeout deleted unacknowledged

vars == <<ctx, line, toWrite, appQueue, taken, closeReq, closed, inbox, given>>

\* sentPackets holds entries [pkt, numTimeout, ackd]; outOfOrderBuf packets.
\* iter is the list's iter_active; out and up collect what a pass sends to the
\* peer and to the application, and are empty between passes.
NewContext(e) ==
  [state |-> "ESTABLISHED", seq |-> Isn[e] + 1,
   nextSeqExpected |-> Isn[Peer(e)] + 1, ackNum |-> Isn[Peer(e)] + 1,
   ourWindow |-> RecvLen, theirWindow |-> RecvLen,
   sentPackets |-> <<>>, outOfOrderBuf |-> <<>>, iter |-> FALSE,
   done |-> FALSE, out |-> <<>>, up |-> <<>>]

Init == /\ ctx = [e \in Endpoint |-> NewContext(e)]
        /\ line = [e \in Endpoint |-> EmptyLine]
        /\ toWrite = Script
        /\ appQueue = [e \in Endpoint |-> <<>>]
        /\ taken = [e \in Endpoint |-> 0]
        /\ closeReq = [e \in Endpoint |-> FALSE]
        /\ closed = [e \in Endpoint |-> FALSE]
        /\ inbox = [e \in Endpoint |-> <<>>]
        /\ given = [e \in Endpoint |-> {}]

MinOf(x, y) == IF x < y THEN x ELSE y

-----------------------------------------------------------------------------
(* Receiving: unpack_and_recv_data()                                       *)

Emit(c, p) == [c EXCEPT !.out = Append(@, p)]
PassUp(c, off, len) == [c EXCEPT !.up = Append(@, [off |-> off, len |-> len])]
Eof == [off |-> 0, len |-> 0]

\* The ACK that ends every receipt of data or FIN.
SendAck(c) == Emit(c, [kind |-> "ACK", seq |-> c.seq, ack |-> c.ackNum,
                       win |-> c.ourWindow, off |-> 0, len |-> 0])

\* A FIN reaches its turn: end-of-file to the application, state change.  No
\* sequence number is consumed.
TakeFin(c) ==
  LET d == [c EXCEPT !.up = Append(@, Eof)] IN
  IF c.state \in {"FINWAIT1", "FINWAIT2"}
  THEN [d EXCEPT !.state = "CLOSED", !.done = TRUE]
  ELSE [d EXCEPT !.state = "CLOSE_WAIT"]

\* Mutants: the numbering stays where it was, or forgets the header.
TakeDataUnmoved(c, p) == PassUp(c, p.off, p.len)
TakeDataNoHeader(c, p) == [PassUp(c, p.off, p.len) EXCEPT
                             !.nextSeqExpected = @ + p.len, !.ackNum = AckNumOf(p)]

TakeData(c, p) == [PassUp(c, p.off, p.len) EXCEPT
                     !.nextSeqExpected = @ + TotalLen(p), !.ackNum = AckNumOf(p)]

Take(c, p) == IF p.kind = "FIN" THEN TakeFin(c) ELSE TakeData(c, p)

\* Mutant: list_sort() the other way round.
BySeqReversed(p, q) == p.seq > q.seq

BySeq(p, q) == p.seq < q.seq

\* list_append() and list_sort(): p goes behind the packets it does not precede.
Place(ps, p) == 1 + Cardinality({i \in DOMAIN ps : ~BySeq(p, ps[i])})

\* They do nothing while the list is being iterated.
Buffer(c, p) ==
  IF c.iter THEN c
  ELSE [c EXCEPT !.outOfOrderBuf = InsertAt(@, Place(@, p), p)]

\* After packet p: every buffered packet with a higher number is passed up, in
\* order of number.  The loop never stops the iterator, so list_delete_at then
\* fails, the buffer keeps its packets, and a later list_iterator_start finds
\* the iterator at its end.
Drain(c, p) ==
  IF c.iter THEN c
  ELSE LET list == c.outOfOrderBuf
           after[i \in 0..Len(list)] ==
             IF i = 0 THEN c
             ELSE IF list[i].seq > p.seq THEN Take(after[i - 1], list[i])
             ELSE after[i - 1]
       IN  [after[Len(list)] EXCEPT !.iter = TRUE]

InBuffer(c, n) == \E i \in DOMAIN c.outOfOrderBuf : AckNumOf(c.outOfOrderBuf[i]) = n

Returned(c, p) == [c EXCEPT !.ourWindow = @ + TotalLen(p)]

ReceiveSegment(c, p) ==
  IF p.seq < c.ackNum \/ InBuffer(c, p.ack)
    THEN SendAck(Returned(c, p))
  ELSE IF p.seq # c.nextSeqExpected
    THEN SendAck(Buffer(Returned(c, p), p))
  ELSE LET d == IF p.kind = "DATA" THEN Returned(Take(c, p), p) ELSE Take(c, p)
       IN  SendAck(Drain(d, p))

\* Mutant: an ACK that matches a packet marks every packet.
ReceiveAckAll(c, p) ==
  [Returned(c, p) EXCEPT !.sentPackets =
     [i \in DOMAIN @ |-> IF \E j \in DOMAIN @ : AckNumOf(c.sentPackets[j].pkt) = p.ack
                         THEN [@[i] EXCEPT !.ackd = TRUE] ELSE @[i]]]

\* An ACK marks the first packet with that ackNum and all with lower numbers.
ReceiveAck(c, p) ==
  LET match == {i \in DOMAIN c.sentPackets : AckNumOf(c.sentPackets[i].pkt) = p.ack}
      acked == IF match = {} THEN {}
               ELSE LET m == c.sentPackets[Min(match)].pkt
                    IN  {Min(match)} \cup
                        {i \in DOMAIN c.sentPackets : c.sentPackets[i].pkt.seq < m.seq}
  IN  [Returned(c, p) EXCEPT !.sentPackets =
         [i \in DOMAIN @ |-> IF i \in acked THEN [@[i] EXCEPT !.ackd = TRUE] ELSE @[i]]]

\* The NETWORK_DATA branch: the window shrinks by the packet, then grows again.
HandleNetwork(c, p) ==
  LET d == [c EXCEPT !.ourWindow = @ - TotalLen(p),
                     !.theirWindow = MinOf(RecvLen, p.win)]
  IN  IF p.kind = "ACK" THEN ReceiveAck(d, p) ELSE ReceiveSegment(d, p)

-----------------------------------------------------------------------------
(* Sending: send_packet(), pack_and_send_data(),                           *)
(* stcp_fin_received_from_app() and the timeout branch                     *)

Pkts(entries) == [i \in DOMAIN entries |-> entries[i].pkt]

\* A packet not yet in sentPackets joins it; then it is sent.
SendPacket(c, p) ==
  LET known == \E i \in DOMAIN c.sentPackets : AckNumOf(c.sentPackets[i].pkt) = AckNumOf(p)
      d == IF known THEN c
           ELSE [c EXCEPT !.sentPackets =
                   InsertAt(@, Place(Pkts(@), p), [pkt |-> p, numTimeout |-> 0, ackd |-> FALSE])]
  IN  Emit(d, p)

MaxData == MaxPayload - HeaderLen

\* The lengths of the packets n bytes are cut into.
Pieces(n) == [i \in 1..((n + MaxData - 1) \div MaxData) |-> MinOf(MaxData, n - (i - 1) * MaxData)]

\* One piece starting at offset off goes out and advances the numbering.
SendPiece(c, off, n) ==
  [SendPacket(c, [kind |-> "DATA", seq |-> c.seq, ack |-> 0, win |-> c.ourWindow,
                  off |-> off, len |-> n])
     EXCEPT !.seq = @ + HeaderLen + n]

PackAndSend(c, off, n) ==
  LET after[i \in 0..Len(Pieces(n))] ==
        IF i = 0 THEN c ELSE SendPiece(after[i - 1], off + (i - 1) * MaxData, Pieces(n)[i])
  IN  after[Len(Pieces(n))]

\* APP_CLOSE_REQUESTED: the FIN goes out, taking no sequence number.
SendFin(c) ==
  SendPacket([c EXCEPT !.state = IF @ = "CLOSE_WAIT" THEN "LAST_ACK" ELSE "FINWAIT1"],
             [kind |-> "FIN", seq |-> c.seq, ack |-> 0, win |-> c.ourWindow, off |-> 0, len |-> 0])

\* Mutant: a packet is given up at its first timeout.
GivesUpAtOnce(c) == \/ c.state \in {"CLOSED", "LAST_ACK", "FINWAIT1", "FINWAIT2"}
                    \/ Head(c.sentPackets).numTimeout <= MaxRetries

\* A timeout in a closing state, or after the last resend, gives the packet up.
GivesUp(c) == \/ c.state \in {"CLOSED", "LAST_ACK", "FINWAIT1", "FINWAIT2"}
              \/ Head(c.sentPackets).numTimeout = MaxRetries

\* Mutant: giving up the FIN of a LAST_ACK end does not end the connection.
GiveUpOpen(c) ==
  LET fin == Head(c.sentPackets).pkt.kind = "FIN" /\ c.state \in {"FINWAIT1", "FINWAIT2"}
  IN  [c EXCEPT !.sentPackets = Tail(@),
                !.state = IF fin THEN "CLOSED" ELSE @,
                !.done  = @ \/ fin]

\* The packet is deleted; giving up one's FIN ends the connection.
GiveUp(c) ==
  LET fin == /\ Head(c.sentPackets).pkt.kind = "FIN"
             /\ c.state \in {"LAST_ACK", "FINWAIT1", "FINWAIT2"}
  IN  [c EXCEPT !.sentPackets = Tail(@),
                !.state = IF fin THEN "CLOSED" ELSE @,
                !.done  = @ \/ fin]

\* Go back N: every packet not yet cleared is sent again.
ResendAll(c) == [c EXCEPT !.out = @ \o Pkts(c.sentPackets), !.sentPackets[1].numTimeout = @ + 1]

\* Every packet gets the same second and resends keep the order of sending, so
\* the earliest timeout is that of the first packet.
HandleTimeout(c) == IF GivesUp(c) THEN GiveUp(c) ELSE ResendAll(c)

\* The top of the loop: acknowledged packets are cleared, an acknowledged FIN
\* changes the state.
ClearAcked(c) ==
  LET finAcked == \E i \in DOMAIN c.sentPackets :
                    c.sentPackets[i].ackd /\ c.sentPackets[i].pkt.kind = "FIN"
      Unacked(s) == IF s.ackd THEN <<>> ELSE <<s>>
  IN  [c EXCEPT !.sentPackets = FlattenSeq([i \in DOMAIN @ |-> Unacked(@[i])]),
                !.state = IF ~finAcked THEN @
                          ELSE IF @ = "FINWAIT1" THEN "FINWAIT2"
                          ELSE IF @ = "LAST_ACK" THEN "CLOSED" ELSE @,
                !.done  = @ \/ (finAcked /\ c.state = "LAST_ACK")]

-----------------------------------------------------------------------------
(* control_loop(): one pass of the thread at e                             *)

AppData(e) == appQueue[e] # <<>>

CloseRequested(e) == closeReq[e] /\ appQueue[e] = <<>>

\* Every line that handing the packets ps over can leave behind.
SendAll(l, ps) ==
  LET after[i \in 0..Len(ps)] ==
        IF i = 0 THEN {l} ELSE UNION {NetworkSend(x, ps[i]) : x \in after[i - 1]}
  IN  after[Len(ps)]

\* The pass ends in c: what it sent and passed up leaves the thread.  (A thread
\* that is done queues one more end-of-file, for an application that has already
\* called myclose() and reads no more; it is left out.)
EndPass(e, c, net) ==
  /\ ctx' = [ctx EXCEPT ![e] = [c EXCEPT !.out = <<>>, !.up = <<>>]]
  /\ inbox' = [inbox EXCEPT ![e] = @ \o c.up]
  /\ \E l \in SendAll(line[Peer(e)], c.out) :
       line' = [line EXCEPT ![Peer(e)] = l, ![e] = IF net THEN Received(@) ELSE @]

\* The bytes stcp_app_recv() returns: a write that exceeds the peer's window is
\* dequeued in part.
AppBytes(e, c) == MinOf(Head(appQueue[e]), c.theirWindow)

Dequeued(q, n) == IF n < Head(q) THEN <<Head(q) - n>> \o Tail(q) ELSE Tail(q)

\* A wake-up with events: network data first, then app data, then the close.
\* A packet on the line may not have reached the queue yet, so net may be FALSE.
AfterNetwork(e, net) ==
  IF net THEN HandleNetwork(ClearAcked(ctx[e]), Head(line[e].wire)) ELSE ClearAcked(ctx[e])
AfterEvents(e, c) ==
  LET d == IF AppData(e) THEN PackAndSend(c, taken[e], AppBytes(e, c)) ELSE c
  IN  IF CloseRequested(e) THEN SendFin(d) ELSE d

Pass(e, net) ==
  /\ ~ctx[e].done
  /\ net \/ AppData(e) \/ CloseRequested(e)
  /\ net => line[e].wire # <<>>
  /\ \E c \in {AfterNetwork(e, net)} :
       /\ \E d \in {AfterEvents(e, c)} : EndPass(e, d, net)
       /\ IF AppData(e)
          THEN /\ appQueue' = [appQueue EXCEPT ![e] = Dequeued(@, AppBytes(e, c))]
               /\ taken' = [taken EXCEPT ![e] = @ + AppBytes(e, c)]
          ELSE UNCHANGED <<appQueue, taken>>
  /\ closeReq' = [closeReq EXCEPT ![e] = @ /\ ~CloseRequested(e)]
  /\ UNCHANGED <<toWrite, closed, given>>

ThreadNetwork(e) == Pass(e, TRUE)
ThreadApp(e) == Pass(e, FALSE)

\* A wake-up by the timeout alone.
ThreadTimeout(e) ==
  \E c \in {ClearAcked(ctx[e])} :
    /\ ~ctx[e].done
    /\ c.sentPackets # <<>> /\ ~AppData(e) /\ ~CloseRequested(e)
    /\ EndPass(e, HandleTimeout(c), FALSE)
    /\ given' = IF GivesUp(c) /\ Head(c.sentPackets).pkt.kind = "DATA"
                THEN [given EXCEPT ![e] = @ \cup {Head(c.sentPackets).pkt.off}]
                ELSE given
    /\ UNCHANGED <<toWrite, appQueue, taken, closeReq, closed>>

\* mywrite(): the application queues its next buffer.
AppWrite(e) ==
  /\ toWrite[e] # <<>>
  /\ appQueue' = [appQueue EXCEPT ![e] = Append(@, Head(toWrite[e]))]
  /\ toWrite' = [toWrite EXCEPT ![e] = Tail(@)]
  /\ UNCHANGED <<ctx, line, taken, closeReq, closed, inbox, given>>

\* myclose(): the request; the call then waits for the thread to end.
AppClose(e) ==
  /\ e \in Closers /\ ~closed[e] /\ toWrite[e] = <<>>
  /\ closeReq' = [closeReq EXCEPT ![e] = TRUE]
  /\ closed' = [closed EXCEPT ![e] = TRUE]
  /\ UNCHANGED <<ctx, line, toWrite, appQueue, taken, inbox, given>>

Thread(e) == ThreadNetwork(e) \/ ThreadApp(e) \/ ThreadTimeout(e)

Next == \E e \in Endpoint : Thread(e) \/ AppWrite(e) \/ AppClose(e)

\* A thread with an event pending, or a timeout to wait for, wakes up, and the
\* applications get to their next call.
Fairness == \A e \in Endpoint :
              WF_vars(Thread(e)) /\ WF_vars(AppWrite(e) \/ AppClose(e))

Spec == Init /\ [][Next]_vars /\ Fairness
-----------------------------------------------------------------------------
(* Properties                                                              *)

\* How many bytes a sequence of lengths is.
Total(lens) ==
  LET upto[i \in 0..Len(lens)] == IF i = 0 THEN 0 ELSE upto[i - 1] + lens[i]
  IN  upto[Len(lens)]

\* The bytes of the peer's stream passed up to e's application, in order.
Bytes(ch) == [i \in 1..ch.len |-> ch.off + i - 1]
Readable(e) == FlattenSeq([i \in DOMAIN inbox[e] |-> Bytes(inbox[e][i])])
EofSeen(e) == Eof \in ToSet(inbox[e])

\* How many bytes e's application has written.
Written(e) == taken[e] + Total(appQueue[e])

\* What e's application reads is the stream the peer wrote: no byte is missing
\* in the middle, repeated or out of place.  The receive path keeps this through
\* any one tampered send in each direction.  Two can break it: a segment buffered
\* twice is passed up twice, and draining the buffer passes over a gap.
InOrderDelivery == \A e \in Endpoint : Readable(e) = [i \in 1..Len(Readable(e)) |-> i - 1]

\* An application is told the stream ended only after every byte of it: the
\* comment on stcp_fin_received() says "there's no more data arriving", and
\* myread() stops reading there.  A stream of two packets can lose one that its
\* sender no longer resends once it has closed.
EofMeansAllData ==
  \A e \in Endpoint : EofSeen(e) => /\ closed[Peer(e)] /\ toWrite[Peer(e)] = <<>>
                                    /\ Len(Readable(e)) = Written(Peer(e))

\* The sender forgets a byte only when the peer's application has it: what it
\* took and no longer keeps unacknowledged was passed up, or was given up by a
\* timeout.  (A cumulative ACK must not cover a packet the peer skipped.)  Like
\* InOrderDelivery it stands up to one tampered send in each direction.
Keeps(e, b) == \E i \in DOMAIN ctx[e].sentPackets :
                 LET s == ctx[e].sentPackets[i]
                 IN  ~s.ackd /\ s.pkt.off <= b /\ b < s.pkt.off + s.pkt.len
GaveUp(e, b) == \E o \in given[e] : o <= b /\ b < o + MaxData
AckedIsDelivered ==
  \A e \in Endpoint : \A b \in 0..(taken[e] - 1) :
    Keeps(e, b) \/ GaveUp(e, b) \/ b \in ToSet(Readable(Peer(e)))

\* The peer's numbering never runs ahead of the sender's, and a sender that has
\* everything acknowledged is exactly where the peer expects it to be.
NumbersAgree ==
  \A e \in Endpoint :
    /\ ctx[Peer(e)].nextSeqExpected <= ctx[e].seq
    /\ ctx[Peer(e)].ackNum = ctx[Peer(e)].nextSeqExpected
    /\ (\A i \in DOMAIN ctx[e].sentPackets : ctx[e].sentPackets[i].ackd) /\ given[e] = {}
         => ctx[Peer(e)].nextSeqExpected = ctx[e].seq

\* What an application wrote reaches the other one, which did not close.
EverythingArrives ==
  \A e \in Endpoint : <>(Len(Readable(Peer(e))) = Total(Script[e]) \/ closed[Peer(e)])

\* A transport thread ends once its application has called myclose(), which
\* waits for that: stcp_api.h says of the state after a peer's FIN that "the
\* mysocket will be fully closed once the app subsequently calls myclose()".
CloseEnds == \A e \in Endpoint : closed[e] ~> ctx[e].done

\* The connection keeps the promise of the abstract stream.
Stream == INSTANCE StcpStream WITH
  Ends <- Endpoint,
  Peer <- Peer,
  written <- [e \in Endpoint |-> Written(e)],
  closed <- closed,
  readable <- [e \in Endpoint |-> Readable(e)],
  eof <- [e \in Endpoint |-> EofSeen(e)]

ImplementsStream == Stream!Spec
=============================================================================
