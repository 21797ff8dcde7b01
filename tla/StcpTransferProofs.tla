-------------------------- MODULE StcpTransferProofs --------------------------
(***************************************************************************)
(* Theorems about StcpTransfer on a reliable line (is_reliable), for every *)
(* script, size of packets and number of timeouts: the applications read   *)
(* the streams that were written, acknowledged bytes were delivered, the   *)
(* numbers of both ends agree, and every step is one of StcpStream.  A     *)
(* reliable line still sees packets twice, since a timeout resends all     *)
(* that are not cleared, however late the answer is.                       *)
(*                                                                         *)
(* The pieces that e's stream was cut into so far are a chain of packets:  *)
(* each starts, in numbers and in bytes, where the one before it ends.     *)
(***************************************************************************)
EXTENDS StcpTransfer, ListLemmas

\* The number and the offset at which the first j packets of a chain end.
SeqEnd(e, ps, j) == IF j = 0 THEN Isn[e] + 1 ELSE AckNumOf(ps[j])
OffEnd(ps, j) == IF j = 0 THEN 0 ELSE ps[j].off + ps[j].len

Chain(e, ps) ==
  /\ ps \in Seq(Packet)
  /\ \A j \in 1..Len(ps) : /\ ps[j].kind = "DATA" /\ ps[j].len \in 1..MaxData
                           /\ ps[j].seq = SeqEnd(e, ps, j - 1)
                           /\ ps[j].off = OffEnd(ps, j - 1)

LEMMA Sizes == /\ HeaderLen \in Nat /\ HeaderLen > 0 /\ RecvLen \in Nat /\ RecvLen > 0
               /\ MaxData \in Nat /\ MaxData > 0
BY TransferAssumption DEF TransferAssumption, MaxData

LEMMA IsnType == \A e \in Endpoint : Isn[e] \in Nat
<1>1. Isn \in [Endpoint -> 0..255]
  BY TransferAssumption DEF TransferAssumption
<1>2. \A e \in Endpoint : Isn[e] \in 0..255
  BY <1>1, Zenon
<1> QED
  BY <1>2

LEMMA ChainType ==
  ASSUME NEW e \in Endpoint, NEW ps, Chain(e, ps), NEW j \in 0..Len(ps)
  PROVE  SeqEnd(e, ps, j) \in Nat /\ OffEnd(ps, j) \in Nat
<1>1. CASE j = 0
  BY <1>1, IsnType DEF SeqEnd, OffEnd
<1>2. CASE j # 0
  <2>1. ps[j] \in Packet
    BY <1>2 DEF Chain
  <2> QED
    BY <1>2, <2>1, Sizes DEF SeqEnd, OffEnd, AckNumOf, TotalLen, Packet
<1> QED
  BY <1>1, <1>2

LEMMA ChainStep ==
  ASSUME NEW e \in Endpoint, NEW ps, Chain(e, ps), NEW j \in 1..Len(ps)
  PROVE  /\ j - 1 \in 0..Len(ps) /\ ps[j] \in Packet
         /\ SeqEnd(e, ps, j) = SeqEnd(e, ps, j - 1) + HeaderLen + ps[j].len
         /\ OffEnd(ps, j) = OffEnd(ps, j - 1) + ps[j].len
<1>1. ps[j] \in Packet /\ j - 1 \in 0..Len(ps)
  BY DEF Chain
<1>2. ps[j].seq = SeqEnd(e, ps, j - 1) /\ ps[j].off = OffEnd(ps, j - 1)
  BY DEF Chain
<1>3. SeqEnd(e, ps, j) = ps[j].seq + (HeaderLen + ps[j].len) /\ OffEnd(ps, j) = ps[j].off + ps[j].len
  BY DEF SeqEnd, OffEnd, AckNumOf, TotalLen
<1> QED
  BY <1>1, <1>2, <1>3, Sizes DEF Packet

\* Later packets end at higher numbers and offsets.
LEMMA ChainGrows ==
  ASSUME NEW e \in Endpoint, NEW ps, Chain(e, ps), NEW i \in 0..Len(ps), NEW j \in 0..Len(ps), i < j
  PROVE  SeqEnd(e, ps, i) < SeqEnd(e, ps, j) /\ OffEnd(ps, i) < OffEnd(ps, j)
<1>1. PICK n \in Nat : n = Len(ps)
  BY DEF Chain
<1> DEFINE Above(m) == SeqEnd(e, ps, i) < SeqEnd(e, ps, m) /\ OffEnd(ps, i) < OffEnd(ps, m)
           Good == {m \in 0..n : m <= i \/ Above(m)}
<1>2. 0 \in Good
  OBVIOUS
<1>3. ASSUME NEW m \in 0..(n - 1), m \in Good
      PROVE  m + 1 \in Good
  <2>1. m + 1 \in 1..n /\ (m + 1) - 1 = m /\ m + 1 \in 0..n /\ m \in 0..n
    OBVIOUS
  <2>2. /\ SeqEnd(e, ps, m + 1) = SeqEnd(e, ps, m) + HeaderLen + ps[m + 1].len
        /\ OffEnd(ps, m + 1) = OffEnd(ps, m) + ps[m + 1].len
    BY <1>1, <2>1, ChainStep
  <2>3. ps[m + 1].len \in Nat /\ ps[m + 1].len > 0
    BY <1>1, <2>1 DEF Chain
  <2>4. /\ SeqEnd(e, ps, m) \in Nat /\ OffEnd(ps, m) \in Nat
        /\ SeqEnd(e, ps, i) \in Nat /\ OffEnd(ps, i) \in Nat
    BY <1>1, <2>1, ChainType
  <2>5. SeqEnd(e, ps, m) < SeqEnd(e, ps, m + 1) /\ OffEnd(ps, m) < OffEnd(ps, m + 1)
    BY <2>2, <2>3, <2>4, Sizes
  <2>6. CASE m < i
    BY <2>1, <2>6
  <2>7. CASE m = i
    BY <2>1, <2>5, <2>7
  <2>8. CASE m > i
    <3>1. Above(m)
      BY <1>3, <2>8
    <3>2. SeqEnd(e, ps, m + 1) \in Nat /\ OffEnd(ps, m + 1) \in Nat
      BY <1>1, <2>1, ChainType
    <3> QED
      BY <2>1, <2>4, <2>5, <3>1, <3>2
  <2> QED
    BY <2>6, <2>7, <2>8
<1>4. 0..n \subseteq Good
  <2> HIDE DEF Good
  <2> QED
    BY <1>1, <1>2, <1>3, Induction, Zenon
<1> QED
  BY <1>1, <1>4

\* Ends differ, so that a number tells how many packets end there.
LEMMA ChainEnds ==
  ASSUME NEW e \in Endpoint, NEW ps, Chain(e, ps), NEW i \in 0..Len(ps), NEW j \in 0..Len(ps)
  PROVE  /\ SeqEnd(e, ps, i) <= SeqEnd(e, ps, j) <=> i <= j
         /\ OffEnd(ps, i) <= OffEnd(ps, j) <=> i <= j
<1>1. /\ SeqEnd(e, ps, i) \in Nat /\ SeqEnd(e, ps, j) \in Nat
      /\ OffEnd(ps, i) \in Nat /\ OffEnd(ps, j) \in Nat
  BY ChainType
<1>2. CASE i < j
  BY <1>1, <1>2, ChainGrows
<1>3. CASE j < i
  BY <1>1, <1>3, ChainGrows
<1>4. CASE i = j
  BY <1>1, <1>4
<1> QED
  BY <1>2, <1>3, <1>4 DEF Chain

\* Every byte of the chain is in one of its packets.
LEMMA ChainBytes ==
  ASSUME NEW e \in Endpoint, NEW ps, Chain(e, ps), NEW b \in Nat, b < OffEnd(ps, Len(ps))
  PROVE  \E j \in 1..Len(ps) : ps[j].off <= b /\ b < ps[j].off + ps[j].len
<1>1. PICK n \in Nat : n = Len(ps)
  BY DEF Chain
<1> DEFINE S == {j \in 1..n : b < OffEnd(ps, j)}
<1>2. S \in SUBSET (1..n) /\ S # {}
  <2>1. n # 0
    BY <1>1 DEF OffEnd
  <2>2. n \in S
    BY <1>1, <2>1
  <2> QED
    BY <2>2
<1>3. PICK j \in S : \A i \in S : j <= i
  <2> HIDE DEF S
  <2> QED
    BY <1>1, <1>2, SmallestOf, Zenon
<1>4. j \in 1..n /\ b < OffEnd(ps, j) /\ j - 1 \in 0..n
  OBVIOUS
<1>5. OffEnd(ps, j - 1) \in Nat
  BY <1>1, <1>4, ChainType
<1>6. OffEnd(ps, j - 1) <= b
  <2>1. CASE j = 1
    BY <2>1 DEF OffEnd
  <2>2. CASE j # 1
    <3>1. j - 1 \in 1..n /\ ~(j <= j - 1)
      BY <1>4, <2>2
    <3>2. j - 1 \notin S
      BY <1>3, <3>1
    <3> QED
      BY <1>5, <3>1, <3>2
  <2> QED
    BY <2>1, <2>2
<1>7. ps[j].off = OffEnd(ps, j - 1) /\ OffEnd(ps, j) = ps[j].off + ps[j].len
  BY <1>1, <1>4 DEF Chain, OffEnd
<1> QED
  BY <1>1, <1>4, <1>6, <1>7

\* A packet that starts where the chain ends makes it longer.
NextPiece(e, ps, p) ==
  /\ p \in Packet /\ p.kind = "DATA" /\ p.len \in 1..MaxData
  /\ p.seq = SeqEnd(e, ps, Len(ps)) /\ p.off = OffEnd(ps, Len(ps))

LEMMA ChainMore ==
  ASSUME NEW e \in Endpoint, NEW ps, Chain(e, ps), NEW p, NextPiece(e, ps, p)
  PROVE  /\ Chain(e, Append(ps, p)) /\ Len(Append(ps, p)) = Len(ps) + 1
         /\ \A j \in 1..Len(ps) : Append(ps, p)[j] = ps[j]
         /\ Append(ps, p)[Len(ps) + 1] = p
         /\ \A j \in 0..Len(ps) : /\ SeqEnd(e, Append(ps, p), j) = SeqEnd(e, ps, j)
                                  /\ OffEnd(Append(ps, p), j) = OffEnd(ps, j)
<1>1. PICK n \in Nat : n = Len(ps)
  BY DEF Chain
<1>2. ps \in Seq(Packet) /\ p \in Packet
  BY DEF Chain, NextPiece
<1>3. PICK t \in Seq(Packet) : t = Append(ps, p)
  <2>1. Append(ps, p) \in Seq(Packet)
    BY <1>2
  <2> QED
    BY <2>1, Zenon
<1>4. Len(t) = n + 1 /\ t[n + 1] = p /\ \A j \in 1..n : t[j] = ps[j]
  BY <1>1, <1>2, <1>3
<1>5. ASSUME NEW j \in 0..n
      PROVE  SeqEnd(e, t, j) = SeqEnd(e, ps, j) /\ OffEnd(t, j) = OffEnd(ps, j)
  <2>1. j # 0 => t[j] = ps[j]
    BY <1>4
  <2> QED
    BY <2>1, Zenon DEF SeqEnd, OffEnd
<1>6. Chain(e, t)
  <2> SUFFICES ASSUME NEW j \in 1..(n + 1)
               PROVE  /\ t[j].kind = "DATA" /\ t[j].len \in 1..MaxData
                      /\ t[j].seq = SeqEnd(e, t, j - 1)
                      /\ t[j].off = OffEnd(t, j - 1)
    BY <1>3, <1>4 DEF Chain
  <2>1. CASE j = n + 1
    <3>1. j - 1 = n /\ n \in 0..n
      BY <2>1
    <3> QED
      BY <1>1, <1>4, <1>5, <2>1, <3>1 DEF NextPiece
  <2>2. CASE j # n + 1
    <3>1. j \in 1..n /\ j - 1 \in 0..n
      BY <2>2
    <3> QED
      BY <1>1, <1>4, <1>5, <3>1 DEF Chain
  <2> QED
    BY <2>1, <2>2
<1> QED
  BY <1>1, <1>3, <1>4, <1>5, <1>6
-----------------------------------------------------------------------------
(* What is on the way                                                      *)

\* A packet p brings a receiver that had the first k packets of e's chain to have
\* the first l: old data brings nothing, nor does a FIN, which follows all of the
\* chain, and an ACK is about the other direction.
Brings(e, p, ps, k, l) ==
  \/ p.kind = "ACK" /\ l = k
  \/ p.kind = "FIN" /\ p.seq = SeqEnd(e, ps, Len(ps)) /\ k = Len(ps) /\ l = k
  \/ p.kind = "DATA" /\ \E j \in 1..l : p = ps[j] /\ ((j <= k /\ l = k) \/ (j = k + 1 /\ l = j))

\* The packets w bring it step by step to all of the chain.
FlowBy(e, w, ps, k, cnt) ==
  /\ cnt \in [0..Len(w) -> 0..Len(ps)]
  /\ cnt[0] = k /\ cnt[Len(w)] = Len(ps)
  /\ \A i \in 1..Len(w) : Brings(e, w[i], ps, cnt[i - 1], cnt[i])

Flow(e, w, ps, k) == \E cnt : FlowBy(e, w, ps, k, cnt)

LEMMA FlowEmpty ==
  ASSUME NEW e, NEW ps \in Seq(Packet)
  PROVE  Flow(e, <<>>, ps, Len(ps))
<1> DEFINE cnt == [i \in 0..0 |-> Len(ps)]
<1>1. FlowBy(e, <<>>, ps, Len(ps), cnt)
  BY DEF FlowBy
<1> QED
  BY <1>1, Zenon DEF Flow

\* The first packet.
LEMMA FlowNext ==
  ASSUME NEW e, NEW ps \in Seq(Packet), NEW w \in Seq(Packet), w # <<>>, NEW k, Flow(e, w, ps, k)
  PROVE  \E l \in 0..Len(ps) : Brings(e, Head(w), ps, k, l) /\ Flow(e, Tail(w), ps, l)
<1>1. PICK cnt : FlowBy(e, w, ps, k, cnt)
  BY DEF Flow
<1>2. PICK n \in Nat : n = Len(w)
  OBVIOUS
<1>3. PICK t \in Seq(Packet) : t = Tail(w)
  BY HeadTailProperties
<1>4. n > 0 /\ Len(t) = n - 1 /\ \A i \in 1..(n - 1) : t[i] = w[i + 1]
  BY <1>2, <1>3, EmptySeq, HeadTailProperties
<1> DEFINE c == [i \in 0..(n - 1) |-> cnt[i + 1]]
<1>5. /\ cnt \in [0..n -> 0..Len(ps)] /\ cnt[0] = k /\ cnt[n] = Len(ps)
      /\ \A i \in 1..n : Brings(e, w[i], ps, cnt[i - 1], cnt[i])
  BY <1>1, <1>2 DEF FlowBy
<1>6. FlowBy(e, t, ps, cnt[1], c)
  <2>1. c \in [0..(n - 1) -> 0..Len(ps)]
    BY <1>4, <1>5
  <2>2. c[0] = cnt[1] /\ c[n - 1] = Len(ps)
    BY <1>4, <1>5
  <2>3. ASSUME NEW i \in 1..(n - 1)
        PROVE  Brings(e, t[i], ps, c[i - 1], c[i])
    <3>1. i + 1 \in 1..n /\ (i + 1) - 1 = i /\ i - 1 \in 0..(n - 1) /\ i \in 0..(n - 1)
      OBVIOUS
    <3>2. c[i - 1] = cnt[(i + 1) - 1] /\ c[i] = cnt[i + 1] /\ t[i] = w[i + 1]
      BY <1>4, <3>1
    <3>3. Brings(e, w[i + 1], ps, cnt[(i + 1) - 1], cnt[i + 1])
      BY <1>5, <3>1
    <3> QED
      BY <3>2, <3>3
  <2> HIDE DEF c
  <2> QED
    BY <1>4, <2>1, <2>2, <2>3 DEF FlowBy
<1>7. Brings(e, Head(w), ps, k, cnt[1]) /\ cnt[1] \in 0..Len(ps)
  <2>1. 1 \in 1..n /\ 1 - 1 = 0 /\ 1 \in 0..n
    BY <1>4
  <2>2. Brings(e, w[1], ps, cnt[1 - 1], cnt[1])
    BY <1>5, <2>1
  <2>3. Head(w) = w[1]
    BY HeadTailProperties
  <2> QED
    BY <1>5, <2>1, <2>2, <2>3
<1> QED
  BY <1>3, <1>6, <1>7, Zenon DEF Flow

\* Packets that bring nothing new, at the end.
LEMMA FlowMore ==
  ASSUME NEW e, NEW ps \in Seq(Packet), NEW w \in Seq(Packet), NEW k, Flow(e, w, ps, k),
         NEW qs \in Seq(Packet),
         \A q \in Range(qs) : Brings(e, q, ps, Len(ps), Len(ps))
  PROVE  Flow(e, w \o qs, ps, k)
<1>1. PICK cnt : FlowBy(e, w, ps, k, cnt)
  BY DEF Flow
<1>2. PICK n \in Nat : n = Len(w)
  OBVIOUS
<1>3. PICK m \in Nat : m = Len(qs)
  OBVIOUS
<1>4. PICK l \in Nat : l = Len(ps)
  OBVIOUS
<1>5. PICK u \in Seq(Packet) : u = w \o qs
  <2>1. w \o qs \in Seq(Packet)
    OBVIOUS
  <2> QED
    BY <2>1, Zenon
<1>6. /\ Len(u) = n + m
      /\ \A i \in 1..n : u[i] = w[i]
      /\ \A i \in (n + 1)..(n + m) : u[i] = qs[i - n]
  <2>1. Len(u) = n + m
    BY <1>2, <1>3, <1>5
  <2> QED
    BY <1>2, <1>3, <1>5, <2>1, Joined
<1> DEFINE c == [i \in 0..(n + m) |-> IF i <= n THEN cnt[i] ELSE l]
<1>7. /\ cnt \in [0..n -> 0..l] /\ cnt[0] = k /\ cnt[n] = l
      /\ \A i \in 1..n : Brings(e, w[i], ps, cnt[i - 1], cnt[i])
  BY <1>1, <1>2, <1>4 DEF FlowBy
<1>8. c \in [0..(n + m) -> 0..l] /\ c[0] = k /\ c[n + m] = l
  BY <1>7
<1>9. ASSUME NEW i \in 1..(n + m)
      PROVE  Brings(e, u[i], ps, c[i - 1], c[i])
  <2>1. CASE i <= n
    <3>1. i \in 1..n /\ c[i - 1] = cnt[i - 1] /\ c[i] = cnt[i]
      BY <2>1
    <3> QED
      BY <1>6, <1>7, <3>1
  <2>2. CASE ~(i <= n)
    <3>1. c[i - 1] = l /\ c[i] = l
      <4>1. i - 1 \in 0..(n + m) /\ i \in 0..(n + m)
        OBVIOUS
      <4>2. CASE i = n + 1
        <5>1. i - 1 = n
          BY <4>2
        <5> QED
          BY <1>7, <2>2, <4>1, <5>1
      <4>3. CASE i # n + 1
        <5>1. ~(i - 1 <= n)
          BY <2>2, <4>3
        <5> QED
          BY <2>2, <4>1, <5>1
      <4> QED
        BY <4>2, <4>3
    <3>2. u[i] = qs[i - n] /\ i - n \in DOMAIN qs
      BY <1>3, <1>6, <2>2
    <3>3. u[i] \in Range(qs)
      BY <3>2 DEF Range
    <3> QED
      BY <1>4, <3>1, <3>3
  <2> QED
    BY <2>1, <2>2
<1>10. FlowBy(e, u, ps, k, c)
  <2> HIDE DEF c
  <2> QED
    BY <1>4, <1>6, <1>8, <1>9 DEF FlowBy
<1> QED
  BY <1>5, <1>10, Zenon DEF Flow

\* A new packet of the chain, at the end of packets without a FIN.
LEMMA FlowPiece ==
  ASSUME NEW e \in Endpoint, NEW ps, Chain(e, ps), NEW p, NextPiece(e, ps, p),
         NEW w \in Seq(Packet), \A q \in Range(w) : q.kind # "FIN", NEW k, Flow(e, w, ps, k)
  PROVE  Flow(e, Append(w, p), Append(ps, p), k)
<1>1. PICK cnt : FlowBy(e, w, ps, k, cnt)
  BY DEF Flow
<1>2. PICK n \in Nat : n = Len(w)
  OBVIOUS
<1>3. PICK l \in Nat : l = Len(ps)
  BY DEF Chain
<1>4. PICK t : t = Append(ps, p)
  OBVIOUS
<1>5. Len(t) = l + 1 /\ t[l + 1] = p /\ \A j \in 1..l : t[j] = ps[j]
  BY <1>3, <1>4, ChainMore
<1>6. p \in Packet /\ p.kind = "DATA"
  BY DEF NextPiece
<1>7. PICK u \in Seq(Packet) : u = Append(w, p)
  <2>1. Append(w, p) \in Seq(Packet)
    BY <1>6
  <2> QED
    BY <2>1, Zenon
<1>8. Len(u) = n + 1 /\ u[n + 1] = p /\ \A i \in 1..n : u[i] = w[i]
  BY <1>2, <1>6, <1>7
<1> DEFINE c == [i \in 0..(n + 1) |-> IF i <= n THEN cnt[i] ELSE l + 1]
<1>9. /\ cnt \in [0..n -> 0..l] /\ cnt[0] = k /\ cnt[n] = l
      /\ \A i \in 1..n : Brings(e, w[i], ps, cnt[i - 1], cnt[i])
  BY <1>1, <1>2, <1>3 DEF FlowBy
<1>10. c \in [0..(n + 1) -> 0..(l + 1)] /\ c[0] = k /\ c[n + 1] = l + 1
  BY <1>9
<1>11. ASSUME NEW i \in 1..(n + 1)
       PROVE  Brings(e, u[i], t, c[i - 1], c[i])
  <2>1. CASE i <= n
    <3>1. i \in 1..n /\ c[i - 1] = cnt[i - 1] /\ c[i] = cnt[i] /\ i \in DOMAIN w
      BY <1>2, <2>1
    <3>2. Brings(e, w[i], ps, cnt[i - 1], cnt[i]) /\ w[i].kind # "FIN" /\ cnt[i] \in 0..l
      BY <1>9, <3>1 DEF Range
    <3>3. Brings(e, w[i], t, cnt[i - 1], cnt[i])
      <4>1. CASE w[i].kind = "ACK"
        BY <3>2, <4>1 DEF Brings
      <4>2. CASE w[i].kind # "ACK"
        <5>1. w[i].kind = "DATA"
          BY <3>2, <4>2 DEF Brings
        <5>2. PICK j \in 1..cnt[i] : w[i] = ps[j] /\ \/ j <= cnt[i - 1] /\ cnt[i] = cnt[i - 1]
                                                     \/ j = cnt[i - 1] + 1 /\ cnt[i] = j
          BY <3>2, <4>2 DEF Brings
        <5>3. t[j] = ps[j]
          BY <1>5, <3>2, <5>2
        <5> QED
          BY <5>1, <5>2, <5>3 DEF Brings
      <4> QED
        BY <4>1, <4>2
    <3> QED
      BY <1>8, <3>1, <3>3
  <2>2. CASE ~(i <= n)
    <3>1. i = n + 1 /\ c[i - 1] = l /\ c[i] = l + 1
      BY <1>9, <2>2
    <3>2. u[i] = p /\ p = t[l + 1] /\ l + 1 \in 1..(l + 1)
      BY <1>5, <1>8, <3>1
    <3> QED
      BY <1>6, <3>1, <3>2 DEF Brings
  <2> QED
    BY <2>1, <2>2
<1>12. FlowBy(e, u, t, k, c)
  <2> HIDE DEF c
  <2> QED
    BY <1>5, <1>8, <1>10, <1>11 DEF FlowBy
<1> QED
  BY <1>4, <1>7, <1>12, Zenon DEF Flow
-----------------------------------------------------------------------------
(* One direction of a connection                                           *)

Entry == [pkt : Packet, numTimeout : Nat, ackd : BOOLEAN]
Chunk == [off : Nat, len : Nat]

\* On a reliable line no packet comes out of order: the buffer stays empty.
Context ==
  [state : State, seq : Nat, nextSeqExpected : Nat, ackNum : Nat, ourWindow : Int, theirWindow : Int,
   sentPackets : Seq(Entry), outOfOrderBuf : {<<>>}, iter : BOOLEAN, done : BOOLEAN,
   out : Seq(Packet), up : Seq(Chunk)]

\* The bytes that chunks passed up hold, and those a reader should have got.
Reads(chunks) == FlattenSeq([i \in DOMAIN chunks |-> Bytes(chunks[i])])
Prefix(n) == [i \in 1..n |-> i - 1]

\* A packet its sender keeps is one of the chain, acknowledged only if the receiver
\* has it, or the FIN, which is never acknowledged: it takes no number.
EntryOk(e, x, ps, k) ==
  \/ x.pkt.kind = "FIN" /\ x.pkt.seq = SeqEnd(e, ps, Len(ps)) /\ ~x.ackd
  \/ \E j \in 1..Len(ps) : x.pkt = ps[j] /\ (x.ackd => j <= k)

\* The sender's end of e's chain ps, of which the receiver has the first k: its
\* numbers, the packets es it keeps and those gv it gave up.
SenderOk(e, seq, es, tk, gv, ps, k) ==
  /\ seq = SeqEnd(e, ps, Len(ps)) /\ tk = OffEnd(ps, Len(ps))
  /\ \A x \in Range(es) : EntryOk(e, x, ps, k)
  /\ \A j \in (k + 1)..Len(ps) : \/ ps[j].off \in gv
                                 \/ \E x \in Range(es) : x.pkt = ps[j] /\ ~x.ackd

\* The receiver's end: the next number, and what was passed up.
ReceiverOk(e, next, ack, in, ps, k) ==
  /\ next = SeqEnd(e, ps, k) /\ ack = next
  /\ Reads(in) = Prefix(OffEnd(ps, k))
  /\ Eof \in Range(in) => k = Len(ps)

\* The packets v to the sender acknowledge what the receiver has.
AcksOk(e, v, ps, k) ==
  \A p \in Range(v) : p.kind = "ACK" => \E j \in 0..k : p.ack = SeqEnd(e, ps, j)

\* As long as the sender's application may write, there is no FIN and the windows
\* are full: c and d are the contexts of sender and receiver, w and v the packets
\* to the receiver and to the sender.
OpenOk(c, d, w, v, in) ==
  /\ \A x \in Range(c.sentPackets) : x.pkt.kind # "FIN"
  /\ \A p \in Range(w) : p.kind # "FIN"
  /\ c.theirWindow = RecvLen /\ d.ourWindow = RecvLen
  /\ \A p \in Range(v) : p.win = RecvLen
  /\ \A x \in Range(d.sentPackets) : x.pkt.win = RecvLen
  /\ Eof \notin Range(in)

HalfBy(e, c, d, w, v, in, tk, gv, op, ps, k) ==
  /\ Chain(e, ps) /\ k \in 0..Len(ps)
  /\ SenderOk(e, c.seq, c.sentPackets, tk, gv, ps, k)
  /\ ReceiverOk(e, d.nextSeqExpected, d.ackNum, in, ps, k)
  /\ Flow(e, w, ps, k)
  /\ AcksOk(e, v, ps, k)
  /\ op => OpenOk(c, d, w, v, in)

Half(e, c, d, w, v, in, tk, gv, op) == \E ps, k : HalfBy(e, c, d, w, v, in, tk, gv, op, ps, k)

\* What the receiver of a direction sends does not matter to it, unless it is an
\* ACK of what it has, if its window stays as it is in the packets sent and kept.
SendsBack(d, g, qs) ==
  /\ g.nextSeqExpected = d.nextSeqExpected /\ g.ackNum = d.ackNum /\ g.ourWindow = d.ourWindow
  /\ \A x \in Range(g.sentPackets) :
       x.pkt.win = d.ourWindow \/ \E y \in Range(d.sentPackets) : x.pkt = y.pkt
  /\ \A q \in Range(qs) :
       /\ q.win = d.ourWindow \/ \E y \in Range(d.sentPackets) : q = y.pkt
       /\ q.kind = "ACK" => q.ack = d.ackNum

LEMMA HalfReceiverSends ==
  ASSUME NEW e \in Endpoint, NEW c, NEW d \in Context, NEW w, NEW v \in Seq(Packet), NEW in, NEW tk,
         NEW gv, NEW op \in BOOLEAN, Half(e, c, d, w, v, in, tk, gv, op),
         NEW g \in Context, NEW qs \in Seq(Packet), SendsBack(d, g, qs)
  PROVE  Half(e, c, g, w, v \o qs, in, tk, gv, op)
<1>d. /\ g.nextSeqExpected = d.nextSeqExpected /\ g.ackNum = d.ackNum /\ g.ourWindow = d.ourWindow
      /\ \A x \in Range(g.sentPackets) :
           x.pkt.win = d.ourWindow \/ \E y \in Range(d.sentPackets) : x.pkt = y.pkt
      /\ \A q \in Range(qs) :
           /\ q.win = d.ourWindow \/ \E y \in Range(d.sentPackets) : q = y.pkt
           /\ q.kind = "ACK" => q.ack = d.ackNum
  BY Zenon DEF SendsBack
<1>1. PICK ps, k : HalfBy(e, c, d, w, v, in, tk, gv, op, ps, k)
  BY Zenon DEF Half
<1>2. Range(v \o qs) = Range(v) \cup Range(qs)
  BY RangeJoined
<1>3. Chain(e, ps) /\ k \in 0..Len(ps) /\ k \in 0..k
  BY <1>1 DEF HalfBy, Chain
<1>4. AcksOk(e, v \o qs, ps, k)
  <2>1. d.ackNum = SeqEnd(e, ps, k)
    BY <1>1 DEF HalfBy, ReceiverOk
  <2> SUFFICES ASSUME NEW p \in Range(v) \cup Range(qs), p.kind = "ACK"
               PROVE  \E j \in 0..k : p.ack = SeqEnd(e, ps, j)
    BY <1>2, Zenon DEF AcksOk
  <2>2. CASE p \in Range(v)
    BY <1>1, <2>2, Zenon DEF HalfBy, AcksOk
  <2>3. CASE p \in Range(qs)
    BY <1>3, <1>d, <2>1, <2>3, Zenon
  <2> QED
    BY <2>2, <2>3
<1>5. op => OpenOk(c, g, w, v \o qs, in)
  <2> SUFFICES ASSUME op
               PROVE  OpenOk(c, g, w, v \o qs, in)
    OBVIOUS
  <2>1. OpenOk(c, d, w, v, in)
    BY <1>1 DEF HalfBy
  <2>2. \A p \in Range(v) \cup Range(qs) : p.win = RecvLen
    BY <1>d, <2>1, Zenon DEF OpenOk
  <2>3. \A x \in Range(g.sentPackets) : x.pkt.win = RecvLen
    BY <1>d, <2>1, Zenon DEF OpenOk
  <2> QED
    BY <1>2, <1>d, <2>1, <2>2, <2>3 DEF OpenOk
<1>6. HalfBy(e, c, g, w, v \o qs, in, tk, gv, op, ps, k)
  BY <1>1, <1>4, <1>5, <1>d DEF HalfBy
<1> QED
  BY <1>6, Zenon DEF Half

\* What the sender sends again, its ACKs of the other direction, and what it does to
\* the packets it keeps: none of the chain that the receiver does not have is
\* forgotten but by a timeout.
SendsAgain(c, g, gw, qs) ==
  /\ g.seq = c.seq /\ g.theirWindow = c.theirWindow
  /\ \A x \in Range(g.sentPackets) : \E y \in Range(c.sentPackets) : x.pkt = y.pkt /\ x.ackd = y.ackd
  /\ \A y \in Range(c.sentPackets) :
       \/ y.ackd \/ y.pkt.kind # "DATA" \/ y.pkt.off \in gw
       \/ \E x \in Range(g.sentPackets) : x.pkt = y.pkt /\ x.ackd = y.ackd
  /\ \A q \in Range(qs) : q.kind = "ACK" \/ \E y \in Range(c.sentPackets) : q = y.pkt

LEMMA HalfSenderSends ==
  ASSUME NEW e \in Endpoint, NEW c \in Context, NEW d, NEW w \in Seq(Packet), NEW v, NEW in, NEW tk,
         NEW gv, NEW op \in BOOLEAN, Half(e, c, d, w, v, in, tk, gv, op),
         NEW g \in Context, NEW qs \in Seq(Packet), NEW gw,
         gv \subseteq gw, SendsAgain(c, g, gw, qs)
  PROVE  Half(e, g, d, w \o qs, v, in, tk, gw, op)
<1>d. /\ g.seq = c.seq /\ g.theirWindow = c.theirWindow
      /\ \A x \in Range(g.sentPackets) :
           \E y \in Range(c.sentPackets) : x.pkt = y.pkt /\ x.ackd = y.ackd
      /\ \A y \in Range(c.sentPackets) :
           \/ y.ackd \/ y.pkt.kind # "DATA" \/ y.pkt.off \in gw
           \/ \E x \in Range(g.sentPackets) : x.pkt = y.pkt /\ x.ackd = y.ackd
      /\ \A q \in Range(qs) : q.kind = "ACK" \/ \E y \in Range(c.sentPackets) : q = y.pkt
  BY Zenon DEF SendsAgain
<1>1. PICK ps, k : HalfBy(e, c, d, w, v, in, tk, gv, op, ps, k)
  BY Zenon DEF Half
<1>2. Range(w \o qs) = Range(w) \cup Range(qs)
  BY RangeJoined
<1>3. Chain(e, ps) /\ k \in 0..Len(ps) /\ ps \in Seq(Packet)
  BY <1>1 DEF HalfBy, Chain
<1>4. \A y \in Range(c.sentPackets) : EntryOk(e, y, ps, k)
  BY <1>1, Zenon DEF HalfBy, SenderOk
<1>5. SenderOk(e, g.seq, g.sentPackets, tk, gw, ps, k)
  <2>1. \A x \in Range(g.sentPackets) : EntryOk(e, x, ps, k)
    <3> SUFFICES ASSUME NEW x \in Range(g.sentPackets)
                 PROVE  EntryOk(e, x, ps, k)
      OBVIOUS
    <3>1. PICK y \in Range(c.sentPackets) : x.pkt = y.pkt /\ x.ackd = y.ackd
      BY <1>d
    <3>2. EntryOk(e, y, ps, k)
      BY <1>4
    <3> QED
      BY <3>1, <3>2 DEF EntryOk
  <2>2. ASSUME NEW j \in (k + 1)..Len(ps)
        PROVE  ps[j].off \in gw \/ \E x \in Range(g.sentPackets) : x.pkt = ps[j] /\ ~x.ackd
    <3>1. CASE ps[j].off \in gv
      BY <3>1
    <3>2. CASE \E y \in Range(c.sentPackets) : y.pkt = ps[j] /\ ~y.ackd
      <4>1. PICK y \in Range(c.sentPackets) : y.pkt = ps[j] /\ ~y.ackd
        BY <3>2
      <4>2. y.pkt.kind = "DATA"
        BY <1>3, <4>1 DEF Chain
      <4>3. y.pkt.off \in gw \/ \E x \in Range(g.sentPackets) : x.pkt = y.pkt /\ x.ackd = y.ackd
        BY <1>d, <4>1, <4>2
      <4> QED
        BY <4>1, <4>3
    <3> QED
      BY <1>1, <3>1, <3>2 DEF HalfBy, SenderOk
  <2>3. c.seq = SeqEnd(e, ps, Len(ps)) /\ tk = OffEnd(ps, Len(ps))
    BY <1>1, Zenon DEF HalfBy, SenderOk
  <2> QED
    BY <1>d, <2>1, <2>2, <2>3, Zenon DEF SenderOk
<1>6. Flow(e, w \o qs, ps, k)
  <2>1. ASSUME NEW q \in Range(qs)
        PROVE  Brings(e, q, ps, Len(ps), Len(ps))
    <3>1. CASE q.kind = "ACK"
      BY <3>1 DEF Brings
    <3>2. CASE q.kind # "ACK"
      <4>1. PICK y \in Range(c.sentPackets) : q = y.pkt
        BY <1>d, <3>2
      <4>2. CASE y.pkt.kind = "FIN" /\ y.pkt.seq = SeqEnd(e, ps, Len(ps))
        BY <4>1, <4>2 DEF Brings
      <4>3. CASE \E j \in 1..Len(ps) : y.pkt = ps[j]
        <5>1. PICK j \in 1..Len(ps) : q = ps[j]
          BY <4>1, <4>3
        <5>2. q.kind = "DATA" /\ j <= Len(ps)
          BY <1>3, <5>1 DEF Chain
        <5> QED
          BY <5>1, <5>2, Zenon DEF Brings
      <4> QED
        BY <1>4, <4>2, <4>3, Zenon DEF EntryOk
    <3> QED
      BY <3>1, <3>2
  <2>2. Flow(e, w, ps, k)
    BY <1>1 DEF HalfBy
  <2> QED
    BY <1>3, <2>1, <2>2, FlowMore
<1>7. op => OpenOk(g, d, w \o qs, v, in)
  <2> SUFFICES ASSUME op
               PROVE  OpenOk(g, d, w \o qs, v, in)
    OBVIOUS
  <2>1. OpenOk(c, d, w, v, in)
    BY <1>1 DEF HalfBy
  <2>2. \A x \in Range(g.sentPackets) : x.pkt.kind # "FIN"
    BY <1>d, <2>1, Zenon DEF OpenOk
  <2>3. \A p \in Range(w) \cup Range(qs) : p.kind # "FIN"
    <3>1. \A q \in Range(qs) : q.kind # "FIN"
      <4> SUFFICES ASSUME NEW q \in Range(qs), q.kind = "FIN"
                   PROVE  FALSE
        OBVIOUS
      <4>1. q.kind # "ACK"
        OBVIOUS
      <4>2. PICK y \in Range(c.sentPackets) : q = y.pkt
        BY <1>d, <4>1
      <4> QED
        BY <2>1, <4>2, Zenon DEF OpenOk
    <3> QED
      BY <2>1, <3>1, Zenon DEF OpenOk
  <2> QED
    BY <1>2, <1>d, <2>1, <2>2, <2>3 DEF OpenOk
<1>8. HalfBy(e, g, d, w \o qs, v, in, tk, gw, op, ps, k)
  BY <1>1, <1>5, <1>6, <1>7 DEF HalfBy
<1> QED
  BY <1>8, Zenon DEF Half
-----------------------------------------------------------------------------
(* Receiving                                                               *)

AckOf(c) == [kind |-> "ACK", seq |-> c.seq, ack |-> c.ackNum, win |-> c.ourWindow, off |-> 0, len |-> 0]

\* What a context keeps when it received p, and the ACK it sends.
Answers(g, d, p) ==
  /\ g \in Context
  /\ g.seq = d.seq /\ g.sentPackets = d.sentPackets
  /\ g.theirWindow = MinOf(RecvLen, p.win)
  /\ g.out = Append(d.out, AckOf(g)) /\ AckOf(g) \in Packet

LEMMA AnswerType ==
  ASSUME NEW r \in Context, NEW g, g = SendAck(r)
  PROVE  /\ g \in Context /\ AckOf(g) \in Packet
         /\ g = [r EXCEPT !.out = Append(@, AckOf(g))]
<1>1. PICK a \in Packet : a = AckOf(r)
  <2>1. AckOf(r) \in Packet
    BY DEF AckOf, Context, Packet
  <2> QED
    BY <2>1, Zenon
<1>2. PICK o \in Seq(Packet) : o = Append(r.out, a)
  <2>1. r.out \in Seq(Packet)
    BY DEF Context
  <2>2. Append(r.out, a) \in Seq(Packet)
    BY <2>1
  <2> QED
    BY <2>2, Zenon
<1>3. g = [r EXCEPT !.out = o]
  BY <1>1, <1>2, Zenon DEF SendAck, Emit, AckOf
<1>4. g \in Context
  BY <1>2, <1>3 DEF Context
<1>5. AckOf(g) = a
  BY <1>1, <1>3 DEF Context, AckOf
<1> QED
  BY <1>1, <1>2, <1>3, <1>4, <1>5

\* The window shrinks by the packet, and the peer's is that of the packet.
Hears(h, d, p) ==
  /\ h \in Context
  /\ h = [d EXCEPT !.ourWindow = h.ourWindow, !.theirWindow = h.theirWindow]
  /\ h.theirWindow = MinOf(RecvLen, p.win)
  /\ Returned(h, p) = [h EXCEPT !.ourWindow = d.ourWindow]

LEMMA HearsType ==
  ASSUME NEW d \in Context, NEW p \in Packet, NEW h,
         h = [d EXCEPT !.ourWindow = @ - TotalLen(p), !.theirWindow = MinOf(RecvLen, p.win)]
  PROVE  Hears(h, d, p)
<1>1. PICK t \in Nat : t = TotalLen(p)
  BY Sizes DEF TotalLen, Packet
<1>2. PICK m \in Int : m = MinOf(RecvLen, p.win)
  BY Sizes DEF MinOf, Packet
<1>3. PICK z \in Int : z = d.ourWindow - t
  <2>1. d.ourWindow \in Int
    BY DEF Context
  <2> QED
    BY <1>1, <2>1
<1>4. h = [d EXCEPT !.ourWindow = z, !.theirWindow = m]
  BY <1>1, <1>2, <1>3
<1>5. h \in Context /\ h.ourWindow = z /\ h.theirWindow = m
  BY <1>2, <1>3, <1>4 DEF Context
<1>6. h.ourWindow + t = d.ourWindow
  <2>1. d.ourWindow \in Int
    BY DEF Context
  <2> QED
    BY <1>1, <1>3, <1>5, <2>1
<1>7. Returned(h, p) = [h EXCEPT !.ourWindow = d.ourWindow]
  BY <1>1, <1>6 DEF Returned
<1>8. h = [d EXCEPT !.ourWindow = h.ourWindow, !.theirWindow = h.theirWindow]
  BY <1>4, <1>5
<1> QED
  BY <1>2, <1>5, <1>7, <1>8, Zenon DEF Hears

\* A packet that was received before.
LEMMA ReceivesOld ==
  ASSUME NEW d \in Context, NEW p \in Packet, p.kind # "ACK", p.seq < d.ackNum,
         NEW g, g = HandleNetwork(d, p)
  PROVE  /\ Answers(g, d, p)
         /\ g.nextSeqExpected = d.nextSeqExpected /\ g.ackNum = d.ackNum
         /\ g.ourWindow = d.ourWindow /\ g.up = d.up
<1>1. PICK h : h = [d EXCEPT !.ourWindow = @ - TotalLen(p), !.theirWindow = MinOf(RecvLen, p.win)]
  OBVIOUS
<1>h. Hears(h, d, p)
  BY <1>1, HearsType, Zenon
<1>2. /\ h \in Context
      /\ h = [d EXCEPT !.ourWindow = h.ourWindow, !.theirWindow = h.theirWindow]
      /\ h.theirWindow = MinOf(RecvLen, p.win)
      /\ Returned(h, p) = [h EXCEPT !.ourWindow = d.ourWindow]
  BY <1>h, Zenon DEF Hears
<1>3. PICK r : r = [h EXCEPT !.ourWindow = d.ourWindow]
  OBVIOUS
<1>4. r \in Context
  BY <1>2, <1>3 DEF Context
<1>5. g = SendAck(r)
  <2>1. g = ReceiveSegment(h, p)
    BY <1>1, Zenon DEF HandleNetwork
  <2>2. p.seq < h.ackNum
    BY <1>2 DEF Context
  <2>3. ReceiveSegment(h, p) = SendAck(Returned(h, p))
    BY <2>2, Zenon DEF ReceiveSegment
  <2> QED
    BY <1>2, <1>3, <2>1, <2>3
<1>6. g \in Context /\ AckOf(g) \in Packet /\ g = [r EXCEPT !.out = Append(@, AckOf(g))]
  BY <1>4, <1>5, AnswerType
<1>7. /\ r.seq = d.seq /\ r.sentPackets = d.sentPackets /\ r.theirWindow = h.theirWindow
      /\ r.nextSeqExpected = d.nextSeqExpected /\ r.ackNum = d.ackNum
      /\ r.ourWindow = d.ourWindow /\ r.up = d.up /\ r.out = d.out
  BY <1>2, <1>3 DEF Context
<1>8. /\ g.seq = r.seq /\ g.sentPackets = r.sentPackets /\ g.theirWindow = r.theirWindow
      /\ g.nextSeqExpected = r.nextSeqExpected /\ g.ackNum = r.ackNum
      /\ g.ourWindow = r.ourWindow /\ g.up = r.up /\ g.out = Append(r.out, AckOf(g))
  BY <1>4, <1>6 DEF Context
<1> QED
  BY <1>2, <1>6, <1>7, <1>8, Zenon DEF Answers

\* Nothing is buffered, so that nothing more is passed up after a packet.
LEMMA DrainsNothing ==
  ASSUME NEW c \in Context, NEW p
  PROVE  \E b \in BOOLEAN : Drain(c, p) = [c EXCEPT !.iter = b]
<1>1. CASE c.iter
  <2>1. Drain(c, p) = [c EXCEPT !.iter = TRUE]
    BY <1>1 DEF Drain, Context
  <2> QED
    BY <2>1
<1>2. CASE ~c.iter
  <2> DEFINE after[i \in 0..Len(c.outOfOrderBuf)] ==
               IF i = 0 THEN c
               ELSE IF c.outOfOrderBuf[i].seq > p.seq THEN Take(after[i - 1], c.outOfOrderBuf[i])
               ELSE after[i - 1]
  <2>1. Len(c.outOfOrderBuf) = 0
    BY DEF Context
  <2>2. after = [i \in 0..Len(c.outOfOrderBuf) |->
               IF i = 0 THEN c
               ELSE IF c.outOfOrderBuf[i].seq > p.seq THEN Take(after[i - 1], c.outOfOrderBuf[i])
               ELSE after[i - 1]]
    <3> DEFINE h == [i \in 0..Len(c.outOfOrderBuf) |-> c]
    <3>1. h = [i \in 0..Len(c.outOfOrderBuf) |->
               IF i = 0 THEN c
               ELSE IF c.outOfOrderBuf[i].seq > p.seq THEN Take(h[i - 1], c.outOfOrderBuf[i])
               ELSE h[i - 1]]
      <4>1. \A i \in 0..Len(c.outOfOrderBuf) : i = 0
        BY <2>1
      <4> QED
        BY <4>1, Zenon
    <3> HIDE DEF h
    <3> QED
      BY <3>1, Zenon
  <2>3. Drain(c, p) = [after[Len(c.outOfOrderBuf)] EXCEPT !.iter = TRUE]
    BY <1>2, Zenon DEF Drain
  <2> HIDE DEF after
  <2>4. after[0] = c
    <3>1. 0 \in 0..Len(c.outOfOrderBuf)
      BY <2>1
    <3> QED
      BY <2>2, <3>1, Zenon
  <2>5. Drain(c, p) = [c EXCEPT !.iter = TRUE]
    BY <2>1, <2>3, <2>4
  <2> QED
    BY <2>5
<1> QED
  BY <1>1, <1>2

\* The next piece, to a receiver with an empty buffer.
LEMMA ReceivesNew ==
  ASSUME NEW d \in Context, NEW p \in Packet, p.kind = "DATA",
         p.seq = d.nextSeqExpected, d.ackNum = d.nextSeqExpected,
         NEW g, g = HandleNetwork(d, p)
  PROVE  /\ Answers(g, d, p)
         /\ g.nextSeqExpected = AckNumOf(p) /\ g.ackNum = AckNumOf(p)
         /\ g.ourWindow = d.ourWindow
         /\ g.up = Append(d.up, [off |-> p.off, len |-> p.len])
<1>1. PICK h : h = [d EXCEPT !.ourWindow = @ - TotalLen(p), !.theirWindow = MinOf(RecvLen, p.win)]
  OBVIOUS
<1>h. Hears(h, d, p)
  BY <1>1, HearsType, Zenon
<1>2. /\ h \in Context
      /\ h = [d EXCEPT !.ourWindow = h.ourWindow, !.theirWindow = h.theirWindow]
      /\ h.theirWindow = MinOf(RecvLen, p.win)
      /\ Returned(h, p) = [h EXCEPT !.ourWindow = d.ourWindow]
  BY <1>h, Zenon DEF Hears
<1>3. PICK n \in Nat : n = AckNumOf(p) /\ p.seq + TotalLen(p) = n
  BY Sizes DEF TotalLen, AckNumOf, Packet
<1>4. PICK u \in Seq(Chunk) : u = Append(d.up, [off |-> p.off, len |-> p.len])
  <2>1. [off |-> p.off, len |-> p.len] \in Chunk /\ d.up \in Seq(Chunk)
    BY DEF Chunk, Packet, Context
  <2>2. Append(d.up, [off |-> p.off, len |-> p.len]) \in Seq(Chunk)
    BY <2>1
  <2> QED
    BY <2>2, Zenon
<1>5. PICK t : t = Take(h, p)
  OBVIOUS
<1>6. t = [h EXCEPT !.up = u, !.nextSeqExpected = n, !.ackNum = n]
  <2>1. t = TakeData(h, p)
    BY <1>5 DEF Take
  <2>2. h.up = d.up /\ h.nextSeqExpected = p.seq
    BY <1>2 DEF Context
  <2>3. PassUp(h, p.off, p.len) = [h EXCEPT !.up = u]
    BY <1>4, <2>2 DEF PassUp
  <2>4. [h EXCEPT !.up = u].nextSeqExpected = p.seq
    BY <1>2, <1>4, <2>2 DEF Context
  <2>5. t = [[h EXCEPT !.up = u] EXCEPT !.nextSeqExpected = n, !.ackNum = n]
    BY <1>3, <2>1, <2>3, <2>4 DEF TakeData
  <2>6. h \in Context
    BY <1>2
  <2> QED
    BY <2>5, <2>6 DEF Context
<1>7. t \in Context /\ t.ourWindow = h.ourWindow /\ t.theirWindow = h.theirWindow
  BY <1>2, <1>3, <1>4, <1>6 DEF Context
<1>8. Returned(t, p) = [t EXCEPT !.ourWindow = d.ourWindow]
  <2>1. Returned(h, p).ourWindow = d.ourWindow
    BY <1>2 DEF Context
  <2>2. Returned(h, p).ourWindow = h.ourWindow + TotalLen(p)
    BY <1>2 DEF Context, Returned
  <2> QED
    BY <1>7, <2>1, <2>2 DEF Returned
<1>9. PICK r : r = Returned(t, p)
  OBVIOUS
<1>10. r \in Context
  BY <1>7, <1>8, <1>9 DEF Context
<1>11. PICK b \in BOOLEAN : Drain(r, p) = [r EXCEPT !.iter = b]
  BY <1>10, DrainsNothing
<1>12. PICK q : q = [r EXCEPT !.iter = b]
  OBVIOUS
<1>13. q \in Context
  BY <1>10, <1>12 DEF Context
<1>14. g = SendAck(q)
  <2>1. g = ReceiveSegment(h, p)
    BY <1>1, Zenon DEF HandleNetwork
  <2>2. ~(p.seq < h.ackNum) /\ p.seq = h.nextSeqExpected
    <3>1. h.ackNum = p.seq /\ h.nextSeqExpected = p.seq
      BY <1>2 DEF Context
    <3>2. p.seq \in Nat
      BY DEF Packet
    <3> QED
      BY <3>1, <3>2
  <2>3. ~InBuffer(h, p.ack)
    BY <1>2 DEF Context, InBuffer
  <2>4. ReceiveSegment(h, p) = SendAck(Drain(r, p))
    BY <1>5, <1>9, <2>2, <2>3, Zenon DEF ReceiveSegment
  <2> QED
    BY <1>11, <1>12, <2>1, <2>4
<1>15. g \in Context /\ AckOf(g) \in Packet /\ g = [q EXCEPT !.out = Append(@, AckOf(g))]
  BY <1>13, <1>14, AnswerType
<1>16. /\ r.seq = d.seq /\ r.sentPackets = d.sentPackets /\ r.theirWindow = MinOf(RecvLen, p.win)
       /\ r.out = d.out /\ r.ourWindow = d.ourWindow /\ r.up = u /\ r.nextSeqExpected = n /\ r.ackNum = n
  <2>1. /\ h.seq = d.seq /\ h.sentPackets = d.sentPackets /\ h.theirWindow = MinOf(RecvLen, p.win)
        /\ h.out = d.out
    BY <1>2 DEF Context
  <2>2. /\ t.seq = h.seq /\ t.sentPackets = h.sentPackets /\ t.theirWindow = h.theirWindow
        /\ t.out = h.out /\ t.up = u /\ t.nextSeqExpected = n /\ t.ackNum = n
    BY <1>2, <1>6 DEF Context
  <2>3. r = [t EXCEPT !.ourWindow = d.ourWindow]
    BY <1>8, <1>9
  <2> QED
    BY <1>7, <2>1, <2>2, <2>3 DEF Context
<1> QED
  BY <1>3, <1>4, <1>10, <1>12, <1>15, <1>16 DEF Context, Answers

\* A FIN, first or again: end-of-file is passed up, and the packet's length never
\* returns to the window.
LEMMA ReceivesFin ==
  ASSUME NEW d \in Context, NEW p \in Packet, p.kind = "FIN",
         p.seq = d.nextSeqExpected, d.ackNum = d.nextSeqExpected,
         NEW g, g = HandleNetwork(d, p)
  PROVE  /\ Answers(g, d, p)
         /\ g.nextSeqExpected = d.nextSeqExpected /\ g.ackNum = d.ackNum
         /\ g.up = Append(d.up, Eof)
<1>1. PICK h : h = [d EXCEPT !.ourWindow = @ - TotalLen(p), !.theirWindow = MinOf(RecvLen, p.win)]
  OBVIOUS
<1>2. /\ h \in Context
      /\ h = [d EXCEPT !.ourWindow = h.ourWindow, !.theirWindow = h.theirWindow]
      /\ h.theirWindow = MinOf(RecvLen, p.win)
  BY <1>1, HearsType, Zenon DEF Hears
<1>4. PICK u \in Seq(Chunk) : u = Append(d.up, Eof)
  <2>1. Eof \in Chunk /\ d.up \in Seq(Chunk)
    BY DEF Chunk, Eof, Context
  <2>2. Append(d.up, Eof) \in Seq(Chunk)
    BY <2>1
  <2> QED
    BY <2>2, Zenon
<1>5. PICK t : t = Take(h, p)
  OBVIOUS
<1>6. PICK s \in State, f \in BOOLEAN : t = [h EXCEPT !.up = u, !.state = s, !.done = f]
  <2>1. t = TakeFin(h)
    BY <1>5 DEF Take
  <2>2. h.up = d.up
    BY <1>2 DEF Context
  <2>3. PICK z : z = [h EXCEPT !.up = u]
    OBVIOUS
  <2>4. t = IF h.state \in {"FINWAIT1", "FINWAIT2"}
            THEN [z EXCEPT !.state = "CLOSED", !.done = TRUE]
            ELSE [z EXCEPT !.state = "CLOSE_WAIT"]
    BY <1>4, <2>1, <2>2, <2>3 DEF TakeFin
  <2>5. CASE h.state \in {"FINWAIT1", "FINWAIT2"}
    <3>1. t = [h EXCEPT !.up = u, !.state = "CLOSED", !.done = TRUE] /\ "CLOSED" \in State
      BY <2>3, <2>4, <2>5 DEF State
    <3> QED
      BY <3>1
  <2>6. CASE h.state \notin {"FINWAIT1", "FINWAIT2"}
    <3>1. PICK f \in BOOLEAN : f = h.done
      BY <1>2 DEF Context
    <3>2. t = [h EXCEPT !.up = u, !.state = "CLOSE_WAIT", !.done = f] /\ "CLOSE_WAIT" \in State
      BY <1>2, <2>3, <2>4, <2>6, <3>1 DEF State, Context
    <3> QED
      BY <3>2
  <2> QED
    BY <2>5, <2>6
<1>10. t \in Context
  BY <1>2, <1>4, <1>6 DEF Context
<1>11. PICK b \in BOOLEAN : Drain(t, p) = [t EXCEPT !.iter = b]
  BY <1>10, DrainsNothing
<1>12. PICK q : q = [t EXCEPT !.iter = b]
  OBVIOUS
<1>13. q \in Context
  BY <1>10, <1>12 DEF Context
<1>14. g = SendAck(q)
  <2>1. g = ReceiveSegment(h, p)
    BY <1>1, Zenon DEF HandleNetwork
  <2>2. ~(p.seq < h.ackNum) /\ p.seq = h.nextSeqExpected
    <3>1. h.ackNum = p.seq /\ h.nextSeqExpected = p.seq
      BY <1>2 DEF Context
    <3>2. p.seq \in Nat
      BY DEF Packet
    <3> QED
      BY <3>1, <3>2
  <2>3. ~InBuffer(h, p.ack)
    BY <1>2 DEF Context, InBuffer
  <2>4. ReceiveSegment(h, p) = SendAck(Drain(t, p))
    BY <1>5, <2>2, <2>3, Zenon DEF ReceiveSegment
  <2> QED
    BY <1>11, <1>12, <2>1, <2>4
<1>15. g \in Context /\ AckOf(g) \in Packet /\ g = [q EXCEPT !.out = Append(@, AckOf(g))]
  BY <1>13, <1>14, AnswerType
<1>16. /\ t.seq = d.seq /\ t.sentPackets = d.sentPackets /\ t.theirWindow = MinOf(RecvLen, p.win)
       /\ t.out = d.out /\ t.up = u /\ t.nextSeqExpected = d.nextSeqExpected /\ t.ackNum = d.ackNum
  BY <1>2, <1>4, <1>6 DEF Context
<1> QED
  BY <1>4, <1>10, <1>12, <1>15, <1>16 DEF Context, Answers

-----------------------------------------------------------------------------
(* A packet is taken                                                       *)

LEMMA BytesType ==
  ASSUME NEW x \in Chunk
  PROVE  Bytes(x) \in Seq(Nat)
<1>1. x.len \in Nat /\ x.off \in Nat
  BY DEF Chunk
<1>2. \A i \in 1..x.len : x.off + i - 1 \in Nat
  BY <1>1
<1> QED
  BY <1>1, <1>2 DEF Bytes

LEMMA ReadsMore ==
  ASSUME NEW in \in Seq(Chunk), NEW x \in Chunk
  PROVE  /\ Reads(in) \in Seq(Nat)
         /\ Reads(Append(in, x)) = Reads(in) \o Bytes(x)
<1>1. PICK n \in Nat : n = Len(in)
  OBVIOUS
<1>2. \A y \in Chunk : Bytes(y) \in Seq(Nat)
  BY BytesType
<1>3. PICK bs : bs = [i \in DOMAIN in |-> Bytes(in[i])]
  OBVIOUS
<1>4. bs \in Seq(Seq(Nat)) /\ Len(bs) = n
  BY <1>1, <1>2, <1>3
<1>5. PICK t \in Seq(Chunk) : t = Append(in, x)
  <2>1. Append(in, x) \in Seq(Chunk)
    OBVIOUS
  <2> QED
    BY <2>1, Zenon
<1>6. Len(t) = n + 1 /\ t[n + 1] = x /\ \A i \in 1..n : t[i] = in[i]
  BY <1>1, <1>5
<1>7. [i \in DOMAIN t |-> Bytes(t[i])] = Append(bs, Bytes(x))
  <2>1. PICK u \in Seq(Seq(Nat)) : u = [i \in DOMAIN t |-> Bytes(t[i])]
    <3>1. [i \in DOMAIN t |-> Bytes(t[i])] \in Seq(Seq(Nat))
      BY <1>2, <1>5
    <3> QED
      BY <3>1, Zenon
  <2>2. PICK a \in Seq(Seq(Nat)) : a = Append(bs, Bytes(x))
    <3>1. Append(bs, Bytes(x)) \in Seq(Seq(Nat))
      BY <1>2, <1>4
    <3> QED
      BY <3>1, Zenon
  <2>3. Len(u) = n + 1 /\ Len(a) = n + 1
    BY <1>4, <1>6, <2>1, <2>2
  <2>4. \A i \in 1..(n + 1) : u[i] = a[i]
    <3>1. u[n + 1] = Bytes(x) /\ \A i \in 1..n : u[i] = Bytes(in[i])
      BY <1>6, <2>1
    <3>2. a[n + 1] = Bytes(x) /\ \A i \in 1..n : a[i] = bs[i]
      BY <1>2, <1>4, <2>2
    <3>3. \A i \in 1..n : bs[i] = Bytes(in[i])
      BY <1>1, <1>3
    <3> QED
      BY <3>1, <3>2, <3>3
  <2>5. u = a
    BY <2>3, <2>4, SeqEqual
  <2> QED
    BY <2>1, <2>2, <2>5
<1>8. Reads(in) = FlattenSeq(bs)
  BY <1>3 DEF Reads
<1>9. FlattenSeq(bs) \in Seq(Nat)
  BY <1>4, FlattenType
<1>10. FlattenSeq(Append(bs, Bytes(x))) = FlattenSeq(bs) \o Bytes(x)
  BY <1>2, <1>4, FlattenAppend
<1>11. Reads(t) = FlattenSeq([i \in DOMAIN t |-> Bytes(t[i])])
  BY DEF Reads
<1>12. Reads(t) = Reads(in) \o Bytes(x)
  BY <1>7, <1>8, <1>10, <1>11
<1> QED
  BY <1>5, <1>8, <1>9, <1>12

\* The chunk that follows the bytes read so far, and one of no bytes.
LEMMA PrefixMore ==
  ASSUME NEW n \in Nat, NEW x \in Chunk, x.len = 0 \/ x.off = n
  PROVE  Prefix(n) \o Bytes(x) = Prefix(n + x.len)
<1>1. x.len \in Nat /\ x.off \in Nat
  BY DEF Chunk
<1>2. PICK m \in Nat : m = x.len
  BY <1>1
<1>3. PICK a \in Seq(Nat) : a = Prefix(n)
  <2>1. \A i \in 1..n : i - 1 \in Nat
    OBVIOUS
  <2>2. Prefix(n) \in Seq(Nat)
    BY <2>1 DEF Prefix
  <2> QED
    BY <2>2, Zenon
<1>4. PICK b \in Seq(Nat) : b = Bytes(x)
  <2>1. \A i \in 1..x.len : x.off + i - 1 \in Nat
    BY <1>1
  <2>2. Bytes(x) \in Seq(Nat)
    BY <1>1, <2>1 DEF Bytes
  <2> QED
    BY <2>2, Zenon
<1>5. PICK c \in Seq(Nat) : c = Prefix(n + m)
  <2>1. \A i \in 1..(n + m) : i - 1 \in Nat
    OBVIOUS
  <2>2. Prefix(n + m) \in Seq(Nat)
    <3>1. n + m \in Nat
      OBVIOUS
    <3> QED
      BY <2>1, <3>1 DEF Prefix
  <2> QED
    BY <2>2, Zenon
<1>6. Len(a) = n /\ \A i \in 1..n : a[i] = i - 1
  BY <1>3 DEF Prefix
<1>7. Len(b) = m /\ \A i \in 1..m : b[i] = x.off + i - 1
  BY <1>2, <1>4 DEF Bytes
<1>8. Len(c) = n + m /\ \A i \in 1..(n + m) : c[i] = i - 1
  BY <1>5 DEF Prefix
<1>9. PICK j \in Seq(Nat) : j = a \o b
  <2>1. a \o b \in Seq(Nat)
    OBVIOUS
  <2> QED
    BY <2>1, Zenon
<1>10. /\ Len(j) = n + m /\ \A i \in 1..n : j[i] = a[i]
       /\ \A i \in (n + 1)..(n + m) : j[i] = b[i - n]
  <2>1. Len(j) = n + m
    <3>1. n = Len(a) /\ m = Len(b)
      BY <1>6, <1>7
    <3> QED
      BY <1>9, <3>1
  <2> QED
    BY <1>6, <1>7, <1>9, <2>1, Joined
<1>11. \A i \in 1..(n + m) : j[i] = c[i]
  <2> SUFFICES ASSUME NEW i \in 1..(n + m)
               PROVE  j[i] = i - 1
    BY <1>8
  <2>1. CASE i <= n
    BY <1>6, <1>10, <2>1
  <2>2. CASE ~(i <= n)
    <3>1. i - n \in 1..m /\ x.off = n
      BY <1>2, <2>2
    <3>2. j[i] = b[i - n] /\ b[i - n] = x.off + (i - n) - 1
      BY <1>7, <1>10, <2>2, <3>1
    <3> QED
      BY <3>1, <3>2
  <2> QED
    BY <2>1, <2>2
<1>12. j = c
  BY <1>8, <1>10, <1>11, SeqEqual
<1> QED
  BY <1>2, <1>3, <1>4, <1>5, <1>9, <1>12

\* A direction goes on with the receiver having the first l packets.
LEMMA HalfAdvances ==
  ASSUME NEW e \in Endpoint, NEW c, NEW d, NEW w \in Seq(Packet), w # <<>>, NEW v, NEW in, NEW tk, NEW gv,
         NEW op \in BOOLEAN, NEW ps, NEW k, HalfBy(e, c, d, w, v, in, tk, gv, op, ps, k),
         NEW l \in 0..Len(ps), k <= l, Flow(e, Tail(w), ps, l),
         NEW g, NEW to, g.sentPackets = d.sentPackets,
         ReceiverOk(e, g.nextSeqExpected, g.ackNum, to, ps, l),
         op => g.ourWindow = d.ourWindow /\ Eof \notin Range(to)
  PROVE  Half(e, c, g, Tail(w), v, to, tk, gv, op)
<1>1. Chain(e, ps) /\ k \in 0..Len(ps) /\ Len(ps) \in Nat
  BY DEF HalfBy, Chain
<1>2. SenderOk(e, c.seq, c.sentPackets, tk, gv, ps, l)
  <2>1. SenderOk(e, c.seq, c.sentPackets, tk, gv, ps, k)
    BY DEF HalfBy
  <2>2. \A x \in Range(c.sentPackets) : EntryOk(e, x, ps, l)
    <3> SUFFICES ASSUME NEW x \in Range(c.sentPackets)
                 PROVE  EntryOk(e, x, ps, l)
      OBVIOUS
    <3>1. EntryOk(e, x, ps, k)
      BY <2>1, Zenon DEF SenderOk
    <3>2. \A j \in 1..Len(ps) : j <= k => j <= l
      BY <1>1
    <3> QED
      BY <3>1, <3>2, Zenon DEF EntryOk
  <2>3. \A j \in (l + 1)..Len(ps) : j \in (k + 1)..Len(ps)
    BY <1>1
  <2> QED
    BY <2>1, <2>2, <2>3, Zenon DEF SenderOk
<1>3. AcksOk(e, v, ps, l)
  <2>1. \A j \in 0..k : j \in 0..l
    BY <1>1
  <2>2. AcksOk(e, v, ps, k)
    BY DEF HalfBy
  <2> QED
    BY <2>1, <2>2, Zenon DEF AcksOk
<1>4. op => OpenOk(c, g, Tail(w), v, to)
  <2> SUFFICES ASSUME op
               PROVE  OpenOk(c, g, Tail(w), v, to)
    OBVIOUS
  <2>1. OpenOk(c, d, w, v, in)
    BY DEF HalfBy
  <2>2. \A p \in Range(Tail(w)) : p \in Range(w)
    BY RangeHeadTail
  <2> QED
    BY <2>1, <2>2 DEF OpenOk
<1>5. HalfBy(e, c, g, Tail(w), v, to, tk, gv, op, ps, l)
  BY <1>1, <1>2, <1>3, <1>4 DEF HalfBy
<1> QED
  BY <1>5, Zenon DEF Half

\* What comes with the receipt of a packet: up to one chunk, and an ACK.
LEMMA AnswerSent ==
  ASSUME NEW d \in Context, NEW p, NEW g, Answers(g, d, p), NEW v \in Seq(Packet)
  PROVE  /\ v \o g.out = (v \o d.out) \o <<AckOf(g)>>
         /\ v \o d.out \in Seq(Packet) /\ <<AckOf(g)>> \in Seq(Packet)
         /\ Range(<<AckOf(g)>>) = {AckOf(g)}
<1>1. AckOf(g) \in Packet /\ g.out = Append(d.out, AckOf(g))
  BY DEF Answers
<1>2. d.out \in Seq(Packet)
  BY DEF Context
<1>3. PICK u \in Seq(Packet) : u = v \o d.out
  <2>1. v \o d.out \in Seq(Packet)
    BY <1>2
  <2> QED
    BY <2>1, Zenon
<1>4. v \o g.out = Append(u, AckOf(g))
  BY <1>1, <1>2, <1>3, JoinAppend
<1>5. Append(u, AckOf(g)) = u \o <<AckOf(g)>>
  BY <1>1, AppendIsConcat
<1>6. Range(<<AckOf(g)>>) = {AckOf(g)}
  BY DEF Range
<1> QED
  BY <1>1, <1>3, <1>4, <1>5, <1>6

\* The receiver's side of a direction when a packet is taken.
LEMMA HalfTakes ==
  ASSUME NEW e \in Endpoint, NEW c, NEW d \in Context, NEW w \in Seq(Packet), w # <<>>,
         NEW v \in Seq(Packet), NEW in \in Seq(Chunk), NEW tk, NEW gv, NEW op \in BOOLEAN,
         Half(e, c, d, w, v \o d.out, in \o d.up, tk, gv, op),
         NEW p, p = Head(w), p.kind # "ACK", NEW g, g = HandleNetwork(d, p)
  PROVE  /\ Answers(g, d, p)
         /\ Half(e, c, g, Tail(w), v \o g.out, in \o g.up, tk, gv, op)
<1>1. PICK ps, k : HalfBy(e, c, d, w, v \o d.out, in \o d.up, tk, gv, op, ps, k)
  BY Zenon DEF Half
<1>2. Chain(e, ps) /\ k \in 0..Len(ps) /\ ps \in Seq(Packet) /\ Len(ps) \in Nat
  BY <1>1 DEF HalfBy, Chain
<1>3. p \in Packet /\ p \in Range(w)
  BY RangeHeadTail
<1>4. Flow(e, w, ps, k)
  BY <1>1, Zenon DEF HalfBy
<1>5. PICK l \in 0..Len(ps) : Brings(e, p, ps, k, l) /\ Flow(e, Tail(w), ps, l)
  BY <1>2, <1>4, FlowNext
<1>6. ReceiverOk(e, d.nextSeqExpected, d.ackNum, in \o d.up, ps, k)
  BY <1>1, Zenon DEF HalfBy
<1>7. op => OpenOk(c, d, w, v \o d.out, in \o d.up)
  BY <1>1, Zenon DEF HalfBy
<1>8. d.up \in Seq(Chunk)
  BY DEF Context
<1>9. PICK z \in Seq(Chunk) : z = in \o d.up
  <2>1. in \o d.up \in Seq(Chunk)
    BY <1>8
  <2> QED
    BY <2>1, Zenon
<1>10. /\ d.nextSeqExpected = SeqEnd(e, ps, k) /\ d.ackNum = SeqEnd(e, ps, k)
       /\ Reads(z) = Prefix(OffEnd(ps, k)) /\ (Eof \in Range(z) => k = Len(ps))
  BY <1>6, <1>9 DEF ReceiverOk
<1>11. SeqEnd(e, ps, k) \in Nat /\ OffEnd(ps, k) \in Nat
  BY <1>2, ChainType
<1>12. /\ Answers(g, d, p)
       /\ Half(e, c, g, Tail(w), v \o d.out, in \o g.up, tk, gv, op)
       /\ op => g.ourWindow = d.ourWindow
  <2>1. CASE p.kind = "FIN"
    <3>1. p.seq = SeqEnd(e, ps, k) /\ k = Len(ps) /\ l = k
      BY <1>5, <2>1 DEF Brings
    <3>2. /\ Answers(g, d, p)
          /\ g.nextSeqExpected = d.nextSeqExpected /\ g.ackNum = d.ackNum
          /\ g.up = Append(d.up, Eof)
      <4>1. p.seq = d.nextSeqExpected /\ d.ackNum = d.nextSeqExpected
        BY <1>10, <3>1
      <4> QED
        BY <1>3, <2>1, <4>1, ReceivesFin, Zenon
    <3>3. ~op
      BY <1>3, <1>7, <2>1 DEF OpenOk
    <3>4. Eof \in Chunk /\ Eof.len = 0
      BY DEF Chunk, Eof
    <3>5. in \o g.up = Append(z, Eof)
      <4>1. in \o Append(d.up, Eof) = Append(in \o d.up, Eof)
        <5>1. Eof \in Chunk
          BY <3>4
        <5>2. PICK x \in Chunk : x = Eof
          BY <5>1
        <5>3. PICK y \in Seq(Chunk) : y = d.up
          BY <1>8, Zenon
        <5>4. in \o Append(y, x) = Append(in \o y, x)
          BY JoinAppend
        <5> QED
          BY <5>2, <5>3, <5>4, Zenon
      <4> QED
        BY <1>9, <3>2, <4>1, Zenon
    <3>6. Reads(Append(z, Eof)) = Prefix(OffEnd(ps, k))
      <4>1. Reads(Append(z, Eof)) = Reads(z) \o Bytes(Eof)
        BY <3>4, ReadsMore
      <4>2. Prefix(OffEnd(ps, k)) \o Bytes(Eof) = Prefix(OffEnd(ps, k) + 0)
        BY <1>11, <3>4, PrefixMore
      <4>3. OffEnd(ps, k) + 0 = OffEnd(ps, k)
        BY <1>11
      <4> QED
        BY <1>10, <4>1, <4>2, <4>3
    <3>7. ReceiverOk(e, g.nextSeqExpected, g.ackNum, Append(z, Eof), ps, l)
      BY <1>10, <3>1, <3>2, <3>6 DEF ReceiverOk
    <3>8. k <= l /\ g.sentPackets = d.sentPackets
      BY <1>2, <3>1, <3>2 DEF Answers
    <3> QED
      BY <1>1, <1>5, <3>2, <3>3, <3>5, <3>7, <3>8, HalfAdvances
  <2>2. CASE p.kind # "FIN" /\ l = k /\ \E j \in 1..k : p = ps[j]
    <3>1. PICK j \in 1..k : p = ps[j]
      BY <2>2
    <3>2. p.seq < d.ackNum
      <4>1. j \in 1..Len(ps) /\ j - 1 \in 0..Len(ps) /\ j - 1 < k
        BY <1>2
      <4>2. p.seq = SeqEnd(e, ps, j - 1)
        BY <1>2, <3>1, <4>1 DEF Chain
      <4> QED
        BY <1>2, <1>10, <4>1, <4>2, ChainGrows
    <3>3. /\ Answers(g, d, p)
          /\ g.nextSeqExpected = d.nextSeqExpected /\ g.ackNum = d.ackNum
          /\ g.ourWindow = d.ourWindow /\ g.up = d.up
      BY <1>3, <3>2, ReceivesOld, Zenon
    <3>4. in \o g.up = z
      BY <1>9, <3>3
    <3>5. ReceiverOk(e, g.nextSeqExpected, g.ackNum, z, ps, l)
      BY <1>10, <2>2, <3>3 DEF ReceiverOk
    <3>6. k <= l /\ g.sentPackets = d.sentPackets
      BY <1>2, <2>2, <3>3 DEF Answers
    <3>7. op => g.ourWindow = d.ourWindow /\ Eof \notin Range(z)
      BY <1>7, <1>9, <3>3 DEF OpenOk
    <3> QED
      BY <1>1, <1>5, <3>3, <3>4, <3>5, <3>6, <3>7, HalfAdvances
  <2>3. CASE p.kind = "DATA" /\ l = k + 1 /\ p = ps[l]
    <3>1. l \in 1..Len(ps) /\ l - 1 = k
      BY <1>2, <2>3
    <3>2. /\ p.seq = SeqEnd(e, ps, k) /\ p.off = OffEnd(ps, k) /\ p.len \in Nat /\ p.len > 0
          /\ SeqEnd(e, ps, l) = AckNumOf(p) /\ OffEnd(ps, l) = p.off + p.len
      <4>1. p.seq = SeqEnd(e, ps, l - 1) /\ p.off = OffEnd(ps, l - 1) /\ p.len \in 1..MaxData
        BY <1>2, <2>3, <3>1 DEF Chain
      <4>2. l # 0
        BY <3>1
      <4>3. p.len \in Nat /\ p.len > 0
        BY <4>1, Sizes
      <4>4. SeqEnd(e, ps, l) = AckNumOf(p) /\ OffEnd(ps, l) = p.off + p.len
        BY <2>3, <4>2 DEF SeqEnd, OffEnd
      <4> QED
        BY <3>1, <4>1, <4>3, <4>4
    <3>3. /\ Answers(g, d, p)
          /\ g.nextSeqExpected = AckNumOf(p) /\ g.ackNum = AckNumOf(p)
          /\ g.ourWindow = d.ourWindow
          /\ g.up = Append(d.up, [off |-> p.off, len |-> p.len])
      <4>1. p.seq = d.nextSeqExpected /\ d.ackNum = d.nextSeqExpected
        BY <1>10, <3>2
      <4> QED
        BY <1>3, <2>3, <4>1, ReceivesNew, Zenon
    <3>4. PICK x \in Chunk : x = [off |-> p.off, len |-> p.len]
      BY <1>3 DEF Chunk, Packet
    <3>5. x.off = OffEnd(ps, k) /\ x.len = p.len /\ x # Eof
      BY <3>2, <3>4 DEF Eof
    <3>6. in \o g.up = Append(z, x)
      <4>1. in \o Append(d.up, x) = Append(in \o d.up, x)
        <5>1. PICK y \in Seq(Chunk) : y = d.up
          BY <1>8, Zenon
        <5>2. in \o Append(y, x) = Append(in \o y, x)
          BY JoinAppend
        <5> QED
          BY <5>1, <5>2, Zenon
      <4> QED
        BY <1>9, <3>3, <3>4, <4>1, Zenon
    <3>7. Reads(Append(z, x)) = Prefix(OffEnd(ps, l))
      <4>1. Reads(Append(z, x)) = Reads(z) \o Bytes(x)
        BY ReadsMore
      <4>2. Prefix(OffEnd(ps, k)) \o Bytes(x) = Prefix(OffEnd(ps, k) + x.len)
        BY <1>11, <3>5, PrefixMore
      <4> QED
        BY <1>10, <3>2, <3>5, <4>1, <4>2
    <3>8. Eof \notin Range(Append(z, x))
      <4>1. Range(Append(z, x)) = Range(z) \cup {x}
        BY RangeAppend
      <4>2. k # Len(ps)
        BY <1>2, <3>1
      <4> QED
        BY <1>10, <3>5, <4>1, <4>2
    <3>9. ReceiverOk(e, g.nextSeqExpected, g.ackNum, Append(z, x), ps, l)
      BY <3>2, <3>3, <3>7, <3>8 DEF ReceiverOk
    <3>10. k <= l /\ g.sentPackets = d.sentPackets
      BY <1>2, <2>3, <3>3 DEF Answers
    <3> QED
      BY <1>1, <1>5, <3>3, <3>6, <3>8, <3>9, <3>10, HalfAdvances
  <2> QED
    <3>1. p.kind # "FIN" => p.kind = "DATA" /\ \E j \in 1..l :
                              p = ps[j] /\ ((j <= k /\ l = k) \/ (j = k + 1 /\ l = j))
      BY <1>5 DEF Brings
    <3> QED
      BY <2>1, <2>2, <2>3, <3>1
<1>13. Answers(g, d, p) /\ g \in Context
  BY <1>12 DEF Answers
<1>14. Half(e, c, g, Tail(w), (v \o d.out) \o <<AckOf(g)>>, in \o g.up, tk, gv, op)
  <2>1. v \o d.out \in Seq(Packet) /\ <<AckOf(g)>> \in Seq(Packet) /\ Range(<<AckOf(g)>>) = {AckOf(g)}
    BY <1>13, AnswerSent
  <2>2. AckOf(g).win = g.ourWindow /\ AckOf(g).ack = g.ackNum
    BY DEF AckOf
  <2>3. PICK vv \in Seq(Packet), qs \in Seq(Packet) : vv = v \o d.out /\ qs = <<AckOf(g)>>
    BY <2>1, Zenon
  <2>4. SendsBack(g, g, qs)
    BY <2>1, <2>2, <2>3 DEF SendsBack
  <2>5. Half(e, c, g, Tail(w), vv, in \o g.up, tk, gv, op)
    BY <1>12, <2>3
  <2>6. Half(e, c, g, Tail(w), vv \o qs, in \o g.up, tk, gv, op)
    BY <1>13, <2>4, <2>5, HalfReceiverSends, Zenon
  <2> QED
    BY <2>3, <2>6
<1>15. v \o g.out = (v \o d.out) \o <<AckOf(g)>>
  BY <1>13, AnswerSent
<1> QED
  BY <1>13, <1>14, <1>15

\* The entries of a sender that heard p: the packets it kept, and only an ACK marks
\* one of them that ends at the acknowledged number, and those before it.
MarkedBy(es, i, p) ==
  p.kind = "ACK" /\ \E m \in DOMAIN es : /\ AckNumOf(es[m].pkt) = p.ack
                                         /\ i = m \/ es[i].pkt.seq < es[m].pkt.seq

Heard(g, c, p) ==
  /\ g.seq = c.seq /\ g.theirWindow = MinOf(RecvLen, p.win)
  /\ Len(g.sentPackets) = Len(c.sentPackets)
  /\ \A i \in DOMAIN c.sentPackets :
       /\ g.sentPackets[i].pkt = c.sentPackets[i].pkt
       /\ \/ g.sentPackets[i].ackd = c.sentPackets[i].ackd
          \/ g.sentPackets[i].ackd = TRUE /\ MarkedBy(c.sentPackets, i, p)

LEMMA HearsAck ==
  ASSUME NEW c \in Context, NEW p \in Packet, p.kind = "ACK", NEW g, g = HandleNetwork(c, p)
  PROVE  /\ g \in Context /\ Heard(g, c, p)
         /\ g.nextSeqExpected = c.nextSeqExpected /\ g.ackNum = c.ackNum /\ g.ourWindow = c.ourWindow
         /\ g.out = c.out /\ g.up = c.up
<1>1. PICK h : h = [c EXCEPT !.ourWindow = @ - TotalLen(p), !.theirWindow = MinOf(RecvLen, p.win)]
  OBVIOUS
<1>2. /\ h \in Context
      /\ h = [c EXCEPT !.ourWindow = h.ourWindow, !.theirWindow = h.theirWindow]
      /\ h.theirWindow = MinOf(RecvLen, p.win)
      /\ Returned(h, p) = [h EXCEPT !.ourWindow = c.ourWindow]
  <2>1. Hears(h, c, p)
    BY <1>1, HearsType, Zenon
  <2> QED
    BY <2>1, Zenon DEF Hears
<1>3. PICK es \in Seq(Entry) : es = c.sentPackets
  BY DEF Context
<1>4. h.sentPackets = es
  BY <1>2, <1>3 DEF Context
<1> DEFINE match == {i \in DOMAIN es : AckNumOf(es[i].pkt) = p.ack}
           acked == IF match = {} THEN {}
                    ELSE LET m == es[Min(match)].pkt
                         IN  {Min(match)} \cup {i \in DOMAIN es : es[i].pkt.seq < m.seq}
<1>5. PICK ts : ts = [i \in DOMAIN es |-> IF i \in acked THEN [es[i] EXCEPT !.ackd = TRUE] ELSE es[i]]
  OBVIOUS
<1>6. g = [Returned(h, p) EXCEPT !.sentPackets = ts]
  <2>1. g = ReceiveAck(h, p)
    BY <1>1, Zenon DEF HandleNetwork
  <2>2. Returned(h, p).sentPackets = es
    BY <1>2, <1>4 DEF Context
  <2>3. ReceiveAck(h, p) = [Returned(h, p) EXCEPT !.sentPackets =
           [i \in DOMAIN @ |-> IF i \in acked THEN [@[i] EXCEPT !.ackd = TRUE] ELSE @[i]]]
    BY <1>4 DEF ReceiveAck
  <2> HIDE DEF acked
  <2> QED
    BY <1>5, <2>1, <2>2, <2>3
<1>7. PICK n \in Nat : n = Len(es)
  OBVIOUS
<1>8. \A i \in 1..n : es[i] \in Entry
  BY <1>7
<1>9. \A i \in 1..n : i \in acked => MarkedBy(es, i, p)
  <2> SUFFICES ASSUME NEW i \in 1..n, i \in acked
               PROVE  MarkedBy(es, i, p)
    OBVIOUS
  <2>1. match # {} /\ match \in SUBSET (1..n)
    BY <1>7
  <2>2. Min(match) \in match
    <3> HIDE DEF match
    <3>1. \E x \in match : \A y \in match : x <= y
      BY <2>1, SmallestOf, Zenon
    <3> QED
      BY <3>1, Zenon DEF Min
  <2>3. PICK m \in match : m = Min(match)
    BY <2>2
  <2>4. m \in DOMAIN es /\ AckNumOf(es[m].pkt) = p.ack
    OBVIOUS
  <2>5. i = m \/ es[i].pkt.seq < es[m].pkt.seq
    BY <2>1, <2>3
  <2> QED
    BY <2>4, <2>5 DEF MarkedBy
<1> HIDE DEF acked
<1>10. ts \in Seq(Entry) /\ Len(ts) = n
  <2>1. ASSUME NEW i \in 1..n
        PROVE  ts[i] \in Entry
    <3>1. ts[i] = IF i \in acked THEN [es[i] EXCEPT !.ackd = TRUE] ELSE es[i]
      <4>1. i \in DOMAIN es
        BY <1>7
      <4> QED
        BY <1>5, <4>1, Zenon
    <3>2. es[i] \in Entry
      BY <1>8
    <3>3. [es[i] EXCEPT !.ackd = TRUE] \in Entry
      BY <3>2 DEF Entry
    <3> QED
      BY <3>1, <3>2, <3>3
  <2>2. ts = [i \in 1..n |-> ts[i]]
    BY <1>5, <1>7
  <2> QED
    BY <2>1, <2>2
<1>11. PICK z \in Int : z = c.ourWindow
  BY DEF Context
<1>12. g = [h EXCEPT !.ourWindow = z, !.sentPackets = ts]
  BY <1>2, <1>6, <1>11
<1>13. /\ g \in Context /\ g.sentPackets = ts /\ g.theirWindow = h.theirWindow /\ g.ourWindow = z
       /\ g.seq = h.seq /\ g.nextSeqExpected = h.nextSeqExpected /\ g.ackNum = h.ackNum
       /\ g.out = h.out /\ g.up = h.up
  BY <1>2, <1>10, <1>12 DEF Context
<1>14. /\ h.seq = c.seq /\ h.nextSeqExpected = c.nextSeqExpected /\ h.ackNum = c.ackNum
       /\ h.out = c.out /\ h.up = c.up
  BY <1>2 DEF Context
<1>15. ASSUME NEW i \in DOMAIN es
       PROVE  /\ ts[i].pkt = es[i].pkt
              /\ \/ ts[i].ackd = es[i].ackd
                 \/ ts[i].ackd = TRUE /\ MarkedBy(es, i, p)
  <2>1. es[i] \in Entry /\ i \in 1..n
    BY <1>7, <1>8
  <2>2. CASE i \in acked
    <3>1. ts[i] = [es[i] EXCEPT !.ackd = TRUE]
      BY <1>5, <2>2
    <3> QED
      BY <1>9, <2>1, <2>2, <3>1 DEF Entry
  <2>3. CASE i \notin acked
    BY <1>5, <2>3
  <2> QED
    BY <2>2, <2>3
<1>16. Heard(g, c, p)
  BY <1>2, <1>3, <1>7, <1>10, <1>13, <1>14, <1>15 DEF Heard
<1> QED
  BY <1>11, <1>13, <1>14, <1>16

\* A packet that is no ACK marks nothing.
LEMMA HearsOther ==
  ASSUME NEW c, NEW p, NEW g, Answers(g, c, p)
  PROVE  Heard(g, c, p)
BY DEF Answers, Heard

\* The sender's side of a direction when a packet is taken.
LEMMA HalfHears ==
  ASSUME NEW e \in Endpoint, NEW c \in Context, NEW d, NEW w, NEW v \in Seq(Packet), v # <<>>, NEW in,
         NEW tk, NEW gv, NEW op \in BOOLEAN, Half(e, c, d, w, v, in, tk, gv, op),
         NEW g \in Context, Heard(g, c, Head(v))
  PROVE  Half(e, g, d, w, Tail(v), in, tk, gv, op)
<1>1. PICK ps, k : HalfBy(e, c, d, w, v, in, tk, gv, op, ps, k)
  BY Zenon DEF Half
<1>2. Chain(e, ps) /\ k \in 0..Len(ps) /\ ps \in Seq(Packet) /\ Len(ps) \in Nat
  BY <1>1 DEF HalfBy, Chain
<1>3. PICK p \in Packet : p = Head(v) /\ p \in Range(v)
  BY RangeHeadTail
<1>4. \A q \in Range(Tail(v)) : q \in Range(v)
  BY RangeHeadTail
<1>5. PICK es \in Seq(Entry) : es = c.sentPackets
  BY DEF Context
<1>6. PICK ts \in Seq(Entry) : ts = g.sentPackets
  BY DEF Context
<1>7. /\ g.seq = c.seq /\ g.theirWindow = MinOf(RecvLen, p.win)
      /\ Len(ts) = Len(es)
      /\ \A i \in DOMAIN es : /\ ts[i].pkt = es[i].pkt
                              /\ \/ ts[i].ackd = es[i].ackd
                                 \/ ts[i].ackd = TRUE /\ MarkedBy(es, i, p)
  BY <1>3, <1>5, <1>6 DEF Heard
<1>8. DOMAIN ts = DOMAIN es
  BY <1>7
<1>9. \A i \in DOMAIN es : es[i] \in Range(es) /\ es[i] \in Entry
  BY RangeType
<1>10. SenderOk(e, c.seq, es, tk, gv, ps, k) /\ AcksOk(e, v, ps, k)
  BY <1>1, <1>5 DEF HalfBy
<1>11. \A i \in DOMAIN es : EntryOk(e, es[i], ps, k)
  BY <1>9, <1>10, Zenon DEF SenderOk
<1>12. ASSUME NEW i \in DOMAIN es, MarkedBy(es, i, p)
       PROVE  \E j \in 1..Len(ps) : es[i].pkt = ps[j] /\ j <= k
  <2>1. PICK m \in DOMAIN es : /\ AckNumOf(es[m].pkt) = p.ack
                               /\ i = m \/ es[i].pkt.seq < es[m].pkt.seq
    BY <1>12 DEF MarkedBy
  <2>2. PICK a \in 0..k : p.ack = SeqEnd(e, ps, a)
    BY <1>3, <1>10, <1>12 DEF AcksOk, MarkedBy
  <2>3. a \in 0..Len(ps) /\ Len(ps) \in 0..Len(ps)
    BY <1>2
  <2>4. SeqEnd(e, ps, a) <= SeqEnd(e, ps, Len(ps))
    BY <1>2, <2>3, ChainEnds
  <2>5. SeqEnd(e, ps, a) \in Nat /\ SeqEnd(e, ps, Len(ps)) \in Nat
    BY <1>2, <2>3, ChainType
  <2>6. es[m].pkt \in Packet /\ es[i].pkt \in Packet
    BY <1>9 DEF Entry
  <2>7. PICK b \in 1..Len(ps) : es[m].pkt = ps[b]
    <3>1. es[m].pkt.seq # SeqEnd(e, ps, Len(ps))
      <4>1. p.ack = es[m].pkt.seq + (HeaderLen + es[m].pkt.len)
        BY <2>1 DEF AckNumOf, TotalLen
      <4>2. PICK q \in Packet : q = es[m].pkt
        BY <2>6, Zenon
      <4>3. q.seq \in Nat /\ q.len \in Nat /\ HeaderLen \in Nat /\ HeaderLen > 0
        BY <4>2, Sizes DEF Packet
      <4>4. PICK last \in Nat : last = SeqEnd(e, ps, Len(ps))
        BY <2>5, Zenon
      <4>5. q.seq + (HeaderLen + q.len) <= last
        BY <2>2, <2>4, <4>1, <4>2, <4>4, Zenon
      <4>6. q.seq # last
        BY <4>3, <4>5
      <4> QED
        BY <4>2, <4>4, <4>6, Zenon
    <3> QED
      BY <1>11, <3>1 DEF EntryOk
  <2>8. b \in 0..Len(ps) /\ SeqEnd(e, ps, b) = AckNumOf(ps[b])
    <3>1. b # 0 /\ b \in 0..Len(ps)
      BY <1>2
    <3> QED
      BY <3>1 DEF SeqEnd
  <2>9. b <= k
    <3>1. SeqEnd(e, ps, b) <= SeqEnd(e, ps, a)
      BY <2>1, <2>2, <2>5, <2>7, <2>8
    <3>2. b <= a
      BY <1>2, <2>3, <2>8, <3>1, ChainEnds
    <3> QED
      BY <1>2, <3>2
  <2>10. CASE i = m
    BY <2>7, <2>9, <2>10
  <2>11. CASE es[i].pkt.seq < es[m].pkt.seq
    <3>1. b - 1 \in 0..Len(ps) /\ es[m].pkt.seq = SeqEnd(e, ps, b - 1)
      BY <1>2, <2>7 DEF Chain
    <3>2. /\ SeqEnd(e, ps, b - 1) <= SeqEnd(e, ps, Len(ps)) /\ SeqEnd(e, ps, b - 1) \in Nat
      <4>1. b - 1 <= Len(ps)
        BY <1>2
      <4> QED
        BY <1>2, <2>3, <3>1, <4>1, ChainEnds, ChainType
    <3>3. es[i].pkt.seq # SeqEnd(e, ps, Len(ps))
      BY <2>5, <2>11, <3>1, <3>2
    <3>4. PICK j \in 1..Len(ps) : es[i].pkt = ps[j]
      BY <1>11, <3>3 DEF EntryOk
    <3>5. j - 1 \in 0..Len(ps) /\ es[i].pkt.seq = SeqEnd(e, ps, j - 1)
      BY <1>2, <3>4 DEF Chain
    <3>6. SeqEnd(e, ps, j - 1) <= SeqEnd(e, ps, b - 1)
      <4>1. SeqEnd(e, ps, j - 1) \in Nat
        BY <1>2, <3>5, ChainType
      <4> QED
        BY <2>11, <3>1, <3>2, <3>5, <4>1
    <3>7. j - 1 <= b - 1
      BY <1>2, <3>1, <3>5, <3>6, ChainEnds
    <3>8. j <= k
      BY <1>2, <2>9, <3>7
    <3> QED
      BY <3>4, <3>8
  <2> QED
    BY <2>1, <2>10, <2>11
<1>13. ASSUME NEW i \in DOMAIN es
       PROVE  EntryOk(e, ts[i], ps, k)
  <2>1. CASE MarkedBy(es, i, p)
    <3>1. PICK j \in 1..Len(ps) : es[i].pkt = ps[j] /\ j <= k
      BY <1>12, <2>1
    <3> QED
      BY <1>7, <3>1 DEF EntryOk
  <2>2. CASE ~MarkedBy(es, i, p)
    <3>1. ts[i].pkt = es[i].pkt /\ ts[i].ackd = es[i].ackd
      BY <1>7, <2>2
    <3> QED
      BY <1>11, <3>1 DEF EntryOk
  <2> QED
    BY <2>1, <2>2
<1>14. \A x \in Range(ts) : EntryOk(e, x, ps, k)
  BY <1>8, <1>13 DEF Range
<1>15. ASSUME NEW j \in (k + 1)..Len(ps)
       PROVE  ps[j].off \in gv \/ \E x \in Range(ts) : x.pkt = ps[j] /\ ~x.ackd
  <2>1. CASE ps[j].off \in gv
    BY <2>1
  <2>2. CASE ~(ps[j].off \in gv)
    <3>1. PICK y \in Range(es) : y.pkt = ps[j] /\ ~y.ackd
      BY <1>10, <2>2, Zenon DEF SenderOk
    <3>2. PICK i \in DOMAIN es : es[i] = y
      BY DEF Range
    <3>3. ~MarkedBy(es, i, p)
      <4> SUFFICES ASSUME MarkedBy(es, i, p)
                   PROVE  FALSE
        OBVIOUS
      <4>1. PICK b \in 1..Len(ps) : es[i].pkt = ps[b] /\ b <= k
        BY <1>12
      <4>2. j \in 1..Len(ps) /\ b - 1 \in 0..Len(ps) /\ j - 1 \in 0..Len(ps) /\ b - 1 < j - 1
        BY <1>2, <4>1
      <4>3. SeqEnd(e, ps, b - 1) < SeqEnd(e, ps, j - 1)
        BY <1>2, <4>2, ChainGrows
      <4>4. ps[b].seq = SeqEnd(e, ps, b - 1) /\ ps[j].seq = SeqEnd(e, ps, j - 1)
        BY <1>2, <4>2 DEF Chain
      <4>5. SeqEnd(e, ps, b - 1) \in Nat
        BY <1>2, <4>2, ChainType
      <4> QED
        BY <3>1, <3>2, <4>1, <4>3, <4>4, <4>5
    <3>4. ts[i].pkt = ps[j] /\ ts[i].ackd = y.ackd /\ ts[i] \in Range(ts)
      <4>1. ts[i] \in Range(ts)
        BY <1>8 DEF Range
      <4> QED
        BY <1>7, <3>1, <3>2, <3>3, <4>1
    <3> QED
      BY <3>1, <3>4
  <2> QED
    BY <2>1, <2>2
<1>16. SenderOk(e, g.seq, ts, tk, gv, ps, k)
  <2>1. c.seq = SeqEnd(e, ps, Len(ps)) /\ tk = OffEnd(ps, Len(ps))
    BY <1>10, Zenon DEF SenderOk
  <2> QED
    BY <1>7, <1>14, <1>15, <2>1, Zenon DEF SenderOk
<1>17. AcksOk(e, Tail(v), ps, k)
  BY <1>4, <1>10, Zenon DEF AcksOk
<1>18. op => OpenOk(g, d, w, Tail(v), in)
  <2> SUFFICES ASSUME op
               PROVE  OpenOk(g, d, w, Tail(v), in)
    OBVIOUS
  <2>1. OpenOk(c, d, w, v, in)
    BY <1>1 DEF HalfBy
  <2>2. g.theirWindow = RecvLen
    <3>1. p.win = RecvLen
      BY <1>3, <2>1 DEF OpenOk
    <3> QED
      BY <1>7, <3>1 DEF MinOf
  <2>3. \A x \in Range(ts) : x.pkt.kind # "FIN"
    <3> SUFFICES ASSUME NEW i \in DOMAIN ts
                 PROVE  ts[i].pkt.kind # "FIN"
      BY DEF Range
    <3>1. es[i].pkt.kind # "FIN"
      BY <1>5, <1>8, <1>9, <2>1 DEF OpenOk
    <3> QED
      BY <1>7, <1>8, <3>1
  <2> QED
    BY <1>4, <1>6, <2>1, <2>2, <2>3 DEF OpenOk
<1>19. HalfBy(e, g, d, w, Tail(v), in, tk, gv, op, ps, k)
  BY <1>1, <1>6, <1>16, <1>17, <1>18 DEF HalfBy
<1> QED
  BY <1>19, Zenon DEF Half

-----------------------------------------------------------------------------
(* Sending                                                                 *)

\* Where a packet goes among those that are kept.
LEMMA PlaceType ==
  ASSUME NEW ps, NEW n \in Nat, DOMAIN ps = 1..n, NEW p
  PROVE  Place(ps, p) \in 1..(n + 1)
<1> DEFINE S == {i \in DOMAIN ps : ~BySeq(p, ps[i])}
<1>1. IsFiniteSet(1..n) /\ Cardinality(1..n) = n
  <2>1. 1 \in Int /\ n \in Int
    OBVIOUS
  <2>2. IsFiniteSet(1..n)
    BY <2>1, FS_Interval, Zenon
  <2>3. Cardinality(1..n) = IF 1 > n THEN 0 ELSE n - 1 + 1
    BY <2>1, FS_Interval, Zenon
  <2> QED
    BY <2>2, <2>3
<1>2. S \subseteq 1..n
  OBVIOUS
<1>3. Cardinality(S) \in Nat /\ Cardinality(S) <= n
  <2> HIDE DEF S
  <2>1. IsFiniteSet(S) /\ Cardinality(S) <= Cardinality(1..n)
    BY <1>1, <1>2, FS_Subset, Zenon
  <2>2. Cardinality(S) \in Nat
    BY <2>1, FS_CardinalityType, Zenon
  <2> QED
    BY <1>1, <2>1, <2>2
<1>4. Place(ps, p) = 1 + Cardinality(S)
  BY DEF Place
<1> QED
  BY <1>3, <1>4

NewEntry(p) == [pkt |-> p, numTimeout |-> 0, ackd |-> FALSE]

\* A context after a new packet was sent, but for its state and its number.
SentNew(g, c, p) ==
  /\ g \in Context /\ g.out = Append(c.out, p)
  /\ Range(g.sentPackets) = Range(c.sentPackets) \cup {NewEntry(p)}
  /\ g.nextSeqExpected = c.nextSeqExpected /\ g.ackNum = c.ackNum
  /\ g.ourWindow = c.ourWindow /\ g.theirWindow = c.theirWindow
  /\ g.up = c.up

LEMMA SendsPacket ==
  ASSUME NEW c \in Context, NEW p \in Packet,
         \A x \in Range(c.sentPackets) : AckNumOf(x.pkt) # AckNumOf(p),
         NEW g, g = SendPacket(c, p)
  PROVE  SentNew(g, c, p) /\ g.seq = c.seq
<1>1. PICK es \in Seq(Entry) : es = c.sentPackets
  BY DEF Context
<1>2. PICK n \in Nat : n = Len(es)
  OBVIOUS
<1>3. PICK x \in Entry : x = NewEntry(p)
  <2>1. NewEntry(p) \in Entry
    BY DEF NewEntry, Entry
  <2> QED
    BY <2>1, Zenon
<1>4. PICK i \in 1..(Len(es) + 1) : i = Place(Pkts(es), p)
  <2>1. DOMAIN Pkts(es) = 1..n
    BY <1>2 DEF Pkts
  <2>2. Place(Pkts(es), p) \in 1..(n + 1)
    BY <2>1, PlaceType
  <2> QED
    BY <1>2, <2>2
<1>5. PICK ts \in Seq(Entry) : ts = InsertAt(es, i, x) /\ Range(ts) = Range(es) \cup {x}
  <2>1. InsertAt(es, i, x) \in Seq(Entry) /\ Range(InsertAt(es, i, x)) = Range(es) \cup {x}
    BY InsertType
  <2> QED
    BY <2>1, Zenon
<1>6. PICK o \in Seq(Packet) : o = Append(c.out, p)
  <2>1. c.out \in Seq(Packet)
    BY DEF Context
  <2>2. Append(c.out, p) \in Seq(Packet)
    BY <2>1
  <2> QED
    BY <2>2, Zenon
<1>7. PICK d : d = [c EXCEPT !.sentPackets = ts]
  OBVIOUS
<1>8. d \in Context /\ d.out = c.out
  BY <1>7 DEF Context
<1>9. g = Emit(d, p)
  <2>1. ~\E j \in DOMAIN c.sentPackets : AckNumOf(c.sentPackets[j].pkt) = AckNumOf(p)
    BY DEF Range
  <2>2. d = [c EXCEPT !.sentPackets = InsertAt(@, Place(Pkts(@), p), NewEntry(p))]
    BY <1>1, <1>3, <1>4, <1>5, <1>7
  <2> QED
    BY <2>1, <2>2, Zenon DEF SendPacket, NewEntry
<1>10. g = [d EXCEPT !.out = o]
  BY <1>6, <1>8, <1>9 DEF Emit
<1>11. g = [c EXCEPT !.sentPackets = ts, !.out = o]
  BY <1>7, <1>10
<1>12. g \in Context /\ g.sentPackets = ts /\ g.out = o
  BY <1>5, <1>6, <1>11 DEF Context
<1>13. /\ g.seq = c.seq /\ g.nextSeqExpected = c.nextSeqExpected /\ g.ackNum = c.ackNum
       /\ g.ourWindow = c.ourWindow /\ g.theirWindow = c.theirWindow /\ g.up = c.up
  BY <1>11 DEF Context
<1> QED
  BY <1>1, <1>3, <1>5, <1>6, <1>12, <1>13 DEF SentNew

\* No packet of an open direction that is kept ends above the sender's number.
LEMMA EntriesBelow ==
  ASSUME NEW e \in Endpoint, NEW c \in Context, NEW d, NEW w, NEW v, NEW in, NEW tk, NEW gv, NEW ps, NEW k,
         HalfBy(e, c, d, w, v, in, tk, gv, TRUE, ps, k), NEW p \in Packet, p.seq = c.seq
  PROVE  \A x \in Range(c.sentPackets) : AckNumOf(x.pkt) # AckNumOf(p)
<1> SUFFICES ASSUME NEW x \in Range(c.sentPackets)
             PROVE  AckNumOf(x.pkt) # AckNumOf(p)
  OBVIOUS
<1>1. Chain(e, ps) /\ Len(ps) \in Nat /\ SenderOk(e, c.seq, c.sentPackets, tk, gv, ps, k)
  BY DEF HalfBy, Chain
<1>2. c.seq = SeqEnd(e, ps, Len(ps)) /\ EntryOk(e, x, ps, k)
  BY <1>1, Zenon DEF SenderOk
<1>3. x.pkt.kind # "FIN"
  BY DEF HalfBy, OpenOk
<1>4. PICK j \in 1..Len(ps) : x.pkt = ps[j]
  BY <1>2, <1>3, Zenon DEF EntryOk
<1>5. j # 0 /\ j \in 0..Len(ps) /\ Len(ps) \in 0..Len(ps) /\ j <= Len(ps)
  BY <1>1
<1>6. SeqEnd(e, ps, j) <= c.seq /\ SeqEnd(e, ps, j) \in Nat
  BY <1>1, <1>2, <1>5, ChainEnds, ChainType
<1>7. AckNumOf(x.pkt) = SeqEnd(e, ps, j)
  BY <1>4, <1>5 DEF SeqEnd
<1>8. AckNumOf(p) = c.seq + (HeaderLen + p.len) /\ c.seq \in Nat /\ p.len \in Nat
  BY DEF AckNumOf, TotalLen, Context, Packet
<1> QED
  BY <1>6, <1>7, <1>8, Sizes

\* A piece goes out: the chain gets longer.
LEMMA HalfPiece ==
  ASSUME NEW e \in Endpoint, NEW c \in Context, NEW d, NEW w \in Seq(Packet), NEW v, NEW in, NEW tk \in Nat,
         NEW gv, Half(e, c, d, w, v, in, tk, gv, TRUE),
         NEW p \in Packet, p.kind = "DATA", p.seq = c.seq, p.off = tk, p.len \in 1..MaxData,
         NEW g, SentNew(g, c, p), g.seq = AckNumOf(p)
  PROVE  Half(e, g, d, Append(w, p), v, in, tk + p.len, gv, TRUE)
<1>1. PICK ps, k : HalfBy(e, c, d, w, v, in, tk, gv, TRUE, ps, k)
  BY Zenon DEF Half
<1>2. PICK n \in Nat : n = Len(ps)
  BY <1>1 DEF HalfBy, Chain
<1>3. Chain(e, ps) /\ k \in 0..n
  BY <1>1, <1>2 DEF HalfBy
<1>4. SenderOk(e, c.seq, c.sentPackets, tk, gv, ps, k) /\ ReceiverOk(e, d.nextSeqExpected, d.ackNum, in, ps, k)
  BY <1>1, Zenon DEF HalfBy
<1>5. Flow(e, w, ps, k) /\ AcksOk(e, v, ps, k) /\ OpenOk(c, d, w, v, in)
  BY <1>1 DEF HalfBy
<1>6. c.seq = SeqEnd(e, ps, n) /\ tk = OffEnd(ps, n)
  BY <1>2, <1>4, Zenon DEF SenderOk
<1>7. NextPiece(e, ps, p)
  BY <1>2, <1>6 DEF NextPiece
<1>8. PICK t : t = Append(ps, p)
  OBVIOUS
<1>9. /\ Chain(e, t) /\ Len(t) = n + 1 /\ t[n + 1] = p
      /\ \A j \in 1..n : t[j] = ps[j]
      /\ \A j \in 0..n : SeqEnd(e, t, j) = SeqEnd(e, ps, j) /\ OffEnd(t, j) = OffEnd(ps, j)
  BY <1>2, <1>3, <1>7, <1>8, ChainMore
<1>10. SeqEnd(e, t, n + 1) = AckNumOf(p) /\ OffEnd(t, n + 1) = tk + p.len
  <2>1. n + 1 # 0
    OBVIOUS
  <2> QED
    BY <1>9, <2>1 DEF SeqEnd, OffEnd
<1>11. \A q \in Range(w) : q.kind # "FIN"
  BY <1>5 DEF OpenOk
<1>12. Flow(e, Append(w, p), t, k)
  BY <1>3, <1>5, <1>7, <1>8, <1>11, FlowPiece
<1>13. Range(g.sentPackets) = Range(c.sentPackets) \cup {NewEntry(p)}
  BY DEF SentNew
<1>14. NewEntry(p).pkt = p /\ ~NewEntry(p).ackd
  BY DEF NewEntry
<1>15. SenderOk(e, g.seq, g.sentPackets, tk + p.len, gv, t, k)
  <2>1. ASSUME NEW x \in Range(g.sentPackets)
        PROVE  EntryOk(e, x, t, k)
    <3>1. CASE x = NewEntry(p)
      <4>1. x.pkt = t[n + 1] /\ ~x.ackd /\ n + 1 \in 1..Len(t)
        BY <1>9, <1>14, <3>1
      <4> QED
        BY <4>1 DEF EntryOk
    <3>2. CASE x \in Range(c.sentPackets)
      <4>1. EntryOk(e, x, ps, k) /\ x.pkt.kind # "FIN"
        BY <1>4, <1>5, <3>2 DEF SenderOk, OpenOk
      <4>2. PICK j \in 1..n : x.pkt = ps[j] /\ (x.ackd => j <= k)
        BY <1>2, <4>1 DEF EntryOk
      <4>3. j \in 1..Len(t) /\ x.pkt = t[j]
        BY <1>9, <4>2
      <4> QED
        BY <4>2, <4>3 DEF EntryOk
    <3> QED
      BY <1>13, <3>1, <3>2
  <2>2. ASSUME NEW j \in (k + 1)..Len(t)
        PROVE  t[j].off \in gv \/ \E x \in Range(g.sentPackets) : x.pkt = t[j] /\ ~x.ackd
    <3>1. CASE j = n + 1
      BY <1>9, <1>13, <1>14, <3>1
    <3>2. CASE j # n + 1
      <4>1. j \in (k + 1)..Len(ps) /\ j \in 1..n
        BY <1>2, <1>3, <1>9, <3>2
      <4>2. ps[j].off \in gv \/ \E x \in Range(c.sentPackets) : x.pkt = ps[j] /\ ~x.ackd
        BY <1>4, <4>1, Zenon DEF SenderOk
      <4> QED
        BY <1>9, <1>13, <4>1, <4>2
    <3> QED
      BY <3>1, <3>2
  <2>3. g.seq = SeqEnd(e, t, Len(t)) /\ tk + p.len = OffEnd(t, Len(t))
    BY <1>9, <1>10
  <2> QED
    BY <2>1, <2>2, <2>3, Zenon DEF SenderOk
<1>16. ReceiverOk(e, d.nextSeqExpected, d.ackNum, in, t, k)
  <2>1. Eof \notin Range(in)
    BY <1>5 DEF OpenOk
  <2>2. /\ d.nextSeqExpected = SeqEnd(e, ps, k) /\ d.ackNum = d.nextSeqExpected
        /\ Reads(in) = Prefix(OffEnd(ps, k))
    BY <1>4 DEF ReceiverOk
  <2>3. SeqEnd(e, t, k) = SeqEnd(e, ps, k) /\ OffEnd(t, k) = OffEnd(ps, k)
    BY <1>3, <1>9
  <2> QED
    BY <2>1, <2>2, <2>3 DEF ReceiverOk
<1>17. AcksOk(e, v, t, k)
  <2>1. \A j \in 0..k : SeqEnd(e, t, j) = SeqEnd(e, ps, j)
    BY <1>3, <1>9
  <2> QED
    BY <1>5, <2>1 DEF AcksOk
<1>18. OpenOk(g, d, Append(w, p), v, in)
  <2>1. \A x \in Range(g.sentPackets) : x.pkt.kind # "FIN"
    BY <1>5, <1>13, <1>14 DEF OpenOk
  <2>2. \A q \in Range(Append(w, p)) : q.kind # "FIN"
    <3>1. Range(Append(w, p)) = Range(w) \cup {p}
      BY RangeAppend
    <3> QED
      BY <1>11, <3>1
  <2> QED
    BY <1>5, <2>1, <2>2 DEF OpenOk, SentNew
<1>19. HalfBy(e, g, d, Append(w, p), v, in, tk + p.len, gv, TRUE, t, k)
  <2>1. k \in 0..Len(t)
    BY <1>3, <1>9
  <2> QED
    BY <1>9, <1>12, <1>15, <1>16, <1>17, <1>18, <2>1 DEF HalfBy
<1> QED
  BY <1>19, Zenon DEF Half

\* The FIN goes out: the direction is no longer open.
LEMMA HalfFin ==
  ASSUME NEW e \in Endpoint, NEW c \in Context, NEW d, NEW w \in Seq(Packet), NEW v, NEW in, NEW tk,
         NEW gv, Half(e, c, d, w, v, in, tk, gv, TRUE),
         NEW p \in Packet, p.kind = "FIN", p.seq = c.seq,
         NEW g, SentNew(g, c, p), g.seq = c.seq
  PROVE  Half(e, g, d, Append(w, p), v, in, tk, gv, FALSE)
<1>1. PICK ps, k : HalfBy(e, c, d, w, v, in, tk, gv, TRUE, ps, k)
  BY Zenon DEF Half
<1>2. Chain(e, ps) /\ k \in 0..Len(ps) /\ ps \in Seq(Packet)
  BY <1>1 DEF HalfBy, Chain
<1>3. SenderOk(e, c.seq, c.sentPackets, tk, gv, ps, k) /\ Flow(e, w, ps, k)
  BY <1>1, Zenon DEF HalfBy
<1>4. c.seq = SeqEnd(e, ps, Len(ps)) /\ tk = OffEnd(ps, Len(ps))
  BY <1>3, Zenon DEF SenderOk
<1>5. Range(g.sentPackets) = Range(c.sentPackets) \cup {NewEntry(p)}
  BY DEF SentNew
<1>6. EntryOk(e, NewEntry(p), ps, k)
  BY <1>4 DEF EntryOk, NewEntry
<1>7. SenderOk(e, g.seq, g.sentPackets, tk, gv, ps, k)
  BY <1>3, <1>5, <1>6, Zenon DEF SenderOk
<1>8. Flow(e, Append(w, p), ps, k)
  <2>1. PICK qs \in Seq(Packet) : qs = <<p>>
    <3>1. <<p>> \in Seq(Packet)
      OBVIOUS
    <3> QED
      BY <3>1, Zenon
  <2>2. Append(w, p) = w \o qs
    BY <2>1, AppendIsConcat
  <2>3. Range(qs) = {p}
    BY <2>1 DEF Range
  <2>4. Brings(e, p, ps, Len(ps), Len(ps))
    BY <1>4 DEF Brings
  <2>5. \A q \in Range(qs) : Brings(e, q, ps, Len(ps), Len(ps))
    BY <2>3, <2>4
  <2> QED
    BY <1>2, <1>3, <2>2, <2>5, FlowMore
<1>9. HalfBy(e, g, d, Append(w, p), v, in, tk, gv, FALSE, ps, k)
  BY <1>1, <1>7, <1>8 DEF HalfBy
<1> QED
  BY <1>9, Zenon DEF Half
-----------------------------------------------------------------------------
(* A pass of the thread                                                    *)

Line == [wire : Seq(Packet), copy : {<<>>}, faults : {0}]
Lengths == Seq(Nat \ {0})

TypeInv ==
  /\ ctx \in [Endpoint -> Context] /\ line \in [Endpoint -> Line]
  /\ toWrite \in [Endpoint -> Lengths] /\ appQueue \in [Endpoint -> Lengths]
  /\ taken \in [Endpoint -> Nat] /\ given \in [Endpoint -> SUBSET Nat]
  /\ closeReq \in [Endpoint -> BOOLEAN] /\ closed \in [Endpoint -> BOOLEAN]
  /\ inbox \in [Endpoint -> Seq(Chunk)]

\* An end may still write until its request to close was taken.
Open(e) == ~closed[e] \/ closeReq[e]

\* Both directions while e's thread is in a pass: c is its context, w the packets on
\* the line to it, tk, gv and op say what it took and gave up and whether it is open.
Moment(e, c, w, tk, gv, op) ==
  /\ c \in Context
  /\ Half(e, c, ctx[Peer(e)], line[Peer(e)].wire \o c.out, w, inbox[Peer(e)], tk, gv, op)
  /\ Half(Peer(e), ctx[Peer(e)], c, w, line[Peer(e)].wire \o c.out, inbox[e] \o c.up,
          taken[Peer(e)], given[Peer(e)], Open(Peer(e)))

LEMMA PeerType ==
  ASSUME NEW e \in Endpoint
  PROVE  Peer(e) \in Endpoint /\ Peer(Peer(e)) = e /\ Peer(e) # e
BY DEF Endpoint, Peer

LEMMA EndType ==
  ASSUME TypeInv, NEW e \in Endpoint
  PROVE  /\ ctx[e] \in Context /\ line[e] \in Line /\ line[e].wire \in Seq(Packet)
         /\ toWrite[e] \in Lengths /\ appQueue[e] \in Lengths
         /\ taken[e] \in Nat /\ given[e] \in SUBSET Nat
         /\ closeReq[e] \in BOOLEAN /\ closed[e] \in BOOLEAN /\ Open(e) \in BOOLEAN
         /\ inbox[e] \in Seq(Chunk)
<1>1. /\ ctx[e] \in Context /\ line[e] \in Line
      /\ toWrite[e] \in Lengths /\ appQueue[e] \in Lengths
      /\ taken[e] \in Nat /\ given[e] \in SUBSET Nat
      /\ closeReq[e] \in BOOLEAN /\ closed[e] \in BOOLEAN
      /\ inbox[e] \in Seq(Chunk)
  BY Zenon DEF TypeInv
<1>2. line[e].wire \in Seq(Packet)
  BY <1>1 DEF Line
<1>3. Open(e) \in BOOLEAN
  BY DEF Open
<1> QED
  BY <1>1, <1>2, <1>3

\* The packets sent so far, with one more.
LEMMA OutMore ==
  ASSUME NEW c \in Context, NEW p \in Packet, NEW v \in Seq(Packet)
  PROVE  /\ v \o c.out \in Seq(Packet)
         /\ v \o Append(c.out, p) = Append(v \o c.out, p)
         /\ v \o Append(c.out, p) = (v \o c.out) \o <<p>>
         /\ <<p>> \in Seq(Packet) /\ Range(<<p>>) = {p}
<1>1. PICK o \in Seq(Packet) : o = c.out
  BY DEF Context
<1>2. PICK u \in Seq(Packet) : u = v \o o
  <2>1. v \o o \in Seq(Packet)
    OBVIOUS
  <2> QED
    BY <2>1, Zenon
<1>3. v \o Append(o, p) = Append(v \o o, p)
  BY JoinAppend
<1>4. Append(u, p) = u \o <<p>>
  BY AppendIsConcat
<1>5. Range(<<p>>) = {p} /\ <<p>> \in Seq(Packet)
  BY DEF Range
<1> QED
  BY <1>1, <1>2, <1>3, <1>4, <1>5

\* A new packet, in both directions.
LEMMA MomentSends ==
  ASSUME TypeInv, NEW e \in Endpoint, NEW c, NEW w \in Seq(Packet), NEW tk \in Nat, NEW gv,
         Moment(e, c, w, tk, gv, TRUE),
         NEW p \in Packet, p.seq = c.seq, p.win = c.ourWindow,
         NEW g, SentNew(g, c, p)
  PROVE  /\ p.kind = "DATA" /\ p.off = tk /\ p.len \in 1..MaxData /\ g.seq = AckNumOf(p)
              => Moment(e, g, w, tk + p.len, gv, TRUE)
         /\ p.kind = "FIN" /\ g.seq = c.seq => Moment(e, g, w, tk, gv, FALSE)
<1> DEFINE f == Peer(e)
<1>1. f \in Endpoint
  BY PeerType
<1>2. PICK u \in Seq(Packet) : u = line[f].wire
  BY <1>1, EndType
<1>3. c \in Context /\ g \in Context /\ g.out = Append(c.out, p) /\ g.up = c.up
  BY DEF Moment, SentNew
<1>4. PICK v \in Seq(Packet) : v = u \o c.out
  <2>1. u \o c.out \in Seq(Packet)
    BY <1>3, OutMore
  <2> QED
    BY <2>1, Zenon
<1>5. PICK qs \in Seq(Packet) : qs = <<p>> /\ Range(qs) = {p}
  <2>1. <<p>> \in Seq(Packet) /\ Range(<<p>>) = {p}
    BY <1>3, OutMore
  <2> QED
    BY <2>1, Zenon
<1>6. u \o g.out = Append(v, p) /\ u \o g.out = v \o qs
  <2>1. /\ u \o Append(c.out, p) = Append(u \o c.out, p)
        /\ u \o Append(c.out, p) = (u \o c.out) \o <<p>>
    BY <1>3, OutMore
  <2> QED
    BY <1>3, <1>4, <1>5, <2>1
<1>7. Half(e, c, ctx[f], v, w, inbox[f], tk, gv, TRUE)
  BY <1>2, <1>4, Zenon DEF Moment
<1>8. Half(f, ctx[f], c, w, v, inbox[e] \o c.up, taken[f], given[f], Open(f))
  BY <1>2, <1>4, Zenon DEF Moment
<1>9. ASSUME p.kind # "ACK"
      PROVE  Half(f, ctx[f], g, w, u \o g.out, inbox[e] \o g.up, taken[f], given[f], Open(f))
  <2>1. SendsBack(c, g, qs)
    <3>1. NewEntry(p).pkt = p
      BY DEF NewEntry
    <3> QED
      BY <1>5, <1>9, <3>1 DEF SendsBack, SentNew
  <2>2. Open(f) \in BOOLEAN
    BY <1>1, EndType
  <2> HIDE DEF f
  <2>3. Half(f, ctx[f], g, w, v \o qs, inbox[e] \o c.up, taken[f], given[f], Open(f))
    BY <1>1, <1>3, <1>8, <2>1, <2>2, HalfReceiverSends, Zenon
  <2> QED
    BY <1>3, <1>6, <2>3
<1>10. ASSUME p.kind = "DATA", p.off = tk, p.len \in 1..MaxData, g.seq = AckNumOf(p)
       PROVE  Moment(e, g, w, tk + p.len, gv, TRUE)
  <2>1. Half(e, g, ctx[f], Append(v, p), w, inbox[f], tk + p.len, gv, TRUE)
    <3> HIDE DEF f
    <3> QED
      BY <1>3, <1>7, <1>10, HalfPiece
  <2> QED
    BY <1>2, <1>3, <1>6, <1>9, <1>10, <2>1 DEF Moment
<1>11. ASSUME p.kind = "FIN", g.seq = c.seq
       PROVE  Moment(e, g, w, tk, gv, FALSE)
  <2>1. Half(e, g, ctx[f], Append(v, p), w, inbox[f], tk, gv, FALSE)
    <3> HIDE DEF f
    <3> QED
      BY <1>3, <1>7, <1>11, HalfFin
  <2> QED
    BY <1>2, <1>3, <1>6, <1>9, <1>11, <2>1 DEF Moment
<1> QED
  BY <1>10, <1>11

\* One piece.
PieceOf(c, off, n) ==
  [kind |-> "DATA", seq |-> c.seq, ack |-> 0, win |-> c.ourWindow, off |-> off, len |-> n]

LEMMA PieceType ==
  ASSUME NEW c \in Context, NEW off \in Nat, NEW n \in Nat, NEW p, p = PieceOf(c, off, n)
  PROVE  /\ p \in Packet
         /\ p.kind = "DATA" /\ p.seq = c.seq /\ p.win = c.ourWindow /\ p.off = off /\ p.len = n
         /\ AckNumOf(p) = c.seq + HeaderLen + n /\ AckNumOf(p) \in Nat
<1>1. p \in Packet
  BY DEF PieceOf, Packet, Context
<1>2. p.kind = "DATA" /\ p.seq = c.seq /\ p.win = c.ourWindow /\ p.off = off /\ p.len = n
  BY DEF PieceOf
<1>3. c.seq \in Nat
  BY DEF Context
<1> QED
  BY <1>1, <1>2, <1>3, Sizes DEF AckNumOf, TotalLen

LEMMA SendPieceType ==
  ASSUME NEW c \in Context, NEW off \in Nat, NEW n \in Nat
  PROVE  SendPiece(c, off, n) \in Context
<1>1. PICK p : p = PieceOf(c, off, n)
  OBVIOUS
<1>2. p \in Packet
  BY <1>1, PieceType, Zenon
<1>3. PICK q : q = SendPacket(c, p)
  OBVIOUS
<1>4. q \in Context
  <2>1. CASE \E i \in DOMAIN c.sentPackets : AckNumOf(c.sentPackets[i].pkt) = AckNumOf(p)
    <3>1. q = Emit(c, p)
      BY <1>3, <2>1, Zenon DEF SendPacket
    <3>2. c.out \in Seq(Packet)
      BY DEF Context
    <3>3. Append(c.out, p) \in Seq(Packet)
      BY <1>2, <3>2
    <3>4. PICK o \in Seq(Packet) : o = Append(c.out, p)
      BY <3>3, Zenon
    <3>5. q = [c EXCEPT !.out = o]
      BY <3>1, <3>4, Zenon DEF Emit
    <3> QED
      BY <3>5 DEF Context
  <2>2. CASE ~\E i \in DOMAIN c.sentPackets : AckNumOf(c.sentPackets[i].pkt) = AckNumOf(p)
    <3>1. \A x \in Range(c.sentPackets) : AckNumOf(x.pkt) # AckNumOf(p)
      BY <2>2, Zenon DEF Range
    <3> QED
      BY <1>2, <1>3, <3>1, SendsPacket, Zenon DEF SentNew
  <2> QED
    BY <2>1, <2>2
<1>5. SendPiece(c, off, n) = [q EXCEPT !.seq = @ + HeaderLen + n]
  BY <1>1, <1>3, Zenon DEF SendPiece, PieceOf
<1>6. PICK z \in Nat : z = q.seq + HeaderLen + n
  <2>1. q.seq \in Nat
    BY <1>4 DEF Context
  <2> QED
    BY <2>1, Sizes
<1>7. SendPiece(c, off, n) = [q EXCEPT !.seq = z]
  BY <1>5, <1>6
<1> QED
  BY <1>4, <1>7 DEF Context

LEMMA MomentPiece ==
  ASSUME TypeInv, NEW e \in Endpoint, NEW c, NEW w \in Seq(Packet), NEW tk \in Nat, NEW gv,
         Moment(e, c, w, tk, gv, TRUE), NEW n \in 1..MaxData
  PROVE  Moment(e, SendPiece(c, tk, n), w, tk + n, gv, TRUE)
<1>1. c \in Context /\ n \in Nat
  BY Sizes DEF Moment
<1>2. PICK p : p = PieceOf(c, tk, n)
  OBVIOUS
<1>3. /\ p \in Packet
      /\ p.kind = "DATA" /\ p.seq = c.seq /\ p.win = c.ourWindow /\ p.off = tk /\ p.len = n
      /\ AckNumOf(p) = c.seq + HeaderLen + n /\ AckNumOf(p) \in Nat
  <2>1. p \in Packet
    BY <1>1, <1>2, PieceType, Zenon
  <2>2. p.kind = "DATA" /\ p.seq = c.seq /\ p.win = c.ourWindow /\ p.off = tk /\ p.len = n
    BY <1>2 DEF PieceOf
  <2>3. c.seq \in Nat
    BY <1>1 DEF Context
  <2> QED
    BY <1>1, <2>1, <2>2, <2>3, Sizes DEF AckNumOf, TotalLen
<1>4. PICK q : q = SendPacket(c, p)
  OBVIOUS
<1>5. \A x \in Range(c.sentPackets) : AckNumOf(x.pkt) # AckNumOf(p)
  <2>1. PICK ps, k : HalfBy(e, c, ctx[Peer(e)], line[Peer(e)].wire \o c.out, w, inbox[Peer(e)], tk, gv, TRUE, ps, k)
    BY Zenon DEF Moment, Half
  <2> QED
    BY <1>1, <1>3, <2>1, EntriesBelow
<1>6. SentNew(q, c, p) /\ q.seq = c.seq
  BY <1>1, <1>3, <1>4, <1>5, SendsPacket, Zenon
<1>7. PICK g : g = SendPiece(c, tk, n)
  OBVIOUS
<1>8. g = [q EXCEPT !.seq = AckNumOf(p)]
  <2>1. g = [q EXCEPT !.seq = @ + HeaderLen + n]
    BY <1>2, <1>4, <1>7, Zenon DEF SendPiece, PieceOf
  <2> QED
    BY <1>3, <1>6, <2>1
<1>9. PICK z \in Nat : z = AckNumOf(p)
  BY <1>3
<1>10. q \in Context
  BY <1>6 DEF SentNew
<1>11. g = [q EXCEPT !.seq = z]
  BY <1>8, <1>9
<1>12. /\ g \in Context /\ g.seq = z /\ g.out = q.out /\ g.sentPackets = q.sentPackets
       /\ g.nextSeqExpected = q.nextSeqExpected /\ g.ackNum = q.ackNum
       /\ g.ourWindow = q.ourWindow /\ g.theirWindow = q.theirWindow /\ g.up = q.up
  BY <1>10, <1>11 DEF Context
<1>13. SentNew(g, c, p)
  BY <1>6, <1>12 DEF SentNew
<1>14. Moment(e, g, w, tk + p.len, gv, TRUE)
  BY <1>3, <1>9, <1>12, <1>13, MomentSends
<1> QED
  BY <1>3, <1>7, <1>14

\* The first i pieces of n bytes hold this many.
Upto(n, i) == MinOf(i * MaxData, n)

LEMMA PiecesOf ==
  ASSUME NEW n \in Nat, n > 0
  PROVE  \E m \in Nat : /\ m = Len(Pieces(n)) /\ Upto(n, 0) = 0 /\ Upto(n, m) = n
                        /\ \A i \in 1..m : /\ Pieces(n)[i] \in 1..MaxData
                                           /\ Upto(n, i - 1) = (i - 1) * MaxData
                                           /\ Upto(n, i) = Upto(n, i - 1) + Pieces(n)[i]
<1>1. PICK M \in Nat : M = MaxData /\ M > 0
  BY Sizes
<1>2. PICK m \in Nat : m = (n + M - 1) \div M
  BY <1>1
<1>3. m * M <= n + M - 1 /\ n + M - 1 < m * M + M
  BY <1>1, <1>2
<1>4. PICK z \in Nat : z = m * M
  BY <1>1
<1>5. n <= z /\ z < n + M
  BY <1>1, <1>3, <1>4
<1>6. Pieces(n) = [i \in 1..m |-> MinOf(M, n - (i - 1) * M)]
  BY <1>1, <1>2 DEF Pieces
<1>7. Len(Pieces(n)) = m
  BY <1>6
<1>8. Upto(n, 0) = 0
  BY <1>1 DEF Upto, MinOf
<1>9. Upto(n, m) = n
  BY <1>1, <1>4, <1>5 DEF Upto, MinOf
<1>10. ASSUME NEW i \in 1..m
       PROVE  /\ Pieces(n)[i] \in 1..MaxData
              /\ Upto(n, i - 1) = (i - 1) * MaxData
              /\ Upto(n, i) = Upto(n, i - 1) + Pieces(n)[i]
  <2>1. PICK y \in Nat : y = (i - 1) * M
    BY <1>1
  <2>2. i * M = y + M
    BY <1>1, <2>1
  <2>3. y + M <= z
    <3>1. PICK j \in Nat : m = i + j
      <4>1. m - i \in Nat /\ m = i + (m - i)
        OBVIOUS
      <4> QED
        BY <4>1
    <3>2. z = i * M + j * M /\ j * M \in Nat
      BY <1>1, <1>4, <3>1
    <3> QED
      BY <2>2, <3>2
  <2>4. y < n
    BY <1>5, <2>3
  <2>5. Pieces(n)[i] = MinOf(M, n - y)
    BY <1>6, <2>1
  <2>6. Upto(n, i - 1) = y
    BY <1>1, <2>1, <2>4 DEF Upto, MinOf
  <2>7. Upto(n, i) = MinOf(y + M, n)
    BY <1>1, <2>2 DEF Upto
  <2> QED
    BY <1>1, <2>1, <2>4, <2>5, <2>6, <2>7 DEF MinOf
<1> QED
  BY <1>7, <1>8, <1>9, <1>10

\* Bytes taken from the application go out as a list of pieces.
LEMMA MomentPacks ==
  ASSUME TypeInv, NEW e \in Endpoint, NEW c, NEW w \in Seq(Packet), NEW tk \in Nat, NEW gv,
         Moment(e, c, w, tk, gv, TRUE), NEW n \in Nat, n > 0
  PROVE  Moment(e, PackAndSend(c, tk, n), w, tk + n, gv, TRUE)
<1>1. PICK m \in Nat : /\ m = Len(Pieces(n)) /\ Upto(n, 0) = 0 /\ Upto(n, m) = n
                       /\ \A i \in 1..m : /\ Pieces(n)[i] \in 1..MaxData
                                          /\ Upto(n, i - 1) = (i - 1) * MaxData
                                          /\ Upto(n, i) = Upto(n, i - 1) + Pieces(n)[i]
  BY PiecesOf
<1>2. c \in Context
  BY DEF Moment
<1> DEFINE Piece(i, a) == SendPiece(a, tk + (i - 1) * MaxData, Pieces(n)[i])
           G == [i \in 1..m |-> [a \in Context |-> Piece(i, a)]]
<1>3. \A i \in 1..m : \A a \in Context : Piece(i, a) \in Context
  <2> SUFFICES ASSUME NEW i \in 1..m, NEW a \in Context
               PROVE  Piece(i, a) \in Context
    OBVIOUS
  <2>1. Pieces(n)[i] \in Nat
    BY <1>1, Sizes
  <2>2. tk + (i - 1) * MaxData \in Nat
    <3>1. i - 1 \in Nat
      OBVIOUS
    <3> QED
      BY <3>1, Sizes
  <2> QED
    BY <2>1, <2>2, SendPieceType, Zenon
<1>4. G \in [1..m -> [Context -> Context]]
  BY <1>3
<1>5. PICK h : Solves(h, m, Context, c, G)
  <2> HIDE DEF G
  <2> QED
    BY <1>2, <1>4, Recursion, Zenon
<1>6. /\ h \in [0..m -> Context] /\ h[0] = c
      /\ \A i \in 1..m : h[i] = Piece(i, h[i - 1])
  <2>1. h \in [0..m -> Context] /\ h[0] = c /\ \A i \in 1..m : h[i] = G[i][h[i - 1]]
    BY <1>5, Zenon DEF Solves, Follows
  <2>2. \A i \in 1..m : i - 1 \in 0..m
    OBVIOUS
  <2> QED
    BY <2>1, <2>2
<1> DEFINE after[i \in 0..m] == IF i = 0 THEN c ELSE Piece(i, after[i - 1])
<1>7. after = [i \in 0..m |-> IF i = 0 THEN c ELSE Piece(i, after[i - 1])]
  <2>1. h = [i \in 0..m |-> IF i = 0 THEN c ELSE Piece(i, h[i - 1])]
    <3>1. \A i \in 0..m : h[i] = IF i = 0 THEN c ELSE Piece(i, h[i - 1])
      <4> SUFFICES ASSUME NEW i \in 0..m
                   PROVE  h[i] = IF i = 0 THEN c ELSE Piece(i, h[i - 1])
        OBVIOUS
      <4>1. i = 0 \/ i \in 1..m
        OBVIOUS
      <4>2. \A j \in 1..m : j # 0
        OBVIOUS
      <4> HIDE DEF Piece
      <4> QED
        BY <1>6, <4>1, <4>2, Zenon
    <3> HIDE DEF Piece
    <3> QED
      BY <1>6, <3>1
  <2> HIDE DEF Piece
  <2> QED
    BY <2>1, Zenon
<1>8. PackAndSend(c, tk, n) = after[m]
  BY <1>1, Zenon DEF PackAndSend
<1> HIDE DEF after
<1> DEFINE WasSent(i) == Moment(e, after[i], w, tk + Upto(n, i), gv, TRUE)
           Good == {i \in 0..m : WasSent(i)}
<1>9. 0 \in Good
  <2>1. after[0] = c /\ 0 \in 0..m
    <3>1. 0 \in 0..m
      OBVIOUS
    <3> QED
      BY <1>7, <3>1, Zenon
  <2>2. tk + Upto(n, 0) = tk
    BY <1>1
  <2> QED
    BY <2>1, <2>2
<1>10. ASSUME NEW i \in 0..(m - 1), i \in Good
       PROVE  i + 1 \in Good
  <2>1. i + 1 \in 1..m /\ (i + 1) - 1 = i /\ i + 1 \in 0..m /\ i + 1 # 0
    OBVIOUS
  <2>2. after[i + 1] = Piece(i + 1, after[i])
    <3> HIDE DEF Piece
    <3>1. after[i + 1] = IF i + 1 = 0 THEN c ELSE Piece(i + 1, after[(i + 1) - 1])
      BY <1>7, <2>1, Zenon
    <3> QED
      BY <2>1, <3>1
  <2>3. /\ Pieces(n)[i + 1] \in 1..MaxData /\ Upto(n, i) = i * MaxData
        /\ Upto(n, i + 1) = Upto(n, i) + Pieces(n)[i + 1]
    <3>1. /\ Pieces(n)[i + 1] \in 1..MaxData /\ Upto(n, (i + 1) - 1) = ((i + 1) - 1) * MaxData
          /\ Upto(n, i + 1) = Upto(n, (i + 1) - 1) + Pieces(n)[i + 1]
      BY <1>1, <2>1, Zenon
    <3> QED
      BY <2>1, <3>1
  <2>4. PICK y \in Nat : y = Upto(n, i)
    BY <2>3, Sizes
  <2>5. PICK x \in 1..MaxData : x = Pieces(n)[i + 1]
    BY <2>3, Zenon
  <2>6. x \in Nat
    BY Sizes
  <2>7. after[i + 1] = SendPiece(after[i], tk + y, x)
    BY <2>1, <2>2, <2>3, <2>4, <2>5
  <2>8. PICK z \in Nat : z = tk + y
    OBVIOUS
  <2>9. Moment(e, after[i], w, z, gv, TRUE)
    BY <1>10, <2>4, <2>8
  <2>10. Moment(e, SendPiece(after[i], z, x), w, z + x, gv, TRUE)
    BY <2>9, MomentPiece, Zenon
  <2>11. z + x = tk + Upto(n, i + 1)
    BY <2>3, <2>4, <2>5, <2>6, <2>8
  <2>12. WasSent(i + 1)
    BY <2>7, <2>8, <2>10, <2>11
  <2> QED
    BY <2>1, <2>12
<1>11. 0..m \subseteq Good
  <2> HIDE DEF Good
  <2> QED
    BY <1>9, <1>10, Induction, Zenon
<1>12. WasSent(m)
  <2>1. m \in 0..m
    OBVIOUS
  <2> QED
    BY <1>11, <2>1
<1> QED
  BY <1>1, <1>8, <1>12

\* The FIN goes out.
LEMMA MomentFin ==
  ASSUME TypeInv, NEW e \in Endpoint, NEW c, NEW w \in Seq(Packet), NEW tk \in Nat, NEW gv,
         Moment(e, c, w, tk, gv, TRUE)
  PROVE  Moment(e, SendFin(c), w, tk, gv, FALSE)
<1>1. c \in Context
  BY DEF Moment
<1>2. PICK s \in State : s = IF c.state = "CLOSE_WAIT" THEN "LAST_ACK" ELSE "FINWAIT1"
  BY DEF State
<1>3. PICK b : b = [c EXCEPT !.state = s]
  OBVIOUS
<1>4. /\ b \in Context /\ b.seq = c.seq /\ b.out = c.out /\ b.sentPackets = c.sentPackets
      /\ b.nextSeqExpected = c.nextSeqExpected /\ b.ackNum = c.ackNum
      /\ b.ourWindow = c.ourWindow /\ b.theirWindow = c.theirWindow /\ b.up = c.up
  BY <1>1, <1>3 DEF Context
<1>5. PICK p \in Packet : p = [kind |-> "FIN", seq |-> c.seq, ack |-> 0, win |-> c.ourWindow, off |-> 0, len |-> 0]
  BY <1>1 DEF Context, Packet
<1>6. p.kind = "FIN" /\ p.seq = c.seq /\ p.win = c.ourWindow
  BY <1>5
<1>7. \A x \in Range(c.sentPackets) : AckNumOf(x.pkt) # AckNumOf(p)
  <2>1. PICK ps, k : HalfBy(e, c, ctx[Peer(e)], line[Peer(e)].wire \o c.out, w, inbox[Peer(e)], tk, gv, TRUE, ps, k)
    BY Zenon DEF Moment, Half
  <2> QED
    BY <1>1, <1>6, <2>1, EntriesBelow
<1>8. PICK g : g = SendPacket(b, p)
  OBVIOUS
<1>9. SentNew(g, b, p) /\ g.seq = b.seq
  BY <1>4, <1>7, <1>8, SendsPacket
<1>10. SentNew(g, c, p) /\ g.seq = c.seq
  BY <1>4, <1>9 DEF SentNew
<1>11. g = SendFin(c)
  BY <1>2, <1>3, <1>4, <1>5, <1>8 DEF SendFin
<1> QED
  BY <1>6, <1>10, <1>11, MomentSends

\* The receiver's side of a direction when an ACK is taken.
LEMMA HalfSkips ==
  ASSUME NEW e \in Endpoint, NEW c, NEW d, NEW w \in Seq(Packet), w # <<>>, NEW v, NEW in, NEW tk, NEW gv,
         NEW op \in BOOLEAN, Half(e, c, d, w, v, in, tk, gv, op), Head(w).kind = "ACK"
  PROVE  Half(e, c, d, Tail(w), v, in, tk, gv, op)
<1>1. PICK ps, k : HalfBy(e, c, d, w, v, in, tk, gv, op, ps, k)
  BY Zenon DEF Half
<1>2. k \in 0..Len(ps) /\ ps \in Seq(Packet) /\ k <= k
  BY <1>1 DEF HalfBy, Chain
<1>3. Flow(e, w, ps, k) /\ ReceiverOk(e, d.nextSeqExpected, d.ackNum, in, ps, k)
  BY <1>1, Zenon DEF HalfBy
<1>4. PICK l \in 0..Len(ps) : Brings(e, Head(w), ps, k, l) /\ Flow(e, Tail(w), ps, l)
  BY <1>2, <1>3, FlowNext
<1>5. l = k
  BY <1>4 DEF Brings
<1>6. op => d.ourWindow = d.ourWindow /\ Eof \notin Range(in)
  BY <1>1 DEF HalfBy, OpenOk
<1> QED
  BY <1>1, <1>2, <1>3, <1>4, <1>5, <1>6, HalfAdvances

LEMMA MomentNetwork ==
  ASSUME TypeInv, NEW e \in Endpoint, NEW c, NEW w \in Seq(Packet), w # <<>>, NEW tk \in Nat, NEW gv,
         NEW op \in BOOLEAN, Moment(e, c, w, tk, gv, op), NEW g, g = HandleNetwork(c, Head(w))
  PROVE  Moment(e, g, Tail(w), tk, gv, op)
<1> DEFINE f == Peer(e)
<1>1. f \in Endpoint
  BY PeerType
<1>2. PICK u \in Seq(Packet) : u = line[f].wire
  BY <1>1, EndType
<1>3. c \in Context /\ Open(f) \in BOOLEAN /\ inbox[e] \in Seq(Chunk)
  BY <1>1, EndType DEF Moment
<1>4. PICK v \in Seq(Packet) : v = u \o c.out
  <2>1. c.out \in Seq(Packet)
    BY <1>3 DEF Context
  <2>2. u \o c.out \in Seq(Packet)
    BY <2>1
  <2> QED
    BY <2>2, Zenon
<1>5. Half(e, c, ctx[f], v, w, inbox[f], tk, gv, op)
  BY <1>2, <1>4, Zenon DEF Moment
<1>6. Half(f, ctx[f], c, w, u \o c.out, inbox[e] \o c.up, taken[f], given[f], Open(f))
  BY <1>2, Zenon DEF Moment
<1>7. PICK p \in Packet : p = Head(w)
  BY RangeHeadTail
<1> HIDE DEF f
<1>8. CASE p.kind = "ACK"
  <2>1. /\ g \in Context /\ Heard(g, c, p)
        /\ g.nextSeqExpected = c.nextSeqExpected /\ g.ackNum = c.ackNum /\ g.ourWindow = c.ourWindow
        /\ g.out = c.out /\ g.up = c.up
    BY <1>3, <1>7, <1>8, HearsAck, Zenon
  <2>2. Half(e, g, ctx[f], v, Tail(w), inbox[f], tk, gv, op)
    BY <1>3, <1>5, <1>7, <2>1, HalfHears, Zenon
  <2>3. Half(f, ctx[f], c, Tail(w), v, inbox[e] \o c.up, taken[f], given[f], Open(f))
    BY <1>1, <1>3, <1>4, <1>6, <1>7, <1>8, HalfSkips, Zenon
  <2>4. PICK qs \in Seq(Packet) : qs = <<>>
    <3>1. <<>> \in Seq(Packet)
      OBVIOUS
    <3> QED
      BY <3>1, Zenon
  <2>5. SendsBack(c, g, qs)
    <3>1. \A x \in Range(g.sentPackets) : \E y \in Range(c.sentPackets) : x.pkt = y.pkt
      <4>1. c.sentPackets \in Seq(Entry) /\ g.sentPackets \in Seq(Entry)
        BY <1>3, <2>1 DEF Context
      <4>2. DOMAIN g.sentPackets = DOMAIN c.sentPackets
        BY <2>1, <4>1 DEF Heard
      <4>3. \A i \in DOMAIN c.sentPackets : g.sentPackets[i].pkt = c.sentPackets[i].pkt
        BY <2>1, Zenon DEF Heard
      <4> QED
        BY <4>2, <4>3 DEF Range
    <3>2. Range(qs) = {}
      BY <2>4 DEF Range
    <3>3. \A x \in Range(g.sentPackets) :
            x.pkt.win = c.ourWindow \/ \E y \in Range(c.sentPackets) : x.pkt = y.pkt
      BY <3>1, Zenon
    <3>4. \A q \in Range(qs) :
            /\ q.win = c.ourWindow \/ \E y \in Range(c.sentPackets) : q = y.pkt
            /\ q.kind = "ACK" => q.ack = c.ackNum
      BY <3>2, Zenon
    <3> QED
      BY <2>1, <3>3, <3>4, Zenon DEF SendsBack
  <2>6. Half(f, ctx[f], g, Tail(w), v \o qs, inbox[e] \o c.up, taken[f], given[f], Open(f))
    <3>1. g \in Context
      BY <2>1, Zenon
    <3> QED
      BY <1>1, <1>3, <2>3, <2>5, <3>1, HalfReceiverSends, ZenonT(40)
  <2>7. v \o qs = v
    BY <2>4, ConcatEmptySeq
  <2> QED
    BY <1>2, <1>4, <2>1, <2>2, <2>6, <2>7 DEF Moment, f
<1>9. CASE p.kind # "ACK"
  <2>1. Answers(g, c, p) /\ Half(f, ctx[f], g, Tail(w), u \o g.out, inbox[e] \o g.up, taken[f], given[f], Open(f))
    BY <1>1, <1>3, <1>6, <1>7, <1>9, HalfTakes, ZenonT(30)
  <2>2. g \in Context /\ Heard(g, c, p)
    BY <2>1, HearsOther DEF Answers
  <2>3. Half(e, g, ctx[f], v, Tail(w), inbox[f], tk, gv, op)
    BY <1>3, <1>5, <1>7, <2>2, HalfHears, Zenon
  <2>4. /\ u \o g.out = (u \o c.out) \o <<AckOf(g)>>
        /\ <<AckOf(g)>> \in Seq(Packet) /\ Range(<<AckOf(g)>>) = {AckOf(g)}
    BY <1>3, <2>1, AnswerSent
  <2>5. PICK qs \in Seq(Packet) : qs = <<AckOf(g)>>
    BY <2>4, Zenon
  <2>6. SendsAgain(g, g, gv, qs)
    <3>1. AckOf(g).kind = "ACK"
      BY DEF AckOf
    <3> QED
      BY <2>4, <2>5, <3>1 DEF SendsAgain
  <2>7. gv \subseteq gv
    OBVIOUS
  <2>8. Half(e, g, ctx[f], v \o qs, Tail(w), inbox[f], tk, gv, op)
    BY <2>2, <2>3, <2>6, <2>7, HalfSenderSends, Zenon
  <2> QED
    BY <1>2, <1>4, <2>1, <2>2, <2>4, <2>5, <2>8 DEF Moment, f
<1> QED
  BY <1>8, <1>9

\* No packet that is kept is an ACK.
LEMMA KeptKinds ==
  ASSUME NEW e \in Endpoint, NEW c, NEW d, NEW w, NEW v, NEW in, NEW tk, NEW gv, NEW op,
         Half(e, c, d, w, v, in, tk, gv, op)
  PROVE  \A y \in Range(c.sentPackets) : y.pkt.kind # "ACK"
<1>1. PICK ps, k : HalfBy(e, c, d, w, v, in, tk, gv, op, ps, k)
  BY Zenon DEF Half
<1>2. Chain(e, ps)
  BY <1>1 DEF HalfBy
<1>3. \A y \in Range(c.sentPackets) : EntryOk(e, y, ps, k)
  BY <1>1, Zenon DEF HalfBy, SenderOk
<1> QED
  BY <1>2, <1>3 DEF EntryOk, Chain

\* A step that receives nothing and sends nothing new, in both directions.
KeepsOn(c, g, gw, qs) ==
  /\ g.nextSeqExpected = c.nextSeqExpected /\ g.ackNum = c.ackNum /\ g.ourWindow = c.ourWindow
  /\ g.up = c.up /\ g.out = c.out \o qs
  /\ \A q \in Range(qs) : \E y \in Range(c.sentPackets) : q = y.pkt
  /\ SendsAgain(c, g, gw, qs)

LEMMA MomentKeeps ==
  ASSUME TypeInv, NEW e \in Endpoint, NEW c, NEW w \in Seq(Packet), NEW tk \in Nat, NEW gv, NEW gw,
         gv \subseteq gw, NEW op \in BOOLEAN, Moment(e, c, w, tk, gv, op), NEW g \in Context,
         NEW qs \in Seq(Packet), KeepsOn(c, g, gw, qs)
  PROVE  Moment(e, g, w, tk, gw, op)
<1> DEFINE f == Peer(e)
<1>1. f \in Endpoint
  BY PeerType
<1>2. PICK u \in Seq(Packet) : u = line[f].wire
  BY <1>1, EndType
<1>3. c \in Context /\ Open(f) \in BOOLEAN /\ c.out \in Seq(Packet)
  BY <1>1, EndType DEF Moment, Context
<1>4. PICK v \in Seq(Packet) : v = u \o c.out
  <2>2. u \o c.out \in Seq(Packet)
    BY <1>3
  <2> QED
    BY <2>2, Zenon
<1>5. Half(e, c, ctx[f], v, w, inbox[f], tk, gv, op)
  BY <1>2, <1>4, Zenon DEF Moment
<1>6. Half(f, ctx[f], c, w, v, inbox[e] \o c.up, taken[f], given[f], Open(f))
  BY <1>2, <1>4, Zenon DEF Moment
<1> HIDE DEF f
<1>7. Half(e, g, ctx[f], v \o qs, w, inbox[f], tk, gw, op)
  <2>1. SendsAgain(c, g, gw, qs)
    BY Zenon DEF KeepsOn
  <2> QED
    BY <1>3, <1>5, <2>1, HalfSenderSends, Zenon
<1>8. SendsBack(c, g, qs)
  <2>1. \A y \in Range(c.sentPackets) : y.pkt.kind # "ACK"
    BY <1>5, KeptKinds, Zenon
  <2>2. \A x \in Range(g.sentPackets) : \E y \in Range(c.sentPackets) : x.pkt = y.pkt
    BY Zenon DEF SendsAgain, KeepsOn
  <2> QED
    BY <2>1, <2>2 DEF SendsBack, KeepsOn
<1>9. Half(f, ctx[f], g, w, v \o qs, inbox[e] \o c.up, taken[f], given[f], Open(f))
  BY <1>1, <1>3, <1>6, <1>8, HalfReceiverSends, Zenon
<1>10. u \o g.out = v \o qs
  <2>1. (u \o c.out) \o qs = u \o (c.out \o qs)
    <3>1. PICK o \in Seq(Packet) : o = c.out
      BY <1>3
    <3>2. (u \o o) \o qs = u \o (o \o qs)
      BY ConcatAssociative
    <3> QED
      BY <3>1, <3>2
  <2>2. g.out = c.out \o qs
    BY Zenon DEF KeepsOn
  <2> QED
    BY <1>4, <2>1, <2>2
<1>11. g.up = c.up
  BY Zenon DEF KeepsOn
<1> QED
  BY <1>2, <1>7, <1>9, <1>10, <1>11 DEF Moment, f

LEMMA ClearsAcked ==
  ASSUME NEW c \in Context, NEW g, g = ClearAcked(c)
  PROVE  /\ g \in Context /\ g.seq = c.seq /\ g.theirWindow = c.theirWindow
         /\ g.nextSeqExpected = c.nextSeqExpected /\ g.ackNum = c.ackNum /\ g.ourWindow = c.ourWindow
         /\ g.out = c.out /\ g.up = c.up
         /\ \A x : x \in Range(g.sentPackets) <=> x \in Range(c.sentPackets) /\ ~x.ackd
<1>1. PICK es \in Seq(Entry) : es = c.sentPackets
  BY DEF Context
<1> DEFINE Unacked(s) == IF s.ackd THEN <<>> ELSE <<s>>
<1>2. PICK ss : ss = [i \in DOMAIN es |-> Unacked(es[i])]
  OBVIOUS
<1>3. \A i \in DOMAIN es : es[i] \in Entry /\ es[i] \in Range(es)
  BY RangeType
<1>4. \A i \in DOMAIN es : Unacked(es[i]) \in Seq(Entry)
  BY <1>3
<1>5. ss \in Seq(Seq(Entry)) /\ DOMAIN ss = DOMAIN es
  <2>1. PICK n \in Nat : n = Len(es)
    OBVIOUS
  <2>2. DOMAIN es = 1..n
    BY <2>1
  <2> HIDE DEF Unacked
  <2> QED
    BY <1>2, <1>4, <2>2
<1>6. PICK ts \in Seq(Entry) : ts = FlattenSeq(ss)
  <2>1. FlattenSeq(ss) \in Seq(Entry)
    BY <1>5, FlattenType
  <2> QED
    BY <2>1, Zenon
<1>7. \A x : x \in Range(ts) <=> x \in Range(es) /\ ~x.ackd
  <2> SUFFICES ASSUME NEW x
               PROVE  x \in Range(ts) <=> x \in Range(es) /\ ~x.ackd
    OBVIOUS
  <2>1. x \in Range(ts) <=> \E i \in DOMAIN ss : x \in Range(ss[i])
    BY <1>5, <1>6, FlattenMembers
  <2>2. \A i \in DOMAIN es : x \in Range(Unacked(es[i])) <=> x = es[i] /\ ~es[i].ackd
    BY DEF Range
  <2>3. \A i \in DOMAIN es : ss[i] = Unacked(es[i])
    BY <1>2, Zenon
  <2> HIDE DEF Unacked
  <2>4. x \in Range(ts) <=> \E i \in DOMAIN es : x = es[i] /\ ~es[i].ackd
    BY <1>5, <2>1, <2>2, <2>3
  <2>5. x \in Range(es) <=> \E i \in DOMAIN es : x = es[i]
    BY DEF Range
  <2> QED
    BY <2>4, <2>5
<1> DEFINE finAcked == \E i \in DOMAIN c.sentPackets :
                         c.sentPackets[i].ackd /\ c.sentPackets[i].pkt.kind = "FIN"
<1>8. PICK s \in State : s = IF ~finAcked THEN c.state
                             ELSE IF c.state = "FINWAIT1" THEN "FINWAIT2"
                             ELSE IF c.state = "LAST_ACK" THEN "CLOSED" ELSE c.state
  <2>1. c.state \in State
    BY DEF Context
  <2> HIDE DEF finAcked
  <2> QED
    BY <2>1 DEF State
<1>9. PICK f \in BOOLEAN : f = (c.done \/ (finAcked /\ c.state = "LAST_ACK"))
  <2> HIDE DEF finAcked
  <2> QED
    OBVIOUS
<1>10. g = [c EXCEPT !.sentPackets = ts, !.state = s, !.done = f]
  <2>1. g = [c EXCEPT !.sentPackets = FlattenSeq([i \in DOMAIN @ |-> Unacked(@[i])]),
                !.state = IF ~finAcked THEN @
                          ELSE IF @ = "FINWAIT1" THEN "FINWAIT2"
                          ELSE IF @ = "LAST_ACK" THEN "CLOSED" ELSE @,
                !.done  = @ \/ (finAcked /\ c.state = "LAST_ACK")]
    BY DEF ClearAcked
  <2> HIDE DEF finAcked, Unacked
  <2> QED
    BY <1>1, <1>2, <1>6, <1>8, <1>9, <2>1
<1> HIDE DEF finAcked
<1>11. g \in Context /\ g.sentPackets = ts
  BY <1>10 DEF Context
<1>12. /\ g.seq = c.seq /\ g.theirWindow = c.theirWindow
       /\ g.nextSeqExpected = c.nextSeqExpected /\ g.ackNum = c.ackNum /\ g.ourWindow = c.ourWindow
       /\ g.out = c.out /\ g.up = c.up
  BY <1>10 DEF Context
<1> QED
  BY <1>1, <1>7, <1>11, <1>12

LEMMA MomentClear ==
  ASSUME TypeInv, NEW e \in Endpoint, NEW c, NEW w \in Seq(Packet), NEW tk \in Nat, NEW gv,
         NEW op \in BOOLEAN, Moment(e, c, w, tk, gv, op), NEW g, g = ClearAcked(c)
  PROVE  Moment(e, g, w, tk, gv, op)
<1>1. c \in Context
  BY DEF Moment
<1>2. /\ g \in Context /\ g.seq = c.seq /\ g.theirWindow = c.theirWindow
      /\ g.nextSeqExpected = c.nextSeqExpected /\ g.ackNum = c.ackNum /\ g.ourWindow = c.ourWindow
      /\ g.out = c.out /\ g.up = c.up
      /\ \A x : x \in Range(g.sentPackets) <=> x \in Range(c.sentPackets) /\ ~x.ackd
  BY <1>1, ClearsAcked
<1>3. PICK qs \in Seq(Packet) : qs = <<>>
  <2>1. <<>> \in Seq(Packet)
    OBVIOUS
  <2> QED
    BY <2>1, Zenon
<1>4. Range(qs) = {} /\ g.out = c.out \o qs
  <2>1. c.out \in Seq(Packet)
    BY <1>1 DEF Context
  <2> QED
    BY <1>2, <1>3, <2>1, ConcatEmptySeq DEF Range
<1>5. SendsAgain(c, g, gv, qs)
  BY <1>2, <1>4 DEF SendsAgain
<1>6. gv \subseteq gv
  OBVIOUS
<1>7. KeepsOn(c, g, gv, qs)
  BY <1>2, <1>4, <1>5 DEF KeepsOn
<1> QED
  BY <1>2, <1>6, <1>7, MomentKeeps

\* The first packet is given up.
LEMMA MomentGivesUp ==
  ASSUME TypeInv, NEW e \in Endpoint, NEW c, NEW w \in Seq(Packet), NEW tk \in Nat, NEW gv,
         NEW op \in BOOLEAN, Moment(e, c, w, tk, gv, op), c.sentPackets # <<>>,
         NEW g, g = GiveUp(c), NEW gw,
         gw = IF Head(c.sentPackets).pkt.kind = "DATA" THEN gv \cup {Head(c.sentPackets).pkt.off} ELSE gv
  PROVE  Moment(e, g, w, tk, gw, op)
<1>1. c \in Context
  BY DEF Moment
<1>2. PICK es \in Seq(Entry) : es = c.sentPackets
  BY <1>1 DEF Context
<1>3. PICK ts \in Seq(Entry) : ts = Tail(es)
  BY <1>2, RangeHeadTail, Zenon
<1>4. PICK x : x = Head(es)
  OBVIOUS
<1>5. Range(es) = {x} \cup Range(ts)
  BY <1>2, <1>3, <1>4, RangeHeadTail
<1> DEFINE fin == x.pkt.kind = "FIN" /\ c.state \in {"LAST_ACK", "FINWAIT1", "FINWAIT2"}
<1>6. PICK s \in State : s = IF fin THEN "CLOSED" ELSE c.state
  <2>1. c.state \in State /\ "CLOSED" \in State
    BY <1>1 DEF Context, State
  <2> HIDE DEF fin
  <2> QED
    BY <2>1
<1>7. PICK b \in BOOLEAN : b = (c.done \/ fin)
  <2> HIDE DEF fin
  <2> QED
    OBVIOUS
<1>8. g = [c EXCEPT !.sentPackets = ts, !.state = s, !.done = b]
  <2>1. g = [c EXCEPT !.sentPackets = Tail(@), !.state = IF fin THEN "CLOSED" ELSE @, !.done  = @ \/ fin]
    BY <1>2, <1>4 DEF GiveUp
  <2> HIDE DEF fin
  <2> QED
    BY <1>2, <1>3, <1>6, <1>7, <2>1
<1> HIDE DEF fin
<1>9. /\ g \in Context /\ g.sentPackets = ts /\ g.seq = c.seq /\ g.theirWindow = c.theirWindow
      /\ g.nextSeqExpected = c.nextSeqExpected /\ g.ackNum = c.ackNum /\ g.ourWindow = c.ourWindow
      /\ g.out = c.out /\ g.up = c.up
  BY <1>1, <1>8 DEF Context
<1>10. PICK qs \in Seq(Packet) : qs = <<>>
  <2>1. <<>> \in Seq(Packet)
    OBVIOUS
  <2> QED
    BY <2>1, Zenon
<1>11. Range(qs) = {} /\ g.out = c.out \o qs
  <2>1. c.out \in Seq(Packet)
    BY <1>1 DEF Context
  <2> QED
    BY <1>9, <1>10, <2>1, ConcatEmptySeq DEF Range
<1>12. gv \subseteq gw /\ (x.pkt.kind = "DATA" => x.pkt.off \in gw)
  BY <1>2, <1>4
<1>13. SendsAgain(c, g, gw, qs)
  BY <1>2, <1>5, <1>9, <1>11, <1>12 DEF SendsAgain
<1>14. KeepsOn(c, g, gw, qs)
  BY <1>9, <1>11, <1>13 DEF KeepsOn
<1> QED
  BY <1>9, <1>12, <1>14, MomentKeeps

\* All that is kept goes out again.
LEMMA MomentResends ==
  ASSUME TypeInv, NEW e \in Endpoint, NEW c, NEW w \in Seq(Packet), NEW tk \in Nat, NEW gv,
         NEW op \in BOOLEAN, Moment(e, c, w, tk, gv, op), c.sentPackets # <<>>,
         NEW g, g = ResendAll(c)
  PROVE  Moment(e, g, w, tk, gv, op)
<1>1. c \in Context
  BY DEF Moment
<1>2. PICK es \in Seq(Entry) : es = c.sentPackets
  BY <1>1 DEF Context
<1>3. PICK n \in Nat : n = Len(es)
  OBVIOUS
<1>4. n > 0 /\ \A i \in 1..n : es[i] \in Entry /\ es[i] \in Range(es)
  <2>1. n # 0
    BY <1>2, <1>3, EmptySeq
  <2> QED
    BY <1>3, <2>1, RangeType
<1>5. PICK x \in Entry : x = [es[1] EXCEPT !.numTimeout = @ + 1] /\ x.pkt = es[1].pkt /\ x.ackd = es[1].ackd
  <2>1. es[1] \in Entry
    BY <1>4
  <2>2. PICK z \in Nat : z = es[1].numTimeout + 1
    BY <2>1 DEF Entry
  <2>3. [es[1] EXCEPT !.numTimeout = z] \in Entry
    BY <2>1 DEF Entry
  <2> QED
    BY <2>1, <2>2, <2>3 DEF Entry
<1>6. PICK ts \in Seq(Entry) : ts = [es EXCEPT ![1] = x]
  <2>1. [es EXCEPT ![1] = x] \in Seq(Entry)
    BY <1>3, <1>4
  <2> QED
    BY <2>1, Zenon
<1>7. Len(ts) = n /\ \A i \in 1..n : ts[i].pkt = es[i].pkt /\ ts[i].ackd = es[i].ackd
  BY <1>3, <1>4, <1>5, <1>6
<1>8. PICK qs \in Seq(Packet) : qs = Pkts(es)
  <2>1. Pkts(es) \in Seq(Packet)
    BY <1>3, <1>4 DEF Pkts, Entry
  <2> QED
    BY <2>1, Zenon
<1>9. PICK o \in Seq(Packet) : o = c.out \o qs
  <2>1. c.out \in Seq(Packet)
    BY <1>1 DEF Context
  <2>2. c.out \o qs \in Seq(Packet)
    BY <2>1
  <2> QED
    BY <2>2, Zenon
<1>10. g = [c EXCEPT !.out = o, !.sentPackets = ts]
  <2>1. ts = [es EXCEPT ![1].numTimeout = @ + 1]
    BY <1>5, <1>6
  <2>2. g = [c EXCEPT !.out = o, !.sentPackets[1].numTimeout = @ + 1]
    BY <1>2, <1>8, <1>9 DEF ResendAll
  <2> QED
    BY <1>2, <2>1, <2>2
<1>11. /\ g \in Context /\ g.sentPackets = ts /\ g.seq = c.seq /\ g.theirWindow = c.theirWindow
       /\ g.nextSeqExpected = c.nextSeqExpected /\ g.ackNum = c.ackNum /\ g.ourWindow = c.ourWindow
       /\ g.out = o /\ g.up = c.up
  BY <1>1, <1>10 DEF Context
<1>12. \A q \in Range(qs) : \E y \in Range(es) : q = y.pkt
  BY <1>3, <1>4, <1>8 DEF Range, Pkts
<1>m. Range(es) = {es[i] : i \in 1..n} /\ Range(ts) = {ts[i] : i \in 1..n}
  <2>1. DOMAIN es = 1..n /\ DOMAIN ts = 1..n
    BY <1>3, <1>7
  <2> QED
    BY <2>1 DEF Range
<1>13. ASSUME NEW y \in Range(es)
       PROVE  \E z \in Range(ts) : z.pkt = y.pkt /\ z.ackd = y.ackd
  <2>1. PICK i \in 1..n : y = es[i]
    BY <1>m
  <2>2. ts[i] \in Range(ts)
    BY <1>m
  <2> QED
    BY <1>7, <2>1, <2>2
<1>14. ASSUME NEW z \in Range(ts)
       PROVE  \E y \in Range(es) : z.pkt = y.pkt /\ z.ackd = y.ackd
  <2>1. PICK i \in 1..n : z = ts[i]
    BY <1>m
  <2>2. es[i] \in Range(es)
    BY <1>m
  <2> QED
    BY <1>7, <2>1, <2>2
<1>15. SendsAgain(c, g, gv, qs)
  <2>1. g.seq = c.seq /\ g.theirWindow = c.theirWindow
    BY <1>11
  <2> QED
    BY <1>2, <1>11, <1>12, <1>13, <1>14, <2>1, Zenon DEF SendsAgain
<1>16. KeepsOn(c, g, gv, qs)
  BY <1>2, <1>9, <1>11, <1>12, <1>15 DEF KeepsOn
<1>17. gv \subseteq gv
  OBVIOUS
<1> QED
  BY <1>11, <1>16, <1>17, MomentKeeps
-----------------------------------------------------------------------------
(* The invariant                                                           *)

\* Between passes nothing is collected; an end that has closed wrote all, and its
\* queue is empty once the request was taken; both directions hold.
EndOk(e) ==
  /\ ctx[e].out = <<>> /\ ctx[e].up = <<>>
  /\ closed[e] => toWrite[e] = <<>>
  /\ closeReq[e] => closed[e]
  /\ ~Open(e) => appQueue[e] = <<>>

Direction(e) == Half(e, ctx[e], ctx[Peer(e)], line[Peer(e)].wire, line[e].wire, inbox[Peer(e)],
                     taken[e], given[e], Open(e))

Inv == TypeInv /\ \A e \in Endpoint : EndOk(e) /\ Direction(e)

\* What a direction says of the contexts.
SameSender(g, c) == g.seq = c.seq /\ g.sentPackets = c.sentPackets /\ g.theirWindow = c.theirWindow
SameReceiver(g, d) == /\ g.nextSeqExpected = d.nextSeqExpected /\ g.ackNum = d.ackNum
                      /\ g.ourWindow = d.ourWindow /\ g.sentPackets = d.sentPackets

LEMMA HalfSame ==
  ASSUME NEW e, NEW c, NEW d, NEW w, NEW v, NEW in, NEW tk, NEW gv, NEW op,
         Half(e, c, d, w, v, in, tk, gv, op), NEW g, NEW h, SameSender(g, c), SameReceiver(h, d)
  PROVE  Half(e, g, h, w, v, in, tk, gv, op)
<1>1. PICK ps, k : HalfBy(e, c, d, w, v, in, tk, gv, op, ps, k)
  BY Zenon DEF Half
<1>2. HalfBy(e, g, h, w, v, in, tk, gv, op, ps, k)
  BY <1>1, Zenon DEF HalfBy, OpenOk, SameSender, SameReceiver
<1> QED
  BY <1>2, Zenon DEF Half

\* A reliable line delivers what it is handed.
LEMMA SendsAll ==
  ASSUME Reliable, NEW l \in Line, NEW ps \in Seq(Packet)
  PROVE  SendAll(l, ps) = {[l EXCEPT !.wire = @ \o ps]}
<1>1. PICK n \in Nat : n = Len(ps)
  OBVIOUS
<1>2. PICK u \in Seq(Packet) : u = l.wire
  BY DEF Line
<1>3. \A x \in Line : \A p \in Packet : NetworkSend(x, p) = {[x EXCEPT !.wire = Append(@, p)]}
  BY DEF NetworkSend, Sent
<1>4. \A i \in 1..n : ps[i] \in Packet
  BY <1>1
<1> DEFINE First(i) == u \o SubSeq(ps, 1, i)
           h == [i \in 0..n |-> {[l EXCEPT !.wire = First(i)]}]
<1>5. ASSUME NEW i \in 0..n
      PROVE  /\ First(i) \in Seq(Packet)
             /\ i # 0 => i - 1 \in 0..n /\ First(i) = Append(First(i - 1), ps[i])
  <2>1. SubSeq(ps, 1, i) \in Seq(Packet)
    BY <1>1, FirstPart
  <2>2. First(i) \in Seq(Packet)
    BY <2>1
  <2>3. ASSUME i # 0
        PROVE  i - 1 \in 0..n /\ First(i) = Append(First(i - 1), ps[i])
    <3>1. i - 1 \in 0..n /\ (i - 1) + 1 = i /\ i \in 1..n
      BY <2>3
    <3>2. PICK a \in Seq(Packet) : a = SubSeq(ps, 1, i - 1) /\ Len(a) = i - 1 /\ \A j \in 1..(i - 1) : a[j] = ps[j]
      <4>1. /\ SubSeq(ps, 1, i - 1) \in Seq(Packet) /\ Len(SubSeq(ps, 1, i - 1)) = i - 1
            /\ \A j \in 1..(i - 1) : SubSeq(ps, 1, i - 1)[j] = ps[j]
        BY <1>1, <3>1, FirstPart
      <4> QED
        BY <4>1, Zenon
    <3>3. PICK b \in Seq(Packet) : b = SubSeq(ps, 1, i) /\ Len(b) = i /\ \A j \in 1..i : b[j] = ps[j]
      <4>1. Len(SubSeq(ps, 1, i)) = i /\ \A j \in 1..i : SubSeq(ps, 1, i)[j] = ps[j]
        BY <1>1, FirstPart
      <4> QED
        BY <2>1, <4>1, Zenon
    <3>4. PICK t \in Seq(Packet) : t = Append(a, ps[i])
      <4>1. Append(a, ps[i]) \in Seq(Packet)
        BY <1>4, <3>1
      <4> QED
        BY <4>1, Zenon
    <3>5. Len(t) = i /\ \A j \in 1..i : t[j] = b[j]
      BY <1>4, <3>1, <3>2, <3>3, <3>4
    <3>6. b = t
      BY <3>3, <3>5, SeqEqual
    <3>7. u \o Append(a, ps[i]) = Append(u \o a, ps[i])
      BY <1>4, <3>1, JoinAppend
    <3> QED
      BY <3>1, <3>2, <3>3, <3>4, <3>6, <3>7
  <2> QED
    BY <2>2, <2>3
<1> DEFINE after[i \in 0..n] == IF i = 0 THEN {l} ELSE UNION {NetworkSend(x, ps[i]) : x \in after[i - 1]}
<1>6. h = [i \in 0..n |-> IF i = 0 THEN {l} ELSE UNION {NetworkSend(x, ps[i]) : x \in h[i - 1]}]
  <2> SUFFICES ASSUME NEW i \in 0..n
               PROVE  h[i] = IF i = 0 THEN {l} ELSE UNION {NetworkSend(x, ps[i]) : x \in h[i - 1]}
    OBVIOUS
  <2>1. CASE i = 0
    <3>1. First(0) = u
      <4>1. SubSeq(ps, 1, 0) = <<>>
        BY SubSeqEmpty
      <4> QED
        BY <4>1, ConcatEmptySeq
    <3>2. [l EXCEPT !.wire = u] = l
      BY <1>2 DEF Line
    <3> HIDE DEF First
    <3> QED
      BY <2>1, <3>1, <3>2
  <2>2. CASE i # 0
    <3>1. i - 1 \in 0..n /\ First(i) = Append(First(i - 1), ps[i]) /\ ps[i] \in Packet
      BY <1>4, <1>5, <2>2
    <3>2. First(i - 1) \in Seq(Packet)
      BY <1>5, <3>1
    <3> HIDE DEF First
    <3>3. PICK x : x = [l EXCEPT !.wire = First(i - 1)]
      OBVIOUS
    <3>4. x \in Line /\ x.wire = First(i - 1)
      BY <3>2, <3>3 DEF Line
    <3>5. h[i - 1] = {x}
      BY <3>1, <3>3
    <3>6. NetworkSend(x, ps[i]) = {[x EXCEPT !.wire = Append(@, ps[i])]}
      BY <1>3, <3>1, <3>4
    <3>7. [x EXCEPT !.wire = Append(@, ps[i])] = [l EXCEPT !.wire = First(i)]
      BY <3>1, <3>3, <3>4
    <3>8. h[i] = {[l EXCEPT !.wire = First(i)]}
      OBVIOUS
    <3> HIDE DEF h
    <3>9. UNION {NetworkSend(y, ps[i]) : y \in h[i - 1]} = NetworkSend(x, ps[i])
      BY <3>5
    <3> QED
      BY <2>2, <3>6, <3>7, <3>8, <3>9
  <2> QED
    BY <2>1, <2>2
<1>7. after = [i \in 0..n |-> IF i = 0 THEN {l} ELSE UNION {NetworkSend(x, ps[i]) : x \in after[i - 1]}]
  <2> HIDE DEF h
  <2> QED
    BY <1>6, Zenon
<1>8. SendAll(l, ps) = after[n]
  BY <1>1, Zenon DEF SendAll
<1> HIDE DEF after
<1>9. after[n] = h[n]
  <2> DEFINE Same == {i \in 0..n : after[i] = h[i]}
  <2> HIDE DEF h
  <2>1. 0 \in Same
    BY <1>6, <1>7
  <2>2. ASSUME NEW i \in 0..(n - 1), i \in Same
        PROVE  i + 1 \in Same
    <3>1. i + 1 \in 0..n /\ i + 1 # 0 /\ (i + 1) - 1 = i
      OBVIOUS
    <3>2. after[i + 1] = UNION {NetworkSend(x, ps[i + 1]) : x \in after[(i + 1) - 1]}
      BY <1>7, <3>1, Zenon
    <3>3. h[i + 1] = UNION {NetworkSend(x, ps[i + 1]) : x \in h[(i + 1) - 1]}
      BY <1>6, <3>1, Zenon
    <3>4. after[(i + 1) - 1] = h[(i + 1) - 1]
      BY <2>2, <3>1
    <3> QED
      BY <3>1, <3>2, <3>3, <3>4
  <2>3. 0..n \subseteq Same
    <3> HIDE DEF Same
    <3> QED
      BY <2>1, <2>2, Induction, Zenon
  <2>4. n \in 0..n
    OBVIOUS
  <2> QED
    BY <2>3, <2>4
<1>10. h[n] = {[l EXCEPT !.wire = u \o ps]}
  <2>1. SubSeq(ps, 1, n) = ps
    BY <1>1, SubSeqFull
  <2>2. n \in 0..n
    OBVIOUS
  <2> QED
    BY <2>1, <2>2
<1> QED
  BY <1>2, <1>8, <1>9, <1>10

\* The pass ends: what it collected leaves the thread.
Rest(e, net) == IF net THEN Tail(line[e].wire) ELSE line[e].wire

Ended(e, f, c, tk, gv, op) ==
  /\ ctx' \in [Endpoint -> Context] /\ line' \in [Endpoint -> Line]
  /\ inbox' \in [Endpoint -> Seq(Chunk)]
  /\ ctx'[e].out = <<>> /\ ctx'[e].up = <<>> /\ ctx'[f] = ctx[f]
  /\ Half(e, ctx'[e], ctx'[f], line'[f].wire, line'[e].wire, inbox'[f], tk, gv, op)
  /\ Half(f, ctx'[f], ctx'[e], line'[e].wire, line'[f].wire, inbox'[e], taken[f], given[f], Open(f))
  /\ inbox'[f] = inbox[f] /\ inbox'[e] = inbox[e] \o c.up

LEMMA EndsPass ==
  ASSUME Reliable, TypeInv, NEW e \in Endpoint, NEW net \in BOOLEAN, net => line[e].wire # <<>>,
         NEW c, NEW tk, NEW gv, NEW op \in BOOLEAN, Moment(e, c, Rest(e, net), tk, gv, op),
         EndPass(e, c, net), NEW f, f = Peer(e)
  PROVE  Ended(e, f, c, tk, gv, op)
<1>1. f \in Endpoint /\ f # e /\ e \in Endpoint
  BY PeerType
<1>2. c \in Context
  BY DEF Moment
<1>3. PICK g : g = [c EXCEPT !.out = <<>>, !.up = <<>>]
  OBVIOUS
<1>4. g \in Context /\ g.out = <<>> /\ g.up = <<>> /\ SameSender(g, c) /\ SameReceiver(g, c)
  <2>1. <<>> \in Seq(Packet) /\ <<>> \in Seq(Chunk)
    OBVIOUS
  <2> QED
    BY <1>2, <1>3, <2>1 DEF Context, SameSender, SameReceiver
<1>5. PICK l \in SendAll(line[f], c.out) :
        line' = [line EXCEPT ![f] = l, ![e] = IF net THEN Received(@) ELSE @]
  BY Zenon DEF EndPass
<1>6. line[f] \in Line /\ line[e] \in Line /\ line[e].wire \in Seq(Packet) /\ line[f].wire \in Seq(Packet)
  BY <1>1, EndType
<1>7. c.out \in Seq(Packet) /\ c.up \in Seq(Chunk)
  BY <1>2 DEF Context
<1>8. PICK u \in Seq(Packet) : u = line[f].wire \o c.out
  <2>1. line[f].wire \o c.out \in Seq(Packet)
    BY <1>6, <1>7
  <2> QED
    BY <2>1, Zenon
<1>9. l \in Line /\ l.wire = u
  <2>1. l = [line[f] EXCEPT !.wire = u]
    <3>1. SendAll(line[f], c.out) = {[line[f] EXCEPT !.wire = @ \o c.out]}
      BY <1>6, <1>7, SendsAll, Zenon
    <3> QED
      BY <1>5, <1>8, <3>1
  <2> QED
    BY <1>6, <2>1 DEF Line
<1>10. PICK w \in Seq(Packet) : w = Rest(e, net)
  <2>1. net => Tail(line[e].wire) \in Seq(Packet)
    BY <1>6, RangeHeadTail
  <2>2. Rest(e, net) \in Seq(Packet)
    BY <1>6, <2>1, Zenon DEF Rest
  <2> QED
    BY <2>2, Zenon
<1>11. PICK r \in Line : r = (IF net THEN Received(line[e]) ELSE line[e]) /\ r.wire = w
  <2>1. CASE net
    <3>1. w = Tail(line[e].wire)
      BY <1>10, <2>1 DEF Rest
    <3>2. Received(line[e]) = [line[e] EXCEPT !.wire = w]
      BY <3>1 DEF Received
    <3>3. [line[e] EXCEPT !.wire = w] \in Line /\ [line[e] EXCEPT !.wire = w].wire = w
      BY <1>6 DEF Line
    <3> QED
      BY <2>1, <3>2, <3>3
  <2>2. CASE ~net
    BY <1>6, <1>10, <2>2 DEF Rest
  <2> QED
    BY <2>1, <2>2
<1>12. line' = [line EXCEPT ![f] = l, ![e] = r]
  BY <1>1, <1>5, <1>11 DEF TypeInv
<1>13. line' \in [Endpoint -> Line] /\ line'[f] = l /\ line'[e] = r
  BY <1>1, <1>9, <1>12 DEF TypeInv
<1>14. ctx' = [ctx EXCEPT ![e] = g]
  BY <1>3 DEF EndPass
<1>15. ctx' \in [Endpoint -> Context] /\ ctx'[e] = g /\ ctx'[f] = ctx[f]
  BY <1>1, <1>4, <1>14 DEF TypeInv
<1>16. inbox' = [inbox EXCEPT ![e] = @ \o c.up]
  BY DEF EndPass
<1>17. inbox[e] \in Seq(Chunk) /\ inbox[e] \o c.up \in Seq(Chunk)
  <2>1. inbox[e] \in Seq(Chunk)
    BY EndType
  <2> QED
    BY <1>7, <2>1
<1>18. inbox' \in [Endpoint -> Seq(Chunk)] /\ inbox'[e] = inbox[e] \o c.up /\ inbox'[f] = inbox[f]
  BY <1>1, <1>16, <1>17 DEF TypeInv
<1>19. /\ Half(e, c, ctx[f], u, w, inbox[f], tk, gv, op)
       /\ Half(f, ctx[f], c, w, u, inbox[e] \o c.up, taken[f], given[f], Open(f))
  BY <1>8, <1>10, Zenon DEF Moment
<1>20. SameSender(ctx[f], ctx[f]) /\ SameReceiver(ctx[f], ctx[f])
  BY DEF SameSender, SameReceiver
<1>21. /\ Half(e, g, ctx[f], u, w, inbox[f], tk, gv, op)
       /\ Half(f, ctx[f], g, w, u, inbox[e] \o c.up, taken[f], given[f], Open(f))
  BY <1>4, <1>19, <1>20, HalfSame, Zenon
<1> QED
  BY <1>4, <1>9, <1>11, <1>13, <1>15, <1>18, <1>21 DEF Ended

\* A thread at the start of a pass.
LEMMA MomentStart ==
  ASSUME Inv, NEW e \in Endpoint
  PROVE  Moment(e, ctx[e], line[e].wire, taken[e], given[e], Open(e))
<1> DEFINE f == Peer(e)
<1>1. f \in Endpoint /\ Peer(f) = e
  BY PeerType
<1>2. TypeInv /\ EndOk(e) /\ Direction(e) /\ Direction(f)
  BY <1>1 DEF Inv
<1>3. ctx[e] \in Context /\ line[f].wire \in Seq(Packet) /\ inbox[e] \in Seq(Chunk)
  BY <1>1, <1>2, EndType
<1>4. ctx[e].out = <<>> /\ ctx[e].up = <<>>
  BY <1>2 DEF EndOk
<1>5. line[f].wire \o ctx[e].out = line[f].wire
  BY <1>3, <1>4, ConcatEmptySeq
<1>6. inbox[e] \o ctx[e].up = inbox[e]
  BY <1>3, <1>4, ConcatEmptySeq
<1>7. Half(e, ctx[e], ctx[f], line[f].wire, line[e].wire, inbox[f], taken[e], given[e], Open(e))
  BY <1>2 DEF Direction
<1>8. Half(f, ctx[f], ctx[e], line[e].wire, line[f].wire, inbox[e], taken[f], given[f], Open(f))
  BY <1>1, <1>2 DEF Direction
<1> QED
  BY <1>3, <1>5, <1>6, <1>7, <1>8 DEF Moment

\* After the network's part of a pass.
LEMMA AfterNetworkOk ==
  ASSUME Inv, NEW e \in Endpoint, NEW net \in BOOLEAN, net => line[e].wire # <<>>
  PROVE  Moment(e, AfterNetwork(e, net), Rest(e, net), taken[e], given[e], Open(e))
<1>1. TypeInv
  BY DEF Inv
<1>2. /\ line[e].wire \in Seq(Packet) /\ taken[e] \in Nat /\ Open(e) \in BOOLEAN
  BY <1>1, EndType
<1>3. PICK c : c = ClearAcked(ctx[e])
  OBVIOUS
<1>4. Moment(e, c, line[e].wire, taken[e], given[e], Open(e))
  BY <1>1, <1>2, <1>3, MomentStart, MomentClear, Zenon
<1>5. CASE net
  <2>1. PICK g : g = HandleNetwork(c, Head(line[e].wire))
    OBVIOUS
  <2>2. Moment(e, g, Tail(line[e].wire), taken[e], given[e], Open(e))
    BY <1>1, <1>2, <1>4, <1>5, <2>1, MomentNetwork, Zenon
  <2> QED
    BY <1>3, <1>5, <2>1, <2>2 DEF AfterNetwork, Rest
<1>6. CASE ~net
  BY <1>3, <1>4, <1>6 DEF AfterNetwork, Rest
<1> QED
  BY <1>5, <1>6

\* What is dequeued, and what stays in the queue.
LEMMA DequeuedType ==
  ASSUME NEW q \in Lengths, q # <<>>, NEW n \in Nat, n <= Head(q)
  PROVE  Dequeued(q, n) \in Lengths
<1>1. Head(q) \in Nat \ {0} /\ Tail(q) \in Lengths
  BY RangeHeadTail DEF Lengths
<1>2. CASE n < Head(q)
  <2>1. Head(q) - n \in Nat \ {0}
    BY <1>1, <1>2
  <2>2. <<Head(q) - n>> \in Lengths
    BY <2>1 DEF Lengths
  <2>3. <<Head(q) - n>> \o Tail(q) \in Lengths
    BY <1>1, <2>2 DEF Lengths
  <2> QED
    BY <1>2, <2>3, Zenon DEF Dequeued
<1>3. CASE ~(n < Head(q))
  BY <1>1, <1>3, Zenon DEF Dequeued
<1> QED
  BY <1>2, <1>3

LEMMA AppBytesType ==
  ASSUME Inv, NEW e \in Endpoint, NEW c, NEW w, Moment(e, c, w, taken[e], given[e], Open(e)), AppData(e)
  PROVE  /\ Open(e) = TRUE /\ AppBytes(e, c) \in Nat /\ AppBytes(e, c) > 0
         /\ AppBytes(e, c) <= Head(appQueue[e])
         /\ Dequeued(appQueue[e], AppBytes(e, c)) \in Lengths
<1>1. TypeInv /\ EndOk(e)
  BY DEF Inv
<1>2. appQueue[e] \in Lengths /\ Open(e) \in BOOLEAN
  BY <1>1, EndType
<1>3. appQueue[e] # <<>>
  BY DEF AppData
<1>4. Open(e) = TRUE
  BY <1>1, <1>2, <1>3 DEF EndOk
<1>5. Head(appQueue[e]) \in Nat /\ Head(appQueue[e]) > 0
  BY <1>2, <1>3, RangeHeadTail DEF Lengths
<1>6. c.theirWindow = RecvLen
  <2>1. PICK ps, k : HalfBy(e, c, ctx[Peer(e)], line[Peer(e)].wire \o c.out, w, inbox[Peer(e)],
                            taken[e], given[e], TRUE, ps, k)
    BY <1>4, Zenon DEF Moment, Half
  <2> QED
    BY <2>1 DEF HalfBy, OpenOk
<1>7. PICK n \in Nat : n = AppBytes(e, c) /\ n > 0 /\ n <= Head(appQueue[e])
  BY <1>5, <1>6, Sizes DEF AppBytes, MinOf
<1>8. Dequeued(appQueue[e], n) \in Lengths
  BY <1>2, <1>3, <1>7, DequeuedType
<1> QED
  BY <1>4, <1>7, <1>8

\* What the events of a pass do to its end.
LEMMA PassMoment ==
  ASSUME Inv, NEW e \in Endpoint, NEW net \in BOOLEAN, Pass(e, net),
         NEW c, c = AfterNetwork(e, net), NEW d, d = AfterEvents(e, c)
  PROVE  \E tk \in Nat, op \in BOOLEAN, q \in Lengths, r \in BOOLEAN :
           /\ Moment(e, d, Rest(e, net), tk, given[e], op)
           /\ taken' = [taken EXCEPT ![e] = tk] /\ appQueue' = [appQueue EXCEPT ![e] = q]
           /\ closeReq' = [closeReq EXCEPT ![e] = r]
           /\ op <=> (~closed[e] \/ r)
           /\ r => closeReq[e]
           /\ ~op => q = <<>>
<1>1. TypeInv /\ EndOk(e)
  BY DEF Inv
<1>2. /\ taken[e] \in Nat /\ appQueue[e] \in Lengths /\ Open(e) \in BOOLEAN /\ line[e].wire \in Seq(Packet)
      /\ closeReq[e] \in BOOLEAN /\ closed[e] \in BOOLEAN
  BY <1>1, EndType
<1>3. net => line[e].wire # <<>>
  BY DEF Pass
<1>4. PICK w \in Seq(Packet) : w = Rest(e, net)
  <2>1. net => Tail(line[e].wire) \in Seq(Packet)
    BY <1>2, <1>3, RangeHeadTail
  <2>2. Rest(e, net) \in Seq(Packet)
    BY <1>2, <2>1, Zenon DEF Rest
  <2> QED
    BY <2>2, Zenon
<1>5. Moment(e, c, w, taken[e], given[e], Open(e))
  BY <1>3, <1>4, AfterNetworkOk
<1>6. /\ IF AppData(e)
         THEN /\ appQueue' = [appQueue EXCEPT ![e] = Dequeued(@, AppBytes(e, c))]
              /\ taken' = [taken EXCEPT ![e] = @ + AppBytes(e, c)]
         ELSE UNCHANGED <<appQueue, taken>>
      /\ closeReq' = [closeReq EXCEPT ![e] = @ /\ ~CloseRequested(e)]
  BY DEF Pass
<1>7. CASE AppData(e)
  <2>1. /\ Open(e) = TRUE /\ AppBytes(e, c) \in Nat /\ AppBytes(e, c) > 0
        /\ Dequeued(appQueue[e], AppBytes(e, c)) \in Lengths
    BY <1>5, <1>7, AppBytesType
  <2>2. PICK n \in Nat : n = AppBytes(e, c) /\ n > 0
    BY <2>1
  <2>3. ~CloseRequested(e)
    BY <1>7 DEF AppData, CloseRequested
  <2>4. d = PackAndSend(c, taken[e], n)
    BY <1>7, <2>2, <2>3 DEF AfterEvents
  <2>5. Moment(e, c, w, taken[e], given[e], TRUE)
    BY <1>5, <2>1
  <2>6. Moment(e, PackAndSend(c, taken[e], n), w, taken[e] + n, given[e], TRUE)
    BY <1>1, <1>2, <2>2, <2>5, MomentPacks, Zenon
  <2>7. PICK tk \in Nat : tk = taken[e] + n
    BY <1>2
  <2>8. PICK q \in Lengths : q = Dequeued(appQueue[e], n)
    BY <2>1, <2>2
  <2>9. Moment(e, d, Rest(e, net), tk, given[e], TRUE)
    BY <1>4, <2>4, <2>6, <2>7
  <2>10. closeReq' = [closeReq EXCEPT ![e] = closeReq[e]]
    BY <1>1, <1>2, <1>6, <2>3 DEF TypeInv
  <2>11. TRUE <=> (~closed[e] \/ closeReq[e])
    BY <2>1 DEF Open
  <2>12. appQueue' = [appQueue EXCEPT ![e] = q] /\ taken' = [taken EXCEPT ![e] = tk]
    BY <1>6, <1>7, <2>2, <2>7, <2>8
  <2> QED
    BY <1>2, <2>9, <2>10, <2>11, <2>12
<1>8. CASE ~AppData(e)
  <2>1. appQueue' = [appQueue EXCEPT ![e] = appQueue[e]] /\ taken' = [taken EXCEPT ![e] = taken[e]]
    BY <1>1, <1>6, <1>8 DEF TypeInv
  <2>2. appQueue[e] = <<>>
    BY <1>8 DEF AppData
  <2>3. CASE CloseRequested(e)
    <3>1. closeReq[e] /\ Open(e) = TRUE /\ closed[e]
      BY <1>1, <2>3 DEF CloseRequested, Open, EndOk
    <3>2. d = SendFin(c)
      BY <1>8, <2>3 DEF AfterEvents
    <3>3. Moment(e, c, w, taken[e], given[e], TRUE)
      BY <1>5, <3>1
    <3>4. Moment(e, SendFin(c), w, taken[e], given[e], FALSE)
      BY <1>1, <1>2, <3>3, MomentFin, Zenon
    <3>5. Moment(e, d, Rest(e, net), taken[e], given[e], FALSE)
      BY <1>4, <3>2, <3>4
    <3>6. closeReq' = [closeReq EXCEPT ![e] = FALSE]
      BY <1>6, <2>3
    <3>7. FALSE <=> (~closed[e] \/ FALSE)
      BY <3>1
    <3> QED
      BY <1>2, <2>1, <2>2, <3>5, <3>6, <3>7
  <2>4. CASE ~CloseRequested(e)
    <3>1. d = c
      BY <1>8, <2>4 DEF AfterEvents
    <3>2. closeReq' = [closeReq EXCEPT ![e] = closeReq[e]]
      BY <1>1, <1>2, <1>6, <2>4 DEF TypeInv
    <3>3. Open(e) <=> (~closed[e] \/ closeReq[e])
      BY DEF Open
    <3>4. Moment(e, d, Rest(e, net), taken[e], given[e], Open(e))
      BY <1>4, <1>5, <3>1
    <3> QED
      BY <1>2, <2>1, <2>2, <3>2, <3>3, <3>4
  <2> QED
    BY <2>3, <2>4
<1> QED
  BY <1>7, <1>8

\* A thread's step keeps the invariant if it keeps what it says of the two ends.
LEMMA TwoEnds ==
  ASSUME TypeInv', NEW e \in Endpoint, NEW f, f = Peer(e),
         EndOk(e)', EndOk(f)', Direction(e)', Direction(f)'
  PROVE  Inv'
<1>1. \A x \in Endpoint : x = e \/ x = f
  BY DEF Endpoint, Peer
<1> QED
  BY <1>1 DEF Inv

LEMMA PassStep ==
  ASSUME Reliable, Inv, NEW e \in Endpoint, NEW net \in BOOLEAN, Pass(e, net)
  PROVE  Inv'
<1>1. PICK f \in Endpoint : f = Peer(e) /\ f # e /\ Peer(f) = e
  BY PeerType
<1>2. PICK c, d : c = AfterNetwork(e, net) /\ d = AfterEvents(e, c)
  OBVIOUS
<1>3. TypeInv /\ EndOk(e) /\ EndOk(f) /\ (net => line[e].wire # <<>>)
  BY DEF Inv, Pass
<1>4. PICK tk \in Nat, op \in BOOLEAN, q \in Lengths, r \in BOOLEAN :
           /\ Moment(e, d, Rest(e, net), tk, given[e], op)
           /\ taken' = [taken EXCEPT ![e] = tk] /\ appQueue' = [appQueue EXCEPT ![e] = q]
           /\ closeReq' = [closeReq EXCEPT ![e] = r]
           /\ op <=> (~closed[e] \/ r)
           /\ r => closeReq[e]
           /\ ~op => q = <<>>
  BY <1>2, PassMoment
<1>5. EndPass(e, d, net)
  <2>1. \E x \in {c} : \E y \in {AfterEvents(e, x)} : EndPass(e, y, net)
    BY <1>2, Zenon DEF Pass
  <2> QED
    BY <1>2, <2>1
<1>6. toWrite' = toWrite /\ closed' = closed /\ given' = given
  BY DEF Pass
<1>7. /\ ctx' \in [Endpoint -> Context] /\ line' \in [Endpoint -> Line]
      /\ inbox' \in [Endpoint -> Seq(Chunk)]
      /\ ctx'[e].out = <<>> /\ ctx'[e].up = <<>> /\ ctx'[f] = ctx[f]
      /\ Half(e, ctx'[e], ctx'[f], line'[f].wire, line'[e].wire, inbox'[f], tk, given[e], op)
      /\ Half(f, ctx'[f], ctx'[e], line'[e].wire, line'[f].wire, inbox'[e],
              taken[f], given[f], Open(f))
  <2>1. Moment(e, d, Rest(e, net), tk, given[e], op)
    BY <1>4
  <2>2. Ended(e, f, d, tk, given[e], op)
    BY <1>1, <1>3, <1>5, <2>1, EndsPass, Zenon
  <2> QED
    BY <2>2, Zenon DEF Ended
<1>8. TypeInv'
  BY <1>3, <1>4, <1>6, <1>7 DEF TypeInv
<1>9. /\ taken'[e] = tk /\ taken'[f] = taken[f]
      /\ appQueue'[e] = q /\ appQueue'[f] = appQueue[f]
      /\ closeReq'[e] = r /\ closeReq'[f] = closeReq[f]
  BY <1>1, <1>3, <1>4 DEF TypeInv
<1>10. (Open(e)' <=> op) /\ Open(e)' \in BOOLEAN /\ Open(f)' = Open(f)
  BY <1>4, <1>6, <1>9 DEF Open
<1>11. EndOk(e)'
  BY <1>3, <1>4, <1>6, <1>7, <1>9, <1>10 DEF EndOk
<1>12. EndOk(f)'
  BY <1>3, <1>6, <1>7, <1>9, <1>10 DEF EndOk
<1>13. Direction(e)'
  <2>1. Open(e)' = op
    BY <1>10
  <2> QED
    BY <1>1, <1>6, <1>7, <1>9, <2>1 DEF Direction
<1>14. Direction(f)'
  BY <1>1, <1>6, <1>7, <1>9, <1>10 DEF Direction
<1> QED
  BY <1>1, <1>8, <1>11, <1>12, <1>13, <1>14, TwoEnds

LEMMA TimeoutStep ==
  ASSUME Reliable, Inv, NEW e \in Endpoint, ThreadTimeout(e)
  PROVE  Inv'
<1>1. PICK f \in Endpoint : f = Peer(e) /\ f # e /\ Peer(f) = e
  BY PeerType
<1>2. PICK c : c = ClearAcked(ctx[e])
  OBVIOUS
<1>3. TypeInv /\ EndOk(e) /\ EndOk(f)
  BY DEF Inv
<1>4. /\ c.sentPackets # <<>>
      /\ EndPass(e, HandleTimeout(c), FALSE)
      /\ given' = IF GivesUp(c) /\ Head(c.sentPackets).pkt.kind = "DATA"
                  THEN [given EXCEPT ![e] = @ \cup {Head(c.sentPackets).pkt.off}]
                  ELSE given
      /\ toWrite' = toWrite /\ appQueue' = appQueue /\ taken' = taken
      /\ closeReq' = closeReq /\ closed' = closed
  BY <1>2 DEF ThreadTimeout
<1>5. /\ line[e].wire \in Seq(Packet) /\ taken[e] \in Nat /\ Open(e) \in BOOLEAN /\ given[e] \in SUBSET Nat
  BY <1>3, EndType
<1>6. Moment(e, c, line[e].wire, taken[e], given[e], Open(e))
  <2>1. Moment(e, ctx[e], line[e].wire, taken[e], given[e], Open(e))
    BY MomentStart
  <2> QED
    BY <1>2, <1>3, <1>5, <2>1, MomentClear, Zenon
<1>7. c \in Context /\ Head(c.sentPackets).pkt \in Packet
  <2>1. c \in Context
    BY <1>6 DEF Moment
  <2>2. c.sentPackets \in Seq(Entry)
    BY <2>1 DEF Context
  <2>3. Head(c.sentPackets) \in Entry
    BY <1>4, <2>2, RangeHeadTail
  <2> QED
    BY <2>1, <2>3 DEF Entry
<1>8. PICK gw, g : /\ gw \in SUBSET Nat /\ g = HandleTimeout(c) /\ given' = [given EXCEPT ![e] = gw]
                   /\ Moment(e, g, line[e].wire, taken[e], gw, Open(e))
  <2>1. CASE GivesUp(c)
    <3>1. HandleTimeout(c) = GiveUp(c)
      BY <2>1 DEF HandleTimeout
    <3>2. PICK gw : gw = IF Head(c.sentPackets).pkt.kind = "DATA"
                         THEN given[e] \cup {Head(c.sentPackets).pkt.off} ELSE given[e]
      OBVIOUS
    <3>3. gw \in SUBSET Nat
      BY <1>5, <1>7, <3>2 DEF Packet
    <3>4. given' = [given EXCEPT ![e] = gw]
      BY <1>3, <1>4, <2>1, <3>2 DEF TypeInv
    <3>5. PICK g : g = GiveUp(c)
      OBVIOUS
    <3>6. Moment(e, g, line[e].wire, taken[e], gw, Open(e))
      BY <1>3, <1>4, <1>5, <1>6, <3>2, <3>5, MomentGivesUp, Zenon
    <3> QED
      BY <3>1, <3>3, <3>4, <3>5, <3>6
  <2>2. CASE ~GivesUp(c)
    <3>1. HandleTimeout(c) = ResendAll(c)
      BY <2>2 DEF HandleTimeout
    <3>2. given' = [given EXCEPT ![e] = given[e]]
      BY <1>3, <1>4, <2>2 DEF TypeInv
    <3>3. PICK g : g = ResendAll(c)
      OBVIOUS
    <3>4. Moment(e, g, line[e].wire, taken[e], given[e], Open(e))
      BY <1>3, <1>4, <1>5, <1>6, <3>3, MomentResends, Zenon
    <3> QED
      BY <1>5, <3>1, <3>2, <3>3, <3>4
  <2> QED
    BY <2>1, <2>2
<1>9. Ended(e, f, g, taken[e], gw, Open(e))
  <2>1. Moment(e, g, Rest(e, FALSE), taken[e], gw, Open(e))
    BY <1>8 DEF Rest
  <2>2. EndPass(e, g, FALSE)
    BY <1>4, <1>8
  <2>3. FALSE => line[e].wire # <<>>
    OBVIOUS
  <2>4. FALSE \in BOOLEAN
    OBVIOUS
  <2> QED
    BY <1>1, <1>3, <1>5, <2>1, <2>2, <2>3, <2>4, EndsPass, Zenon
<1>10. /\ ctx' \in [Endpoint -> Context] /\ line' \in [Endpoint -> Line]
       /\ inbox' \in [Endpoint -> Seq(Chunk)]
       /\ ctx'[e].out = <<>> /\ ctx'[e].up = <<>> /\ ctx'[f] = ctx[f]
       /\ Half(e, ctx'[e], ctx'[f], line'[f].wire, line'[e].wire, inbox'[f], taken[e], gw, Open(e))
       /\ Half(f, ctx'[f], ctx'[e], line'[e].wire, line'[f].wire, inbox'[e],
               taken[f], given[f], Open(f))
  BY <1>9, Zenon DEF Ended
<1>11. TypeInv'
  BY <1>3, <1>4, <1>8, <1>10 DEF TypeInv
<1>12. given'[e] = gw /\ given'[f] = given[f]
  BY <1>1, <1>3, <1>8 DEF TypeInv
<1>13. Open(e)' = Open(e) /\ Open(f)' = Open(f)
  BY <1>4 DEF Open
<1>14. EndOk(e)' /\ EndOk(f)'
  BY <1>3, <1>4, <1>10, <1>13 DEF EndOk
<1>15. Direction(e)' /\ Direction(f)'
  BY <1>1, <1>4, <1>10, <1>12, <1>13 DEF Direction
<1> QED
  BY <1>1, <1>11, <1>14, <1>15, TwoEnds

LEMMA AppStep ==
  ASSUME Inv, NEW e \in Endpoint, AppWrite(e) \/ AppClose(e)
  PROVE  Inv'
<1>1. TypeInv
  BY DEF Inv
<1>2. ctx' = ctx /\ line' = line /\ inbox' = inbox /\ taken' = taken /\ given' = given
  BY DEF AppWrite, AppClose
<1>3. toWrite[e] \in Lengths /\ appQueue[e] \in Lengths /\ closed[e] \in BOOLEAN /\ closeReq[e] \in BOOLEAN
  BY <1>1, EndType
<1>4. CASE AppWrite(e)
  <2>1. /\ toWrite[e] # <<>> /\ appQueue' = [appQueue EXCEPT ![e] = Append(@, Head(toWrite[e]))]
        /\ toWrite' = [toWrite EXCEPT ![e] = Tail(@)]
        /\ closeReq' = closeReq /\ closed' = closed
    BY <1>4 DEF AppWrite
  <2>2. Head(toWrite[e]) \in Nat \ {0} /\ Tail(toWrite[e]) \in Lengths
    BY <1>3, <2>1, RangeHeadTail DEF Lengths
  <2>3. Append(appQueue[e], Head(toWrite[e])) \in Lengths
    BY <1>3, <2>2 DEF Lengths
  <2>4. TypeInv'
    BY <1>1, <1>2, <2>1, <2>2, <2>3 DEF TypeInv
  <2>5. ~closed[e]
    BY <2>1 DEF Inv, EndOk
  <2>6. ASSUME NEW x \in Endpoint
        PROVE  EndOk(x)' /\ Direction(x)'
    <3>1. EndOk(x) /\ Direction(x)
      BY DEF Inv
    <3>2. Open(x)' = Open(x)
      BY <2>1 DEF Open
    <3>3. Direction(x)'
      BY <1>2, <3>1, <3>2 DEF Direction
    <3>4. x # e => toWrite'[x] = toWrite[x] /\ appQueue'[x] = appQueue[x]
      BY <1>1, <2>1 DEF TypeInv
    <3>5. EndOk(x)'
      BY <1>2, <2>1, <2>5, <3>1, <3>2, <3>4 DEF EndOk, Open
    <3> QED
      BY <3>3, <3>5
  <2> QED
    BY <2>4, <2>6 DEF Inv
<1>5. CASE AppClose(e)
  <2>1. /\ ~closed[e] /\ toWrite[e] = <<>>
        /\ closeReq' = [closeReq EXCEPT ![e] = TRUE] /\ closed' = [closed EXCEPT ![e] = TRUE]
        /\ appQueue' = appQueue /\ toWrite' = toWrite
    BY <1>5 DEF AppClose
  <2>2. TypeInv'
    BY <1>1, <1>2, <2>1 DEF TypeInv
  <2>3. closeReq'[e] = TRUE /\ closed'[e] = TRUE
    BY <1>1, <2>1 DEF TypeInv
  <2>4. ASSUME NEW x \in Endpoint
        PROVE  EndOk(x)' /\ Direction(x)'
    <3>1. EndOk(x) /\ Direction(x)
      BY DEF Inv
    <3>2. x # e => closeReq'[x] = closeReq[x] /\ closed'[x] = closed[x]
      BY <1>1, <2>1 DEF TypeInv
    <3>3. Open(x)' = Open(x)
      BY <2>1, <2>3, <3>2 DEF Open
    <3>4. Direction(x)'
      BY <1>2, <3>1, <3>3 DEF Direction
    <3>5. EndOk(x)'
      BY <1>2, <2>1, <2>3, <3>1, <3>2, <3>3 DEF EndOk
    <3> QED
      BY <3>4, <3>5
  <2> QED
    BY <2>2, <2>4 DEF Inv
<1> QED
  BY <1>4, <1>5

-----------------------------------------------------------------------------
(* The theorems                                                            *)

\* Before anything is sent the chain of a direction is empty.
LEMMA HalfFresh ==
  ASSUME NEW e \in Endpoint, NEW c, NEW d, c = NewContext(e), d = NewContext(Peer(e)), NEW op
  PROVE  Half(e, c, d, <<>>, <<>>, <<>>, 0, {}, op)
<1>1. <<>> \in Seq(Packet) /\ Len(<<>>) = 0 /\ Range(<<>>) = {}
  BY DEF Range
<1>2. PICK ps : ps = <<>>
  OBVIOUS
<1>3. ps \in Seq(Packet) /\ Len(ps) = 0 /\ Chain(e, ps)
  BY <1>1, <1>2 DEF Chain
<1>4. /\ c.seq = Isn[e] + 1 /\ c.sentPackets = <<>> /\ c.theirWindow = RecvLen
      /\ d.nextSeqExpected = Isn[e] + 1 /\ d.ackNum = Isn[e] + 1
      /\ d.sentPackets = <<>> /\ d.ourWindow = RecvLen
  BY PeerType DEF NewContext
<1>5. SeqEnd(e, ps, 0) = Isn[e] + 1 /\ OffEnd(ps, 0) = 0
  BY DEF SeqEnd, OffEnd
<1>6. SenderOk(e, c.seq, c.sentPackets, 0, {}, ps, 0)
  BY <1>1, <1>3, <1>4, <1>5 DEF SenderOk
<1>7. Reads(<<>>) = Prefix(0)
  <2>1. [i \in DOMAIN <<>> |-> Bytes(<<>>[i])] = <<>> /\ Prefix(0) = <<>>
    BY DEF Prefix
  <2> QED
    BY <2>1, FlattenEmpty DEF Reads
<1>8. ReceiverOk(e, d.nextSeqExpected, d.ackNum, <<>>, ps, 0)
  BY <1>1, <1>3, <1>4, <1>5, <1>7 DEF ReceiverOk
<1>9. Flow(e, <<>>, ps, 0)
  BY <1>3, FlowEmpty
<1>10. AcksOk(e, <<>>, ps, 0)
  BY <1>1 DEF AcksOk
<1>11. OpenOk(c, d, <<>>, <<>>, <<>>)
  BY <1>1, <1>4 DEF OpenOk
<1>12. HalfBy(e, c, d, <<>>, <<>>, <<>>, 0, {}, op, ps, 0)
  <2>1. 0 \in 0..Len(ps)
    BY <1>3
  <2> QED
    BY <1>3, <1>6, <1>8, <1>9, <1>10, <1>11, <2>1, Zenon DEF HalfBy
<1> QED
  BY <1>12, Zenon DEF Half

LEMMA InvInit == Init => Inv
<1> SUFFICES ASSUME Init
             PROVE  Inv
  OBVIOUS
<1>1. <<>> \in Seq(Packet) /\ <<>> \in Seq(Entry) /\ <<>> \in Seq(Chunk) /\ <<>> \in Seq(Nat \ {0})
  OBVIOUS
<1>2. ASSUME NEW e \in Endpoint
      PROVE  NewContext(e) \in Context
  <2>1. Isn[e] \in Nat /\ Isn[Peer(e)] \in Nat
    BY IsnType, PeerType
  <2> QED
    BY <1>1, <2>1, Sizes DEF NewContext, Context, State
<1>3. EmptyLine \in Line
  BY <1>1 DEF EmptyLine, Line
<1>4. toWrite \in [Endpoint -> Lengths]
  BY TransferAssumption DEF TransferAssumption, Init, Lengths
<1>5. TypeInv
  BY <1>1, <1>2, <1>3, <1>4 DEF Init, TypeInv, Lengths
<1>6. ASSUME NEW e \in Endpoint
      PROVE  EndOk(e) /\ Direction(e)
  <2>1. PICK f \in Endpoint : f = Peer(e)
    BY PeerType
  <2>2. /\ ctx[e] = NewContext(e) /\ ctx[f] = NewContext(f)
        /\ line[e].wire = <<>> /\ line[f].wire = <<>> /\ inbox[f] = <<>>
        /\ taken[e] = 0 /\ given[e] = {} /\ ~closed[e] /\ ~closeReq[e]
    BY DEF Init, EmptyLine
  <2>3. Half(e, ctx[e], ctx[f], <<>>, <<>>, <<>>, 0, {}, Open(e))
    BY <2>1, <2>2, HalfFresh
  <2>4. Direction(e)
    BY <2>1, <2>2, <2>3 DEF Direction
  <2>5. EndOk(e)
    BY <2>2 DEF EndOk, Open, NewContext
  <2> QED
    BY <2>4, <2>5
<1> QED
  BY <1>5, <1>6 DEF Inv

\* What the other lemmas say of one step, together.
LEMMA InvNext ==
  ASSUME Reliable, Inv, [Next]_vars
  PROVE  Inv'
<1>1. CASE UNCHANGED vars
  BY <1>1 DEF Inv, TypeInv, EndOk, Direction, Open, vars
<1>2. CASE Next
  <2>1. PICK e \in Endpoint : Thread(e) \/ AppWrite(e) \/ AppClose(e)
    BY <1>2 DEF Next
  <2>2. TRUE \in BOOLEAN /\ FALSE \in BOOLEAN
    OBVIOUS
  <2>3. CASE ThreadNetwork(e)
    BY <2>2, <2>3, PassStep, Zenon DEF ThreadNetwork
  <2>4. CASE ThreadApp(e)
    BY <2>2, <2>4, PassStep, Zenon DEF ThreadApp
  <2>5. CASE ThreadTimeout(e)
    BY <2>5, TimeoutStep
  <2>6. CASE AppWrite(e) \/ AppClose(e)
    BY <2>6, AppStep
  <2> QED
    BY <2>1, <2>3, <2>4, <2>5, <2>6 DEF Thread
<1> QED
  BY <1>1, <1>2

\* On a reliable line both directions always are as Half says: what each end sent
\* is a chain of which the other has a first part, and what is on its way brings
\* the rest in order.
THEOREM ReliableInvariant == Reliable => (Spec => []Inv)
<1> SUFFICES ASSUME Reliable
             PROVE  Spec => []Inv
  OBVIOUS
<1>1. Init => Inv
  BY InvInit
<1>2. Inv /\ [Next]_vars => Inv'
  BY InvNext
<1> QED
  BY <1>1, <1>2, PTL DEF Spec

\* What a direction says of the reader: it got the first n bytes of the stream, and
\* all of them when it was told the end, which is when the stream no longer is open.
ReaderAt(in, tk, op, n) ==
  /\ n \in Nat /\ Reads(in) = Prefix(n) /\ n <= tk
  /\ Eof \in Range(in) => ~op /\ n = tk

LEMMA HalfReader ==
  ASSUME NEW e \in Endpoint, NEW c, NEW d, NEW w, NEW v, NEW in, NEW tk, NEW gv, NEW op \in BOOLEAN,
         Half(e, c, d, w, v, in, tk, gv, op)
  PROVE  \E n : ReaderAt(in, tk, op, n)
<1>1. PICK ps, k : HalfBy(e, c, d, w, v, in, tk, gv, op, ps, k)
  BY Zenon DEF Half
<1>2. /\ Chain(e, ps) /\ k \in 0..Len(ps) /\ SenderOk(e, c.seq, c.sentPackets, tk, gv, ps, k)
      /\ ReceiverOk(e, d.nextSeqExpected, d.ackNum, in, ps, k)
      /\ op => OpenOk(c, d, w, v, in)
  BY <1>1, Zenon DEF HalfBy
<1>3. PICK l \in Nat : l = Len(ps)
  BY <1>2 DEF Chain
<1>4. tk = OffEnd(ps, l) /\ Reads(in) = Prefix(OffEnd(ps, k)) /\ (Eof \in Range(in) => k = l)
  BY <1>2, <1>3, Zenon DEF SenderOk, ReceiverOk
<1>5. k \in 0..Len(ps) /\ l \in 0..Len(ps) /\ k <= l
  BY <1>2, <1>3
<1>6. OffEnd(ps, k) \in Nat /\ OffEnd(ps, k) <= OffEnd(ps, l)
  BY <1>2, <1>5, ChainType, ChainEnds
<1>7. Eof \in Range(in) => ~op
  BY <1>2, Zenon DEF OpenOk
<1> QED
  BY <1>4, <1>6, <1>7 DEF ReaderAt

LEMMA Readers ==
  ASSUME Inv, NEW e \in Endpoint, NEW f, f = Peer(e)
  PROVE  /\ \E n : ReaderAt(inbox[e], taken[f], Open(f), n)
         /\ Readable(e) = Reads(inbox[e]) /\ EofSeen(e) = (Eof \in Range(inbox[e]))
<1>1. f \in Endpoint /\ Peer(f) = e /\ TypeInv /\ Direction(f)
  BY PeerType DEF Inv
<1>2. Open(f) \in BOOLEAN
  BY <1>1, EndType
<1>3. Half(f, ctx[f], ctx[e], line[e].wire, line[f].wire, inbox[e], taken[f], given[f], Open(f))
  BY <1>1, Zenon DEF Direction
<1>4. \E n : ReaderAt(inbox[e], taken[f], Open(f), n)
  BY <1>1, <1>2, <1>3, HalfReader, Zenon
<1> QED
  BY <1>4 DEF Readable, Reads, EofSeen, ToSet, Range

\* What e's application reads is the stream the peer wrote (myread() after
\* dequeue_from_appsend()): however often a timeout sends its packets again, none is
\* taken twice or out of turn.
THEOREM ReadsTheStream == Reliable => (Spec => []InOrderDelivery)
<1> SUFFICES ASSUME Reliable
             PROVE  Spec => []InOrderDelivery
  OBVIOUS
<1>1. Inv => InOrderDelivery
  <2> SUFFICES ASSUME Inv, NEW e \in Endpoint
               PROVE  Readable(e) = [i \in 1..Len(Readable(e)) |-> i - 1]
    BY DEF InOrderDelivery
  <2>1. PICK n : ReaderAt(inbox[e], taken[Peer(e)], Open(Peer(e)), n)
    BY Readers
  <2>2. n \in Nat /\ Readable(e) = Prefix(n)
    BY <2>1, Readers DEF ReaderAt
  <2>3. Len(Prefix(n)) = n
    BY <2>2 DEF Prefix
  <2> QED
    BY <2>2, <2>3 DEF Prefix
<1>2. Spec => []Inv
  BY ReliableInvariant
<1> QED
  BY <1>1, <1>2, PTL

\* An end that has everything acknowledged and gave up nothing is where its peer
\* expects it to be, and the peer is never ahead.
THEOREM EndsAgree == Reliable => (Spec => []NumbersAgree)
<1> SUFFICES ASSUME Reliable
             PROVE  Spec => []NumbersAgree
  OBVIOUS
<1>1. Inv => NumbersAgree
  <2> SUFFICES ASSUME Inv, NEW e \in Endpoint
               PROVE  /\ ctx[Peer(e)].nextSeqExpected <= ctx[e].seq
                      /\ ctx[Peer(e)].ackNum = ctx[Peer(e)].nextSeqExpected
                      /\ (\A i \in DOMAIN ctx[e].sentPackets : ctx[e].sentPackets[i].ackd) /\ given[e] = {}
                           => ctx[Peer(e)].nextSeqExpected = ctx[e].seq
    BY DEF NumbersAgree
  <2>1. PICK c, d : c = ctx[e] /\ d = ctx[Peer(e)]
    OBVIOUS
  <2>2. Half(e, c, d, line[Peer(e)].wire, line[e].wire, inbox[Peer(e)], taken[e], given[e], Open(e))
    BY <2>1 DEF Inv, Direction
  <2>3. PICK ps, k : HalfBy(e, c, d, line[Peer(e)].wire, line[e].wire, inbox[Peer(e)],
                            taken[e], given[e], Open(e), ps, k)
    BY <2>2, Zenon DEF Half
  <2>4. /\ Chain(e, ps) /\ k \in 0..Len(ps)
        /\ SenderOk(e, c.seq, c.sentPackets, taken[e], given[e], ps, k)
        /\ ReceiverOk(e, d.nextSeqExpected, d.ackNum, inbox[Peer(e)], ps, k)
    BY <2>3, Zenon DEF HalfBy
  <2>5. PICK l \in Nat : l = Len(ps)
    BY <2>4 DEF Chain
  <2>6. c.seq = SeqEnd(e, ps, l) /\ d.nextSeqExpected = SeqEnd(e, ps, k) /\ d.ackNum = d.nextSeqExpected
    BY <2>4, <2>5, Zenon DEF SenderOk, ReceiverOk
  <2>7. k \in 0..Len(ps) /\ l \in 0..Len(ps) /\ k <= l
    BY <2>4, <2>5
  <2>8. SeqEnd(e, ps, k) <= SeqEnd(e, ps, l)
    BY <2>4, <2>7, ChainEnds
  <2>9. ASSUME \A i \in DOMAIN c.sentPackets : c.sentPackets[i].ackd, given[e] = {}
        PROVE  k = l
    <3>1. SUFFICES ASSUME k < l
                   PROVE  FALSE
      BY <2>7
    <3>2. k + 1 \in (k + 1)..Len(ps)
      BY <2>5, <2>7, <3>1
    <3>3. \/ ps[k + 1].off \in given[e]
          \/ \E x \in Range(c.sentPackets) : x.pkt = ps[k + 1] /\ ~x.ackd
      BY <2>4, <3>2, Zenon DEF SenderOk
    <3>4. PICK x \in Range(c.sentPackets) : ~x.ackd
      BY <2>9, <3>3
    <3> QED
      BY <2>9, <3>4 DEF Range
  <2> QED
    BY <2>1, <2>6, <2>8, <2>9
<1>2. Spec => []Inv
  BY ReliableInvariant
<1> QED
  BY <1>1, <1>2, PTL

\* The sender forgets a byte only when the peer's application has it, or a timeout
\* gave it up: a cumulative ACK never covers a packet the peer did not take.
THEOREM ForgottenIsDelivered == Reliable => (Spec => []AckedIsDelivered)
<1> SUFFICES ASSUME Reliable
             PROVE  Spec => []AckedIsDelivered
  OBVIOUS
<1>1. Inv => AckedIsDelivered
  <2> SUFFICES ASSUME Inv, NEW e \in Endpoint, NEW b \in 0..(taken[e] - 1)
               PROVE  Keeps(e, b) \/ GaveUp(e, b) \/ b \in ToSet(Readable(Peer(e)))
    BY DEF AckedIsDelivered
  <2>1. PICK c, f : c = ctx[e] /\ f = Peer(e)
    OBVIOUS
  <2>2. Half(e, c, ctx[f], line[f].wire, line[e].wire, inbox[f], taken[e], given[e], Open(e))
    BY <2>1 DEF Inv, Direction
  <2>3. PICK ps, k : HalfBy(e, c, ctx[f], line[f].wire, line[e].wire, inbox[f],
                            taken[e], given[e], Open(e), ps, k)
    BY <2>2, Zenon DEF Half
  <2>4. /\ Chain(e, ps) /\ k \in 0..Len(ps)
        /\ SenderOk(e, c.seq, c.sentPackets, taken[e], given[e], ps, k)
        /\ ReceiverOk(e, ctx[f].nextSeqExpected, ctx[f].ackNum, inbox[f], ps, k)
    BY <2>3, Zenon DEF HalfBy
  <2>5. taken[e] = OffEnd(ps, Len(ps)) /\ Reads(inbox[f]) = Prefix(OffEnd(ps, k))
    BY <2>4, Zenon DEF SenderOk, ReceiverOk
  <2>6. taken[e] \in Nat /\ b \in Nat /\ b < taken[e]
    <3>1. taken[e] \in Nat
      BY EndType DEF Inv
    <3> QED
      BY <3>1
  <2>7. PICK j \in 1..Len(ps) : ps[j].off <= b /\ b < ps[j].off + ps[j].len
    BY <2>4, <2>5, <2>6, ChainBytes
  <2>8. CASE j <= k
    <3>1. j \in 0..Len(ps) /\ j # 0
      BY <2>7
    <3>2. OffEnd(ps, j) <= OffEnd(ps, k) /\ OffEnd(ps, j) \in Nat /\ OffEnd(ps, k) \in Nat
      BY <2>4, <2>8, <3>1, ChainType, ChainEnds
    <3>3. b < OffEnd(ps, j)
      BY <2>7, <3>1 DEF OffEnd
    <3>4. PICK n \in Nat : n = OffEnd(ps, k)
      BY <3>2
    <3>5. b + 1 \in 1..n /\ Prefix(n)[b + 1] = b /\ DOMAIN Prefix(n) = 1..n
      BY <2>6, <3>2, <3>3, <3>4 DEF Prefix
    <3>6. Readable(Peer(e)) = Prefix(n)
      BY <2>1, <2>5, <3>4 DEF Readable, Reads
    <3> QED
      BY <3>5, <3>6 DEF ToSet
  <2>9. CASE ~(j <= k)
    <3>1. j \in (k + 1)..Len(ps)
      BY <2>4, <2>7, <2>9
    <3>2. \/ ps[j].off \in given[e]
          \/ \E x \in Range(c.sentPackets) : x.pkt = ps[j] /\ ~x.ackd
      BY <2>4, <3>1, Zenon DEF SenderOk
    <3>3. CASE ps[j].off \in given[e]
      <4>1. ps[j].len \in 1..MaxData /\ ps[j] \in Packet
        BY <2>4, <2>7 DEF Chain
      <4>2. b < ps[j].off + MaxData
        BY <2>6, <2>7, <4>1, Sizes DEF Packet
      <4> QED
        BY <2>7, <3>3, <4>2 DEF GaveUp
    <3>4. CASE \E x \in Range(c.sentPackets) : x.pkt = ps[j] /\ ~x.ackd
      <4>1. PICK i \in DOMAIN c.sentPackets : c.sentPackets[i].pkt = ps[j] /\ ~c.sentPackets[i].ackd
        BY <3>4 DEF Range
      <4> QED
        BY <2>1, <2>7, <4>1 DEF Keeps
    <3> QED
      BY <3>2, <3>3, <3>4
  <2> QED
    BY <2>8, <2>9
<1>2. Spec => []Inv
  BY ReliableInvariant
<1> QED
  BY <1>1, <1>2, PTL
-----------------------------------------------------------------------------
(* How much the application wrote                                          *)

\* The partial sums of a list of lengths.
SumsOf(f, q) ==
  /\ f \in [0..Len(q) -> Nat] /\ f[0] = 0 /\ f[Len(q)] = Total(q)
  /\ \A i \in 1..Len(q) : f[i] = f[i - 1] + q[i]

LEMMA Sums ==
  ASSUME NEW q \in Seq(Nat)
  PROVE  (\E f : SumsOf(f, q)) /\ Total(q) \in Nat
<1>1. PICK n \in Nat : n = Len(q)
  OBVIOUS
<1> DEFINE G == [i \in 1..n |-> [x \in Nat |-> x + q[i]]]
<1>2. G \in [1..n -> [Nat -> Nat]]
  BY <1>1
<1>3. PICK h : Solves(h, n, Nat, 0, G)
  <2> HIDE DEF G
  <2>1. 0 \in Nat
    OBVIOUS
  <2> QED
    BY <1>2, <2>1, Recursion
<1>4. h \in [0..n -> Nat] /\ h[0] = 0
  BY <1>3 DEF Solves
<1>5. ASSUME NEW i \in 1..n
      PROVE  h[i] = h[i - 1] + q[i]
  <2>1. h[i] = G[i][h[i - 1]]
    <3> HIDE DEF G
    <3> QED
      BY <1>3 DEF Solves, Follows
  <2>2. h[i - 1] \in Nat
    BY <1>4
  <2> QED
    BY <2>1, <2>2
<1> DEFINE upto[i \in 0..Len(q)] == IF i = 0 THEN 0 ELSE upto[i - 1] + q[i]
<1>6. h = [i \in 0..Len(q) |-> IF i = 0 THEN 0 ELSE h[i - 1] + q[i]]
  BY <1>1, <1>4, <1>5
<1>7. upto = [i \in 0..Len(q) |-> IF i = 0 THEN 0 ELSE upto[i - 1] + q[i]]
  <2> HIDE DEF G
  <2>1. \E g : g = [i \in 0..Len(q) |-> IF i = 0 THEN 0 ELSE g[i - 1] + q[i]]
    BY <1>6
  <2> QED
    BY <2>1, Zenon DEF upto
<1>8. upto[0] = 0 /\ \A i \in 1..n : upto[i] = upto[i - 1] + q[i]
  <2> HIDE DEF upto, G
  <2> QED
    BY <1>1, <1>7
<1> DEFINE Good == {i \in 0..n : upto[i] = h[i]}
<1>9. 0..n \subseteq Good
  <2> HIDE DEF upto, G
  <2>1. 0 \in Good
    BY <1>4, <1>8
  <2>2. ASSUME NEW i \in 0..(n - 1), i \in Good
        PROVE  i + 1 \in Good
    <3>1. i + 1 \in 1..n /\ (i + 1) - 1 = i
      OBVIOUS
    <3> QED
      BY <1>5, <1>8, <2>2, <3>1
  <2> HIDE DEF Good
  <2> QED
    BY <2>1, <2>2, Induction, Zenon
<1>10. Total(q) = upto[Len(q)]
  BY Zenon DEF Total
<1>11. Total(q) = h[n]
  <2> HIDE DEF upto, G
  <2> QED
    BY <1>1, <1>9, <1>10
<1> HIDE DEF G, upto, Good
<1>12. SumsOf(h, q)
  BY <1>1, <1>4, <1>5, <1>11 DEF SumsOf
<1> QED
  BY <1>4, <1>11, <1>12

LEMMA TotalEmpty == Total(<<>>) = 0
<1>1. <<>> \in Seq(Nat) /\ Len(<<>>) = 0
  OBVIOUS
<1>2. PICK f : SumsOf(f, <<>>)
  BY <1>1, Sums
<1> QED
  BY <1>1, <1>2 DEF SumsOf

\* Sums that grow by the same lengths stay as far apart as they were.
LEMMA TotalAppend ==
  ASSUME NEW q \in Seq(Nat), NEW x \in Nat
  PROVE  Total(Append(q, x)) = Total(q) + x
<1>1. PICK t \in Seq(Nat) : t = Append(q, x)
  <2>1. Append(q, x) \in Seq(Nat)
    OBVIOUS
  <2> QED
    BY <2>1, Zenon
<1>2. PICK n \in Nat : n = Len(q)
  OBVIOUS
<1>3. Len(t) = n + 1 /\ t[n + 1] = x /\ \A i \in 1..n : t[i] = q[i]
  BY <1>1, <1>2
<1>4. PICK f, g : SumsOf(f, q) /\ SumsOf(g, t)
  BY Sums
<1>5. /\ f \in [0..n -> Nat] /\ f[0] = 0 /\ f[n] = Total(q) /\ \A i \in 1..n : f[i] = f[i - 1] + q[i]
      /\ g \in [0..(n + 1) -> Nat] /\ g[0] = 0 /\ g[n + 1] = Total(t)
      /\ \A i \in 1..(n + 1) : g[i] = g[i - 1] + t[i]
  BY <1>2, <1>3, <1>4 DEF SumsOf
<1> DEFINE Good == {i \in 0..n : g[i] = f[i]}
<1>6. 0..n \subseteq Good
  <2>1. 0 \in Good
    BY <1>5
  <2>2. ASSUME NEW i \in 0..(n - 1), i \in Good
        PROVE  i + 1 \in Good
    <3>1. i + 1 \in 1..n /\ i + 1 \in 1..(n + 1) /\ (i + 1) - 1 = i
      OBVIOUS
    <3> QED
      BY <1>3, <1>5, <2>2, <3>1
  <2> HIDE DEF Good
  <2> QED
    BY <2>1, <2>2, Induction, Zenon
<1>7. g[n] = f[n] /\ g[n + 1] = g[n] + t[n + 1]
  <2>1. n \in 0..n /\ n + 1 \in 1..(n + 1) /\ (n + 1) - 1 = n
    OBVIOUS
  <2> QED
    BY <1>5, <1>6, <2>1
<1> QED
  BY <1>1, <1>3, <1>5, <1>7

LEMMA TotalCons ==
  ASSUME NEW q \in Seq(Nat), NEW t \in Seq(Nat), NEW x \in Nat, q = <<x>> \o t
  PROVE  Total(q) = x + Total(t)
<1>1. PICK n \in Nat : n = Len(t)
  OBVIOUS
<1>2. Len(q) = n + 1 /\ q[1] = x /\ \A i \in 1..n : q[i + 1] = t[i]
  BY <1>1
<1>3. PICK f, g : SumsOf(f, t) /\ SumsOf(g, q)
  BY Sums
<1>4. /\ f \in [0..n -> Nat] /\ f[0] = 0 /\ f[n] = Total(t) /\ \A i \in 1..n : f[i] = f[i - 1] + t[i]
      /\ g \in [0..(n + 1) -> Nat] /\ g[0] = 0 /\ g[n + 1] = Total(q)
      /\ \A i \in 1..(n + 1) : g[i] = g[i - 1] + q[i]
  BY <1>1, <1>2, <1>3 DEF SumsOf
<1> DEFINE Good == {i \in 0..n : g[i + 1] = x + f[i]}
<1>5. 0..n \subseteq Good
  <2>1. 0 \in Good
    <3>1. 1 \in 1..(n + 1) /\ 1 - 1 = 0
      OBVIOUS
    <3>2. g[1] = g[1 - 1] + q[1]
      BY <1>4, <3>1
    <3> QED
      BY <1>2, <1>4, <3>1, <3>2
  <2>2. ASSUME NEW i \in 0..(n - 1), i \in Good
        PROVE  i + 1 \in Good
    <3>1. i + 1 \in 1..n /\ (i + 1) - 1 = i /\ (i + 1) + 1 \in 1..(n + 1) /\ ((i + 1) + 1) - 1 = i + 1
      OBVIOUS
    <3>2. g[(i + 1) + 1] = g[i + 1] + q[(i + 1) + 1]
      BY <1>4, <3>1
    <3>3. q[(i + 1) + 1] = t[i + 1] /\ t[i + 1] \in Nat
      BY <1>1, <1>2, <3>1
    <3>4. f[i + 1] = f[i] + t[i + 1] /\ f[i] \in Nat
      BY <1>4, <3>1
    <3>5. g[i + 1] = x + f[i]
      BY <2>2
    <3>6. PICK a \in Nat, b \in Nat : a = f[i] /\ b = t[i + 1]
      BY <3>3, <3>4
    <3>7. f[i + 1] = a + b /\ g[(i + 1) + 1] = (x + a) + b
      BY <3>2, <3>3, <3>4, <3>5, <3>6
    <3>8. (x + a) + b = x + (a + b)
      OBVIOUS
    <3>9. g[(i + 1) + 1] = x + f[i + 1]
      BY <3>7, <3>8
    <3> QED
      BY <3>1, <3>9
  <2> HIDE DEF Good
  <2> QED
    BY <2>1, <2>2, Induction, Zenon
<1>6. g[n + 1] = x + f[n]
  BY <1>5
<1> QED
  BY <1>4, <1>6

\* What leaves the queue was taken.
LEMMA TotalDequeued ==
  ASSUME NEW q \in Lengths, q # <<>>, NEW n \in Nat, n > 0, n <= Head(q)
  PROVE  n + Total(Dequeued(q, n)) = Total(q) /\ Total(Dequeued(q, n)) \in Nat
<1>1. q \in Seq(Nat) /\ Head(q) \in Nat /\ Tail(q) \in Seq(Nat)
  <2>1. Head(q) \in Nat \ {0} /\ Tail(q) \in Seq(Nat \ {0}) /\ q \in Seq(Nat \ {0})
    BY RangeHeadTail DEF Lengths
  <2> QED
    BY <2>1
<1>2. PICK x \in Nat, t \in Seq(Nat) : x = Head(q) /\ t = Tail(q)
  BY <1>1
<1>3. q = <<x>> \o t
  BY <1>1, <1>2
<1>4. Total(q) = x + Total(t) /\ Total(t) \in Nat
  BY <1>1, <1>3, TotalCons, Sums
<1>5. CASE n < x
  <2>1. PICK y \in Nat : y = x - n
    BY <1>5
  <2>2. PICK u \in Seq(Nat) : u = <<y>> \o t
    <3>1. <<y>> \o t \in Seq(Nat)
      BY <2>1
    <3> QED
      BY <3>1, Zenon
  <2>3. Total(u) = y + Total(t)
    BY <2>2, TotalCons
  <2>4. Dequeued(q, n) = u
    BY <1>2, <1>5, <2>1, <2>2 DEF Dequeued
  <2> QED
    BY <1>4, <2>1, <2>3, <2>4
<1>6. CASE n = x
  <2>1. Dequeued(q, n) = t
    BY <1>2, <1>6 DEF Dequeued
  <2> QED
    BY <1>4, <1>6, <2>1
<1> QED
  BY <1>2, <1>5, <1>6

\* An end-of-file is read after all that was written, once the peer closed: a FIN
\* waits its turn behind the packets of the chain.
THEOREM EofAfterAll == Reliable => (Spec => []EofMeansAllData)
<1> SUFFICES ASSUME Reliable
             PROVE  Spec => []EofMeansAllData
  OBVIOUS
<1>1. Inv => EofMeansAllData
  <2> SUFFICES ASSUME Inv, NEW e \in Endpoint, EofSeen(e)
               PROVE  /\ closed[Peer(e)] /\ toWrite[Peer(e)] = <<>>
                      /\ Len(Readable(e)) = Written(Peer(e))
    BY DEF EofMeansAllData
  <2>1. PICK f \in Endpoint : f = Peer(e)
    BY PeerType
  <2>2. PICK n : ReaderAt(inbox[e], taken[f], Open(f), n)
    BY <2>1, Readers
  <2>3. n \in Nat /\ Readable(e) = Prefix(n) /\ ~Open(f) /\ n = taken[f]
    BY <2>1, <2>2, Readers DEF ReaderAt
  <2>4. closed[f] /\ toWrite[f] = <<>> /\ appQueue[f] = <<>>
    BY <2>3 DEF Inv, EndOk, Open
  <2>5. Len(Readable(e)) = n
    BY <2>3 DEF Prefix
  <2>6. Written(f) = n
    BY <2>3, <2>4, TotalEmpty DEF Written
  <2> QED
    BY <2>1, <2>4, <2>5, <2>6
<1>2. Spec => []Inv
  BY ReliableInvariant
<1> QED
  BY <1>1, <1>2, PTL
-----------------------------------------------------------------------------
(* The refinement                                                          *)

\* What was passed up stays.
LEMMA ReadsGrow ==
  ASSUME NEW in \in Seq(Chunk), NEW up \in Seq(Chunk)
  PROVE  Len(Reads(in)) <= Len(Reads(in \o up))
<1>1. PICK n \in Nat : n = Len(up)
  OBVIOUS
<1> DEFINE Upper(m) == in \o SubSeq(up, 1, m)
           Good == {m \in 0..n : Len(Reads(in)) <= Len(Reads(Upper(m)))}
<1>2. ASSUME NEW m \in 0..n
      PROVE  Upper(m) \in Seq(Chunk) /\ SubSeq(up, 1, m) \in Seq(Chunk) /\ Len(Reads(Upper(m))) \in Nat
  <2>1. SubSeq(up, 1, m) \in Seq(Chunk)
    BY <1>1, FirstPart
  <2>2. Upper(m) \in Seq(Chunk)
    BY <2>1
  <2>3. PICK x \in Chunk : TRUE
    <3>1. [off |-> 0, len |-> 0] \in Chunk
      BY DEF Chunk
    <3> QED
      BY <3>1
  <2>4. Reads(Upper(m)) \in Seq(Nat)
    BY <2>2, <2>3, ReadsMore
  <2> QED
    BY <2>1, <2>2, <2>4
<1>3. Upper(0) = in /\ Upper(n) = in \o up
  <2>1. SubSeq(up, 1, 0) = <<>> /\ SubSeq(up, 1, n) = up
    BY <1>1
  <2> QED
    BY <2>1
<1>4. 0 \in Good
  <2>1. 0 \in 0..n /\ Len(Reads(Upper(0))) \in Nat
    BY <1>2
  <2>2. Reads(Upper(0)) = Reads(in)
    BY <1>3, Zenon
  <2> HIDE DEF Upper
  <2> QED
    BY <2>1, <2>2
<1>5. ASSUME NEW m \in 0..(n - 1), m \in Good
      PROVE  m + 1 \in Good
  <2>1. m + 1 \in 1..n /\ m + 1 \in 0..n /\ m \in 0..n
    OBVIOUS
  <2>2. PICK s \in Seq(Chunk), x \in Chunk : s = SubSeq(up, 1, m) /\ x = up[m + 1]
    <3>1. SubSeq(up, 1, m) \in Seq(Chunk)
      BY <1>2, <2>1
    <3>2. up[m + 1] \in Chunk
      BY <1>1, <2>1
    <3> QED
      BY <3>1, <3>2, Zenon
  <2>3. SubSeq(up, 1, m + 1) = Append(s, x)
    BY <1>1, <2>1, <2>2
  <2>4. Upper(m + 1) = Append(Upper(m), x)
    BY <2>2, <2>3, JoinAppend
  <2>5. PICK a \in Seq(Chunk) : a = Upper(m)
    BY <1>2, <2>1
  <2>6. Reads(Upper(m + 1)) = Reads(a) \o Bytes(x) /\ Reads(a) \in Seq(Nat)
    BY <2>4, <2>5, ReadsMore
  <2>7. Bytes(x) \in Seq(Nat)
    BY BytesType
  <2>8. Len(Reads(Upper(m + 1))) = Len(Reads(a)) + Len(Bytes(x)) /\ Len(Bytes(x)) \in Nat
    BY <2>6, <2>7
  <2>9. Len(Reads(in)) <= Len(Reads(a)) /\ Len(Reads(a)) \in Nat
    BY <1>5, <2>5, <2>6
  <2>10. Len(Reads(in)) \in Nat
    BY <1>2, <1>3
  <2> QED
    BY <2>1, <2>8, <2>9, <2>10
<1>6. 0..n \subseteq Good
  <2> HIDE DEF Good
  <2> QED
    BY <1>4, <1>5, Induction, Zenon
<1>7. n \in Good
  BY <1>6
<1> QED
  BY <1>3, <1>7

\* The same of the state a step leads to.
LEMMA ReadersNext ==
  ASSUME Inv', NEW e \in Endpoint, NEW f, f = Peer(e)
  PROVE  /\ \E n : ReaderAt(inbox'[e], taken'[f], Open(f)', n)
         /\ Readable(e)' = Reads(inbox'[e]) /\ EofSeen(e)' = (Eof \in Range(inbox'[e]))
<1>1. f \in Endpoint /\ Peer(f) = e /\ TypeInv' /\ Direction(f)'
  BY PeerType DEF Inv
<1>2. Open(f)' \in BOOLEAN
  BY DEF Open
<1>3. Half(f, ctx'[f], ctx'[e], line'[e].wire, line'[f].wire, inbox'[e], taken'[f], given'[f], Open(f)')
  BY <1>1, Zenon DEF Direction
<1>4. \E n : ReaderAt(inbox'[e], taken'[f], Open(f)', n)
  BY <1>1, <1>2, <1>3, HalfReader, Zenon
<1> QED
  BY <1>4 DEF Readable, Reads, EofSeen, ToSet, Range

\* A step of e's thread that writes nothing passes bytes up, or nothing.
Passes(e, up) ==
  /\ up \in Seq(Chunk) /\ inbox'[e] = inbox[e] \o up /\ inbox'[Peer(e)] = inbox[Peer(e)]
  /\ closed' = closed /\ \A x \in Endpoint : Written(x)' = Written(x)

LEMMA WrittenNat ==
  ASSUME TypeInv, NEW e \in Endpoint
  PROVE  Written(e) \in Nat /\ taken[e] <= Written(e)
<1>1. taken[e] \in Nat /\ appQueue[e] \in Seq(Nat)
  BY EndType DEF Lengths
<1>2. Total(appQueue[e]) \in Nat
  BY <1>1, Sums
<1> QED
  BY <1>1, <1>2 DEF Written

\* What the reader got before and after such a step, in terms of the stream.
LEMMA PassesUp ==
  ASSUME Inv, Inv', NEW e \in Endpoint, NEW f, f = Peer(e), NEW up, Passes(e, up)
  PROVE  /\ \E n \in Len(Readable(e))..Written(f) :
              /\ Readable(e)' = Prefix(n)
              /\ EofSeen(e) => Readable(e)' = Readable(e)
              /\ EofSeen(e)' /\ ~EofSeen(e) => closed[f] /\ n = Written(f)
         /\ EofSeen(e) => EofSeen(e)'
         /\ EofSeen(e)' \in BOOLEAN /\ EofSeen(e) \in BOOLEAN
         /\ Readable(f)' = Readable(f) /\ EofSeen(f)' = EofSeen(f)
<1>1. f \in Endpoint /\ Peer(f) = e /\ TypeInv /\ TypeInv'
  BY PeerType DEF Inv
<1>2. PICK m : ReaderAt(inbox[e], taken[f], Open(f), m)
  BY Readers
<1>3. PICK n : ReaderAt(inbox'[e], taken'[f], Open(f)', n)
  BY ReadersNext
<1>4. /\ Readable(e) = Reads(inbox[e]) /\ EofSeen(e) = (Eof \in Range(inbox[e]))
      /\ Readable(e)' = Reads(inbox'[e]) /\ EofSeen(e)' = (Eof \in Range(inbox'[e]))
  BY Readers, ReadersNext
<1>5. /\ m \in Nat /\ Readable(e) = Prefix(m) /\ m <= taken[f]
      /\ EofSeen(e) => ~Open(f) /\ m = taken[f]
  BY <1>2, <1>4 DEF ReaderAt
<1>6. /\ n \in Nat /\ Readable(e)' = Prefix(n) /\ n <= taken'[f]
      /\ EofSeen(e)' => ~Open(f)' /\ n = taken'[f]
  BY <1>3, <1>4 DEF ReaderAt
<1>7. Written(f)' = Written(f) /\ Written(f) \in Nat /\ closed' = closed
  BY <1>1, WrittenNat DEF Passes
<1>8. taken'[f] \in Nat /\ taken'[f] <= Written(f)'
  <2>1. taken'[f] \in Nat /\ appQueue'[f] \in Seq(Nat)
    BY <1>1 DEF TypeInv, Lengths
  <2>2. Total(appQueue'[f]) \in Nat
    BY <2>1, Sums
  <2> QED
    BY <2>1, <2>2 DEF Written
<1>9. Len(Prefix(m)) = m /\ Len(Prefix(n)) = n
  BY <1>5, <1>6 DEF Prefix
<1>10. m <= n
  <2>1. inbox[e] \in Seq(Chunk) /\ up \in Seq(Chunk) /\ inbox'[e] = inbox[e] \o up
    BY <1>1, EndType DEF Passes
  <2>2. Len(Reads(inbox[e])) <= Len(Reads(inbox'[e]))
    BY <2>1, ReadsGrow
  <2> QED
    BY <1>4, <1>5, <1>6, <1>9, <2>2
<1>11. n \in Len(Readable(e))..Written(f)
  BY <1>5, <1>6, <1>7, <1>8, <1>9, <1>10
<1>12. EofSeen(e) => EofSeen(e)'
  <2>1. inbox[e] \in Seq(Chunk) /\ up \in Seq(Chunk) /\ inbox'[e] = inbox[e] \o up
    BY <1>1, EndType DEF Passes
  <2>2. Range(inbox'[e]) = Range(inbox[e]) \cup Range(up)
    BY <2>1, RangeJoined
  <2> QED
    BY <1>4, <2>2
<1>13. EofSeen(e)' => closed[f] /\ n = Written(f)
  <2> SUFFICES ASSUME EofSeen(e)'
               PROVE  closed[f] /\ n = Written(f)
    OBVIOUS
  <2>1. n = taken'[f] /\ closed'[f] /\ appQueue'[f] = <<>>
    BY <1>1, <1>6 DEF Inv, EndOk, Open
  <2>2. Written(f)' = n
    BY <1>6, <2>1, TotalEmpty DEF Written
  <2> QED
    BY <1>7, <2>1, <2>2
<1>14. EofSeen(e) => Readable(e)' = Readable(e)
  <2> SUFFICES ASSUME EofSeen(e)
               PROVE  Readable(e)' = Readable(e)
    OBVIOUS
  <2>1. m = taken[f] /\ closed[f] /\ appQueue[f] = <<>>
    BY <1>1, <1>5 DEF Inv, EndOk, Open
  <2>2. Written(f) = m
    BY <1>5, <2>1, TotalEmpty DEF Written
  <2>3. n = m
    BY <1>12, <1>13, <2>2
  <2> QED
    BY <1>5, <1>6, <2>3
<1>15. Readable(f)' = Readable(f) /\ EofSeen(f)' = EofSeen(f)
  BY <1>1 DEF Passes, Readable, EofSeen
<1>16. EofSeen(e)' \in BOOLEAN /\ EofSeen(e) \in BOOLEAN
  BY DEF EofSeen
<1> QED
  BY <1>6, <1>11, <1>12, <1>13, <1>14, <1>15, <1>16

LEMMA PassesRefines ==
  ASSUME Inv, Inv', NEW e \in Endpoint, NEW up, Passes(e, up)
  PROVE  Stream!PassUp(e) \/ UNCHANGED Stream!vars
<1>1. PICK f \in Endpoint : f = Peer(e) /\ f # e
  BY PeerType
<1>2. \A x \in Endpoint : x = e \/ x = f
  BY <1>1 DEF Endpoint, Peer
<1>3. PICK n \in Len(Readable(e))..Written(f) :
        /\ Readable(e)' = Prefix(n)
        /\ EofSeen(e) => Readable(e)' = Readable(e)
        /\ EofSeen(e)' /\ ~EofSeen(e) => closed[f] /\ n = Written(f)
  BY <1>1, PassesUp, Zenon
<1>4. /\ EofSeen(e) => EofSeen(e)'
      /\ EofSeen(e)' \in BOOLEAN /\ EofSeen(e) \in BOOLEAN
      /\ Readable(f)' = Readable(f) /\ EofSeen(f)' = EofSeen(f)
  BY <1>1, PassesUp, Zenon
<1>5. closed' = closed /\ [x \in Endpoint |-> Written(x)]' = [x \in Endpoint |-> Written(x)]
  BY DEF Passes
<1>6. CASE EofSeen(e)
  <2>1. \A x \in Endpoint : Readable(x)' = Readable(x) /\ EofSeen(x)' = EofSeen(x)
    BY <1>2, <1>3, <1>4, <1>6
  <2> QED
    BY <1>5, <2>1 DEF Stream!vars
<1>7. CASE ~EofSeen(e)
  <2>1. [x \in Endpoint |-> Readable(x)]' = [[x \in Endpoint |-> Readable(x)] EXCEPT ![e] = Prefix(n)]
    BY <1>2, <1>3, <1>4
  <2>2. ~EofSeen(e)' => [x \in Endpoint |-> EofSeen(x)]' = [x \in Endpoint |-> EofSeen(x)]
    BY <1>2, <1>4, <1>7
  <2>3. EofSeen(e)' => [x \in Endpoint |-> EofSeen(x)]' = [[x \in Endpoint |-> EofSeen(x)] EXCEPT ![e] = TRUE]
    BY <1>2, <1>4, <1>7
  <2>4. Stream!First(n) = Prefix(n)
    BY DEF Stream!First, Prefix
  <2>5. EofSeen(e)' => closed[f] /\ n = Written(f)
    BY <1>3, <1>7
  <2> QED
    BY <1>1, <1>3, <1>5, <1>7, <2>1, <2>2, <2>3, <2>4, <2>5 DEF Stream!PassUp
<1> QED
  BY <1>6, <1>7

\* A pass moves bytes from the queue to the packets, and writes none.
LEMMA PassPasses ==
  ASSUME Inv, NEW e \in Endpoint, NEW net \in BOOLEAN, Pass(e, net)
  PROVE  \E up : Passes(e, up)
<1>1. TypeInv /\ Peer(e) \in Endpoint /\ Peer(e) # e
  BY PeerType DEF Inv
<1>2. PICK c, d : c = AfterNetwork(e, net) /\ d = AfterEvents(e, c)
  OBVIOUS
<1>3. EndPass(e, d, net)
  <2>1. \E x \in {c} : \E y \in {AfterEvents(e, x)} : EndPass(e, y, net)
    BY <1>2, Zenon DEF Pass
  <2> QED
    BY <1>2, <2>1
<1>4. \E tk \in Nat, op \in BOOLEAN : Moment(e, d, Rest(e, net), tk, given[e], op)
  BY <1>2, PassMoment
<1>5. d.up \in Seq(Chunk)
  BY <1>4 DEF Moment, Context
<1>6. inbox'[e] = inbox[e] \o d.up /\ inbox'[Peer(e)] = inbox[Peer(e)] /\ closed' = closed
  BY <1>1, <1>3 DEF EndPass, Pass, TypeInv
<1>7. ASSUME NEW x \in Endpoint
      PROVE  Written(x)' = Written(x)
  <2>1. IF AppData(e)
        THEN /\ appQueue' = [appQueue EXCEPT ![e] = Dequeued(@, AppBytes(e, c))]
             /\ taken' = [taken EXCEPT ![e] = @ + AppBytes(e, c)]
        ELSE UNCHANGED <<appQueue, taken>>
    BY <1>2 DEF Pass
  <2>2. CASE AppData(e) /\ x = e
    <3>1. Moment(e, c, Rest(e, net), taken[e], given[e], Open(e))
      BY <1>2, AfterNetworkOk DEF Pass
    <3>2. AppBytes(e, c) \in Nat /\ AppBytes(e, c) > 0 /\ AppBytes(e, c) <= Head(appQueue[e])
      BY <2>2, <3>1, AppBytesType
    <3>3. appQueue[e] \in Lengths /\ appQueue[e] # <<>> /\ taken[e] \in Nat
      BY <1>1, <2>2, EndType DEF AppData
    <3>4. PICK n \in Nat, q \in Lengths : n = AppBytes(e, c) /\ q = appQueue[e]
      BY <3>2, <3>3
    <3>5. n + Total(Dequeued(q, n)) = Total(q) /\ Total(Dequeued(q, n)) \in Nat
      BY <3>2, <3>3, <3>4, TotalDequeued
    <3>6. appQueue'[e] = Dequeued(q, n) /\ taken'[e] = taken[e] + n
      BY <1>1, <2>1, <2>2, <3>4 DEF TypeInv
    <3>7. Written(e)' = (taken[e] + n) + Total(Dequeued(q, n)) /\ Written(e) = taken[e] + Total(q)
      BY <3>4, <3>6 DEF Written
    <3> QED
      BY <2>2, <3>3, <3>5, <3>7
  <2>3. CASE AppData(e) /\ x # e
    <3>1. appQueue'[x] = appQueue[x] /\ taken'[x] = taken[x]
      BY <1>1, <2>1, <2>3 DEF TypeInv
    <3> QED
      BY <3>1 DEF Written
  <2>4. CASE ~AppData(e)
    BY <2>1, <2>4 DEF Written
  <2> QED
    BY <2>2, <2>3, <2>4
<1>8. Passes(e, d.up)
  BY <1>5, <1>6, <1>7 DEF Passes
<1> QED
  BY <1>8

\* A timeout sends, or gives up, what was taken before.
LEMMA TimeoutPasses ==
  ASSUME Inv, NEW e \in Endpoint, ThreadTimeout(e)
  PROVE  \E up : Passes(e, up)
<1>1. TypeInv /\ Peer(e) \in Endpoint /\ Peer(e) # e /\ ctx[e] \in Context /\ inbox[e] \in Seq(Chunk)
  BY PeerType, EndType DEF Inv
<1>2. PICK c : c = ClearAcked(ctx[e])
  OBVIOUS
<1>3. /\ EndPass(e, HandleTimeout(c), FALSE) /\ closed' = closed
      /\ taken' = taken /\ appQueue' = appQueue
  BY <1>2 DEF ThreadTimeout
<1>4. c \in Context /\ c.up = <<>>
  <2>1. ctx[e].up = <<>>
    BY DEF Inv, EndOk
  <2> QED
    BY <1>1, <1>2, <2>1, ClearsAcked
<1>5. HandleTimeout(c).up = c.up
  BY <1>4 DEF HandleTimeout, GiveUp, ResendAll, Context
<1>6. inbox'[e] = inbox[e] \o <<>> /\ inbox'[Peer(e)] = inbox[Peer(e)]
  BY <1>1, <1>3, <1>4, <1>5 DEF EndPass, TypeInv
<1>7. \A x \in Endpoint : Written(x)' = Written(x)
  BY <1>3 DEF Written
<1>8. Passes(e, <<>>)
  <2>1. <<>> \in Seq(Chunk)
    OBVIOUS
  <2> QED
    BY <1>3, <1>6, <1>7, <2>1 DEF Passes
<1> QED
  BY <1>8

LEMMA WriteRefines ==
  ASSUME Inv, NEW e \in Endpoint, AppWrite(e)
  PROVE  Stream!Write(e)
<1>1. TypeInv /\ toWrite[e] \in Lengths /\ appQueue[e] \in Lengths /\ taken[e] \in Nat
  BY EndType DEF Inv
<1>2. /\ toWrite[e] # <<>> /\ appQueue' = [appQueue EXCEPT ![e] = Append(@, Head(toWrite[e]))]
      /\ taken' = taken /\ inbox' = inbox /\ closed' = closed
  BY DEF AppWrite
<1>3. ~closed[e]
  BY <1>2 DEF Inv, EndOk
<1>4. PICK x \in Nat, q \in Seq(Nat) : x = Head(toWrite[e]) /\ x > 0 /\ q = appQueue[e]
  <2>1. Head(toWrite[e]) \in Nat \ {0} /\ appQueue[e] \in Seq(Nat)
    BY <1>1, <1>2, RangeHeadTail DEF Lengths
  <2> QED
    BY <2>1
<1>5. Written(e)' = taken[e] + Total(Append(q, x)) /\ Written(e) = taken[e] + Total(q)
  <2>1. appQueue'[e] = Append(q, x)
    BY <1>1, <1>2, <1>4 DEF TypeInv
  <2> QED
    BY <1>2, <1>4, <2>1 DEF Written
<1>6. Written(e)' \in Nat /\ Written(e)' > Written(e)
  <2>1. Total(Append(q, x)) = Total(q) + x /\ Total(q) \in Nat
    BY TotalAppend, Sums
  <2> QED
    BY <1>1, <1>4, <1>5, <2>1
<1>7. \A y \in Endpoint : y # e => Written(y)' = Written(y)
  BY <1>1, <1>2 DEF Written, TypeInv
<1>8. \A y \in Endpoint : Readable(y)' = Readable(y) /\ EofSeen(y)' = EofSeen(y)
  BY <1>2 DEF Readable, EofSeen
<1>9. [y \in Endpoint |-> Written(y)]' = [[y \in Endpoint |-> Written(y)] EXCEPT ![e] = Written(e)']
  BY <1>7
<1> QED
  BY <1>2, <1>3, <1>6, <1>8, <1>9 DEF Stream!Write

LEMMA CloseRefines ==
  ASSUME Inv, NEW e \in Endpoint, AppClose(e)
  PROVE  Stream!Close(e)
<1>1. closed' = [closed EXCEPT ![e] = TRUE] /\ taken' = taken /\ appQueue' = appQueue /\ inbox' = inbox
  BY DEF AppClose
<1>2. \A y \in Endpoint : /\ Written(y)' = Written(y) /\ Readable(y)' = Readable(y)
                          /\ EofSeen(y)' = EofSeen(y)
  BY <1>1 DEF Written, Readable, EofSeen
<1> QED
  BY <1>1, <1>2 DEF Stream!Close

LEMMA InitRefines == Init => Stream!Init
<1> SUFFICES ASSUME Init
             PROVE  Stream!Init
  OBVIOUS
<1>1. ASSUME NEW e \in Endpoint
      PROVE  Written(e) = 0 /\ closed[e] = FALSE /\ Readable(e) = <<>> /\ EofSeen(e) = FALSE
  <2>1. taken[e] = 0 /\ appQueue[e] = <<>> /\ inbox[e] = <<>> /\ closed[e] = FALSE
    BY DEF Init
  <2>2. [i \in DOMAIN inbox[e] |-> Bytes(inbox[e][i])] = <<>>
    BY <2>1
  <2>3. Readable(e) = <<>>
    BY <2>2, FlattenEmpty DEF Readable
  <2> QED
    BY <2>1, <2>3, TotalEmpty DEF Written, EofSeen, ToSet
<1>2. closed = [e \in Endpoint |-> FALSE]
  BY DEF Init
<1> QED
  BY <1>1, <1>2 DEF Stream!Init

LEMMA StepRefines ==
  ASSUME Reliable, Inv, Inv', [Next]_vars
  PROVE  [Stream!Next]_(Stream!vars)
<1>1. CASE UNCHANGED vars
  BY <1>1 DEF Stream!vars, vars, Written, Readable, EofSeen
<1>2. CASE Next
  <2>1. PICK e \in Endpoint : Thread(e) \/ AppWrite(e) \/ AppClose(e)
    BY <1>2 DEF Next
  <2>2. CASE Thread(e)
    <3>1. TRUE \in BOOLEAN /\ FALSE \in BOOLEAN
      OBVIOUS
    <3>2. \E up : Passes(e, up)
      BY <2>2, <3>1, PassPasses, TimeoutPasses, Zenon DEF Thread, ThreadNetwork, ThreadApp
    <3>3. Stream!PassUp(e) \/ UNCHANGED Stream!vars
      BY <3>2, PassesRefines
    <3> QED
      BY <3>3, Zenon DEF Stream!Next
  <2>3. CASE AppWrite(e)
    BY <2>3, WriteRefines, Zenon DEF Stream!Next
  <2>4. CASE AppClose(e)
    BY <2>4, CloseRefines, Zenon DEF Stream!Next
  <2> QED
    BY <2>1, <2>2, <2>3, <2>4
<1> QED
  BY <1>1, <1>2

\* A connection on a reliable line is the stream that mywrite(), myread() and
\* myclose() promise: each step of a thread passes up the next bytes, the end of the
\* stream after the last of them, or nothing.
THEOREM TransferRefinesStream == Reliable => (Spec => ImplementsStream)
<1> SUFFICES ASSUME Reliable
             PROVE  Spec => ImplementsStream
  OBVIOUS
<1>1. Init => Stream!Init
  BY InitRefines
<1>2. Inv /\ Inv' /\ [Next]_vars => [Stream!Next]_(Stream!vars)
  BY StepRefines
<1>3. Spec => []Inv
  BY ReliableInvariant
<1> QED
  BY <1>1, <1>2, <1>3, PTL DEF Spec, ImplementsStream, Stream!Spec
=============================================================================
