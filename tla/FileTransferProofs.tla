------------------------- MODULE FileTransferProofs -------------------------
(***************************************************************************)
(* A client that asks for files, for any clients, files, questions and     *)
(* sizes of buffers: what is kept as complete is the file that was asked   *)
(* for, the prompt finds the connection empty, and the queues keep the     *)
(* stream.  The invariant says of each connection how its queues hold what *)
(* one application wrote and the other has yet to read, what is known of a *)
(* sender whose FIN was seen, and how far the conversation of client and   *)
(* server has got.                                                         *)
(***************************************************************************)
EXTENDS FileTransfer, ListLemmas

\* The sizes of the buffers and the lengths of the files.
LEMMA BufferSizes == /\ Window \in Nat /\ Window > 0 /\ MaxData \in Nat /\ MaxData > 0
                     /\ ReadSize \in Nat /\ ReadSize > 0 /\ LineSize \in Nat /\ LineSize > 0
BY FileTransferAssumption DEF FileTransferAssumption

LEMMA Lengths == /\ FileLen \in [Names -> Nat \cup {-1}]
                 /\ \A n \in Names : FileLen[n] \in Nat \/ FileLen[n] = -1
BY FileTransferAssumption DEF FileTransferAssumption

Texts == Seq(Char)
Queues == Seq(Texts)
-----------------------------------------------------------------------------
(* Queues                                                                  *)

\* What two queues and the segments between them hold, in the order it is read.
Way(q, p, r) == FlattenSeq(q \o p \o r)

LEMMA TextsJoin ==
  ASSUME NEW a \in Texts, NEW b \in Texts
  PROVE  a \o b \in Texts
BY DEF Texts

LEMMA TextsAssoc ==
  ASSUME NEW a \in Texts, NEW b \in Texts, NEW c \in Texts
  PROVE  (a \o b) \o c = a \o (b \o c)
BY DEF Texts

LEMMA TextsEmpty ==
  ASSUME NEW a \in Texts
  PROVE  <<>> \in Texts /\ a \o <<>> = a /\ <<>> \o a = a
BY DEF Texts

LEMMA HoldsType ==
  ASSUME NEW q \in Queues
  PROVE  FlattenSeq(q) \in Texts
BY FlattenType, Zenon DEF Texts, Queues

LEMMA HoldsBoth ==
  ASSUME NEW q \in Queues, NEW p \in Queues
  PROVE  /\ q \o p \in Queues
         /\ FlattenSeq(q \o p) = FlattenSeq(q) \o FlattenSeq(p)
<1>1. q \o p \in Queues
  BY DEF Queues
<1>2. FlattenSeq(q \o p) = FlattenSeq(q) \o FlattenSeq(p)
  BY FlattenJoined, Zenon DEF Texts, Queues
<1> QED
  BY <1>1, <1>2, Zenon

LEMMA HoldsMore ==
  ASSUME NEW q \in Queues, NEW d \in Texts
  PROVE  /\ Append(q, d) \in Queues
         /\ FlattenSeq(Append(q, d)) = FlattenSeq(q) \o d
<1>1. Append(q, d) \in Queues
  BY DEF Queues
<1>2. FlattenSeq(Append(q, d)) = FlattenSeq(q) \o d
  BY FlattenAppend, Zenon DEF Texts, Queues
<1> QED
  BY <1>1, <1>2, Zenon

LEMMA HoldsNothing == <<>> \in Queues /\ <<>> \in Texts /\ FlattenSeq(<<>>) = <<>>
<1>1. <<>> \in Queues /\ <<>> \in Texts
  BY DEF Queues, Texts
<1> QED
  BY <1>1, FlattenEmpty, Zenon

\* The first node and the others.
LEMMA HoldsFirst ==
  ASSUME NEW q \in Queues, q # <<>>
  PROVE  /\ Head(q) \in Texts /\ Tail(q) \in Queues
         /\ FlattenSeq(q) = Head(q) \o FlattenSeq(Tail(q))
<1>1. PICK h \in Texts : h = Head(q)
  BY RangeHeadTail DEF Queues
<1>2. PICK t \in Queues : t = Tail(q)
  BY HeadTailProperties DEF Queues
<1>3. PICK f : f = <<h>>
  OBVIOUS
<1>4. f \in Queues /\ FlattenSeq(f) = h
  <2>1. <<h>> \in Queues
    BY DEF Queues
  <2>2. h \in Seq(Char)
    BY DEF Texts
  <2>3. FlattenSeq(<<h>>) = h
    BY <2>2, FlattenOne, Zenon
  <2> QED
    BY <1>3, <2>1, <2>3, Zenon
<1>5. q = f \o t
  <2>1. q \in Seq(Texts)
    BY DEF Queues
  <2>2. q = <<Head(q)>> \o Tail(q)
    BY <2>1
  <2> QED
    BY <1>1, <1>2, <1>3, <2>2, Zenon
<1>6. FlattenSeq(f \o t) = FlattenSeq(f) \o FlattenSeq(t)
  BY <1>4, HoldsBoth, Zenon
<1> QED
  BY <1>1, <1>2, <1>4, <1>5, <1>6, Zenon

LEMMA WayParts ==
  ASSUME NEW q \in Queues, NEW p \in Queues, NEW r \in Queues
  PROVE  /\ Way(q, p, r) \in Texts
         /\ Way(q, p, r) = FlattenSeq(q) \o (FlattenSeq(p) \o FlattenSeq(r))
<1>1. PICK qp \in Queues : qp = q \o p
  BY HoldsBoth, Zenon
<1>2. FlattenSeq(qp) = FlattenSeq(q) \o FlattenSeq(p)
  BY <1>1, HoldsBoth, Zenon
<1>3. qp \o r \in Queues /\ FlattenSeq(qp \o r) = FlattenSeq(qp) \o FlattenSeq(r)
  BY HoldsBoth, Zenon
<1>4. PICK a \in Texts : a = FlattenSeq(q)
  BY HoldsType, Zenon
<1>5. PICK b \in Texts : b = FlattenSeq(p)
  BY HoldsType, Zenon
<1>6. PICK c \in Texts : c = FlattenSeq(r)
  BY HoldsType, Zenon
<1>7. (a \o b) \o c = a \o (b \o c)
  BY TextsAssoc, Zenon
<1>8. Way(q, p, r) = a \o (b \o c)
  BY <1>1, <1>2, <1>3, <1>4, <1>5, <1>6, <1>7, Zenon DEF Way
<1>9. Way(q, p, r) \in Texts
  <2>1. FlattenSeq(qp \o r) \in Texts
    BY <1>3, HoldsType, Zenon
  <2> QED
    BY <1>1, <2>1, Zenon DEF Way
<1> QED
  BY <1>4, <1>5, <1>6, <1>8, <1>9, Zenon

\* A dequeue takes the first bytes and leaves the others: what a reader gets, and
\* what is left of the queue after the lock was taken again.
LEMMA DequeueSplits ==
  ASSUME NEW q \in Queues, q # <<>>, NEW max \in Nat, max > 0
  PROVE  /\ Copied(q, max) \in Texts /\ Dequeued(q, max) \in Queues
         /\ FlattenSeq(q) = Copied(q, max) \o FlattenSeq(Dequeued(q, max))
         /\ Copied(q, max) = <<>> <=> Head(q) = <<>>
         /\ Copied(q, max) = <<>> => Dequeued(q, max) = Tail(q)
         /\ Len(Copied(q, max)) <= max
<1>1. PICK h \in Texts : h = Head(q)
  BY HoldsFirst, Zenon
<1>2. PICK t \in Queues : t = Tail(q)
  BY HoldsFirst, Zenon
<1>3. FlattenSeq(q) = h \o FlattenSeq(t)
  BY <1>1, <1>2, HoldsFirst, Zenon
<1>4. h \in Seq(Char) /\ Len(h) \in Nat
  BY DEF Texts
<1>5. CASE Len(h) <= max
  <2>1. Copied(q, max) = SubSeq(h, 1, Len(h)) /\ Dequeued(q, max) = t
    BY <1>1, <1>2, <1>5 DEF Copied, Dequeued, Fits
  <2>2. SubSeq(h, 1, Len(h)) = h
    BY <1>4
  <2>3. h = <<>> <=> Len(h) = 0
    BY <1>4
  <2> QED
    BY <1>1, <1>2, <1>3, <1>4, <1>5, <2>1, <2>2
<1>6. CASE ~(Len(h) <= max)
  <2>1. max \in 0..Len(h)
    BY <1>4, <1>6
  <2>2. PICK a \in Texts : a = SubSeq(h, 1, max)
    BY <1>4, <2>1, FirstPart DEF Texts
  <2>3. PICK b \in Texts : b = SubSeq(h, max + 1, Len(h))
    BY <1>4, <2>1, LastPart DEF Texts
  <2>4. Len(a) = max
    BY <1>4, <2>1, <2>2, FirstPart
  <2>5. h = a \o b
    <3>1. <<>> \in Seq(Char)
      OBVIOUS
    <3>2. (<<>> \o SubSeq(h, 1, max)) \o SubSeq(h, max + 1, Len(h)) = <<>> \o h
      BY <1>4, <2>1, <3>1, MovePart, Zenon
    <3>3. <<>> \o h = h /\ <<>> \o a = a
      BY <1>1, <2>2, TextsEmpty, Zenon
    <3> QED
      BY <2>2, <2>3, <3>2, <3>3, Zenon
  <2>6. PICK f : f = <<b>>
    OBVIOUS
  <2>7. f \in Queues /\ FlattenSeq(f) = b
    <3>1. <<b>> \in Queues
      BY DEF Queues
    <3>2. b \in Seq(Char)
      BY DEF Texts
    <3>3. FlattenSeq(<<b>>) = b
      BY <3>2, FlattenOne, Zenon
    <3> QED
      BY <2>6, <3>1, <3>3, Zenon
  <2>8. Copied(q, max) = a
    BY <1>1, <1>6, <2>2 DEF Copied, Fits
  <2>9. Dequeued(q, max) = f \o t
    <3>1. ~Fits(q, max)
      BY <1>1, <1>6 DEF Fits
    <3>2. Shortened(q, max) = f \o t
      BY <1>1, <1>2, <2>3, <2>6, Zenon DEF Shortened
    <3> QED
      BY <3>1, <3>2, Zenon DEF Dequeued
  <2>10. f \o t \in Queues /\ FlattenSeq(f \o t) = b \o FlattenSeq(t)
    BY <2>7, HoldsBoth, Zenon
  <2>11. (a \o b) \o FlattenSeq(t) = a \o (b \o FlattenSeq(t))
    <3>1. FlattenSeq(t) \in Texts
      BY HoldsType, Zenon
    <3> QED
      BY <3>1, TextsAssoc, Zenon
  <2>12. FlattenSeq(q) = Copied(q, max) \o FlattenSeq(Dequeued(q, max))
    BY <1>3, <2>5, <2>8, <2>9, <2>10, <2>11, Zenon
  <2>13. a # <<>> /\ h # <<>>
    <3>1. Len(a) > 0 /\ Len(h) > 0
      BY <1>4, <1>6, <2>4
    <3>2. Len(<<>>) = 0
      OBVIOUS
    <3> QED
      BY <3>1, <3>2
  <2>14. Copied(q, max) \in Texts /\ Dequeued(q, max) \in Queues
    BY <2>8, <2>9, <2>10, Zenon
  <2>15. Copied(q, max) # <<>> /\ Head(q) # <<>>
    BY <1>1, <2>8, <2>13, Zenon
  <2>16. Len(Copied(q, max)) <= max
    BY <2>4, <2>8
  <2> QED
    BY <2>12, <2>14, <2>15, <2>16, Zenon
<1> QED
  BY <1>5, <1>6

\* A part of a text and the part that follows it.
LEMMA NextPart ==
  ASSUME NEW d \in Texts, NEW i \in 0..Len(d), NEW j \in 0..Len(d), i <= j
  PROVE  /\ SubSeq(d, 1, i) \in Texts /\ SubSeq(d, i + 1, j) \in Texts
         /\ Len(SubSeq(d, i + 1, j)) = j - i
         /\ SubSeq(d, 1, j) = SubSeq(d, 1, i) \o SubSeq(d, i + 1, j)
<1>0. d \in Seq(Char) /\ Len(d) \in Nat
  BY DEF Texts
<1>1. PICK a \in Texts : a = SubSeq(d, 1, i)
  BY <1>0, FirstPart DEF Texts
<1>2. PICK c \in Texts : c = SubSeq(d, 1, j)
  BY <1>0, FirstPart DEF Texts
<1>3. /\ Len(a) = i /\ (\A k \in 1..i : a[k] = d[k])
      /\ Len(c) = j /\ (\A k \in 1..j : c[k] = d[k])
  BY <1>0, <1>1, <1>2, FirstPart
<1>4. SubSeq(d, i + 1, j) \in Texts /\ Len(SubSeq(d, i + 1, j)) = j - i
      /\ \A k \in 1..(j - i) : SubSeq(d, i + 1, j)[k] = d[i + k]
  <2>1. i + 1 \in Int /\ j \in Int /\ \A k \in (i + 1)..j : d[k] \in Char
    BY <1>0
  <2> QED
    BY <1>0, <2>1, SubSeqProperties DEF Texts
<1>5. PICK b \in Texts : b = SubSeq(d, i + 1, j)
  BY <1>4, Zenon
<1>6. Len(b) = j - i /\ \A k \in 1..(j - i) : b[k] = d[i + k]
  BY <1>4, <1>5
<1>7. PICK e \in Texts : e = a \o b
  BY TextsJoin, Zenon
<1>8. /\ Len(e) = i + (j - i)
      /\ \A k \in 1..i : e[k] = a[k]
      /\ \A k \in (i + 1)..(i + (j - i)) : e[k] = b[k - i]
  <2>1. a \in Seq(Char) /\ b \in Seq(Char) /\ i = Len(a) /\ j - i = Len(b)
    BY <1>3, <1>6 DEF Texts
  <2> QED
    BY <1>7, <2>1, Joined
<1>9. \A k \in 1..j : e[k] = c[k]
  <2> SUFFICES ASSUME NEW k \in 1..j PROVE e[k] = c[k]
    OBVIOUS
  <2>1. CASE k <= i
    BY <1>3, <1>8, <2>1
  <2>2. CASE ~(k <= i)
    <3>1. k - i \in 1..(j - i) /\ i + (k - i) = k /\ k \in (i + 1)..(i + (j - i))
      BY <2>2
    <3> QED
      BY <1>3, <1>6, <1>8, <3>1
  <2> QED
    BY <2>1, <2>2
<1>10. e = c
  <2>1. e \in Seq(Char) /\ c \in Seq(Char) /\ Len(e) = Len(c) /\ Len(e) = j
    BY <1>3, <1>8 DEF Texts
  <2> QED
    BY <1>9, <2>1, SeqEqual
<1>11. SubSeq(d, 1, j) = SubSeq(d, 1, i) \o SubSeq(d, i + 1, j)
  BY <1>1, <1>2, <1>5, <1>7, <1>10, Zenon
<1> QED
  BY <1>1, <1>4, <1>11, Zenon

\* Where the i-th segment of n bytes ends.
SegmentEnd(n, i) == IF i * MaxData < n THEN i * MaxData ELSE n

LEMMA SegmentEnds ==
  ASSUME NEW d \in Texts
  PROVE  \E m \in Nat : /\ m = Len(Segments(d)) /\ DOMAIN Segments(d) = 1..m
                        /\ SegmentEnd(Len(d), 0) = 0 /\ SegmentEnd(Len(d), m) = Len(d)
                        /\ \A i \in 1..m :
                             /\ SegmentEnd(Len(d), i - 1) \in 0..Len(d)
                             /\ SegmentEnd(Len(d), i) \in 0..Len(d)
                             /\ SegmentEnd(Len(d), i - 1) < SegmentEnd(Len(d), i)
                             /\ Segments(d)[i] = SubSeq(d, SegmentEnd(Len(d), i - 1) + 1,
                                                        SegmentEnd(Len(d), i))
<1>0. PICK n \in Nat : n = Len(d)
  BY DEF Texts
<1>1. PICK M \in Nat : M = MaxData /\ M > 0
  BY BufferSizes
<1>2. PICK m \in Nat : m = (n + M - 1) \div M
  BY <1>1
<1>3. m * M <= n + M - 1 /\ n + M - 1 < m * M + M
  BY <1>1, <1>2
<1>4. PICK z \in Nat : z = m * M
  BY <1>1
<1>5. n <= z /\ z < n + M
  BY <1>1, <1>3, <1>4
<1>6. Segments(d) = [i \in 1..m |-> SubSeq(d, (i - 1) * M + 1, IF i * M < n THEN i * M ELSE n)]
  BY <1>0, <1>1, <1>2 DEF Segments
<1>7. Len(Segments(d)) = m /\ DOMAIN Segments(d) = 1..m
  BY <1>6
<1>8. SegmentEnd(n, 0) = 0 /\ SegmentEnd(n, m) = n
  BY <1>1, <1>4, <1>5 DEF SegmentEnd
<1>10. ASSUME NEW i \in 1..m
       PROVE  /\ SegmentEnd(n, i - 1) \in 0..n /\ SegmentEnd(n, i) \in 0..n
              /\ SegmentEnd(n, i - 1) < SegmentEnd(n, i)
              /\ Segments(d)[i] = SubSeq(d, SegmentEnd(n, i - 1) + 1, SegmentEnd(n, i))
  <2>1. PICK y \in Nat : y = (i - 1) * M
    BY <1>1
  <2>2. i * M = y + M
    BY <1>1, <2>1
  <2>3. y + M <= z
    <3>1. PICK j \in Nat : m = i + j
      <4>1. m - i \in Nat /\ m = i + (m - i)
        OBVIOUS
      <4> QED
        BY <4>1
    <3>2. z = i * M + j * M /\ j * M \in Nat
      BY <1>1, <1>4, <3>1
    <3> QED
      BY <2>2, <3>2
  <2>4. y < n
    BY <1>5, <2>3
  <2>5. Segments(d)[i] = SubSeq(d, y + 1, IF y + M < n THEN y + M ELSE n)
    BY <1>6, <2>1, <2>2
  <2>6. SegmentEnd(n, i - 1) = y
    BY <1>1, <2>1, <2>4 DEF SegmentEnd
  <2>7. SegmentEnd(n, i) = IF y + M < n THEN y + M ELSE n
    BY <1>1, <2>2 DEF SegmentEnd
  <2>8. /\ SegmentEnd(n, i - 1) \in 0..n /\ SegmentEnd(n, i) \in 0..n
        /\ SegmentEnd(n, i - 1) < SegmentEnd(n, i)
    BY <1>1, <2>4, <2>6, <2>7
  <2> QED
    BY <2>5, <2>6, <2>7, <2>8, Zenon
<1> QED
  BY <1>0, <1>7, <1>8, <1>10

\* Data is cut into segments that hold something, and nothing gets lost.
LEMMA SegmentsHold ==
  ASSUME NEW d \in Texts
  PROVE  /\ Segments(d) \in Queues /\ FlattenSeq(Segments(d)) = d
         /\ \A i \in DOMAIN Segments(d) : Segments(d)[i] # <<>>
<1>0. PICK n \in Nat : n = Len(d) /\ d \in Seq(Char)
  BY DEF Texts
<1>1. PICK m \in Nat :
        /\ m = Len(Segments(d)) /\ DOMAIN Segments(d) = 1..m
        /\ SegmentEnd(n, 0) = 0 /\ SegmentEnd(n, m) = n
        /\ \A i \in 1..m : /\ SegmentEnd(n, i - 1) \in 0..n /\ SegmentEnd(n, i) \in 0..n
                           /\ SegmentEnd(n, i - 1) < SegmentEnd(n, i)
                           /\ Segments(d)[i] = SubSeq(d, SegmentEnd(n, i - 1) + 1, SegmentEnd(n, i))
  BY <1>0, SegmentEnds
<1>2. PICK g : g = Segments(d)
  OBVIOUS
<1>3. ASSUME NEW i \in 1..m
      PROVE  /\ g[i] \in Texts /\ g[i] # <<>>
             /\ SubSeq(d, 1, SegmentEnd(n, i)) = SubSeq(d, 1, SegmentEnd(n, i - 1)) \o g[i]
  <2>1. PICK a \in 0..n : a = SegmentEnd(n, i - 1)
    BY <1>1
  <2>2. PICK b \in 0..n : b = SegmentEnd(n, i)
    BY <1>1
  <2>3. a < b /\ g[i] = SubSeq(d, a + 1, b)
    BY <1>1, <1>2, <2>1, <2>2
  <2>4. /\ g[i] \in Texts /\ Len(g[i]) = b - a
        /\ SubSeq(d, 1, b) = SubSeq(d, 1, a) \o g[i]
    <3>1. a \in 0..Len(d) /\ b \in 0..Len(d) /\ a <= b
      BY <1>0, <2>3
    <3>2. /\ SubSeq(d, a + 1, b) \in Texts /\ Len(SubSeq(d, a + 1, b)) = b - a
          /\ SubSeq(d, 1, b) = SubSeq(d, 1, a) \o SubSeq(d, a + 1, b)
      BY <3>1, NextPart, Zenon
    <3> QED
      BY <2>3, <3>2, Zenon
  <2>5. g[i] # <<>>
    <3>1. Len(g[i]) > 0 /\ Len(<<>>) = 0
      BY <2>3, <2>4
    <3> QED
      BY <3>1
  <2> QED
    BY <2>1, <2>2, <2>4, <2>5, Zenon
<1>4. g \in Queues
  <2>1. g = [i \in 1..m |-> g[i]]
    BY <1>1, <1>2 DEF Segments
  <2> QED
    BY <1>3, <2>1 DEF Queues
<1>5. PICK f : Flattens(f, g, Char)
  BY <1>4, FlattenSteps, Zenon DEF Queues, Texts
<1>6. /\ f \in [0..m -> Texts] /\ f[0] = <<>> /\ FlattenSeq(g) = f[m]
      /\ \A i \in 1..m : f[i] = f[i - 1] \o g[i]
  BY <1>1, <1>2, <1>5 DEF Flattens, Texts
<1> DEFINE CutAt(i) == f[i] = SubSeq(d, 1, SegmentEnd(n, i))
           Cut == {i \in 0..m : CutAt(i)}
<1>7. 0 \in Cut
  <2>1. SubSeq(d, 1, 0) = <<>>
    BY <1>0
  <2>2. CutAt(0)
    BY <1>1, <1>6, <2>1, Zenon
  <2>3. 0 \in 0..m
    OBVIOUS
  <2> QED
    BY <2>2, <2>3, Zenon
<1>8. ASSUME NEW i \in 0..(m - 1), i \in Cut
      PROVE  i + 1 \in Cut
  <2>1. i + 1 \in 1..m /\ (i + 1) - 1 = i /\ i + 1 \in 0..m
    OBVIOUS
  <2>2. f[i + 1] = f[i] \o g[i + 1]
    BY <1>6, <2>1
  <2>3. SubSeq(d, 1, SegmentEnd(n, i + 1)) = SubSeq(d, 1, SegmentEnd(n, i)) \o g[i + 1]
    BY <1>3, <2>1
  <2>4. CutAt(i)
    BY <1>8, Zenon
  <2>5. CutAt(i + 1)
    BY <2>2, <2>3, <2>4, Zenon
  <2> QED
    BY <2>1, <2>5, Zenon
<1>9. 0..m \subseteq Cut
  <2> HIDE DEF Cut
  <2> QED
    BY <1>7, <1>8, Induction, Zenon
<1>10. f[m] = SubSeq(d, 1, SegmentEnd(n, m))
  <2>1. m \in 0..m
    OBVIOUS
  <2> QED
    BY <1>9, <2>1, Zenon
<1>11. FlattenSeq(g) = d
  <2>1. SubSeq(d, 1, n) = d
    BY <1>0
  <2> QED
    BY <1>1, <1>6, <1>10, <2>1, Zenon
<1>12. \A i \in DOMAIN g : g[i] # <<>>
  BY <1>1, <1>2, <1>3, Zenon
<1> QED
  BY <1>2, <1>4, <1>11, <1>12, Zenon

\* One text is the beginning of another.
Starts(s, t) == \E r \in Texts : t = s \o r

LEMMA StartsItself ==
  ASSUME NEW s \in Texts
  PROVE  Starts(s, s)
<1>1. <<>> \in Texts /\ s \o <<>> = s
  BY TextsEmpty, Zenon
<1> QED
  BY <1>1, Zenon DEF Starts

LEMMA StartsLonger ==
  ASSUME NEW s \in Texts, NEW t \in Texts, NEW d \in Texts, Starts(s, t)
  PROVE  Starts(s, t \o d)
<1>1. PICK r \in Texts : t = s \o r
  BY Zenon DEF Starts
<1>2. r \o d \in Texts /\ (s \o r) \o d = s \o (r \o d)
  <2>1. r \o d \in Texts
    BY TextsJoin, Zenon
  <2>2. (s \o r) \o d = s \o (r \o d)
    BY TextsAssoc, Zenon
  <2> QED
    BY <2>1, <2>2, Zenon
<1> QED
  BY <1>1, <1>2, Zenon DEF Starts

LEMMA StartsShorter ==
  ASSUME NEW s \in Texts, NEW t \in Texts, NEW d \in Texts, Starts(s \o d, t)
  PROVE  Starts(s, t)
<1>1. PICK r \in Texts : t = (s \o d) \o r
  BY Zenon DEF Starts
<1>2. d \o r \in Texts /\ (s \o d) \o r = s \o (d \o r)
  <2>1. d \o r \in Texts
    BY TextsJoin, Zenon
  <2>2. (s \o d) \o r = s \o (d \o r)
    BY TextsAssoc, Zenon
  <2> QED
    BY <2>1, <2>2, Zenon
<1> QED
  BY <1>1, <1>2, Zenon DEF Starts

LEMMA StartsMore ==
  ASSUME NEW s \in Texts, NEW d \in Texts, NEW t \in Texts, Starts(d, t)
  PROVE  Starts(s \o d, s \o t)
<1>1. PICK r \in Texts : t = d \o r
  BY Zenon DEF Starts
<1>2. (s \o d) \o r = s \o (d \o r)
  BY TextsAssoc, Zenon
<1> QED
  BY <1>1, <1>2, Zenon DEF Starts

\* An application writes.
LEMMA WayWrite ==
  ASSUME NEW q \in Queues, NEW p \in Queues, NEW r \in Queues, NEW d \in Texts
  PROVE  Way(q, p, Append(r, d)) = Way(q, p, r) \o d
<1>1. PICK R \in Queues : R = Append(r, d)
  BY HoldsMore, Zenon
<1>2. PICK a \in Texts : a = FlattenSeq(q)
  BY HoldsType, Zenon
<1>3. PICK b \in Texts : b = FlattenSeq(p)
  BY HoldsType, Zenon
<1>4. PICK c \in Texts : c = FlattenSeq(r)
  BY HoldsType, Zenon
<1>5. PICK e \in Texts : e = c \o d
  BY TextsJoin, Zenon
<1>6. e = FlattenSeq(R)
  BY <1>1, <1>4, <1>5, HoldsMore, Zenon
<1>7. Way(q, p, R) = a \o (b \o e)
  <2>1. Way(q, p, R) = FlattenSeq(q) \o (FlattenSeq(p) \o FlattenSeq(R))
    BY WayParts, Zenon
  <2> QED
    BY <1>2, <1>3, <1>6, <2>1, Zenon
<1>8. Way(q, p, r) = a \o (b \o c)
  <2>1. Way(q, p, r) = FlattenSeq(q) \o (FlattenSeq(p) \o FlattenSeq(r))
    BY WayParts, Zenon
  <2> QED
    BY <1>2, <1>3, <1>4, <2>1, Zenon
<1>9. b \o c \in Texts
  BY TextsJoin, Zenon
<1>10. b \o e = (b \o c) \o d
  BY <1>5, TextsAssoc, Zenon
<1>11. a \o ((b \o c) \o d) = (a \o (b \o c)) \o d
  BY <1>9, TextsAssoc, Zenon
<1> QED
  BY <1>1, <1>7, <1>8, <1>10, <1>11, Zenon

\* What was dequeued goes out in segments.
LEMMA WayTake ==
  ASSUME NEW q \in Queues, NEW p \in Queues, NEW r \in Queues, r # <<>>,
         NEW max \in Nat, max > 0
  PROVE  Way(q, p \o Segments(Copied(r, max)), Dequeued(r, max)) = Way(q, p, r)
<1>1. PICK D \in Queues : D = Dequeued(r, max)
  BY DequeueSplits, Zenon
<1>2. PICK d \in Texts : d = Copied(r, max)
  BY DequeueSplits, Zenon
<1>3. PICK c \in Texts : c = FlattenSeq(D)
  BY HoldsType, Zenon
<1>4. PICK e \in Texts : e = d \o c
  BY TextsJoin, Zenon
<1>5. e = FlattenSeq(r)
  BY <1>1, <1>2, <1>3, <1>4, DequeueSplits, Zenon
<1>6. PICK g \in Queues : g = Segments(d)
  BY SegmentsHold, Zenon
<1>7. FlattenSeq(g) = d
  BY <1>6, SegmentsHold, Zenon
<1>8. PICK P \in Queues : P = p \o g
  BY HoldsBoth, Zenon
<1>9. PICK a \in Texts : a = FlattenSeq(q)
  BY HoldsType, Zenon
<1>10. PICK b \in Texts : b = FlattenSeq(p)
  BY HoldsType, Zenon
<1>11. PICK f \in Texts : f = b \o d
  BY TextsJoin, Zenon
<1>12. f = FlattenSeq(P)
  BY <1>7, <1>8, <1>10, <1>11, HoldsBoth, Zenon
<1>13. Way(q, P, D) = a \o (f \o c)
  <2>1. Way(q, P, D) = FlattenSeq(q) \o (FlattenSeq(P) \o FlattenSeq(D))
    BY WayParts, Zenon
  <2> QED
    BY <1>3, <1>9, <1>12, <2>1, Zenon
<1>14. Way(q, p, r) = a \o (b \o e)
  <2>1. Way(q, p, r) = FlattenSeq(q) \o (FlattenSeq(p) \o FlattenSeq(r))
    BY WayParts, Zenon
  <2> QED
    BY <1>5, <1>9, <1>10, <2>1, Zenon
<1>15. f \o c = b \o e
  BY <1>4, <1>11, TextsAssoc, Zenon
<1> QED
  BY <1>1, <1>2, <1>6, <1>8, <1>13, <1>14, <1>15, Zenon

\* A FIN goes out after all data.
LEMMA WayClose ==
  ASSUME NEW q \in Queues, NEW p \in Queues
  PROVE  /\ Append(p, <<>>) \in Queues
         /\ Way(q, Append(p, <<>>), <<>>) = Way(q, p, <<>>)
<1>0. <<>> \in Texts /\ <<>> \in Queues
  BY HoldsNothing, Zenon
<1>1. PICK P \in Queues : P = Append(p, <<>>)
  BY <1>0, HoldsMore, Zenon
<1>2. FlattenSeq(P) = FlattenSeq(p) \o <<>>
  BY <1>0, <1>1, HoldsMore, Zenon
<1>3. FlattenSeq(p) \in Texts
  BY HoldsType, Zenon
<1>4. FlattenSeq(P) = FlattenSeq(p)
  BY <1>2, <1>3, TextsEmpty, Zenon
<1>5. Way(q, P, <<>>) = FlattenSeq(q) \o (FlattenSeq(P) \o FlattenSeq(<<>>))
  BY <1>0, WayParts, Zenon
<1>6. Way(q, p, <<>>) = FlattenSeq(q) \o (FlattenSeq(p) \o FlattenSeq(<<>>))
  BY <1>0, WayParts, Zenon
<1> QED
  BY <1>1, <1>4, <1>5, <1>6, Zenon

Regroups(a, h, b, c) == (a \o h) \o (b \o c) = a \o ((h \o b) \o c)

LEMMA Regrouped ==
  ASSUME NEW a \in Texts, NEW h \in Texts, NEW b \in Texts, NEW c \in Texts
  PROVE  Regroups(a, h, b, c)
<1>1. PICK g \in Texts : g = b \o c
  BY TextsJoin, Zenon
<1>2. (a \o h) \o g = a \o (h \o g)
  BY TextsAssoc, Zenon
<1>3. (h \o b) \o c = h \o (b \o c)
  BY TextsAssoc, Zenon
<1> QED
  BY <1>1, <1>2, <1>3, Zenon DEF Regroups

\* A segment goes up.
LEMMA WayPassUp ==
  ASSUME NEW q \in Queues, NEW p \in Queues, NEW r \in Queues, p # <<>>
  PROVE  Way(Append(q, Head(p)), Tail(p), r) = Way(q, p, r)
<1>1. PICK h \in Texts : h = Head(p)
  BY HoldsFirst, Zenon
<1>2. PICK t \in Queues : t = Tail(p)
  BY HoldsFirst, Zenon
<1>3. PICK Q \in Queues : Q = Append(q, h)
  BY HoldsMore, Zenon
<1>4. PICK a \in Texts : a = FlattenSeq(q)
  BY HoldsType, Zenon
<1>5. PICK b \in Texts : b = FlattenSeq(t)
  BY HoldsType, Zenon
<1>6. PICK c \in Texts : c = FlattenSeq(r)
  BY HoldsType, Zenon
<1>g. Regroups(a, h, b, c)
  BY Regrouped, Zenon
<1>7. PICK e \in Texts : e = a \o h
  BY TextsJoin, Zenon
<1>8. PICK f \in Texts : f = h \o b
  BY TextsJoin, Zenon
<1>9. e = FlattenSeq(Q)
  BY <1>3, <1>4, <1>7, HoldsMore, Zenon
<1>10. f = FlattenSeq(p)
  BY <1>1, <1>2, <1>5, <1>8, HoldsFirst, Zenon
<1>11. Way(Q, t, r) = e \o (b \o c)
  <2>1. Way(Q, t, r) = FlattenSeq(Q) \o (FlattenSeq(t) \o FlattenSeq(r))
    BY WayParts, Zenon
  <2> QED
    BY <1>5, <1>6, <1>9, <2>1, Zenon
<1>12. Way(q, p, r) = a \o (f \o c)
  <2>1. Way(q, p, r) = FlattenSeq(q) \o (FlattenSeq(p) \o FlattenSeq(r))
    BY WayParts, Zenon
  <2> QED
    BY <1>4, <1>6, <1>10, <2>1, Zenon
<1> QED
  BY <1>1, <1>2, <1>3, <1>7, <1>8, <1>11, <1>12, <1>g, Zenon DEF Regroups

\* An application reads.
LEMMA WayRead ==
  ASSUME NEW q \in Queues, NEW p \in Queues, NEW r \in Queues, q # <<>>,
         NEW max \in Nat, max > 0
  PROVE  Copied(q, max) \o Way(Dequeued(q, max), p, r) = Way(q, p, r)
<1>1. PICK D \in Queues : D = Dequeued(q, max)
  BY DequeueSplits, Zenon
<1>2. PICK d \in Texts : d = Copied(q, max)
  BY DequeueSplits, Zenon
<1>3. PICK a \in Texts : a = FlattenSeq(D)
  BY HoldsType, Zenon
<1>4. PICK e \in Texts : e = d \o a
  BY TextsJoin, Zenon
<1>5. e = FlattenSeq(q)
  BY <1>1, <1>2, <1>3, <1>4, DequeueSplits, Zenon
<1>6. PICK b \in Texts : b = FlattenSeq(p)
  BY HoldsType, Zenon
<1>7. PICK c \in Texts : c = FlattenSeq(r)
  BY HoldsType, Zenon
<1>8. Way(q, p, r) = e \o (b \o c)
  <2>1. Way(q, p, r) = FlattenSeq(q) \o (FlattenSeq(p) \o FlattenSeq(r))
    BY WayParts, Zenon
  <2> QED
    BY <1>5, <1>6, <1>7, <2>1, Zenon
<1>9. Way(D, p, r) = a \o (b \o c)
  <2>1. Way(D, p, r) = FlattenSeq(D) \o (FlattenSeq(p) \o FlattenSeq(r))
    BY WayParts, Zenon
  <2> QED
    BY <1>3, <1>6, <1>7, <2>1, Zenon
<1>10. b \o c \in Texts
  BY TextsJoin, Zenon
<1>11. e \o (b \o c) = d \o (a \o (b \o c))
  <2>1. (d \o a) \o (b \o c) = d \o (a \o (b \o c))
    BY <1>10, TextsAssoc, Zenon
  <2> QED
    BY <1>4, <2>1, Zenon
<1> QED
  BY <1>1, <1>2, <1>8, <1>9, <1>11, Zenon

\* What is queued for an application comes first.
LEMMA WayStarts ==
  ASSUME NEW q \in Queues, NEW p \in Queues, NEW r \in Queues
  PROVE  Starts(FlattenSeq(q), Way(q, p, r))
<1>1. FlattenSeq(p) \in Texts /\ FlattenSeq(r) \in Texts
  BY HoldsType, Zenon
<1>2. FlattenSeq(p) \o FlattenSeq(r) \in Texts
  BY <1>1, TextsJoin, Zenon
<1> QED
  BY <1>2, WayParts, Zenon DEF Starts

\* The end of the stream is queued, and the line is empty.
LEMMA WayEmpty ==
  ASSUME NEW q \in Queues
  PROVE  Way(q, <<>>, <<>>) = FlattenSeq(q)
<1>1. <<>> \in Queues /\ <<>> \in Texts /\ FlattenSeq(<<>>) = <<>>
  BY HoldsNothing, Zenon
<1>2. Way(q, <<>>, <<>>) = FlattenSeq(q) \o (<<>> \o <<>>)
  BY <1>1, WayParts, Zenon
<1>3. FlattenSeq(q) \in Texts
  BY HoldsType, Zenon
<1>4. FlattenSeq(q) \o (<<>> \o <<>>) = FlattenSeq(q)
  BY <1>1, <1>3, TextsEmpty, Zenon
<1> QED
  BY <1>2, <1>4, Zenon

LEMMA HoldsEnd ==
  ASSUME NEW q \in Queues
  PROVE  /\ Append(q, <<>>) \in Queues
         /\ FlattenSeq(Append(q, <<>>)) = FlattenSeq(q)
<1>1. <<>> \in Texts
  BY HoldsNothing, Zenon
<1>2. Append(q, <<>>) \in Queues /\ FlattenSeq(Append(q, <<>>)) = FlattenSeq(q) \o <<>>
  BY <1>1, HoldsMore, Zenon
<1>3. FlattenSeq(q) \in Texts
  BY HoldsType, Zenon
<1> QED
  BY <1>2, <1>3, TextsEmpty, Zenon

LEMMA WayEnd ==
  ASSUME NEW q \in Queues, NEW p \in Queues, NEW r \in Queues
  PROVE  Way(Append(q, <<>>), p, r) = Way(q, p, r)
<1>1. PICK Q \in Queues : Q = Append(q, <<>>)
  BY HoldsEnd, Zenon
<1>2. FlattenSeq(Q) = FlattenSeq(q)
  BY <1>1, HoldsEnd, Zenon
<1>3. Way(Q, p, r) = FlattenSeq(Q) \o (FlattenSeq(p) \o FlattenSeq(r))
  BY WayParts, Zenon
<1>4. Way(q, p, r) = FlattenSeq(q) \o (FlattenSeq(p) \o FlattenSeq(r))
  BY WayParts, Zenon
<1> QED
  BY <1>1, <1>2, <1>3, <1>4, Zenon
-----------------------------------------------------------------------------
(* The ends of the stream in a queue                                       *)

NoEof(q) == \A i \in DOMAIN q : q[i] # <<>>
OnlyEof(q) == \A i \in DOMAIN q : q[i] = <<>>
EofLast(q) == \A i, j \in DOMAIN q : i < j /\ q[i] = <<>> => q[j] = <<>>

LEMMA EofEmpty == NoEof(<<>>) /\ OnlyEof(<<>>) /\ EofLast(<<>>)
BY DEF NoEof, OnlyEof, EofLast

LEMMA EofNone ==
  ASSUME NEW q, NoEof(q)
  PROVE  EofLast(q)
BY DEF NoEof, EofLast

\* A queue to which data is added, and one to which an end of the stream is.
LEMMA EofMore ==
  ASSUME NEW q \in Queues, NEW d \in Texts
  PROVE  /\ NoEof(q) /\ d # <<>> => NoEof(Append(q, d))
         /\ EofLast(q) /\ d = <<>> => EofLast(Append(q, d))
         /\ OnlyEof(q) /\ d = <<>> => OnlyEof(Append(q, d))
<1>0. q \in Seq(Texts)
  BY DEF Queues
<1>1. PICK n \in Nat : n = Len(q) /\ DOMAIN q = 1..n
  BY <1>0
<1>2. PICK t : t = Append(q, d)
  OBVIOUS
<1>3. DOMAIN t = 1..(n + 1) /\ t[n + 1] = d /\ \A i \in 1..n : t[i] = q[i]
  BY <1>0, <1>1, <1>2
<1>4. \A i \in 1..(n + 1) : i \in 1..n \/ i = n + 1
  OBVIOUS
<1>5. NoEof(q) /\ d # <<>> => NoEof(t)
  BY <1>1, <1>3, <1>4 DEF NoEof
<1>6. EofLast(q) /\ d = <<>> => EofLast(t)
  <2> SUFFICES ASSUME EofLast(q), d = <<>>, NEW i \in 1..(n + 1), NEW j \in 1..(n + 1),
                      i < j, t[i] = <<>>
               PROVE  t[j] = <<>>
    BY <1>3 DEF EofLast
  <2>1. i \in 1..n
    OBVIOUS
  <2>2. CASE j = n + 1
    BY <1>3, <2>2
  <2>3. CASE j \in 1..n
    BY <1>1, <1>3, <2>1, <2>3 DEF EofLast
  <2> QED
    BY <1>4, <2>2, <2>3
<1>7. OnlyEof(q) /\ d = <<>> => OnlyEof(t)
  BY <1>1, <1>3, <1>4 DEF OnlyEof
<1> QED
  BY <1>2, <1>5, <1>6, <1>7

\* The others when the first node leaves.
LEMMA EofTail ==
  ASSUME NEW q \in Queues, q # <<>>
  PROVE  /\ NoEof(q) => NoEof(Tail(q)) /\ Head(q) # <<>>
         /\ EofLast(q) => EofLast(Tail(q))
         /\ OnlyEof(q) => OnlyEof(Tail(q))
         /\ EofLast(q) /\ Head(q) = <<>> => OnlyEof(q)
<1>0. q \in Seq(Texts)
  BY DEF Queues
<1>1. PICK n \in Nat : n = Len(q) /\ DOMAIN q = 1..n /\ n > 0 /\ Head(q) = q[1]
  BY <1>0
<1>2. PICK t : t = Tail(q)
  OBVIOUS
<1>3. DOMAIN t = 1..(n - 1) /\ \A i \in 1..(n - 1) : t[i] = q[i + 1]
  BY <1>0, <1>1, <1>2
<1>4. \A i \in 1..(n - 1) : i + 1 \in 1..n
  OBVIOUS
<1>5. 1 \in 1..n
  BY <1>1
<1>6. NoEof(q) => NoEof(t) /\ Head(q) # <<>>
  BY <1>1, <1>3, <1>4, <1>5 DEF NoEof
<1>7. EofLast(q) => EofLast(t)
  <2> SUFFICES ASSUME EofLast(q), NEW i \in 1..(n - 1), NEW j \in 1..(n - 1),
                      i < j, t[i] = <<>>
               PROVE  t[j] = <<>>
    BY <1>3 DEF EofLast
  <2>1. i + 1 < j + 1 /\ q[i + 1] = <<>> /\ i + 1 \in 1..n /\ j + 1 \in 1..n
    BY <1>3
  <2>2. q[j + 1] = <<>>
    BY <1>1, <2>1 DEF EofLast
  <2> QED
    BY <1>3, <2>2
<1>8. OnlyEof(q) => OnlyEof(t)
  BY <1>1, <1>3, <1>4 DEF OnlyEof
<1>9. EofLast(q) /\ Head(q) = <<>> => OnlyEof(q)
  <2> SUFFICES ASSUME EofLast(q), q[1] = <<>>, NEW j \in 1..n
               PROVE  q[j] = <<>>
    BY <1>1 DEF OnlyEof
  <2>1. CASE j = 1
    BY <2>1
  <2>2. CASE j # 1
    <3>1. 1 < j
      BY <2>2
    <3> QED
      BY <1>1, <1>5, <3>1 DEF EofLast
  <2> QED
    BY <2>1, <2>2
<1> QED
  BY <1>2, <1>6, <1>7, <1>8, <1>9

\* A queue with data in front.
LEMMA EofBefore ==
  ASSUME NEW t \in Queues, NEW b \in Texts, b # <<>>
  PROVE  /\ NoEof(t) => NoEof(<<b>> \o t)
         /\ EofLast(t) => EofLast(<<b>> \o t)
<1>0. t \in Seq(Texts) /\ <<b>> \in Seq(Texts)
  BY DEF Queues
<1>1. PICK n \in Nat : n = Len(t) /\ DOMAIN t = 1..n
  BY <1>0
<1>2. PICK q : q = <<b>> \o t
  OBVIOUS
<1>3. DOMAIN q = 1..(n + 1) /\ q[1] = b /\ \A i \in 2..(n + 1) : q[i] = t[i - 1]
  <2>1. PICK f \in Seq(Texts) : f = <<b>> /\ Len(f) = 1 /\ f[1] = b
    BY <1>0
  <2>2. q = f \o t
    BY <1>2, <2>1
  <2>3. /\ q \in Seq(Texts) /\ Len(q) = 1 + n /\ \A i \in 1..1 : q[i] = f[i]
        /\ \A i \in (1 + 1)..(1 + n) : q[i] = t[i - 1]
    BY <1>0, <1>1, <2>1, <2>2, Joined
  <2>4. DOMAIN q = 1..(n + 1) /\ q[1] = b
    BY <2>1, <2>3
  <2> QED
    BY <2>3, <2>4
<1>4. \A i \in 1..(n + 1) : i = 1 \/ (i \in 2..(n + 1) /\ i - 1 \in 1..n)
  OBVIOUS
<1>5. NoEof(t) => NoEof(q)
  BY <1>1, <1>3, <1>4 DEF NoEof
<1>6. EofLast(t) => EofLast(q)
  <2> SUFFICES ASSUME EofLast(t), NEW i \in 1..(n + 1), NEW j \in 1..(n + 1),
                      i < j, q[i] = <<>>
               PROVE  q[j] = <<>>
    BY <1>3 DEF EofLast
  <2>1. i \in 2..(n + 1) /\ j \in 2..(n + 1)
    BY <1>3, <1>4
  <2>2. t[i - 1] = <<>> /\ i - 1 \in 1..n /\ j - 1 \in 1..n /\ i - 1 < j - 1
    BY <1>3, <1>4, <2>1
  <2>3. t[j - 1] = <<>>
    BY <1>1, <2>2 DEF EofLast
  <2> QED
    BY <1>3, <2>1, <2>3
<1> QED
  BY <1>2, <1>5, <1>6

\* A dequeue.
LEMMA EofDequeued ==
  ASSUME NEW q \in Queues, q # <<>>, NEW max \in Nat, max > 0
  PROVE  /\ NoEof(q) => NoEof(Dequeued(q, max)) /\ Copied(q, max) # <<>>
         /\ EofLast(q) => EofLast(Dequeued(q, max))
         /\ EofLast(q) /\ Copied(q, max) = <<>> => OnlyEof(q) /\ OnlyEof(Dequeued(q, max))
<1>1. PICK h \in Texts : h = Head(q)
  BY HoldsFirst, Zenon
<1>2. PICK t \in Queues : t = Tail(q)
  BY HoldsFirst, Zenon
<1>3. /\ NoEof(q) => NoEof(t) /\ h # <<>>
      /\ EofLast(q) => EofLast(t)
      /\ OnlyEof(q) => OnlyEof(t)
      /\ EofLast(q) /\ h = <<>> => OnlyEof(q)
  BY <1>1, <1>2, EofTail, Zenon
<1>4. /\ Copied(q, max) = <<>> <=> h = <<>>
      /\ Copied(q, max) = <<>> => Dequeued(q, max) = t
  BY <1>1, <1>2, DequeueSplits, Zenon
<1>5. CASE Fits(q, max)
  <2>1. Dequeued(q, max) = t
    BY <1>2, <1>5, Zenon DEF Dequeued
  <2> QED
    BY <1>3, <1>4, <2>1, Zenon
<1>6. CASE ~Fits(q, max)
  <2>1. h \in Seq(Char) /\ Len(h) \in Nat /\ max \in 0..Len(h) /\ max < Len(h)
    BY <1>1, <1>6 DEF Fits, Texts
  <2>2. PICK b \in Texts : b = SubSeq(h, max + 1, Len(h))
    BY <2>1, LastPart DEF Texts
  <2>3. b # <<>>
    <3>1. Len(b) = Len(h) - max
      BY <2>1, <2>2, LastPart
    <3>2. Len(b) > 0 /\ Len(<<>>) = 0
      BY <2>1, <3>1
    <3> QED
      BY <3>2
  <2>4. Dequeued(q, max) = <<b>> \o t
    BY <1>1, <1>2, <1>6, <2>2, Zenon DEF Dequeued, Shortened
  <2>5. /\ NoEof(t) => NoEof(<<b>> \o t)
        /\ EofLast(t) => EofLast(<<b>> \o t)
    BY <2>3, EofBefore, Zenon
  <2> QED
    BY <1>3, <1>4, <2>4, <2>5, Zenon
<1> QED
  BY <1>5, <1>6, Zenon

\* Segments with data after others with data.
LEMMA EofJoined ==
  ASSUME NEW p \in Queues, NEW g \in Queues, NoEof(p), NoEof(g)
  PROVE  NoEof(p \o g)
<1>0. p \in Seq(Texts) /\ g \in Seq(Texts)
  BY DEF Queues
<1>1. PICK n \in Nat : n = Len(p) /\ DOMAIN p = 1..n
  BY <1>0
<1>2. PICK m \in Nat : m = Len(g) /\ DOMAIN g = 1..m
  BY <1>0
<1>3. PICK q : q = p \o g
  OBVIOUS
<1>4. /\ q \in Seq(Texts) /\ Len(q) = n + m /\ \A i \in 1..n : q[i] = p[i]
      /\ \A i \in (n + 1)..(n + m) : q[i] = g[i - n]
  BY <1>0, <1>1, <1>2, <1>3, Joined
<1>5. DOMAIN q = 1..(n + m)
  BY <1>4
<1>6. ASSUME NEW i \in 1..(n + m)
      PROVE  q[i] # <<>>
  <2>1. CASE i <= n
    BY <1>1, <1>4, <2>1 DEF NoEof
  <2>2. CASE ~(i <= n)
    <3>1. i \in (n + 1)..(n + m) /\ i - n \in 1..m
      BY <2>2
    <3> QED
      BY <1>2, <1>4, <3>1 DEF NoEof
  <2> QED
    BY <2>1, <2>2
<1> QED
  BY <1>3, <1>5, <1>6 DEF NoEof

\* The last node of a queue without an end of the stream.
LEMMA EofAtEnd ==
  ASSUME NEW p \in Queues, p # <<>>, Last(p) = <<>>
  PROVE  ~NoEof(p)
<1>0. p \in Seq(Texts)
  BY DEF Queues
<1>1. PICK n \in Nat : n = Len(p) /\ DOMAIN p = 1..n /\ n > 0
  BY <1>0
<1>2. n \in DOMAIN p /\ Last(p) = p[n]
  BY <1>1 DEF Last
<1> QED
  BY <1>2 DEF NoEof

\* Only ends of the stream hold nothing.
LEMMA EofHolds ==
  ASSUME NEW q \in Queues, OnlyEof(q)
  PROVE  FlattenSeq(q) = <<>>
<1>1. q \in Seq(Seq(Char)) /\ \A i \in DOMAIN q : q[i] = <<>>
  BY DEF Queues, Texts, OnlyEof
<1> QED
  BY <1>1, FlattenNothing, Zenon
-----------------------------------------------------------------------------
(* What the queues and threads of the two ends of a connection know        *)

Sock == [app_recv_queue : Queues, app_send_queue : Queues, partApp : Nat, partThread : Nat,
         close_requested : BOOLEAN, eof : BOOLEAN]
TransportThread == [fin : BOOLEAN, finReceived : BOOLEAN, done : BOOLEAN]

QueuesTyped == /\ sock \in [Ends -> Sock] /\ thread \in [Ends -> TransportThread]
               /\ pipe \in [Ends -> Queues]
               /\ wrote \in [Ends -> Texts] /\ read \in [Ends -> Texts]

\* Where the server is with c's connection.
Waits(c) == \E i \in DOMAIN pending : pending[i] = c
Standing(c) == IF client[c].pc = "connect" THEN "none"
               ELSE IF Waits(c) THEN "waiting"
               ELSE IF server.sd # <<c>> \/ server.pc = "closing" THEN "closed"
               ELSE IF server.pc = "close" THEN "ended"
               ELSE "served"

\* The application of an end has called myclose().
AppClosed(e) == IF e[2] = "client" THEN client[e[1]].pc \in {"closing", "end"}
                ELSE Standing(e[1]) = "closed"

\* A FIN goes out after the application has closed and all it wrote was taken.
Sender(e) ==
  /\ sock[e].close_requested \/ thread[e].fin => AppClosed(e)
  /\ thread[e].fin => sock[e].app_recv_queue = <<>> /\ ~sock[e].close_requested

\* A FIN on the way to e was sent.
OnLine(e) == ~thread[Other(e)].fin => NoEof(pipe[e])

\* An end of the stream is queued after a FIN, and all the rest before it.
Receiver(e) ==
  /\ thread[e].finReceived => thread[Other(e)].fin /\ pipe[e] = <<>>
  /\ ~thread[e].finReceived => NoEof(sock[e].app_send_queue)
  /\ EofLast(sock[e].app_send_queue)
  /\ sock[e].eof => thread[e].finReceived /\ OnlyEof(sock[e].app_send_queue)
  /\ thread[e].done => thread[e].fin /\ thread[e].finReceived

\* What is read and queued is the beginning of what the other application wrote;
\* with what is on its way it is all of it until a FIN was taken.
Stream(e) ==
  /\ Starts(read[e] \o FlattenSeq(sock[e].app_send_queue), wrote[Other(e)])
  /\ ~thread[e].finReceived => read[e] \o Unread(e) = wrote[Other(e)]

Links == \A e \in Ends : Sender(e) /\ OnLine(e) /\ Receiver(e) /\ Stream(e)

ClosedStays == \A e \in Ends : AppClosed(e) => AppClosed(e)'

LEMMA TheEnds ==
  /\ \A e \in Ends : /\ Other(e) \in Ends /\ Other(e) # e /\ Other(Other(e)) = e
                     /\ e[1] \in Clients /\ Other(e)[1] = e[1]
  /\ \A c \in Clients : /\ ClientEnd(c) \in Ends /\ ServerEnd(c) \in Ends
                        /\ ClientEnd(c)[1] = c /\ ServerEnd(c)[1] = c
                        /\ ClientEnd(c)[2] = "client" /\ ServerEnd(c)[2] = "server"
                        /\ Other(ClientEnd(c)) = ServerEnd(c)
                        /\ Other(ServerEnd(c)) = ClientEnd(c)
BY DEF Ends, Sides, Other, ClientEnd, ServerEnd

\* An end belongs to one connection and is one of its two.
LEMMA TheTwoEnds ==
  ASSUME NEW e \in Ends
  PROVE  /\ e = ClientEnd(e[1]) \/ e = ServerEnd(e[1])
         /\ e[2] = "client" => e = ClientEnd(e[1])
         /\ e[2] # "client" => e = ServerEnd(e[1])
BY DEF Ends, Sides, ClientEnd, ServerEnd

LEMMA UnreadIsWay ==
  ASSUME NEW e \in Ends
  PROVE  /\ Unread(e) = Way(sock[e].app_send_queue, pipe[e], sock[Other(e)].app_recv_queue)
         /\ Unread(e)' = Way(sock'[e].app_send_queue, pipe'[e], sock'[Other(e)].app_recv_queue)
BY DEF Unread, Way

LEMMA UnreadType ==
  ASSUME QueuesTyped, NEW e \in Ends
  PROVE  Unread(e) \in Texts /\ FlattenSeq(sock[e].app_send_queue) \in Texts
<1>1. Other(e) \in Ends
  BY TheEnds, Zenon
<1>2. /\ sock[e].app_send_queue \in Queues /\ pipe[e] \in Queues
      /\ sock[Other(e)].app_recv_queue \in Queues
  BY <1>1 DEF QueuesTyped, Sock
<1>3. Unread(e) = Way(sock[e].app_send_queue, pipe[e], sock[Other(e)].app_recv_queue)
  BY UnreadIsWay, Zenon
<1>4. Unread(e) \in Texts
  BY <1>2, <1>3, WayParts, Zenon
<1>5. FlattenSeq(sock[e].app_send_queue) \in Texts
  BY <1>2, HoldsType, Zenon
<1> QED
  BY <1>4, <1>5, Zenon

\* Nothing happens to the queues.
LEMMA QueuesStay ==
  ASSUME QueuesTyped, Links, ClosedStays,
         UNCHANGED <<thread, pipe, wrote, read>>, sock' \in [Ends -> Sock],
         \A e \in Ends : /\ sock'[e].app_recv_queue = sock[e].app_recv_queue
                         /\ sock'[e].app_send_queue = sock[e].app_send_queue
                         /\ sock'[e].close_requested = sock[e].close_requested
                         /\ sock'[e].eof = sock[e].eof
  PROVE  QueuesTyped' /\ Links' /\ \A e \in Ends : Unread(e)' = Unread(e)
<1>1. QueuesTyped'
  BY DEF QueuesTyped
<1>2. \A e \in Ends : Unread(e)' = Unread(e)
  BY TheEnds, UnreadIsWay
<1>3. ASSUME NEW e \in Ends
      PROVE  (Sender(e) /\ OnLine(e) /\ Receiver(e) /\ Stream(e))'
  <2>1. Sender(e) /\ OnLine(e) /\ Receiver(e) /\ Stream(e)
    BY DEF Links
  <2>2. Sender(e)'
    BY <2>1 DEF Sender, ClosedStays
  <2>3. OnLine(e)'
    BY <2>1 DEF OnLine
  <2>4. Receiver(e)'
    BY <2>1 DEF Receiver
  <2>5. Stream(e)'
    BY <1>2, <2>1 DEF Stream
  <2> QED
    BY <2>2, <2>3, <2>4, <2>5
<1> QED
  BY <1>1, <1>2, <1>3 DEF Links

\* mywrite(): more at the end of what is on its way to the other application.
LEMMA QueuesWrite ==
  ASSUME QueuesTyped, Links, ClosedStays, NEW e \in Ends, NEW data \in Texts,
         Write(e, data), UNCHANGED <<thread, pipe, read>>, ~AppClosed(e)
  PROVE  /\ QueuesTyped' /\ Links'
         /\ Unread(Other(e))' = Unread(Other(e)) \o data
         /\ \A d \in Ends : d # Other(e) => Unread(d)' = Unread(d)
<1>o. PICK o \in Ends : o = Other(e) /\ o # e /\ Other(o) = e
  BY TheEnds, Zenon
<1>0. /\ sock \in [Ends -> Sock] /\ sock[e] \in Sock /\ sock[e].app_recv_queue \in Queues
      /\ sock[o].app_send_queue \in Queues /\ pipe[o] \in Queues
      /\ wrote \in [Ends -> Texts] /\ wrote[e] \in Texts /\ read[o] \in Texts
      /\ thread[e] \in TransportThread
  BY DEF QueuesTyped, Sock
<1>1. PICK R \in Queues : R = Append(sock[e].app_recv_queue, data)
  BY <1>0, HoldsMore, Zenon
<1>2. sock' = [sock EXCEPT ![e].app_recv_queue = R]
  BY <1>1, Zenon DEF Write, Enqueued
<1>3. /\ sock' \in [Ends -> Sock] /\ sock'[e].app_recv_queue = R
      /\ \A d \in Ends : /\ sock'[d].app_send_queue = sock[d].app_send_queue
                         /\ sock'[d].close_requested = sock[d].close_requested
                         /\ sock'[d].eof = sock[d].eof
                         /\ d # e => sock'[d].app_recv_queue = sock[d].app_recv_queue
  BY <1>0, <1>2 DEF Sock
<1>4. PICK W \in Texts : W = wrote[e] \o data
  BY <1>0, TextsJoin, Zenon
<1>5. wrote' \in [Ends -> Texts] /\ wrote'[e] = W /\ \A d \in Ends : d # e => wrote'[d] = wrote[d]
  <2>1. wrote' = [wrote EXCEPT ![e] = W]
    BY <1>4, Zenon DEF Write
  <2> QED
    BY <1>0, <2>1
<1>6. QueuesTyped'
  BY <1>3, <1>5 DEF QueuesTyped
<1>7. ~thread[e].fin
  BY DEF Links, Sender
<1>8. Unread(o)' = Unread(o) \o data
  <2>1. Unread(o) = Way(sock[o].app_send_queue, pipe[o], sock[e].app_recv_queue)
    BY <1>o, UnreadIsWay, Zenon
  <2>2. Unread(o)' = Way(sock[o].app_send_queue, pipe[o], R)
    <3>1. Unread(o)' = Way(sock'[o].app_send_queue, pipe'[o], sock'[e].app_recv_queue)
      BY <1>o, UnreadIsWay, Zenon
    <3> QED
      BY <1>3, <3>1
  <2>3. Way(sock[o].app_send_queue, pipe[o], R)
          = Way(sock[o].app_send_queue, pipe[o], sock[e].app_recv_queue) \o data
    <3>1. PICK q \in Queues : q = sock[o].app_send_queue
      BY <1>0, Zenon
    <3>2. PICK p \in Queues : p = pipe[o]
      BY <1>0, Zenon
    <3>3. PICK r \in Queues : r = sock[e].app_recv_queue
      BY <1>0, Zenon
    <3>4. Way(q, p, Append(r, data)) = Way(q, p, r) \o data
      BY WayWrite, Zenon
    <3> QED
      BY <1>1, <3>1, <3>2, <3>3, <3>4, Zenon
  <2> QED
    BY <2>1, <2>2, <2>3, Zenon
<1>9. ASSUME NEW d \in Ends, d # o
      PROVE  Unread(d)' = Unread(d)
  <2>1. Other(d) \in Ends /\ Other(d) # e
    BY <1>9, <1>o, TheEnds, Zenon
  <2>2. sock'[Other(d)].app_recv_queue = sock[Other(d)].app_recv_queue
    BY <1>3, <2>1
  <2> QED
    BY <1>3, <2>2, UnreadIsWay
<1>10. ASSUME NEW d \in Ends
       PROVE  (Sender(d) /\ OnLine(d) /\ Receiver(d) /\ Stream(d))'
  <2>1. Sender(d) /\ OnLine(d) /\ Receiver(d) /\ Stream(d)
    BY DEF Links
  <2>2. Sender(d)'
    <3>1. CASE d = e
      BY <1>3, <1>7, <2>1, <3>1 DEF Sender, ClosedStays
    <3>2. CASE d # e
      BY <1>3, <2>1, <3>2 DEF Sender, ClosedStays
    <3> QED
      BY <3>1, <3>2
  <2>3. OnLine(d)'
    BY <2>1 DEF OnLine
  <2>4. Receiver(d)'
    BY <1>3, <2>1 DEF Receiver
  <2>5. Stream(d)'
    <3>1. CASE d = o
      <4>1. PICK a \in Texts : a = FlattenSeq(sock[o].app_send_queue)
        BY <1>0, HoldsType, Zenon
      <4>2. PICK u \in Texts : u = Unread(o)
        BY UnreadType, Zenon
      <4>3. Starts(read[o] \o a, wrote[e]) /\ (~thread[o].finReceived => read[o] \o u = wrote[e])
        BY <1>o, <2>1, <3>1, <4>1, <4>2, Zenon DEF Stream
      <4>4. Starts(read[o] \o a, W)
        <5>1. read[o] \o a \in Texts
          BY <1>0, TextsJoin, Zenon
        <5> QED
          BY <1>0, <1>4, <4>3, <5>1, StartsLonger, Zenon
      <4>5. ~thread[o].finReceived => read[o] \o (u \o data) = W
        <5>1. (read[o] \o u) \o data = read[o] \o (u \o data)
          BY <1>0, TextsAssoc, Zenon
        <5> QED
          BY <1>4, <4>3, <5>1, Zenon
      <4>6. /\ FlattenSeq(sock'[o].app_send_queue) = a /\ Unread(o)' = u \o data /\ read'[o] = read[o]
            /\ wrote'[Other(o)] = W /\ thread'[o].finReceived = thread[o].finReceived
        BY <1>3, <1>5, <1>8, <1>o, <4>1, <4>2
      <4> QED
        BY <3>1, <4>4, <4>5, <4>6, Zenon DEF Stream
    <3>2. CASE d # o
      <4>1. Other(d) \in Ends /\ Other(d) # e
        BY <1>o, <3>2, TheEnds, Zenon
      <4> QED
        BY <1>3, <1>5, <1>9, <2>1, <3>2, <4>1 DEF Stream
    <3> QED
      BY <3>1, <3>2
  <2> QED
    BY <2>2, <2>3, <2>4, <2>5
<1> QED
  BY <1>6, <1>8, <1>9, <1>10, <1>o DEF Links

\* myclose(): the request.
LEMMA QueuesClose ==
  ASSUME QueuesTyped, Links, ClosedStays, NEW e \in Ends,
         Close(e), UNCHANGED <<thread, pipe, wrote, read>>, ~AppClosed(e), AppClosed(e)'
  PROVE  QueuesTyped' /\ Links' /\ \A d \in Ends : Unread(d)' = Unread(d)
<1>1. /\ sock' \in [Ends -> Sock]
      /\ \A d \in Ends : /\ sock'[d].app_recv_queue = sock[d].app_recv_queue
                         /\ sock'[d].app_send_queue = sock[d].app_send_queue
                         /\ sock'[d].eof = sock[d].eof
                         /\ d # e => sock'[d].close_requested = sock[d].close_requested
  BY DEF Close, QueuesTyped, Sock
<1>2. QueuesTyped'
  BY <1>1 DEF QueuesTyped
<1>3. \A d \in Ends : Unread(d)' = Unread(d)
  BY <1>1, TheEnds, UnreadIsWay
<1>4. ~thread[e].fin
  BY DEF Links, Sender
<1>5. ASSUME NEW d \in Ends
      PROVE  (Sender(d) /\ OnLine(d) /\ Receiver(d) /\ Stream(d))'
  <2>1. Sender(d) /\ OnLine(d) /\ Receiver(d) /\ Stream(d)
    BY DEF Links
  <2>2. Sender(d)'
    <3>1. CASE d = e
      BY <1>1, <1>4, <2>1, <3>1 DEF Sender, ClosedStays
    <3>2. CASE d # e
      BY <1>1, <2>1, <3>2 DEF Sender, ClosedStays
    <3> QED
      BY <3>1, <3>2
  <2>3. OnLine(d)'
    BY <2>1 DEF OnLine
  <2>4. Receiver(d)'
    BY <1>1, <2>1 DEF Receiver
  <2>5. Stream(d)'
    BY <1>1, <1>3, <2>1 DEF Stream
  <2> QED
    BY <2>2, <2>3, <2>4, <2>5
<1> QED
  BY <1>2, <1>3, <1>5 DEF Links

\* myclose() returns: nothing was left for the application or the thread.
LEMMA QueuesEnd ==
  ASSUME QueuesTyped, Links, ClosedStays, NEW e \in Ends, thread[e].done,
         sock' = [sock EXCEPT ![e] = NewSock], UNCHANGED <<thread, pipe, wrote, read>>
  PROVE  /\ QueuesTyped' /\ Links'
         /\ AppClosed(e) /\ AppClosed(Other(e))
         /\ Unread(e)' = <<>>
         /\ \A d \in Ends : d # e => Unread(d)' = Unread(d)
<1>o. PICK o \in Ends : o = Other(e) /\ o # e /\ Other(o) = e
  BY TheEnds, Zenon
<1>0. /\ sock \in [Ends -> Sock] /\ sock[e].app_send_queue \in Queues
      /\ wrote[o] \in Texts /\ read[e] \in Texts
      /\ <<>> \in Queues /\ <<>> \in Texts /\ FlattenSeq(<<>>) = <<>>
  BY HoldsNothing DEF QueuesTyped, Sock
<1>1. /\ sock' \in [Ends -> Sock]
      /\ sock'[e].app_recv_queue = <<>> /\ sock'[e].app_send_queue = <<>>
      /\ sock'[e].close_requested = FALSE /\ sock'[e].eof = FALSE
      /\ \A d \in Ends : d # e => sock'[d] = sock[d]
  <2>1. NewSock \in Sock
    BY <1>0 DEF NewSock, Sock
  <2> QED
    BY <1>0, <2>1 DEF NewSock
<1>2. QueuesTyped'
  BY <1>1 DEF QueuesTyped
<1>3. /\ Sender(e) /\ Receiver(e) /\ Sender(o) /\ Stream(e)
      /\ thread[e].fin /\ thread[e].finReceived /\ thread[o].fin /\ pipe[e] = <<>>
      /\ sock[e].app_recv_queue = <<>> /\ sock[o].app_recv_queue = <<>>
  BY <1>o DEF Links, Receiver, Sender
<1>4. AppClosed(e) /\ AppClosed(o)
  BY <1>3 DEF Sender
<1>5. Unread(e)' = <<>>
  <2>1. Unread(e)' = Way(sock'[e].app_send_queue, pipe'[e], sock'[o].app_recv_queue)
    BY <1>o, UnreadIsWay, Zenon
  <2>2. Unread(e)' = Way(<<>>, <<>>, <<>>)
    BY <1>1, <1>3, <1>o, <2>1
  <2> QED
    BY <1>0, <2>2, WayEmpty, Zenon
<1>6. ASSUME NEW d \in Ends, d # e
      PROVE  Unread(d)' = Unread(d)
  <2>1. Other(d) \in Ends
    BY TheEnds, Zenon
  <2>2. sock'[Other(d)].app_recv_queue = sock[Other(d)].app_recv_queue
    BY <1>1, <1>3, <2>1
  <2> QED
    BY <1>1, <1>6, <2>2, UnreadIsWay
<1>7. ASSUME NEW d \in Ends
      PROVE  (Sender(d) /\ OnLine(d) /\ Receiver(d) /\ Stream(d))'
  <2>1. Sender(d) /\ OnLine(d) /\ Receiver(d) /\ Stream(d)
    BY DEF Links
  <2>2. OnLine(d)'
    BY <2>1 DEF OnLine
  <2>3. CASE d = e
    <3>1. Sender(e)'
      BY <1>1, <1>4 DEF Sender, ClosedStays
    <3>2. Receiver(e)'
      BY <1>1, <1>3, EofEmpty DEF Receiver
    <3>3. Stream(e)'
      <4>1. Starts(read[e], wrote[o])
        <5>1. FlattenSeq(sock[e].app_send_queue) \in Texts
          BY <1>0, HoldsType, Zenon
        <5>2. Starts(read[e] \o FlattenSeq(sock[e].app_send_queue), wrote[o])
          BY <1>3, <1>o, Zenon DEF Stream
        <5> QED
          BY <1>0, <5>1, <5>2, StartsShorter, Zenon
      <4>2. read[e] \o FlattenSeq(sock'[e].app_send_queue) = read[e]
        <5>1. read[e] \o <<>> = read[e]
          BY <1>0, TextsEmpty, Zenon
        <5> QED
          BY <1>0, <1>1, <5>1
      <4>3. thread'[e].finReceived /\ read'[e] = read[e] /\ wrote'[Other(e)] = wrote[o]
        BY <1>3, <1>o
      <4> QED
        BY <4>1, <4>2, <4>3, Zenon DEF Stream
    <3> QED
      BY <2>2, <2>3, <3>1, <3>2, <3>3
  <2>4. CASE d # e
    <3>1. Sender(d)'
      BY <1>1, <2>1, <2>4 DEF Sender, ClosedStays
    <3>2. Receiver(d)'
      BY <1>1, <2>1, <2>4 DEF Receiver
    <3>3. Stream(d)'
      BY <1>1, <1>6, <2>1, <2>4 DEF Stream
    <3> QED
      BY <2>2, <3>1, <3>2, <3>3
  <2> QED
    BY <2>3, <2>4
<1> QED
  BY <1>2, <1>4, <1>5, <1>6, <1>7, <1>o DEF Links

\* myread() returns: what it got comes before what is still on its way, and it gets
\* nothing only when nothing is left to come and the other application has closed.
LEMMA QueuesRead ==
  ASSUME QueuesTyped, Links, ClosedStays, NEW e \in Ends, NEW max \in Nat, max > 0,
         CanRead(e, max), EndRead(e, max), UNCHANGED <<thread, pipe, wrote>>
  PROVE  /\ QueuesTyped' /\ Links'
         /\ Got(e, max) \in Texts /\ Len(Got(e, max)) <= max
         /\ Got(e, max) \o Unread(e)' = Unread(e)
         /\ Got(e, max) = <<>> => /\ Unread(e) = <<>> /\ AppClosed(Other(e))
         /\ \A d \in Ends : d # e => Unread(d)' = Unread(d)
<1>o. PICK o \in Ends : o = Other(e) /\ o # e /\ Other(o) = e
  BY TheEnds, Zenon
<1>0. /\ sock \in [Ends -> Sock] /\ sock[e] \in Sock /\ sock[e].app_send_queue \in Queues
      /\ pipe[e] \in Queues /\ sock[o].app_recv_queue \in Queues
      /\ read \in [Ends -> Texts] /\ read[e] \in Texts /\ wrote[o] \in Texts
      /\ thread[e] \in TransportThread
      /\ <<>> \in Queues /\ <<>> \in Texts /\ FlattenSeq(<<>>) = <<>>
  BY HoldsNothing DEF QueuesTyped, Sock
<1>1. Sender(e) /\ Receiver(e) /\ Sender(o) /\ Stream(e)
  BY DEF Links
<1>2. thread[e].finReceived => /\ AppClosed(o) /\ pipe[e] = <<>> /\ sock[o].app_recv_queue = <<>>
  BY <1>1, <1>o DEF Receiver, Sender
<1>3. thread[e].finReceived /\ OnlyEof(sock[e].app_send_queue) => Unread(e) = <<>>
  <2> SUFFICES ASSUME thread[e].finReceived, OnlyEof(sock[e].app_send_queue)
               PROVE  Unread(e) = <<>>
    OBVIOUS
  <2>1. Unread(e) = Way(sock[e].app_send_queue, <<>>, <<>>)
    <3>1. Unread(e) = Way(sock[e].app_send_queue, pipe[e], sock[o].app_recv_queue)
      BY <1>o, UnreadIsWay, Zenon
    <3> QED
      BY <1>2, <3>1
  <2>2. FlattenSeq(sock[e].app_send_queue) = <<>>
    BY <1>0, EofHolds, Zenon
  <2> QED
    BY <1>0, <2>1, <2>2, WayEmpty, Zenon
<1>4. PICK d \in Texts :
        /\ d = Got(e, max) /\ Len(d) <= max
        /\ d = <<>> => Unread(e) = <<>> /\ AppClosed(o)
        /\ d \o Unread(e)' = Unread(e)
        /\ sock' \in [Ends -> Sock] /\ Receiver(e)'
        /\ d \o FlattenSeq(sock'[e].app_send_queue) = FlattenSeq(sock[e].app_send_queue)
        /\ \A b \in Ends : /\ sock'[b].app_recv_queue = sock[b].app_recv_queue
                           /\ sock'[b].close_requested = sock[b].close_requested
                           /\ b # e => sock'[b] = sock[b]
  <2>1. CASE sock[e].eof
    <3>1. sock' = sock /\ Got(e, max) = <<>>
      BY <2>1, Zenon DEF EndRead, Got
    <3>2. Unread(e) = <<>> /\ AppClosed(o)
      BY <1>1, <1>2, <1>3, <2>1 DEF Receiver
    <3>3. Unread(e)' = Unread(e)
      BY <3>1, UnreadIsWay
    <3>4. Receiver(e)'
      BY <1>1, <3>1 DEF Receiver
    <3>5. <<>> \o Unread(e)' = Unread(e)
      BY <1>0, <3>2, <3>3, TextsEmpty, Zenon
    <3>6. <<>> \o FlattenSeq(sock'[e].app_send_queue) = FlattenSeq(sock[e].app_send_queue)
      <4>1. FlattenSeq(sock[e].app_send_queue) \in Texts
        BY <1>0, HoldsType, Zenon
      <4> QED
        BY <3>1, <4>1, TextsEmpty, Zenon
    <3>7. Len(<<>>) <= max
      OBVIOUS
    <3> QED
      BY <1>0, <3>1, <3>2, <3>4, <3>5, <3>6, <3>7
  <2>2. CASE ~sock[e].eof
    <3>1. PICK q \in Queues : q = sock[e].app_send_queue
      BY <1>0, Zenon
    <3>2. q # <<>>
      BY <2>2, <3>1 DEF CanRead
    <3>3. PICK d \in Texts : d = Copied(q, max)
      BY <3>2, DequeueSplits, Zenon
    <3>4. PICK D \in Queues : D = Dequeued(q, max)
      BY <3>2, DequeueSplits, Zenon
    <3>5. Len(d) <= max /\ FlattenSeq(q) = d \o FlattenSeq(D)
      BY <3>2, <3>3, <3>4, DequeueSplits, Zenon
    <3>6. /\ NoEof(q) => NoEof(D) /\ d # <<>>
          /\ EofLast(q) => EofLast(D)
          /\ EofLast(q) /\ d = <<>> => OnlyEof(q) /\ OnlyEof(D)
      BY <3>2, <3>3, <3>4, EofDequeued, Zenon
    <3>7. d = Got(e, max)
      BY <2>2, <3>1, <3>3 DEF Got
    <3>8. sock' = [sock EXCEPT ![e].app_send_queue = D, ![e].partApp = 0, ![e].eof = (d = <<>>)]
      BY <2>2, <3>1, <3>4, <3>7 DEF EndRead
    <3>9. /\ sock' \in [Ends -> Sock]
          /\ sock'[e].app_send_queue = D /\ sock'[e].eof = (d = <<>>)
          /\ \A b \in Ends : /\ sock'[b].app_recv_queue = sock[b].app_recv_queue
                             /\ sock'[b].close_requested = sock[b].close_requested
                             /\ b # e => sock'[b] = sock[b]
      BY <1>0, <3>8 DEF Sock
    <3>10. Receiver(e)'
      <4>1. ~thread[e].finReceived => NoEof(D)
        BY <1>1, <3>1, <3>6, Zenon DEF Receiver
      <4>2. EofLast(D)
        BY <1>1, <3>1, <3>6, Zenon DEF Receiver
      <4>3. d = <<>> => thread[e].finReceived /\ OnlyEof(D)
        BY <1>1, <3>1, <3>6, Zenon DEF Receiver
      <4> QED
        BY <1>1, <3>9, <4>1, <4>2, <4>3 DEF Receiver
    <3>11. d = <<>> => Unread(e) = <<>> /\ AppClosed(o)
      BY <1>1, <1>2, <1>3, <3>1, <3>6, Zenon DEF Receiver
    <3>12. d \o Unread(e)' = Unread(e)
      <4>1. Unread(e) = Way(q, pipe[e], sock[o].app_recv_queue)
        BY <1>o, <3>1, UnreadIsWay, Zenon
      <4>2. Unread(e)' = Way(D, pipe[e], sock[o].app_recv_queue)
        <5>1. Unread(e)' = Way(sock'[e].app_send_queue, pipe'[e], sock'[o].app_recv_queue)
          BY <1>o, UnreadIsWay, Zenon
        <5> QED
          BY <3>9, <5>1
      <4>3. Copied(q, max) \o Way(Dequeued(q, max), pipe[e], sock[o].app_recv_queue)
              = Way(q, pipe[e], sock[o].app_recv_queue)
        BY <1>0, <3>2, WayRead, Zenon
      <4> QED
        BY <3>3, <3>4, <4>1, <4>2, <4>3, Zenon
    <3>13. d \o FlattenSeq(sock'[e].app_send_queue) = FlattenSeq(sock[e].app_send_queue)
      BY <3>1, <3>5, <3>9, Zenon
    <3> QED
      BY <3>5, <3>7, <3>9, <3>10, <3>11, <3>12, <3>13, Zenon
  <2> QED
    BY <2>1, <2>2, Zenon
<1>5. PICK R \in Texts : R = read[e] \o d
  BY <1>0, TextsJoin, Zenon
<1>6. read' \in [Ends -> Texts] /\ read'[e] = R /\ \A b \in Ends : b # e => read'[b] = read[b]
  <2>1. read' = [read EXCEPT ![e] = R]
    BY <1>4, <1>5, Zenon DEF EndRead
  <2> QED
    BY <1>0, <2>1
<1>7. QueuesTyped'
  BY <1>4, <1>6 DEF QueuesTyped
<1>8. ASSUME NEW b \in Ends, b # e
      PROVE  Unread(b)' = Unread(b)
  <2>1. Other(b) \in Ends
    BY TheEnds, Zenon
  <2>2. sock'[Other(b)].app_recv_queue = sock[Other(b)].app_recv_queue
    BY <1>4, <2>1
  <2> QED
    BY <1>4, <1>8, <2>2, UnreadIsWay
<1>9. ASSUME NEW b \in Ends
      PROVE  (Sender(b) /\ OnLine(b) /\ Receiver(b) /\ Stream(b))'
  <2>1. Sender(b) /\ OnLine(b) /\ Receiver(b) /\ Stream(b)
    BY DEF Links
  <2>2. Sender(b)'
    BY <1>4, <2>1 DEF Sender, ClosedStays
  <2>3. OnLine(b)'
    BY <2>1 DEF OnLine
  <2>4. Receiver(b)'
    BY <1>4, <2>1 DEF Receiver
  <2>5. Stream(b)'
    <3>1. CASE b = e
      <4>1. PICK a \in Texts : a = FlattenSeq(sock'[e].app_send_queue)
        <5>1. sock'[e].app_send_queue \in Queues
          BY <1>4 DEF Sock
        <5> QED
          BY <5>1, HoldsType, Zenon
      <4>2. PICK u \in Texts : u = Unread(e)'
        <5>1. /\ sock'[e].app_send_queue \in Queues /\ pipe'[e] \in Queues
              /\ sock'[Other(e)].app_recv_queue \in Queues
          BY <1>0, <1>4, <1>o DEF Sock
        <5> QED
          BY <5>1, UnreadIsWay, WayParts, Zenon
      <4>3. R \o a = read[e] \o FlattenSeq(sock[e].app_send_queue)
        <5>1. PICK z \in Texts : z = read[e]
          BY <1>0, Zenon
        <5>2. (z \o d) \o a = z \o (d \o a)
          BY TextsAssoc, Zenon
        <5> QED
          BY <1>4, <1>5, <4>1, <5>1, <5>2, Zenon
      <4>4. R \o u = read[e] \o Unread(e)
        <5>1. PICK z \in Texts : z = read[e]
          BY <1>0, Zenon
        <5>2. (z \o d) \o u = z \o (d \o u)
          BY TextsAssoc, Zenon
        <5> QED
          BY <1>4, <1>5, <4>2, <5>1, <5>2, Zenon
      <4>5. /\ read'[e] = R /\ wrote'[Other(e)] = wrote[Other(e)]
            /\ thread'[e].finReceived = thread[e].finReceived
        BY <1>6
      <4> QED
        BY <1>1, <3>1, <4>1, <4>2, <4>3, <4>4, <4>5, Zenon DEF Stream
    <3>2. CASE b # e
      BY <1>4, <1>6, <1>8, <2>1, <3>2 DEF Stream
    <3> QED
      BY <3>1, <3>2
  <2> QED
    BY <2>2, <2>3, <2>4, <2>5
<1> QED
  BY <1>4, <1>7, <1>8, <1>9, <1>o DEF Links

\* stcp_app_recv() returns, and what it returned goes out.
LEMMA QueuesTake ==
  ASSUME QueuesTyped, Links, ClosedStays, NEW e \in Ends, Take(e)
  PROVE  QueuesTyped' /\ Links' /\ \A d \in Ends : Unread(d)' = Unread(d)
<1>o. PICK o \in Ends : o = Other(e) /\ o # e /\ Other(o) = e
  BY TheEnds, Zenon
<1>0. /\ sock \in [Ends -> Sock] /\ pipe \in [Ends -> Queues]
      /\ sock[e].app_recv_queue # <<>>
      /\ UNCHANGED <<thread, wrote, read>>
  BY DEF QueuesTyped, Take
<1>1. PICK r \in Queues : r = sock[e].app_recv_queue
  BY <1>0 DEF Sock
<1>2. PICK q \in Queues : q = sock[o].app_send_queue
  BY <1>0 DEF Sock
<1>3. PICK p \in Queues : p = pipe[o]
  BY <1>0
<1>4. r # <<>> /\ Window \in Nat /\ Window > 0
  BY <1>0, <1>1, BufferSizes
<1>5. PICK D \in Queues : D = Dequeued(r, Window)
  BY <1>4, DequeueSplits, Zenon
<1>6. PICK d \in Texts : d = Copied(r, Window)
  BY <1>4, DequeueSplits, Zenon
<1>7. PICK g \in Queues : g = Segments(d) /\ NoEof(g)
  BY SegmentsHold, Zenon DEF NoEof
<1>8. PICK P \in Queues : P = p \o g
  BY HoldsBoth, Zenon
<1>9. Way(q, P, D) = Way(q, p, r)
  <2>1. Way(q, p \o Segments(Copied(r, Window)), Dequeued(r, Window)) = Way(q, p, r)
    BY <1>4, WayTake, Zenon
  <2> QED
    BY <1>5, <1>6, <1>7, <1>8, <2>1, Zenon
<1>10. /\ sock' = [sock EXCEPT ![e].app_recv_queue = D, ![e].partThread = 0]
       /\ pipe' = [pipe EXCEPT ![o] = P]
  BY <1>1, <1>3, <1>5, <1>6, <1>7, <1>8, <1>o DEF Take
<1>11. /\ sock' \in [Ends -> Sock] /\ sock'[e].app_recv_queue = D
       /\ \A b \in Ends : /\ sock'[b].app_send_queue = sock[b].app_send_queue
                          /\ sock'[b].close_requested = sock[b].close_requested
                          /\ sock'[b].eof = sock[b].eof
                          /\ b # e => sock'[b] = sock[b]
  BY <1>0, <1>10 DEF Sock
<1>12. pipe' \in [Ends -> Queues] /\ pipe'[o] = P /\ \A b \in Ends : b # o => pipe'[b] = pipe[b]
  BY <1>0, <1>10
<1>13. QueuesTyped'
  BY <1>0, <1>11, <1>12 DEF QueuesTyped
<1>14. ~thread[e].fin /\ ~thread[o].finReceived
  <2>1. Sender(e) /\ Receiver(o)
    BY DEF Links
  <2> QED
    BY <1>0, <1>o, <2>1, Zenon DEF Sender, Receiver
<1>15. ASSUME NEW b \in Ends
       PROVE  Unread(b)' = Unread(b)
  <2>1. CASE b = o
    <3>1. Unread(o) = Way(q, p, r)
      BY <1>1, <1>2, <1>3, <1>o, UnreadIsWay, Zenon
    <3>2. Unread(o)' = Way(sock'[o].app_send_queue, pipe'[o], sock'[e].app_recv_queue)
      BY <1>o, UnreadIsWay, Zenon
    <3>3. Unread(o)' = Way(q, P, D)
      BY <1>2, <1>11, <1>12, <3>2
    <3> QED
      BY <1>9, <2>1, <3>1, <3>3, Zenon
  <2>2. CASE b # o
    <3>1. Other(b) \in Ends /\ Other(b) # e
      BY <1>o, <2>2, TheEnds, Zenon
    <3>2. sock'[Other(b)] = sock[Other(b)]
      BY <1>11, <3>1
    <3> QED
      BY <1>11, <1>12, <2>2, <3>2, UnreadIsWay
  <2> QED
    BY <2>1, <2>2, Zenon
<1>16. ASSUME NEW b \in Ends
       PROVE  (Sender(b) /\ OnLine(b) /\ Receiver(b) /\ Stream(b))'
  <2>1. Sender(b) /\ OnLine(b) /\ Receiver(b) /\ Stream(b)
    BY DEF Links
  <2>2. Sender(b)'
    <3>1. CASE b = e
      BY <1>0, <1>11, <1>14, <2>1, <3>1 DEF Sender, ClosedStays
    <3>2. CASE b # e
      BY <1>0, <1>11, <2>1, <3>2 DEF Sender, ClosedStays
    <3> QED
      BY <3>1, <3>2
  <2>3. OnLine(b)'
    <3>1. CASE b = o
      <4>1. NoEof(p)
        BY <1>3, <1>14, <1>o, <2>1, <3>1, Zenon DEF OnLine
      <4>2. NoEof(p \o g)
        BY <1>7, <4>1, EofJoined, Zenon
      <4> QED
        BY <1>8, <1>12, <3>1, <4>2, Zenon DEF OnLine
    <3>2. CASE b # o
      BY <1>0, <1>12, <2>1, <3>2 DEF OnLine
    <3> QED
      BY <3>1, <3>2, Zenon
  <2>4. Receiver(b)'
    <3>1. CASE b = o
      BY <1>0, <1>11, <1>14, <2>1, <3>1 DEF Receiver
    <3>2. CASE b # o
      BY <1>0, <1>11, <1>12, <2>1, <3>2 DEF Receiver
    <3> QED
      BY <3>1, <3>2
  <2>5. Stream(b)'
    BY <1>0, <1>11, <1>15, <2>1 DEF Stream
  <2> QED
    BY <2>2, <2>3, <2>4, <2>5
<1> QED
  BY <1>13, <1>15, <1>16 DEF Links

\* The close request becomes a FIN after all data.
LEMMA QueuesTakeClose ==
  ASSUME QueuesTyped, Links, ClosedStays, NEW e \in Ends, TakeClose(e)
  PROVE  QueuesTyped' /\ Links' /\ \A d \in Ends : Unread(d)' = Unread(d)
<1>o. PICK o \in Ends : o = Other(e) /\ o # e /\ Other(o) = e
  BY TheEnds, Zenon
<1>0. /\ sock \in [Ends -> Sock] /\ pipe \in [Ends -> Queues]
      /\ thread \in [Ends -> TransportThread]
      /\ sock[e].close_requested /\ sock[e].app_recv_queue = <<>>
      /\ UNCHANGED <<wrote, read>>
  BY DEF QueuesTyped, TakeClose
<1>2. PICK q \in Queues : q = sock[o].app_send_queue
  BY <1>0 DEF Sock
<1>3. PICK p \in Queues : p = pipe[o]
  BY <1>0
<1>4. PICK P \in Queues : P = Append(p, <<>>)
  BY WayClose, Zenon
<1>5. Way(q, P, <<>>) = Way(q, p, <<>>)
  BY <1>4, WayClose, Zenon
<1>6. /\ sock' = [sock EXCEPT ![e].close_requested = FALSE]
      /\ pipe' = [pipe EXCEPT ![o] = P]
      /\ thread' = [thread EXCEPT ![e].fin = TRUE]
  BY <1>3, <1>4, <1>o DEF TakeClose
<1>7. /\ sock' \in [Ends -> Sock] /\ ~sock'[e].close_requested
      /\ \A b \in Ends : /\ sock'[b].app_send_queue = sock[b].app_send_queue
                         /\ sock'[b].app_recv_queue = sock[b].app_recv_queue
                         /\ sock'[b].eof = sock[b].eof
                         /\ b # e => sock'[b] = sock[b]
  BY <1>0, <1>6 DEF Sock
<1>8. pipe' \in [Ends -> Queues] /\ pipe'[o] = P /\ \A b \in Ends : b # o => pipe'[b] = pipe[b]
  BY <1>0, <1>6
<1>9. /\ thread' \in [Ends -> TransportThread] /\ thread'[e].fin
      /\ \A b \in Ends : /\ thread'[b].finReceived = thread[b].finReceived
                         /\ thread'[b].done = thread[b].done
                         /\ thread[b].fin => thread'[b].fin
                         /\ b # e => thread'[b] = thread[b]
  BY <1>0, <1>6 DEF TransportThread
<1>10. QueuesTyped'
  BY <1>0, <1>7, <1>8, <1>9 DEF QueuesTyped
<1>11. ~thread[e].fin /\ ~thread[o].finReceived /\ AppClosed(e)
  <2>1. Sender(e) /\ Receiver(o)
    BY DEF Links
  <2> QED
    BY <1>0, <1>o, <2>1, Zenon DEF Sender, Receiver
<1>12. ASSUME NEW b \in Ends
       PROVE  Unread(b)' = Unread(b)
  <2>1. CASE b = o
    <3>1. Unread(o) = Way(q, p, <<>>)
      BY <1>0, <1>2, <1>3, <1>o, UnreadIsWay, Zenon
    <3>2. Unread(o)' = Way(sock'[o].app_send_queue, pipe'[o], sock'[e].app_recv_queue)
      BY <1>o, UnreadIsWay, Zenon
    <3>3. Unread(o)' = Way(q, P, <<>>)
      BY <1>0, <1>2, <1>7, <1>8, <3>2
    <3> QED
      BY <1>5, <2>1, <3>1, <3>3, Zenon
  <2>2. CASE b # o
    <3>1. Other(b) \in Ends
      BY TheEnds, Zenon
    <3>2. sock'[Other(b)].app_recv_queue = sock[Other(b)].app_recv_queue
      BY <1>7, <3>1
    <3> QED
      BY <1>7, <1>8, <2>2, <3>2, UnreadIsWay
  <2> QED
    BY <2>1, <2>2, Zenon
<1>13. ASSUME NEW b \in Ends
       PROVE  (Sender(b) /\ OnLine(b) /\ Receiver(b) /\ Stream(b))'
  <2>1. Sender(b) /\ OnLine(b) /\ Receiver(b) /\ Stream(b)
    BY DEF Links
  <2>2. Sender(b)'
    <3>1. CASE b = e
      BY <1>0, <1>7, <1>11, <3>1 DEF Sender, ClosedStays
    <3>2. CASE b # e
      BY <1>7, <1>9, <2>1, <3>2 DEF Sender, ClosedStays
    <3> QED
      BY <3>1, <3>2
  <2>3. OnLine(b)'
    <3>1. CASE b = o
      BY <1>9, <1>o, <3>1 DEF OnLine
    <3>2. CASE b # o
      <4>1. Other(b) \in Ends
        BY TheEnds, Zenon
      <4> QED
        BY <1>8, <1>9, <2>1, <3>2, <4>1 DEF OnLine
    <3> QED
      BY <3>1, <3>2, Zenon
  <2>4. Receiver(b)'
    <3>0. Other(b) \in Ends
      BY TheEnds, Zenon
    <3>1. CASE b = o
      BY <1>7, <1>9, <1>11, <1>o, <2>1, <3>1 DEF Receiver
    <3>2. CASE b # o
      BY <1>7, <1>8, <1>9, <2>1, <3>0, <3>2 DEF Receiver
    <3> QED
      BY <3>1, <3>2
  <2>5. Stream(b)'
    BY <1>0, <1>7, <1>9, <1>12, <2>1 DEF Stream
  <2> QED
    BY <2>2, <2>3, <2>4, <2>5
<1> QED
  BY <1>10, <1>12, <1>13 DEF Links

\* stcp_app_send(): a segment goes up to the application.
LEMMA QueuesPassUp ==
  ASSUME QueuesTyped, Links, ClosedStays, NEW e \in Ends, PassUp(e)
  PROVE  QueuesTyped' /\ Links' /\ \A d \in Ends : Unread(d)' = Unread(d)
<1>o. PICK o \in Ends : o = Other(e) /\ o # e /\ Other(o) = e
  BY TheEnds, Zenon
<1>0. /\ sock \in [Ends -> Sock] /\ pipe \in [Ends -> Queues] /\ read[e] \in Texts
      /\ pipe[e] # <<>> /\ Head(pipe[e]) # <<>>
      /\ UNCHANGED <<thread, wrote, read>>
  BY DEF QueuesTyped, PassUp
<1>1. PICK r \in Queues : r = sock[o].app_recv_queue
  BY <1>0 DEF Sock
<1>2. PICK q \in Queues : q = sock[e].app_send_queue
  BY <1>0 DEF Sock
<1>3. PICK p \in Queues : p = pipe[e] /\ p # <<>>
  BY <1>0
<1>4. PICK h \in Texts : h = Head(p) /\ h # <<>>
  BY <1>0, <1>3, HoldsFirst, Zenon
<1>5. PICK t \in Queues : t = Tail(p)
  BY <1>3, HoldsFirst, Zenon
<1>6. PICK Q \in Queues : Q = Append(q, h)
  BY HoldsMore, Zenon
<1>7. Way(Q, t, r) = Way(q, p, r)
  <2>1. Way(Append(q, Head(p)), Tail(p), r) = Way(q, p, r)
    BY <1>3, WayPassUp, Zenon
  <2> QED
    BY <1>4, <1>5, <1>6, <2>1, Zenon
<1>8. /\ sock' = [sock EXCEPT ![e].app_send_queue = Q]
      /\ pipe' = [pipe EXCEPT ![e] = t]
  BY <1>2, <1>3, <1>4, <1>5, <1>6 DEF PassUp, Enqueued
<1>9. /\ sock' \in [Ends -> Sock] /\ sock'[e].app_send_queue = Q
      /\ \A b \in Ends : /\ sock'[b].app_recv_queue = sock[b].app_recv_queue
                         /\ sock'[b].close_requested = sock[b].close_requested
                         /\ sock'[b].eof = sock[b].eof
                         /\ b # e => sock'[b] = sock[b]
  BY <1>0, <1>8 DEF Sock
<1>10. pipe' \in [Ends -> Queues] /\ pipe'[e] = t /\ \A b \in Ends : b # e => pipe'[b] = pipe[b]
  BY <1>0, <1>8
<1>11. QueuesTyped'
  BY <1>0, <1>9, <1>10 DEF QueuesTyped
<1>12. OnLine(e) /\ Receiver(e) /\ Stream(e)
  BY DEF Links
<1>13. ~thread[e].finReceived /\ ~sock[e].eof
  BY <1>0, <1>12 DEF Receiver
<1>14. ASSUME NEW b \in Ends
       PROVE  Unread(b)' = Unread(b)
  <2>1. CASE b = e
    <3>1. Unread(e) = Way(q, p, r)
      BY <1>1, <1>2, <1>3, <1>o, UnreadIsWay, Zenon
    <3>2. Unread(e)' = Way(sock'[e].app_send_queue, pipe'[e], sock'[o].app_recv_queue)
      BY <1>o, UnreadIsWay, Zenon
    <3>3. Unread(e)' = Way(Q, t, r)
      BY <1>1, <1>9, <1>10, <3>2
    <3> QED
      BY <1>7, <2>1, <3>1, <3>3, Zenon
  <2>2. CASE b # e
    <3>1. Other(b) \in Ends
      BY TheEnds, Zenon
    <3>2. sock'[Other(b)].app_recv_queue = sock[Other(b)].app_recv_queue
      BY <1>9, <3>1
    <3> QED
      BY <1>9, <1>10, <2>2, <3>2, UnreadIsWay
  <2> QED
    BY <2>1, <2>2, Zenon
<1>15. ASSUME NEW b \in Ends
       PROVE  (Sender(b) /\ OnLine(b) /\ Receiver(b) /\ Stream(b))'
  <2>1. Sender(b) /\ OnLine(b) /\ Receiver(b) /\ Stream(b)
    BY DEF Links
  <2>2. Sender(b)'
    BY <1>0, <1>9, <2>1 DEF Sender, ClosedStays
  <2>3. CASE b = e
    <3>1. OnLine(e)'
      <4>1. NoEof(p) => NoEof(t)
        BY <1>3, <1>5, EofTail, Zenon
      <4> QED
        BY <1>0, <1>3, <1>10, <1>12, <4>1 DEF OnLine
    <3>2. Receiver(e)'
      <4>1. NoEof(q)
        BY <1>2, <1>12, <1>13, Zenon DEF Receiver
      <4>2. NoEof(Q)
        BY <1>4, <1>6, <4>1, EofMore, Zenon
      <4>3. EofLast(Q)
        BY <4>2, EofNone, Zenon
      <4> QED
        BY <1>0, <1>9, <1>12, <1>13, <4>2, <4>3 DEF Receiver
    <3>3. Stream(e)'
      <4>1. PICK z \in Texts : z = read[e]
        BY <1>0, Zenon
      <4>2. PICK a \in Texts : a = FlattenSeq(Q)
        BY HoldsType, Zenon
      <4>3. PICK w \in Texts : w = Way(Q, t, r)
        BY WayParts, Zenon
      <4>4. Starts(a, w)
        BY <4>2, <4>3, WayStarts, Zenon
      <4>5. Starts(z \o a, z \o w)
        BY <4>4, StartsMore, Zenon
      <4>6. Unread(e) = w
        BY <1>1, <1>2, <1>3, <1>7, <1>o, <4>3, UnreadIsWay, Zenon
      <4>7. z \o w = wrote[Other(e)]
        BY <1>12, <1>13, <4>1, <4>6, Zenon DEF Stream
      <4>8. /\ FlattenSeq(sock'[e].app_send_queue) = a /\ read'[e] = z
            /\ wrote'[Other(e)] = wrote[Other(e)] /\ Unread(e)' = w
        BY <1>0, <1>9, <1>14, <4>1, <4>2, <4>6
      <4> QED
        BY <4>5, <4>7, <4>8, Zenon DEF Stream
    <3> QED
      BY <2>2, <2>3, <3>1, <3>2, <3>3
  <2>4. CASE b # e
    <3>1. OnLine(b)'
      BY <1>0, <1>10, <2>1, <2>4 DEF OnLine
    <3>2. Receiver(b)'
      BY <1>0, <1>9, <1>10, <2>1, <2>4 DEF Receiver
    <3>3. Stream(b)'
      BY <1>0, <1>9, <1>14, <2>1, <2>4 DEF Stream
    <3> QED
      BY <2>2, <3>1, <3>2, <3>3
  <2> QED
    BY <2>3, <2>4
<1> QED
  BY <1>11, <1>14, <1>15 DEF Links

\* The FIN is taken: what was before it on the line may be lost.
LEMMA QueuesTakeFin ==
  ASSUME QueuesTyped, Links, ClosedStays, NEW e \in Ends, TakeFin(e)
  PROVE  /\ QueuesTyped' /\ Links'
         /\ AppClosed(Other(e))
         /\ Unread(e)' \in Texts /\ Starts(Unread(e)', Unread(e))
         /\ \A d \in Ends : d # e => Unread(d)' = Unread(d)
<1>o. PICK o \in Ends : o = Other(e) /\ o # e /\ Other(o) = e
  BY TheEnds, Zenon
<1>0. /\ sock \in [Ends -> Sock] /\ pipe \in [Ends -> Queues]
      /\ thread \in [Ends -> TransportThread]
      /\ pipe[e] # <<>> /\ Last(pipe[e]) = <<>>
      /\ UNCHANGED <<wrote, read>> /\ <<>> \in Queues
  BY HoldsNothing DEF QueuesTyped, TakeFin
<1>2. PICK q \in Queues : q = sock[e].app_send_queue
  BY <1>0 DEF Sock
<1>3. PICK p \in Queues : p = pipe[e]
  BY <1>0
<1>4. PICK Q \in Queues : Q = Append(q, <<>>)
  BY HoldsEnd, Zenon
<1>5. PICK a \in Texts : a = FlattenSeq(q) /\ a = FlattenSeq(Q)
  BY <1>4, HoldsEnd, HoldsType, Zenon
<1>6. /\ sock' = [sock EXCEPT ![e].app_send_queue = Q]
      /\ pipe' = [pipe EXCEPT ![e] = <<>>]
      /\ thread' = [thread EXCEPT ![e].finReceived = TRUE]
  BY <1>2, <1>4 DEF TakeFin, FinReceived, Enqueued
<1>7. /\ sock' \in [Ends -> Sock] /\ sock'[e].app_send_queue = Q
      /\ \A b \in Ends : /\ sock'[b].app_recv_queue = sock[b].app_recv_queue
                         /\ sock'[b].close_requested = sock[b].close_requested
                         /\ sock'[b].eof = sock[b].eof
                         /\ b # e => sock'[b] = sock[b]
  BY <1>0, <1>6 DEF Sock
<1>8. pipe' \in [Ends -> Queues] /\ pipe'[e] = <<>> /\ \A b \in Ends : b # e => pipe'[b] = pipe[b]
  BY <1>0, <1>6
<1>9. /\ thread' \in [Ends -> TransportThread] /\ thread'[e].finReceived
      /\ \A b \in Ends : /\ thread'[b].fin = thread[b].fin
                         /\ thread'[b].done = thread[b].done
                         /\ b # e => thread'[b] = thread[b]
  BY <1>0, <1>6 DEF TransportThread
<1>10. QueuesTyped'
  BY <1>0, <1>7, <1>8, <1>9 DEF QueuesTyped
<1>11. OnLine(e) /\ Receiver(e) /\ Stream(e) /\ Sender(o)
  BY DEF Links
<1>12. /\ thread[o].fin /\ AppClosed(o) /\ sock[o].app_recv_queue = <<>>
       /\ ~thread[e].finReceived /\ ~sock[e].eof
  <2>1. ~NoEof(p)
    BY <1>0, <1>3, EofAtEnd, Zenon
  <2>2. thread[o].fin
    BY <1>3, <1>11, <1>o, <2>1, Zenon DEF OnLine
  <2> QED
    BY <1>0, <1>11, <2>2, Zenon DEF Receiver, Sender
<1>13. Unread(e)' = a /\ Starts(a, Unread(e))
  <2>1. Unread(e)' = Way(sock'[e].app_send_queue, pipe'[e], sock'[o].app_recv_queue)
    BY <1>o, UnreadIsWay, Zenon
  <2>2. Unread(e)' = Way(Q, <<>>, <<>>)
    BY <1>7, <1>8, <1>12, <2>1
  <2>3. Unread(e)' = a
    BY <1>5, <2>2, WayEmpty, Zenon
  <2>4. Unread(e) = Way(q, p, <<>>)
    BY <1>2, <1>3, <1>12, <1>o, UnreadIsWay, Zenon
  <2>5. Starts(a, Way(q, p, <<>>))
    BY <1>0, <1>5, WayStarts, Zenon
  <2> QED
    BY <2>3, <2>4, <2>5, Zenon
<1>14. ASSUME NEW b \in Ends, b # e
       PROVE  Unread(b)' = Unread(b)
  <2>1. Other(b) \in Ends
    BY TheEnds, Zenon
  <2>2. sock'[Other(b)].app_recv_queue = sock[Other(b)].app_recv_queue
    BY <1>7, <2>1
  <2> QED
    BY <1>7, <1>8, <1>14, <2>2, UnreadIsWay
<1>15. ASSUME NEW b \in Ends
       PROVE  (Sender(b) /\ OnLine(b) /\ Receiver(b) /\ Stream(b))'
  <2>1. Sender(b) /\ OnLine(b) /\ Receiver(b) /\ Stream(b) /\ Other(b) \in Ends
    BY TheEnds, Zenon DEF Links
  <2>2. Sender(b)'
    BY <1>7, <1>9, <2>1 DEF Sender, ClosedStays
  <2>3. CASE b = e
    <3>1. OnLine(e)'
      BY <1>8, EofEmpty, Zenon DEF OnLine
    <3>2. Receiver(e)'
      <4>1. NoEof(q)
        BY <1>2, <1>11, <1>12, Zenon DEF Receiver
      <4>2. EofLast(q)
        BY <4>1, EofNone, Zenon
      <4>3. EofLast(Q)
        <5>1. <<>> \in Texts
          BY HoldsNothing, Zenon
        <5> QED
          BY <1>4, <4>2, <5>1, EofMore, Zenon
      <4> QED
        BY <1>7, <1>8, <1>9, <1>11, <1>12, <1>o, <4>3 DEF Receiver
    <3>3. Stream(e)'
      <4>1. Starts(read[e] \o a, wrote[Other(e)])
        BY <1>2, <1>5, <1>11, Zenon DEF Stream
      <4>2. /\ FlattenSeq(sock'[e].app_send_queue) = a /\ read'[e] = read[e]
            /\ wrote'[Other(e)] = wrote[Other(e)]
        BY <1>0, <1>5, <1>7
      <4> QED
        BY <1>9, <4>1, <4>2, Zenon DEF Stream
    <3> QED
      BY <2>2, <2>3, <3>1, <3>2, <3>3
  <2>4. CASE b # e
    <3>1. OnLine(b)'
      BY <1>8, <1>9, <2>1, <2>4 DEF OnLine
    <3>2. Receiver(b)'
      BY <1>7, <1>8, <1>9, <2>1, <2>4 DEF Receiver
    <3>3. Stream(b)'
      BY <1>0, <1>7, <1>9, <1>14, <2>1, <2>4 DEF Stream
    <3> QED
      BY <2>2, <3>1, <3>2, <3>3
  <2> QED
    BY <2>3, <2>4
<1> QED
  BY <1>10, <1>12, <1>13, <1>14, <1>15, <1>o DEF Links

\* The thread ends, with one more end of the stream.
LEMMA QueuesThreadEnds ==
  ASSUME QueuesTyped, Links, ClosedStays, NEW e \in Ends, ThreadEnds(e)
  PROVE  QueuesTyped' /\ Links' /\ \A d \in Ends : Unread(d)' = Unread(d)
<1>o. PICK o \in Ends : o = Other(e) /\ o # e /\ Other(o) = e
  BY TheEnds, Zenon
<1>0. /\ sock \in [Ends -> Sock] /\ pipe \in [Ends -> Queues]
      /\ thread \in [Ends -> TransportThread]
      /\ thread[e].fin /\ thread[e].finReceived
      /\ UNCHANGED <<pipe, wrote, read>>
  BY DEF QueuesTyped, ThreadEnds
<1>1. PICK r \in Queues : r = sock[o].app_recv_queue
  BY <1>0 DEF Sock
<1>2. PICK q \in Queues : q = sock[e].app_send_queue
  BY <1>0 DEF Sock
<1>3. PICK p \in Queues : p = pipe[e]
  BY <1>0
<1>4. PICK Q \in Queues : Q = Append(q, <<>>)
  BY HoldsEnd, Zenon
<1>5. FlattenSeq(Q) = FlattenSeq(q) /\ Way(Q, p, r) = Way(q, p, r)
  BY <1>4, HoldsEnd, WayEnd, Zenon
<1>6. /\ sock' = [sock EXCEPT ![e].app_send_queue = Q]
      /\ thread' = [thread EXCEPT ![e].done = TRUE]
  BY <1>2, <1>4 DEF ThreadEnds, Enqueued
<1>7. /\ sock' \in [Ends -> Sock] /\ sock'[e].app_send_queue = Q
      /\ \A b \in Ends : /\ sock'[b].app_recv_queue = sock[b].app_recv_queue
                         /\ sock'[b].close_requested = sock[b].close_requested
                         /\ sock'[b].eof = sock[b].eof
                         /\ b # e => sock'[b] = sock[b]
  BY <1>0, <1>6 DEF Sock
<1>9. /\ thread' \in [Ends -> TransportThread]
      /\ \A b \in Ends : /\ thread'[b].fin = thread[b].fin
                         /\ thread'[b].finReceived = thread[b].finReceived
                         /\ b # e => thread'[b] = thread[b]
  BY <1>0, <1>6 DEF TransportThread
<1>10. QueuesTyped'
  BY <1>0, <1>7, <1>9 DEF QueuesTyped
<1>11. Receiver(e) /\ Stream(e)
  BY DEF Links
<1>14. ASSUME NEW b \in Ends
       PROVE  Unread(b)' = Unread(b)
  <2>1. CASE b = e
    <3>1. Unread(e) = Way(q, p, r)
      BY <1>1, <1>2, <1>3, <1>o, UnreadIsWay, Zenon
    <3>2. Unread(e)' = Way(sock'[e].app_send_queue, pipe'[e], sock'[o].app_recv_queue)
      BY <1>o, UnreadIsWay, Zenon
    <3>3. Unread(e)' = Way(Q, p, r)
      BY <1>0, <1>1, <1>3, <1>7, <3>2
    <3> QED
      BY <1>5, <2>1, <3>1, <3>3, Zenon
  <2>2. CASE b # e
    <3>1. Other(b) \in Ends
      BY TheEnds, Zenon
    <3>2. sock'[Other(b)].app_recv_queue = sock[Other(b)].app_recv_queue
      BY <1>7, <3>1
    <3> QED
      BY <1>0, <1>7, <2>2, <3>2, UnreadIsWay
  <2> QED
    BY <2>1, <2>2, Zenon
<1>15. ASSUME NEW b \in Ends
       PROVE  (Sender(b) /\ OnLine(b) /\ Receiver(b) /\ Stream(b))'
  <2>1. Sender(b) /\ OnLine(b) /\ Receiver(b) /\ Stream(b) /\ Other(b) \in Ends
    BY TheEnds, Zenon DEF Links
  <2>2. Sender(b)'
    BY <1>7, <1>9, <2>1 DEF Sender, ClosedStays
  <2>3. OnLine(b)'
    BY <1>0, <1>9, <2>1 DEF OnLine
  <2>4. CASE b = e
    <3>1. /\ EofLast(q) => EofLast(Q)
          /\ OnlyEof(q) => OnlyEof(Q)
      <4>1. <<>> \in Texts
        BY HoldsNothing, Zenon
      <4> QED
        BY <1>4, <4>1, EofMore, Zenon
    <3>2. Receiver(e)'
      BY <1>0, <1>2, <1>7, <1>9, <1>11, <1>o, <3>1 DEF Receiver
    <3>3. Stream(e)'
      <4>1. /\ FlattenSeq(sock'[e].app_send_queue) = FlattenSeq(sock[e].app_send_queue)
            /\ read'[e] = read[e] /\ wrote'[Other(e)] = wrote[Other(e)]
            /\ thread'[e].finReceived
        BY <1>0, <1>2, <1>5, <1>7, <1>9
      <4> QED
        BY <1>11, <4>1, Zenon DEF Stream
    <3> QED
      BY <2>2, <2>3, <2>4, <3>2, <3>3
  <2>5. CASE b # e
    <3>2. Receiver(b)'
      BY <1>0, <1>7, <1>9, <2>1, <2>5 DEF Receiver
    <3>3. Stream(b)'
      BY <1>0, <1>7, <1>9, <1>14, <2>1, <2>5 DEF Stream
    <3> QED
      BY <2>2, <2>3, <3>2, <3>3
  <2> QED
    BY <2>4, <2>5
<1> QED
  BY <1>10, <1>14, <1>15 DEF Links
-----------------------------------------------------------------------------
(* Lines and files                                                         *)

LEMMA NoCharacters ==
  ASSUME NEW s \in Texts
  PROVE  s = <<>> <=> Len(s) = 0
<1>1. s \in Seq(Char)
  BY DEF Texts
<1> QED
  BY <1>1

LEMMA JoinNothing ==
  ASSUME NEW a \in Texts, NEW b \in Texts, a \o b = <<>>
  PROVE  a = <<>> /\ b = <<>>
<1>1. a \in Seq(Char) /\ b \in Seq(Char) /\ Len(a) \in Nat /\ Len(b) \in Nat
  BY DEF Texts
<1>2. Len(a \o b) = Len(a) + Len(b)
  BY <1>1
<1>3. Len(a \o b) = 0
  <2>1. Len(<<>>) = 0
    OBVIOUS
  <2> QED
    BY <2>1, Zenon
<1>4. Len(a) = 0 /\ Len(b) = 0
  BY <1>1, <1>2, <1>3
<1> QED
  BY <1>1, <1>4, EmptySeq

LEMMA StartsNothing ==
  ASSUME NEW s \in Texts, Starts(s, <<>>)
  PROVE  s = <<>>
<1>1. PICK r \in Texts : <<>> = s \o r
  BY Zenon DEF Starts
<1> QED
  BY <1>1, JoinNothing, Zenon

\* u holds the characters of a and then those of b.
JoinOf(u, a, b) == /\ u \in Seq(Char) /\ Len(u) = Len(a) + Len(b)
                   /\ \A i \in 1..Len(a) : u[i] = a[i]
                   /\ \A i \in 1..Len(b) : u[Len(a) + i] = b[i]

LEMMA JoinedTexts ==
  ASSUME NEW a \in Seq(Char), NEW b \in Seq(Char)
  PROVE  JoinOf(a \o b, a, b)
<1>1. PICK n : n = Len(a)
  OBVIOUS
<1>2. PICK m : m = Len(b)
  OBVIOUS
<1>3. /\ a \o b \in Seq(Char) /\ Len(a \o b) = n + m
      /\ \A i \in 1..n : (a \o b)[i] = a[i]
      /\ \A i \in 1..m : (a \o b)[n + i] = b[i]
  BY <1>1, <1>2, Joined
<1> QED
  BY <1>1, <1>2, <1>3, Zenon DEF JoinOf

\* Two texts that begin with as many characters.
LEMMA SameFront ==
  ASSUME NEW a \in Texts, NEW b \in Texts, NEW c \in Texts, NEW d \in Texts,
         a \o b = c \o d, Len(a) = Len(c)
  PROVE  a = c /\ b = d
<1>0. /\ a \in Seq(Char) /\ b \in Seq(Char) /\ c \in Seq(Char) /\ d \in Seq(Char)
  BY DEF Texts
<1>1. PICK n \in Nat : n = Len(a) /\ n = Len(c)
  BY <1>0
<1>2. PICK m \in Nat : m = Len(b)
  BY <1>0
<1>3. PICK k \in Nat : k = Len(d)
  BY <1>0
<1>4. PICK u : JoinOf(u, a, b) /\ JoinOf(u, c, d)
  <2>1. JoinOf(a \o b, a, b)
    BY <1>0, JoinedTexts, Zenon
  <2>2. JoinOf(c \o d, c, d)
    BY <1>0, JoinedTexts, Zenon
  <2> QED
    BY <2>1, <2>2, Zenon
<1>5. /\ Len(u) = n + m /\ (\A i \in 1..n : u[i] = a[i]) /\ (\A i \in 1..m : u[n + i] = b[i])
  BY <1>1, <1>2, <1>4, Zenon DEF JoinOf
<1>6. /\ Len(u) = n + k /\ (\A i \in 1..n : u[i] = c[i]) /\ (\A i \in 1..k : u[n + i] = d[i])
  BY <1>1, <1>3, <1>4, Zenon DEF JoinOf
<1>7. m = k
  BY <1>5, <1>6
<1>8. a = c
  BY <1>0, <1>1, <1>5, <1>6, SeqEqual
<1>9. b = d
  BY <1>0, <1>2, <1>3, <1>5, <1>6, <1>7, SeqEqual
<1> QED
  BY <1>8, <1>9

LEMMA StartsAfter ==
  ASSUME NEW a \in Texts, NEW b \in Texts, NEW c \in Texts, Starts(a \o b, a \o c)
  PROVE  Starts(b, c)
<1>1. PICK r \in Texts : a \o c = (a \o b) \o r
  BY Zenon DEF Starts
<1>2. b \o r \in Texts
  BY TextsJoin, Zenon
<1>3. (a \o b) \o r = a \o (b \o r)
  BY TextsAssoc, Zenon
<1>4. a \o c = a \o (b \o r)
  BY <1>1, <1>3, Zenon
<1>5. c = b \o r
  BY <1>2, <1>4, SameFront, Zenon
<1> QED
  BY <1>5, Zenon DEF Starts

\* The characters of a text that starts another.
LEMMA StartsAt ==
  ASSUME NEW s \in Texts, NEW t \in Texts, Starts(s, t)
  PROVE  Len(s) <= Len(t) /\ \A i \in 1..Len(s) : s[i] = t[i]
<1>0. s \in Seq(Char) /\ t \in Seq(Char)
  BY DEF Texts
<1>1. PICK r \in Texts : t = s \o r
  BY Zenon DEF Starts
<1>2. r \in Seq(Char)
  BY DEF Texts
<1>3. PICK n \in Nat : n = Len(s)
  BY <1>0
<1>4. PICK m \in Nat : m = Len(r)
  BY <1>2
<1>5. Len(t) = n + m /\ \A i \in 1..n : t[i] = s[i]
  <2>1. JoinOf(s \o r, s, r)
    BY <1>0, <1>2, JoinedTexts, Zenon
  <2> QED
    BY <1>1, <1>3, <1>4, <2>1, Zenon DEF JoinOf
<1> QED
  BY <1>3, <1>5

LEMMA Characters ==
  ASSUME NEW n \in Names, NEW at \in Int,
         NEW kind \in {"name", "comma", "length", "text", "CR", "LF", "byte"}
  PROVE  /\ Ch(kind, n, at) \in Char
         /\ Ch(kind, n, at).kind = kind /\ Ch(kind, n, at).of = n /\ Ch(kind, n, at).at = at
BY DEF Ch, Char

\* One character is a text.
LEMMA OneCharacter ==
  ASSUME NEW x \in Char
  PROVE  <<x>> \in Texts /\ Len(<<x>>) = 1 /\ <<x>>[1] = x
BY DEF Texts

LEMMA OneRead ==
  ASSUME NEW got \in Texts, Len(got) <= 1, got # <<>>
  PROVE  got[1] \in Char /\ got = <<got[1]>>
<1>1. got \in Seq(Char) /\ Len(got) \in Nat
  BY DEF Texts
<1>2. Len(got) = 1
  <2>1. PICK n \in Nat : n = Len(got)
    BY <1>1
  <2>2. n # 0
    <3>1. got \in Seq(Char) /\ Len(got) = 0 => got = <<>>
      OBVIOUS
    <3> QED
      BY <1>1, <2>1, <3>1
  <2>3. n <= 1
    BY <2>1
  <2>4. n = 1
    BY <2>2, <2>3
  <2> QED
    BY <2>1, <2>4
<1>3. got[1] \in Char
  BY <1>1, <1>2
<1>4. got = <<got[1]>>
  <2>1. <<got[1]>> \in Seq(Char) /\ Len(<<got[1]>>) = 1 /\ <<got[1]>>[1] = got[1]
    BY <1>3
  <2>2. \A i \in 1..Len(got) : got[i] = <<got[1]>>[i]
    BY <1>2, <2>1
  <2> QED
    BY <1>1, <1>2, <2>1, <2>2, SeqEqual
<1> QED
  BY <1>3, <1>4

\* The question for file n.
Request(n) == <<Ch("name", n, 0)>> \o CrLf(n)

LEMMA RequestIs ==
  ASSUME NEW n \in Names
  PROVE  /\ Request(n) \in Texts /\ Len(Request(n)) = 3
         /\ Request(n)[1] = Ch("name", n, 0)
         /\ Request(n)[2] = Ch("CR", n, 0)
         /\ Request(n)[3] = Ch("LF", n, 0)
<1>1. PICK x \in Char : x = Ch("name", n, 0)
  BY Characters
<1>2. PICK y \in Char : y = Ch("CR", n, 0)
  BY Characters
<1>3. PICK z \in Char : z = Ch("LF", n, 0)
  BY Characters
<1>4. Request(n) = <<x>> \o <<y, z>>
  BY <1>1, <1>2, <1>3, Zenon DEF Request, CrLf
<1>5. PICK a : a = <<x>>
  OBVIOUS
<1>6. PICK b : b = <<y, z>>
  OBVIOUS
<1>7. a \in Seq(Char) /\ b \in Seq(Char) /\ 1 = Len(a) /\ 2 = Len(b) /\ a[1] = x /\ b[1] = y /\ b[2] = z
  BY <1>5, <1>6
<1>8. PICK u : u = a \o b
  OBVIOUS
<1>9. /\ u \in Seq(Char) /\ Len(u) = 1 + 2
      /\ (\A i \in 1..1 : u[i] = a[i]) /\ (\A i \in 1..2 : u[1 + i] = b[i])
  <2>1. JoinOf(u, a, b)
    BY <1>7, <1>8, JoinedTexts, Zenon
  <2> QED
    BY <1>7, <2>1, Zenon DEF JoinOf
<1>10. u \in Texts /\ Len(u) = 3 /\ u[1] = x /\ u[2] = y /\ u[3] = z
  <2>1. u[1] = x
    BY <1>7, <1>9
  <2>2. u[1 + 1] = y /\ u[1 + 2] = z
    BY <1>7, <1>9
  <2> QED
    BY <1>9, <2>1, <2>2 DEF Texts
<1>11. Request(n) = u
  BY <1>4, <1>5, <1>6, <1>8, Zenon
<1> QED
  BY <1>1, <1>2, <1>3, <1>10, <1>11

\* The line that answers it.
TheResponse(n) == ResponseLine(n, FileLen[n])

LEMMA ResponseIs ==
  ASSUME NEW n \in Names
  PROVE  /\ TheResponse(n) \in Texts /\ Len(TheResponse(n)) = 7
         /\ TheResponse(n)[1].kind = "name"
         /\ TheResponse(n)[2].kind = "comma"
         /\ TheResponse(n)[3].kind = "length" /\ TheResponse(n)[3].at = FileLen[n]
         /\ TheResponse(n)[4].kind = "comma"
         /\ TheResponse(n)[5].kind = "text"
         /\ TheResponse(n)[6].kind = "CR"
         /\ TheResponse(n)[7].kind = "LF"
<1>0. PICK l \in Int : l = FileLen[n]
  BY Lengths
<1>1. PICK x1 \in Char : x1 = Ch("name", n, 0) /\ x1.kind = "name"
  BY Characters
<1>2. PICK x2 \in Char : x2 = Ch("comma", n, 0) /\ x2.kind = "comma"
  BY Characters
<1>3. PICK x3 \in Char : x3 = Ch("length", n, l) /\ x3.kind = "length" /\ x3.at = l
  BY Characters
<1>5. PICK x5 \in Char : x5 = Ch("text", n, 0) /\ x5.kind = "text"
  BY Characters
<1>6. PICK x6 \in Char : x6 = Ch("CR", n, 0) /\ x6.kind = "CR"
  BY Characters
<1>7. PICK x7 \in Char : x7 = Ch("LF", n, 0) /\ x7.kind = "LF"
  BY Characters
<1>8. PICK a : a = <<x1, x2, x3, x2, x5>>
  OBVIOUS
<1>9. PICK b : b = <<x6, x7>>
  OBVIOUS
<1>10. /\ a \in Seq(Char) /\ b \in Seq(Char) /\ 5 = Len(a) /\ 2 = Len(b)
       /\ a[1] = x1 /\ a[2] = x2 /\ a[3] = x3 /\ a[4] = x2 /\ a[5] = x5
       /\ b[1] = x6 /\ b[2] = x7
  BY <1>8, <1>9
<1>11. PICK u : u = a \o b
  OBVIOUS
<1>12. /\ u \in Seq(Char) /\ Len(u) = 5 + 2
       /\ (\A i \in 1..5 : u[i] = a[i]) /\ (\A i \in 1..2 : u[5 + i] = b[i])
  <2>1. JoinOf(u, a, b)
    BY <1>10, <1>11, JoinedTexts, Zenon
  <2> QED
    BY <1>10, <2>1, Zenon DEF JoinOf
<1>13. /\ u \in Texts /\ Len(u) = 7 /\ u[1] = x1 /\ u[2] = x2 /\ u[3] = x3 /\ u[4] = x2
       /\ u[5] = x5 /\ u[6] = x6 /\ u[7] = x7
  <2>1. u[1] = x1 /\ u[2] = x2 /\ u[3] = x3 /\ u[4] = x2 /\ u[5] = x5
    BY <1>10, <1>12
  <2>2. u[5 + 1] = x6 /\ u[5 + 2] = x7
    BY <1>10, <1>12
  <2> QED
    BY <1>12, <2>1, <2>2 DEF Texts
<1>14. TheResponse(n) = u
  BY <1>0, <1>1, <1>2, <1>3, <1>5, <1>6, <1>7, <1>8, <1>9, <1>11, Zenon
     DEF TheResponse, ResponseLine, CrLf
<1> QED
  BY <1>0, <1>1, <1>2, <1>3, <1>5, <1>6, <1>7, <1>13, <1>14

\* The bytes of a file, none when it cannot be opened.
LEMMA FileIs ==
  ASSUME NEW n \in Names
  PROVE  /\ FileBytes(n) \in Texts
         /\ FileLen[n] # -1 => Len(FileBytes(n)) = FileLen[n] /\ FileLen[n] \in Nat
         /\ FileLen[n] = -1 => FileBytes(n) = <<>>
<1>1. CASE FileLen[n] = -1
  <2>1. FileBytes(n) = [i \in 1..0 |-> Ch("byte", n, i)]
    BY <1>1 DEF FileBytes
  <2>2. FileBytes(n) \in Seq(Char) /\ Len(FileBytes(n)) = 0
    BY <2>1
  <2>3. FileBytes(n) = <<>>
    BY <2>2, EmptySeq
  <2> QED
    BY <1>1, <2>2, <2>3 DEF Texts
<1>2. CASE FileLen[n] # -1
  <2>1. PICK l \in Nat : l = FileLen[n]
    BY <1>2, Lengths
  <2>2. \A i \in 1..l : Ch("byte", n, i) \in Char
    BY Characters
  <2>3. FileBytes(n) = [i \in 1..l |-> Ch("byte", n, i)]
    BY <2>1 DEF FileBytes
  <2>4. FileBytes(n) \in Seq(Char) /\ Len(FileBytes(n)) = l
    BY <2>2, <2>3
  <2> QED
    BY <1>2, <2>1, <2>4 DEF Texts
<1> QED
  BY <1>1, <1>2

\* The line of an answer, whole or broken off, as the client reads it: only a line
\* with its length is no malformed one, and the length is the file's.
LEMMA ResponseLines ==
  ASSUME NEW n \in Names, NEW line \in Texts, Len(line) <= 6,
         \A i \in 1..Len(line) : line[i] = TheResponse(n)[i]
  PROVE  /\ Malformed(line) \/ LengthIn(line) = FileLen[n]
         /\ Len(line) >= 4 => ~Malformed(line)
<1>0. line \in Seq(Char)
  BY DEF Texts
<1>1. PICK m \in Nat : m = Len(line) /\ m <= 6 /\ DOMAIN line = 1..m
  BY <1>0
<1>2. PICK R : R = TheResponse(n)
  OBVIOUS
<1>3. /\ R[1].kind = "name" /\ R[2].kind = "comma" /\ R[3].kind = "length"
      /\ R[4].kind = "comma" /\ R[5].kind = "text" /\ R[6].kind = "CR"
      /\ R[3].at = FileLen[n]
  BY <1>2, ResponseIs, Zenon
<1>4. \A i \in 1..m : line[i] = R[i]
  BY <1>1, <1>2
<1>5. Commas(line) = {i \in 1..m : i = 2 \/ i = 4}
  <2>1. \A i \in 1..m : i = 1 \/ i = 2 \/ i = 3 \/ i = 4 \/ i = 5 \/ i = 6
    BY <1>1
  <2>2. \A i \in 1..m : line[i].kind = "comma" <=> i = 2 \/ i = 4
    <3> SUFFICES ASSUME NEW i \in 1..m
                 PROVE  R[i].kind = "comma" <=> i = 2 \/ i = 4
      BY <1>4
    <3> QED
      BY <1>3, <2>1
  <2>3. Commas(line) = {i \in 1..m : line[i].kind = "comma"}
    BY <1>1, Zenon DEF Commas
  <2> QED
    BY <2>2, <2>3
<1>6. CASE m < 4
  <2>1. Commas(line) \subseteq {2}
    BY <1>5, <1>6
  <2>2. Commas(line) = {} \/ Commas(line) = {2}
    BY <2>1
  <2>3. Cardinality({}) = 0 /\ Cardinality({2}) = 1
    BY FS_EmptySet, FS_Singleton
  <2>4. Cardinality(Commas(line)) = 0 \/ Cardinality(Commas(line)) = 1
    BY <2>2, <2>3, Zenon
  <2>5. PICK k : k = Cardinality(Commas(line))
    OBVIOUS
  <2>6. k < 2
    BY <2>4, <2>5
  <2>7. Malformed(line)
    BY <2>5, <2>6, Zenon DEF Malformed
  <2>8. ~(Len(line) >= 4)
    BY <1>1, <1>6
  <2> QED
    BY <2>7, <2>8, Zenon
<1>7. CASE m >= 4
  <2>1. Commas(line) = {2, 4}
    BY <1>5, <1>7
  <2>2. {j \in Commas(line) : j > 2} = {4} /\ {j \in Commas(line) : j > 4} = {}
    BY <2>1
  <2>3. Cardinality({}) = 0 /\ Cardinality({4}) = 1
    BY FS_EmptySet, FS_Singleton
  <2>4. \A i \in Commas(line) : Cardinality({j \in Commas(line) : j > i}) = 1 <=> i = 2
    <3> SUFFICES ASSUME NEW i \in Commas(line)
                 PROVE  Cardinality({j \in Commas(line) : j > i}) = 1 <=> i = 2
      OBVIOUS
    <3>1. CASE i = 2
      BY <2>2, <2>3, <3>1
    <3>2. CASE i = 4
      BY <2>2, <2>3, <3>2
    <3> QED
      BY <2>1, <3>1, <3>2
  <2>5. 2 \in Commas(line)
    BY <2>1
  <2>6. (CHOOSE i \in Commas(line) : Cardinality({j \in Commas(line) : j > i}) = 1) = 2
    BY <2>4, <2>5, Zenon
  <2>7. LengthIn(line) = line[2 + 1].at
    BY <2>6, Zenon DEF LengthIn
  <2>8. line[3].at = FileLen[n]
    <3>1. 3 \in 1..m
      BY <1>7
    <3> QED
      BY <1>3, <1>4, <3>1
  <2>9. ~Malformed(line)
    <3>1. Commas(line) = {2} \cup {4}
      BY <2>1
    <3>2. IsFiniteSet({2}) /\ Cardinality({2}) = 1 /\ 4 \notin {2}
      <4>1. IsFiniteSet({2}) /\ Cardinality({2}) = 1
        BY FS_Singleton, Zenon
      <4> QED
        BY <4>1
    <3>3. Cardinality({2} \cup {4}) = Cardinality({2}) + 1
      BY <3>2, FS_AddElement
    <3>4. PICK k : k = Cardinality(Commas(line))
      OBVIOUS
    <3>5. k = 1 + 1
      BY <3>1, <3>2, <3>3, <3>4, Zenon
    <3>6. ~(k < 2)
      BY <3>5
    <3> QED
      BY <3>4, <3>6, Zenon DEF Malformed
  <2>10. LengthIn(line) = FileLen[n]
    BY <2>7, <2>8
  <2> QED
    BY <2>9, <2>10, Zenon
<1> QED
  BY <1>1, <1>6, <1>7

\* What the client has of an answer is its beginning.
LEMMA ResponseStarts ==
  ASSUME NEW n \in Names, NEW line \in Texts, NEW d \in Texts, Len(line) <= 7,
         Starts(line \o d, TheResponse(n) \o FileBytes(n))
  PROVE  \A i \in 1..Len(line) : line[i] = TheResponse(n)[i]
<1>0. line \in Seq(Char) /\ TheResponse(n) \in Texts /\ FileBytes(n) \in Texts /\ Len(TheResponse(n)) = 7
  BY ResponseIs, FileIs DEF Texts
<1>1. Starts(line, TheResponse(n) \o FileBytes(n))
  BY <1>0, TextsJoin, StartsShorter, Zenon
<1>2. PICK u : u = TheResponse(n) \o FileBytes(n)
  OBVIOUS
<1>3. u \in Texts
  BY <1>0, <1>2, TextsJoin, Zenon
<1>4. \A i \in 1..Len(line) : line[i] = u[i]
  BY <1>1, <1>2, <1>3, StartsAt, Zenon
<1>5. JoinOf(u, TheResponse(n), FileBytes(n))
  BY <1>0, <1>2, JoinedTexts, Zenon DEF Texts
<1>6. \A i \in 1..7 : u[i] = TheResponse(n)[i]
  BY <1>0, <1>5, Zenon DEF JoinOf
<1>7. \A i \in 1..Len(line) : i \in 1..7
  BY <1>0
<1> QED
  BY <1>4, <1>6, <1>7, Zenon

\* A text with one more character.
LEMMA OneMore ==
  ASSUME NEW line \in Texts, NEW x \in Char
  PROVE  /\ line \o <<x>> \in Texts /\ Len(line \o <<x>>) = Len(line) + 1
         /\ (line \o <<x>>)[Len(line) + 1] = x
         /\ \A i \in 1..Len(line) : (line \o <<x>>)[i] = line[i]
<1>0. line \in Seq(Char) /\ <<x>> \in Seq(Char) /\ Len(<<x>>) = 1 /\ <<x>>[1] = x
  BY DEF Texts
<1>1. PICK u : u = line \o <<x>>
  OBVIOUS
<1>2. JoinOf(u, line, <<x>>)
  BY <1>0, <1>1, JoinedTexts, Zenon
<1>3. PICK m \in Nat : m = Len(line)
  BY <1>0
<1>4. /\ u \in Seq(Char) /\ Len(u) = m + 1 /\ (\A i \in 1..m : u[i] = line[i])
      /\ \A i \in 1..1 : u[m + i] = <<x>>[i]
  BY <1>0, <1>2, <1>3, Zenon DEF JoinOf
<1>5. u[m + 1] = x
  BY <1>0, <1>4
<1> QED
  BY <1>1, <1>3, <1>4, <1>5, Zenon DEF Texts

\* The seventh character completes the line, and none before it.
LEMMA ResponseCompletes ==
  ASSUME NEW n \in Names, NEW line \in Texts, NEW x \in Char, NEW d \in Texts, Len(line) <= 6,
         Starts((line \o <<x>>) \o d, TheResponse(n) \o FileBytes(n))
  PROVE  /\ Completes(line, x) <=> Len(line) = 6
         /\ Completes(line, x) => /\ line \o <<x>> = TheResponse(n)
                                  /\ Front(line) \in Texts /\ Len(Front(line)) = 5
                                  /\ \A i \in 1..Len(Front(line)) : Front(line)[i] = TheResponse(n)[i]
<1>0. line \in Seq(Char) /\ TheResponse(n) \in Texts /\ Len(TheResponse(n)) = 7
  BY ResponseIs DEF Texts
<1>1. PICK m \in Nat : m = Len(line) /\ m <= 6
  BY <1>0
<1>2. PICK u \in Texts : u = line \o <<x>>
  BY OneMore, Zenon
<1>3. Len(u) = m + 1 /\ u[m + 1] = x /\ \A i \in 1..m : u[i] = line[i]
  BY <1>1, <1>2, OneMore, Zenon
<1>4. PICK R \in Texts : R = TheResponse(n)
  BY <1>0, Zenon
<1>5. \A i \in 1..(m + 1) : u[i] = R[i]
  <2>1. Len(u) <= 7
    BY <1>1, <1>3
  <2>2. \A i \in 1..Len(u) : u[i] = TheResponse(n)[i]
    BY <1>2, <2>1, ResponseStarts, Zenon
  <2> QED
    BY <1>3, <1>4, <2>2, Zenon
<1>6. /\ R[1].kind = "name" /\ R[2].kind = "comma" /\ R[3].kind = "length"
      /\ R[4].kind = "comma" /\ R[5].kind = "text" /\ R[6].kind = "CR"
      /\ R[7].kind = "LF"
  BY <1>4, ResponseIs, Zenon
<1>7. x = R[m + 1] /\ \A i \in 1..m : line[i] = R[i]
  <2>1. m + 1 \in 1..(m + 1) /\ \A i \in 1..m : i \in 1..(m + 1)
    OBVIOUS
  <2> QED
    BY <1>3, <1>5, <2>1
<1>8. x.kind = "LF" <=> m = 6
  <2>1. m = 0 \/ m = 1 \/ m = 2 \/ m = 3 \/ m = 4 \/ m = 5 \/ m = 6
    BY <1>1
  <2>2. m = 0 => x = R[1]
    BY <1>7
  <2>3. m = 1 => x = R[2]
    BY <1>7
  <2>4. m = 2 => x = R[3]
    BY <1>7
  <2>5. m = 3 => x = R[4]
    BY <1>7
  <2>6. m = 4 => x = R[5]
    BY <1>7
  <2>7. m = 5 => x = R[6]
    BY <1>7
  <2>8. m = 6 => x = R[7]
    BY <1>7
  <2> QED
    BY <1>6, <2>1, <2>2, <2>3, <2>4, <2>5, <2>6, <2>7, <2>8
<1>9. m = 6 => Last(line).kind = "CR" /\ line # <<>>
  <2> SUFFICES ASSUME m = 6 PROVE Last(line).kind = "CR" /\ line # <<>>
    OBVIOUS
  <2>1. Last(line) = line[6]
    BY <1>1 DEF Last
  <2>2. line[6] = R[6]
    BY <1>7
  <2>3. line # <<>>
    <3>1. Len(line) = 6 /\ Len(<<>>) = 0
      BY <1>1
    <3> QED
      BY <3>1
  <2> QED
    BY <1>6, <2>1, <2>2, <2>3
<1>10. Completes(line, x) <=> m = 6
  BY <1>8, <1>9, Zenon DEF Completes
<1>11. ASSUME m = 6
       PROVE  /\ u = R
              /\ Front(line) \in Texts /\ Len(Front(line)) = 5
              /\ \A i \in 1..Len(Front(line)) : Front(line)[i] = R[i]
  <2>1. u = R
    <3>1. u \in Seq(Char) /\ R \in Seq(Char) /\ Len(u) = Len(R) /\ \A i \in 1..Len(u) : u[i] = R[i]
      BY <1>0, <1>3, <1>4, <1>5, <1>11 DEF Texts
    <3> QED
      BY <3>1, SeqEqual
  <2>2. Front(line) = SubSeq(line, 1, 5)
    BY <1>1, <1>11 DEF Front
  <2>3. 5 \in 0..Len(line)
    BY <1>1, <1>11
  <2>4. /\ SubSeq(line, 1, 5) \in Seq(Char) /\ Len(SubSeq(line, 1, 5)) = 5
        /\ \A i \in 1..5 : SubSeq(line, 1, 5)[i] = line[i]
    BY <1>0, <2>3, FirstPart, Zenon
  <2>5. \A i \in 1..5 : line[i] = R[i]
    BY <1>7, <1>11
  <2>6. \A i \in 1..5 : Front(line)[i] = R[i]
    BY <2>2, <2>4, <2>5, Zenon
  <2>7. Front(line) \in Texts /\ Len(Front(line)) = 5
    BY <2>2, <2>4, Zenon DEF Texts
  <2> QED
    BY <2>1, <2>6, <2>7, Zenon
<1> QED
  BY <1>1, <1>2, <1>4, <1>10, <1>11, Zenon

\* The third character completes a question, and none before it; the line is the name.
LEMMA RequestCompletes ==
  ASSUME NEW n \in Names, NEW line \in Texts, NEW x \in Char, NEW d \in Texts,
         (line \o <<x>>) \o d = Request(n)
  PROVE  Completes(line, x) => d = <<>> /\ Front(line) = <<Ch("name", n, 0)>>
<1>0. line \in Seq(Char) /\ d \in Seq(Char)
  BY DEF Texts
<1>1. PICK m \in Nat : m = Len(line)
  BY <1>0
<1>2. PICK u \in Texts : u = line \o <<x>>
  BY OneMore, Zenon
<1>3. Len(u) = m + 1 /\ u[m + 1] = x /\ \A i \in 1..m : u[i] = line[i]
  BY <1>1, <1>2, OneMore, Zenon
<1>4. PICK k \in Nat : k = Len(d)
  BY <1>0
<1>5. PICK Q \in Texts : Q = Request(n)
  BY RequestIs, Zenon
<1>6. Len(Q) = 3 /\ Q[1] = Ch("name", n, 0) /\ Q[2] = Ch("CR", n, 0) /\ Q[3] = Ch("LF", n, 0)
  BY <1>5, RequestIs, Zenon
<1>7. (m + 1) + k = 3 /\ \A i \in 1..(m + 1) : Q[i] = u[i]
  <2>1. u \o d = Q
    BY <1>2, <1>5, Zenon
  <2>2. u \in Seq(Char)
    BY DEF Texts
  <2>3. JoinOf(Q, u, d)
    BY <1>0, <2>1, <2>2, JoinedTexts, Zenon
  <2> QED
    BY <1>3, <1>4, <1>6, <2>3, Zenon DEF JoinOf
<1>8. x = Q[m + 1] /\ \A i \in 1..m : line[i] = Q[i]
  <2>1. m + 1 \in 1..(m + 1) /\ \A i \in 1..m : i \in 1..(m + 1)
    OBVIOUS
  <2> QED
    BY <1>3, <1>7, <2>1
<1>9. Q[1].kind = "name" /\ Q[2].kind = "CR"
  BY <1>6, Characters
<1>10. ASSUME Completes(line, x)
       PROVE  m = 2 /\ k = 0
  <2>1. x.kind = "LF"
    BY <1>10, Zenon DEF Completes
  <2>2. m = 0 \/ m = 1 \/ m = 2
    BY <1>7
  <2>3. m = 0 => x = Q[1]
    BY <1>8
  <2>4. m = 1 => x = Q[2]
    BY <1>8
  <2> QED
    BY <1>7, <1>9, <2>1, <2>2, <2>3, <2>4
<1>11. ASSUME Completes(line, x)
       PROVE  d = <<>> /\ Front(line) = <<Ch("name", n, 0)>>
  <2>1. m = 2 /\ k = 0
    BY <1>10, <1>11
  <2>2. d = <<>>
    <3>1. d \in Seq(Char) /\ Len(d) = 0 => d = <<>>
      OBVIOUS
    <3> QED
      BY <1>0, <1>4, <2>1, <3>1
  <2>3. Front(line) = SubSeq(line, 1, 1)
    BY <1>1, <2>1 DEF Front
  <2>4. 1 \in 0..Len(line)
    BY <1>1, <2>1
  <2>5. PICK f \in Texts : f = SubSeq(line, 1, 1)
    BY <1>0, <2>4, FirstPart, Zenon DEF Texts
  <2>6. Len(f) = 1 /\ \A i \in 1..1 : f[i] = line[i]
    BY <1>0, <2>4, <2>5, FirstPart, Zenon
  <2>7. f[1] = Ch("name", n, 0)
    BY <1>6, <1>8, <2>1, <2>6
  <2>8. f = <<f[1]>>
    <3>1. f # <<>>
      <4>1. Len(f) = 1
        BY <2>6, Zenon
      <4>2. Len(f) # 0
        BY <4>1
      <4> QED
        BY <4>2, NoCharacters, Zenon
    <3>2. Len(f) <= 1
      BY <2>6
    <3> QED
      BY <3>1, <3>2, OneRead, Zenon
  <2> QED
    BY <2>2, <2>3, <2>5, <2>7, <2>8, Zenon
<1> QED
  BY <1>11
-----------------------------------------------------------------------------
(* The conversation of a client and the server                             *)

\* The name of the file before the first request.
Unnamed == ""

Received == [of : Names \cup {Unnamed}, data : Texts, state : {"none", "open", "whole", "short"}]
ClientState == [pc : {"connect", "prompt", "response", "file", "check", "leave", "closing", "end"},
                asks : Seq(Names), line : Texts, length : Int,
                rcvd : Received]
ServerState == [pc : {"accept", "line", "process", "send", "close", "closing"},
                sd : {<<>>} \cup {<<c>> : c \in Clients}, line : Texts, pos : Nat]

Answer(n) == TheResponse(n) \o FileBytes(n)

\* st: where the server is with the connection; s: the server.
Dead(st) == st \in {"ended", "closed"}

\* The server is at the beginning of a line or in one, or will be without a write.
AtLine(st, s) == \/ st = "waiting"
                 \/ st = "served" /\ s.pc = "line"
                 \/ st = "served" /\ s.pc = "send" /\ s.pos = FileLen[s.line[1].of]
SoFar(st, s) == IF st = "served" /\ s.pc = "line" THEN s.line ELSE <<>>
AtRest(st, s) == Dead(st) \/ (AtLine(st, s) /\ SoFar(st, s) = <<>>)

\* The question for n is on its way or taken, and nothing was answered.
Asking(k, n, st, s, up, down) ==
  /\ k.line = <<>> /\ down = <<>>
  /\ \/ Dead(st)
     \/ AtLine(st, s) /\ SoFar(st, s) \o up = Request(n)
     \/ st = "served" /\ s.pc = "process" /\ s.line = <<Ch("name", n, 0)>> /\ up = <<>>

\* The question was taken, and t is what was written of its answer.
Answering(n, t, st, s, up) ==
  /\ up = <<>>
  /\ \/ Dead(st) /\ Starts(t, Answer(n))
     \/ st = "served" /\ s.pc = "line" /\ s.line = <<>> /\ t = Answer(n)
     \/ /\ st = "served" /\ s.pc = "send" /\ s.line = <<Ch("name", n, 0)>>
        /\ FileLen[n] # -1 /\ s.pos <= FileLen[n]
        /\ t = TheResponse(n) \o SubSeq(FileBytes(n), 1, s.pos)

InResponse(k, n, st, s, up, down) ==
  /\ n \in Names /\ k.rcvd.data = <<>> /\ k.rcvd.state = "none" /\ Len(k.line) <= 6
  /\ Asking(k, n, st, s, up, down) \/ Answering(n, k.line \o down, st, s, up)

InFile(k, n, st, s, up, down) ==
  /\ n \in Names /\ k.rcvd.state = "open" /\ FileLen[n] # -1
  /\ Len(k.rcvd.data) <= FileLen[n] /\ k.length = FileLen[n] - Len(k.rcvd.data)
  /\ Answering(n, TheResponse(n) \o (k.rcvd.data \o down), st, s, up)

\* k: the client; up and down: what is on its way to the server and to the client.
Conv(k, st, s, up, down) ==
  /\ k.pc = "connect" => up = <<>> /\ down = <<>>
  /\ k.pc = "prompt" => up = <<>> /\ down = <<>> /\ AtRest(st, s)
  /\ k.pc = "response" => InResponse(k, k.rcvd.of, st, s, up, down)
  /\ k.pc = "file" => InFile(k, k.rcvd.of, st, s, up, down)
  /\ k.pc = "check" => k.length # 0 /\ k.rcvd.state = "open" /\ Dead(st)
  /\ k.pc \in {"leave", "closing", "end"} => Dead(st) \/ (up = <<>> /\ AtRest(st, s))
  /\ k.rcvd.state = "whole" => k.rcvd.of \in Names /\ k.rcvd.data = FileBytes(k.rcvd.of)

LEMMA AnswerType ==
  ASSUME NEW n \in Names
  PROVE  TheResponse(n) \in Texts /\ FileBytes(n) \in Texts /\ Answer(n) \in Texts
<1>1. TheResponse(n) \in Texts /\ FileBytes(n) \in Texts
  BY ResponseIs, FileIs, Zenon
<1> QED
  BY <1>1, TextsJoin, Zenon DEF Answer

\* A file and the part of it before a position.
LEMMA FilePart ==
  ASSUME NEW n \in Names, FileLen[n] # -1, NEW p \in Nat, p <= FileLen[n]
  PROVE  /\ SubSeq(FileBytes(n), 1, p) \in Texts
         /\ Starts(SubSeq(FileBytes(n), 1, p), FileBytes(n))
         /\ Len(SubSeq(FileBytes(n), 1, p)) = p
         /\ p = FileLen[n] => SubSeq(FileBytes(n), 1, p) = FileBytes(n)
<1>1. PICK f \in Texts : f = FileBytes(n)
  BY FileIs, Zenon
<1>2. PICK l \in Nat : l = FileLen[n] /\ l = Len(f)
  BY <1>1, FileIs, Zenon
<1>3. f \in Seq(Char) /\ p \in 0..Len(f) /\ l \in 0..Len(f) /\ p <= l
  BY <1>2 DEF Texts
<1>4. SubSeq(f, 1, l) = f
  BY <1>2, <1>3
<1>5. /\ SubSeq(f, 1, p) \in Texts /\ SubSeq(f, p + 1, l) \in Texts
      /\ SubSeq(f, 1, l) = SubSeq(f, 1, p) \o SubSeq(f, p + 1, l)
  BY <1>3, NextPart, Zenon
<1>6. Starts(SubSeq(f, 1, p), f)
  BY <1>4, <1>5, Zenon DEF Starts
<1>7. Len(SubSeq(f, 1, p)) = p
  BY <1>3, FirstPart, Zenon
<1> QED
  BY <1>1, <1>2, <1>4, <1>5, <1>6, <1>7, Zenon

LEMMA AnsweringStarts ==
  ASSUME NEW n \in Names, NEW t \in Texts, NEW st, NEW s \in ServerState, NEW up,
         Answering(n, t, st, s, up)
  PROVE  Starts(t, Answer(n))
<1>1. TheResponse(n) \in Texts /\ FileBytes(n) \in Texts /\ Answer(n) \in Texts
  BY AnswerType, Zenon
<1>2. CASE t = Answer(n)
  BY <1>2, <1>1, StartsItself, Zenon
<1>3. CASE FileLen[n] # -1 /\ s.pos <= FileLen[n]
           /\ t = TheResponse(n) \o SubSeq(FileBytes(n), 1, s.pos)
  <2>0. s.pos \in Nat
    BY DEF ServerState
  <2>1. /\ SubSeq(FileBytes(n), 1, s.pos) \in Texts
        /\ Starts(SubSeq(FileBytes(n), 1, s.pos), FileBytes(n))
    BY <1>3, <2>0, FilePart, Zenon
  <2>2. Starts(TheResponse(n) \o SubSeq(FileBytes(n), 1, s.pos), TheResponse(n) \o FileBytes(n))
    BY <1>1, <2>1, StartsMore, Zenon
  <2> QED
    BY <1>3, <2>2, Zenon DEF Answer
<1> QED
  BY <1>2, <1>3, Zenon DEF Answering

\* The server is out of the connection: what is on its way may be cut off.
LEMMA ConvDead ==
  ASSUME NEW k \in ClientState, NEW st, NEW s \in ServerState, NEW up, NEW down \in Texts,
         Conv(k, st, s, up, down),
         NEW st2, NEW s2, NEW up2, NEW down2 \in Texts,
         Dead(st2), Starts(down2, down), up = <<>> => up2 = <<>>
  PROVE  Conv(k, st2, s2, up2, down2)
<1>1. AtRest(st2, s2)
  BY Zenon DEF AtRest
<1>2. down = <<>> => down2 = <<>>
  BY StartsNothing, Zenon
<1>3. ASSUME NEW n \in Names, NEW t \in Texts, Answering(n, t \o down, st, s, up)
      PROVE  Answering(n, t \o down2, st2, s2, up2)
  <2>1. t \o down \in Texts /\ t \o down2 \in Texts
    BY TextsJoin, Zenon
  <2>2. Starts(t \o down, Answer(n))
    BY <1>3, <2>1, AnsweringStarts, Zenon
  <2>3. PICK r \in Texts : down = down2 \o r
    BY Zenon DEF Starts
  <2>4. (t \o down2) \o r = t \o (down2 \o r)
    BY TextsAssoc, Zenon
  <2>5. Starts((t \o down2) \o r, Answer(n))
    BY <2>2, <2>3, <2>4, Zenon
  <2>6. Answer(n) \in Texts
    BY AnswerType, Zenon
  <2>7. Starts(t \o down2, Answer(n))
    BY <2>1, <2>5, <2>6, StartsShorter, Zenon
  <2>8. up2 = <<>>
    BY <1>3, Zenon DEF Answering
  <2> QED
    BY <2>7, <2>8, Zenon DEF Answering
<1>4. k.line \in Texts /\ k.rcvd.data \in Texts
  BY DEF ClientState, Received
<1>5. ASSUME NEW n, InResponse(k, n, st, s, up, down)
      PROVE  InResponse(k, n, st2, s2, up2, down2)
  <2>1. CASE Asking(k, n, st, s, up, down)
    <3>1. Asking(k, n, st2, s2, up2, down2)
      BY <1>2, <2>1, Zenon DEF Asking
    <3> QED
      BY <1>5, <3>1, Zenon DEF InResponse
  <2>2. CASE Answering(n, k.line \o down, st, s, up)
    <3>1. n \in Names
      BY <1>5, Zenon DEF InResponse
    <3>2. Answering(n, k.line \o down2, st2, s2, up2)
      BY <1>3, <1>4, <2>2, <3>1, Zenon
    <3> QED
      BY <1>5, <3>2, Zenon DEF InResponse
  <2> QED
    BY <1>5, <2>1, <2>2, Zenon DEF InResponse
<1>6. ASSUME NEW n, InFile(k, n, st, s, up, down)
      PROVE  InFile(k, n, st2, s2, up2, down2)
  <2>1. n \in Names
    BY <1>6, Zenon DEF InFile
  <2>2. PICK t \in Texts : t = TheResponse(n) \o k.rcvd.data
    BY <1>4, <2>1, AnswerType, TextsJoin, Zenon
  <2>3. TheResponse(n) \o (k.rcvd.data \o down) = t \o down
    <3>1. PICK a \in Texts : a = TheResponse(n)
      BY <2>1, AnswerType, Zenon
    <3>2. PICK b \in Texts : b = k.rcvd.data
      BY <1>4, Zenon
    <3>3. (a \o b) \o down = a \o (b \o down)
      BY TextsAssoc, Zenon
    <3> QED
      BY <2>2, <3>1, <3>2, <3>3, Zenon
  <2>4. TheResponse(n) \o (k.rcvd.data \o down2) = t \o down2
    <3>1. PICK a \in Texts : a = TheResponse(n)
      BY <2>1, AnswerType, Zenon
    <3>2. PICK b \in Texts : b = k.rcvd.data
      BY <1>4, Zenon
    <3>3. (a \o b) \o down2 = a \o (b \o down2)
      BY TextsAssoc, Zenon
    <3> QED
      BY <2>2, <3>1, <3>2, <3>3, Zenon
  <2>5. Answering(n, t \o down, st, s, up)
    BY <1>6, <2>3, Zenon DEF InFile
  <2>6. Answering(n, t \o down2, st2, s2, up2)
    BY <1>3, <2>1, <2>5, Zenon
  <2> QED
    BY <1>6, <2>4, <2>6, Zenon DEF InFile
<1> QED
  BY <1>1, <1>2, <1>5, <1>6, Zenon DEF Conv

\* The file and nothing after it was heard, and the server has nothing more to say.
LEMMA AnswerHeard ==
  ASSUME NEW n \in Names, NEW data \in Texts, NEW down \in Texts,
         NEW st, NEW s \in ServerState, NEW up,
         Len(data) = Len(FileBytes(n)),
         Answering(n, TheResponse(n) \o (data \o down), st, s, up)
  PROVE  data = FileBytes(n) /\ down = <<>> /\ up = <<>> /\ AtRest(st, s)
<1>1. PICK F \in Texts : F = FileBytes(n)
  BY AnswerType, Zenon
<1>2. PICK R \in Texts : R = TheResponse(n)
  BY AnswerType, Zenon
<1>3. data \o down \in Texts
  BY TextsJoin, Zenon
<1>4. R \o (data \o down) \in Texts
  BY <1>3, TextsJoin, Zenon
<1>5. Starts(R \o (data \o down), R \o F)
  BY <1>1, <1>2, <1>4, AnsweringStarts, Zenon DEF Answer
<1>6. Starts(data \o down, F)
  BY <1>3, <1>5, StartsAfter, Zenon
<1>7. PICK r \in Texts : F = (data \o down) \o r
  BY <1>6, Zenon DEF Starts
<1>8. PICK x \in Texts : x = down \o r
  BY TextsJoin, Zenon
<1>9. data \o x = F \o <<>>
  <2>1. (data \o down) \o r = data \o (down \o r)
    BY TextsAssoc, Zenon
  <2>2. F \o <<>> = F
    BY TextsEmpty, Zenon
  <2> QED
    BY <1>7, <1>8, <2>1, <2>2, Zenon
<1>10. data = F /\ x = <<>>
  <2>1. <<>> \in Texts
    BY HoldsNothing, Zenon
  <2>2. Len(data) = Len(F)
    BY <1>1, Zenon
  <2> QED
    BY <1>9, <2>1, <2>2, SameFront, Zenon
<1>11. down = <<>>
  BY <1>8, <1>10, JoinNothing, Zenon
<1>12. up = <<>>
  BY Zenon DEF Answering
<1>13. ASSUME Dead(st)
       PROVE  AtRest(st, s)
  BY <1>13, Zenon DEF AtRest
<1>14. ASSUME st = "served", s.pc = "line", s.line = <<>>
       PROVE  AtRest(st, s)
  BY <1>14, Zenon DEF AtRest, AtLine, SoFar
<1>15. ASSUME st = "served", s.pc = "send", s.line = <<Ch("name", n, 0)>>,
              FileLen[n] # -1, s.pos <= FileLen[n],
              TheResponse(n) \o (data \o down) = TheResponse(n) \o SubSeq(FileBytes(n), 1, s.pos)
       PROVE  AtRest(st, s)
  <2>0. s.pos \in Nat
    BY DEF ServerState
  <2>1. PICK P \in Texts : P = SubSeq(FileBytes(n), 1, s.pos)
    BY <1>15, <2>0, FilePart, Zenon
  <2>2. Len(P) = s.pos
    BY <1>15, <2>0, <2>1, FilePart, Zenon
  <2>3. data \o down = P
    <3>1. R \o (data \o down) = R \o P
      BY <1>2, <1>15, <2>1, Zenon
    <3> QED
      BY <1>3, <3>1, SameFront, Zenon
  <2>4. data \o down = data
    BY <1>11, TextsEmpty, Zenon
  <2>5. Len(F) = s.pos
    BY <1>10, <2>2, <2>3, <2>4, Zenon
  <2>6. Len(F) = FileLen[n]
    BY <1>1, <1>15, FileIs, Zenon
  <2>7. s.line[1].of = n
    <3>1. PICK x1 \in Char : x1 = Ch("name", n, 0) /\ x1.of = n
      BY Characters
    <3>2. s.line = <<x1>>
      BY <1>15, <3>1, Zenon
    <3>3. s.line[1] = x1
      BY <3>2
    <3> QED
      BY <3>1, <3>3, Zenon
  <2>8. s.pos = FileLen[s.line[1].of]
    BY <2>5, <2>6, <2>7, Zenon
  <2>9. SoFar(st, s) = <<>>
    BY <1>15 DEF SoFar
  <2> QED
    BY <1>15, <2>8, <2>9, Zenon DEF AtRest, AtLine
<1>16. AtRest(st, s)
  BY <1>13, <1>14, <1>15, Zenon DEF Answering
<1> QED
  BY <1>1, <1>10, <1>11, <1>12, <1>16, Zenon
-----------------------------------------------------------------------------
(* The conversation goes on: the client                                    *)

LEMMA ConvConnect ==
  ASSUME NEW k \in ClientState, NEW s, NEW up, NEW down, k.pc = "connect",
         Conv(k, "none", s, up, down), NEW k2, k2 = [k EXCEPT !.pc = "prompt"]
  PROVE  k2 \in ClientState /\ Conv(k2, "waiting", s, up, down)
<1>1. k2 \in ClientState /\ k2.pc = "prompt" /\ k2.rcvd = k.rcvd
  BY DEF ClientState
<1>2. up = <<>> /\ down = <<>>
  BY Zenon DEF Conv
<1>3. AtRest("waiting", s)
  BY DEF AtRest, AtLine, SoFar
<1>4. k.rcvd.state = "whole" => k.rcvd.of \in Names /\ k.rcvd.data = FileBytes(k.rcvd.of)
  BY Zenon DEF Conv
<1> QED
  BY <1>1, <1>2, <1>3, <1>4 DEF Conv

\* The client's state once a request was sent.
Asked(k) == [k EXCEPT !.pc = "response", !.line = <<>>, !.asks = Tail(@),
                      !.rcvd.of = Head(k.asks), !.rcvd.data = <<>>, !.rcvd.state = "none"]

LEMMA ConvAsk ==
  ASSUME NEW k \in ClientState, NEW st, NEW s, NEW up, NEW down, k.pc = "prompt", k.asks # <<>>,
         Conv(k, st, s, up, down)
  PROVE  /\ Head(k.asks) \in Names /\ Asked(k) \in ClientState
         /\ Conv(Asked(k), st, s, up \o Request(Head(k.asks)), down)
<1>1. PICK n \in Names : n = Head(k.asks)
  BY DEF ClientState
<1>2. PICK k2 : k2 = Asked(k)
  OBVIOUS
<1>3. /\ k2 \in ClientState /\ k2.pc = "response" /\ k2.line = <<>>
      /\ k2.rcvd.of = n /\ k2.rcvd.data = <<>> /\ k2.rcvd.state = "none"
  <2>1. <<>> \in Texts
    BY HoldsNothing, Zenon
  <2>2. Tail(k.asks) \in Seq(Names)
    BY DEF ClientState
  <2>3. PICK r : r = [k.rcvd EXCEPT !.of = n, !.data = <<>>, !.state = "none"]
    OBVIOUS
  <2>4. r \in Received /\ r.of = n /\ r.data = <<>> /\ r.state = "none"
    BY <2>1, <2>3 DEF ClientState, Received
  <2>5. k2 = [k EXCEPT !.pc = "response", !.line = <<>>, !.asks = Tail(k.asks), !.rcvd = r]
    BY <1>1, <1>2, <2>3 DEF Asked, ClientState, Received
  <2> QED
    BY <2>1, <2>2, <2>4, <2>5 DEF ClientState
<1>4. up = <<>> /\ down = <<>> /\ AtRest(st, s)
  BY Zenon DEF Conv
<1>5. PICK Q \in Texts : Q = Request(n)
  BY RequestIs, Zenon
<1>6. up \o Q = Q /\ <<>> \o Q = Q
  BY <1>4, TextsEmpty, Zenon
<1>7. Asking(k2, n, st, s, up \o Q, down)
  BY <1>3, <1>4, <1>5, <1>6, Zenon DEF Asking, AtRest
<1>8. Len(k2.line) <= 6
  <2>1. Len(<<>>) <= 6
    OBVIOUS
  <2> QED
    BY <1>3, <2>1, Zenon
<1>9. InResponse(k2, n, st, s, up \o Q, down)
  BY <1>3, <1>7, <1>8, Zenon DEF InResponse
<1>10. Conv(k2, st, s, up \o Q, down)
  BY <1>3, <1>9 DEF Conv
<1> QED
  BY <1>1, <1>2, <1>3, <1>5, <1>10, Zenon

LEMMA ConvLeave ==
  ASSUME NEW k \in ClientState, NEW st, NEW s, NEW up, NEW down, k.pc \in {"prompt", "leave"},
         Conv(k, st, s, up, down), NEW k2, k2 = [k EXCEPT !.pc = "closing"]
  PROVE  k2 \in ClientState /\ Conv(k2, st, s, up, down)
<1>1. k2 \in ClientState /\ k2.pc = "closing" /\ k2.rcvd = k.rcvd
  BY DEF ClientState
<1>2. Dead(st) \/ (up = <<>> /\ AtRest(st, s))
  BY DEF Conv
<1>3. k.rcvd.state = "whole" => k.rcvd.of \in Names /\ k.rcvd.data = FileBytes(k.rcvd.of)
  BY Zenon DEF Conv
<1> QED
  BY <1>1, <1>2, <1>3 DEF Conv

LEMMA ConvClientEnds ==
  ASSUME NEW k \in ClientState, NEW st, NEW s, NEW up, NEW down, k.pc = "closing", Dead(st),
         Conv(k, st, s, up, down), NEW k2, k2 = [k EXCEPT !.pc = "end"], NEW down2
  PROVE  k2 \in ClientState /\ Conv(k2, st, s, up, down2)
<1>1. k2 \in ClientState /\ k2.pc = "end" /\ k2.rcvd = k.rcvd
  BY DEF ClientState
<1>2. k.rcvd.state = "whole" => k.rcvd.of \in Names /\ k.rcvd.data = FileBytes(k.rcvd.of)
  BY Zenon DEF Conv
<1> QED
  BY <1>1, <1>2 DEF Conv

\* The line of a response was read: on to the file, to the next question or out.
LEMMA ConvResponse ==
  ASSUME NEW k \in ClientState, NEW st, NEW s \in ServerState, NEW up, NEW down \in Texts, NEW c,
         k.rcvd.data = <<>>, k.rcvd.state = "none", NEW n \in Names, n = k.rcvd.of, NEW line,
         Malformed(line) => Dead(st),
         Malformed(line) \/ LengthIn(line) = FileLen[n],
         ~Malformed(line) => Answering(n, TheResponse(n) \o (<<>> \o down), st, s, up)
  PROVE  Response(k, c, line) \in ClientState /\ Conv(Response(k, c, line), st, s, up, down)
<1>0. <<>> \in Texts /\ Len(<<>>) = 0
  BY DEF Texts
<1>1. CASE Malformed(line)
  <2>1. PICK k2 : k2 = [k EXCEPT !.pc = "leave", !.line = <<>>]
    OBVIOUS
  <2>2. Response(k, c, line) = k2
    BY <1>1, <2>1 DEF Response
  <2>3. k2 \in ClientState /\ k2.pc = "leave" /\ k2.rcvd.state = k.rcvd.state /\ k2.rcvd = k.rcvd
    BY <1>0, <2>1 DEF ClientState
  <2> QED
    BY <1>1, <2>2, <2>3 DEF Conv
<1>2. CASE ~Malformed(line) /\ FileLen[n] = -1
  <2>0. PICK pc : pc = (IF c \in OneFile THEN "leave" ELSE "prompt") /\ pc \in {"leave", "prompt"}
    OBVIOUS
  <2>1. PICK k2 : k2 = [k EXCEPT !.pc = pc, !.line = <<>>]
    OBVIOUS
  <2>2. Response(k, c, line) = k2
    BY <1>2, <2>0, <2>1, Zenon DEF Response
  <2>3. k2 \in ClientState /\ k2.pc = pc /\ k2.rcvd = k.rcvd
    BY <1>0, <2>0, <2>1 DEF ClientState
  <2>4. down = <<>> /\ up = <<>> /\ AtRest(st, s)
    <3>1. PICK d \in Texts : d = <<>>
      BY <1>0
    <3>2. Len(d) = Len(FileBytes(n))
      BY <1>2, <3>1, FileIs, Zenon
    <3>3. Answering(n, TheResponse(n) \o (d \o down), st, s, up)
      BY <1>2, <3>1, Zenon
    <3>4. d \in Texts
      BY <3>1
    <3> QED
      BY <3>2, <3>3, <3>4, AnswerHeard
  <2> QED
    BY <2>0, <2>2, <2>3, <2>4 DEF Conv
<1>3. CASE ~Malformed(line) /\ FileLen[n] # -1
  <2>0. PICK l \in Nat : l = FileLen[n] /\ l # -1
    BY <1>3, Lengths
  <2>a. PICK r : r = [k.rcvd EXCEPT !.state = "open"]
    OBVIOUS
  <2>b. r \in Received /\ r.of = n /\ r.data = <<>> /\ r.state = "open"
    BY <2>a DEF ClientState, Received
  <2>1. PICK k2 : k2 = [k EXCEPT !.pc = "file", !.line = <<>>, !.length = l, !.rcvd.state = "open"]
    OBVIOUS
  <2>c. k2 = [k EXCEPT !.pc = "file", !.line = <<>>, !.length = l, !.rcvd = r]
    BY <2>a, <2>1 DEF ClientState
  <2>2. Response(k, c, line) = k2
    BY <1>3, <2>0, <2>1, Zenon DEF Response
  <2>d. l \in Int
    BY <2>0
  <2>e. k2 \in ClientState /\ k2.pc = "file" /\ k2.rcvd = r /\ k2.length = l
    BY <1>0, <2>b, <2>c, <2>d DEF ClientState
  <2>3. /\ k2 \in ClientState /\ k2.pc = "file" /\ k2.rcvd.of = n /\ k2.rcvd.data = <<>>
        /\ k2.rcvd.state = "open" /\ k2.length = l
    BY <2>b, <2>e
  <2>4. Answering(n, TheResponse(n) \o (k2.rcvd.data \o down), st, s, up)
    BY <1>3, <2>3, Zenon
  <2>5. Len(k2.rcvd.data) <= FileLen[n] /\ k2.length = FileLen[n] - Len(k2.rcvd.data)
    <3>1. Len(k2.rcvd.data) = 0
      BY <1>0, <2>3, Zenon
    <3> QED
      BY <2>0, <2>3, <3>1
  <2>6. InFile(k2, n, st, s, up, down)
    BY <1>3, <2>3, <2>4, <2>5, Zenon DEF InFile
  <2> QED
    BY <2>2, <2>3, <2>6 DEF Conv
<1> QED
  BY <1>1, <1>2, <1>3

\* One more character of a response, or the end of the stream.
HeardMore(k, c, got) == IF LineRead(k.line, got) THEN Response(k, c, Line(k.line, got))
                        ELSE [k EXCEPT !.line = @ \o got]

LEMMA ConvReadResponse ==
  ASSUME NEW k \in ClientState, NEW st, NEW s \in ServerState, NEW up, NEW down \in Texts,
         k.pc = "response", Conv(k, st, s, up, down), NEW c,
         NEW got \in Texts, NEW rest \in Texts, Len(got) <= 1, got \o rest = down,
         got = <<>> => Dead(st) /\ down = <<>>
  PROVE  HeardMore(k, c, got) \in ClientState /\ Conv(HeardMore(k, c, got), st, s, up, rest)
<1>0. k.line \in Texts /\ <<>> \in Texts /\ Len(<<>>) = 0
  BY DEF ClientState, Texts
<1>1. PICK n : n = k.rcvd.of
  OBVIOUS
<1>2. InResponse(k, n, st, s, up, down)
  BY <1>1, Zenon DEF Conv
<1>3. n \in Names /\ k.rcvd.data = <<>> /\ k.rcvd.state = "none" /\ Len(k.line) <= 6
  BY <1>2, Zenon DEF InResponse
<1>4. TheResponse(n) \in Texts /\ FileBytes(n) \in Texts /\ Answer(n) \in Texts
  BY <1>3, AnswerType, Zenon
<1>5. ASSUME got = <<>>
      PROVE  HeardMore(k, c, got) \in ClientState /\ Conv(HeardMore(k, c, got), st, s, up, rest)
  <2>1. Dead(st) /\ down = <<>> /\ rest = <<>>
    BY <1>5, JoinNothing, Zenon
  <2>2. HeardMore(k, c, got) = Response(k, c, k.line)
    BY <1>5, Zenon DEF HeardMore, LineRead, Line
  <2>3. /\ Malformed(k.line) \/ LengthIn(k.line) = FileLen[n]
        /\ ~Malformed(k.line) => up = <<>>
    <3>1. CASE Asking(k, n, st, s, up, down)
      <4>1. k.line = <<>>
        BY <3>1, Zenon DEF Asking
      <4>2. \A i \in 1..Len(k.line) : k.line[i] = TheResponse(n)[i]
        BY <1>0, <4>1
      <4>3. Malformed(k.line)
        <5>1. Commas(k.line) = {}
          BY <4>1 DEF Commas
        <5>2. PICK m : m = Cardinality(Commas(k.line))
          OBVIOUS
        <5>3. m = 0
          BY <5>1, <5>2, FS_EmptySet, Zenon
        <5>4. m < 2
          BY <5>3
        <5> QED
          BY <5>2, <5>4, Zenon DEF Malformed
      <4> QED
        BY <4>3, Zenon
    <3>2. CASE Answering(n, k.line \o down, st, s, up)
      <4>1. k.line \o down = k.line /\ k.line \o <<>> = k.line
        BY <1>0, <2>1, TextsEmpty, Zenon
      <4>2. Starts(k.line \o <<>>, TheResponse(n) \o FileBytes(n))
        BY <1>0, <1>3, <3>2, <4>1, AnsweringStarts, Zenon DEF Answer
      <4>3. Len(k.line) <= 7
        <5>1. PICK m \in Nat : m = Len(k.line)
          BY <1>0 DEF Texts
        <5> QED
          BY <1>3, <5>1
      <4>4. \A i \in 1..Len(k.line) : k.line[i] = TheResponse(n)[i]
        BY <1>0, <1>3, <4>2, <4>3, ResponseStarts, Zenon
      <4>5. Malformed(k.line) \/ LengthIn(k.line) = FileLen[n]
        BY <1>0, <1>3, <4>4, ResponseLines, Zenon
      <4>6. up = <<>>
        BY <3>2, Zenon DEF Answering
      <4> QED
        BY <4>5, <4>6, Zenon
    <3> QED
      BY <1>2, <3>1, <3>2, Zenon DEF InResponse
  <2>4. up = <<>> => Answering(n, TheResponse(n) \o (<<>> \o rest), st, s, up)
    <3>1. <<>> \o rest = <<>> /\ TheResponse(n) \o <<>> = TheResponse(n)
      BY <1>0, <1>4, <2>1, TextsEmpty, Zenon
    <3>2. Starts(TheResponse(n), Answer(n))
      BY <1>4, StartsItself, StartsLonger, Zenon DEF Answer
    <3> QED
      BY <2>1, <3>1, <3>2, Zenon DEF Answering
  <2>5. /\ Response(k, c, k.line) \in ClientState
        /\ Conv(Response(k, c, k.line), st, s, up, rest)
    BY <1>1, <1>3, <2>1, <2>3, <2>4, ConvResponse
  <2> QED
    BY <2>2, <2>5, Zenon
<1>6. ASSUME got # <<>>
      PROVE  HeardMore(k, c, got) \in ClientState /\ Conv(HeardMore(k, c, got), st, s, up, rest)
  <2>1. PICK x \in Char : got = <<x>> /\ got[1] = x
    BY <1>6, OneRead, Zenon
  <2>2. Answering(n, k.line \o down, st, s, up)
    <3>1. down # <<>>
      BY <1>6, JoinNothing, Zenon
    <3> QED
      BY <1>2, <3>1, Zenon DEF InResponse, Asking
  <2>3. PICK more \in Texts : more = k.line \o got
    BY <1>0, TextsJoin, Zenon
  <2>4. k.line \o down = more \o rest
    <3>1. PICK l \in Texts : l = k.line
      BY <1>0, Zenon
    <3>2. (l \o got) \o rest = l \o (got \o rest)
      BY TextsAssoc, Zenon
    <3> QED
      BY <2>3, <3>1, <3>2, Zenon
  <2>5. Answering(n, more \o rest, st, s, up)
    BY <2>2, <2>4, Zenon
  <2>6. Starts((k.line \o <<x>>) \o rest, TheResponse(n) \o FileBytes(n))
    <3>1. more \o rest \in Texts
      BY TextsJoin, Zenon
    <3>2. Starts(more \o rest, Answer(n))
      BY <1>3, <2>5, <3>1, AnsweringStarts, Zenon
    <3> QED
      BY <2>1, <2>3, <3>2, Zenon DEF Answer
  <2>7. Completes(k.line, x) <=> Len(k.line) = 6
    BY <1>0, <1>3, <2>1, <2>6, ResponseCompletes, Zenon
  <2>8. ASSUME ~Completes(k.line, x)
        PROVE  HeardMore(k, c, got) \in ClientState /\ Conv(HeardMore(k, c, got), st, s, up, rest)
    <3>1. PICK k2 : k2 = [k EXCEPT !.line = more]
      OBVIOUS
    <3>2. HeardMore(k, c, got) = k2
      BY <1>6, <2>1, <2>3, <2>8, <3>1 DEF HeardMore, LineRead
    <3>3. k2 \in ClientState /\ k2.pc = "response" /\ k2.line = more /\ k2.rcvd = k.rcvd
      BY <3>1 DEF ClientState
    <3>4. Len(more) <= 6
      <4>1. PICK m \in Nat : m = Len(k.line)
        BY <1>0 DEF Texts
      <4>2. Len(more) = m + 1
        BY <1>0, <2>1, <2>3, <4>1, OneMore, Zenon
      <4>3. m <= 6 /\ m # 6
        BY <1>3, <2>7, <2>8, <4>1, Zenon
      <4> QED
        BY <4>2, <4>3
    <3>5. InResponse(k2, n, st, s, up, rest)
      BY <1>3, <2>5, <3>3, <3>4, Zenon DEF InResponse
    <3>6. Conv(k2, st, s, up, rest)
      BY <1>1, <1>3, <3>3, <3>5 DEF Conv
    <3> QED
      BY <3>2, <3>3, <3>6, Zenon
  <2>9. ASSUME Completes(k.line, x)
        PROVE  HeardMore(k, c, got) \in ClientState /\ Conv(HeardMore(k, c, got), st, s, up, rest)
    <3>1. HeardMore(k, c, got) = Response(k, c, Front(k.line))
      BY <1>6, <2>1, <2>9, Zenon DEF HeardMore, LineRead, Line
    <3>2. PICK line \in Texts : line = Front(k.line)
      BY <1>0, <1>3, <2>1, <2>6, <2>9, ResponseCompletes, Zenon
    <3>3. more = TheResponse(n) /\ Len(line) = 5 /\ \A i \in 1..Len(line) : line[i] = TheResponse(n)[i]
      <4>1. /\ k.line \o <<x>> = TheResponse(n) /\ Len(Front(k.line)) = 5
            /\ \A i \in 1..Len(Front(k.line)) : Front(k.line)[i] = TheResponse(n)[i]
        BY <1>0, <1>3, <2>1, <2>6, <2>9, ResponseCompletes, Zenon
      <4> QED
        BY <2>1, <2>3, <3>2, <4>1, Zenon
    <3>4. Len(line) <= 6 /\ Len(line) >= 4
      BY <3>3
    <3>5. LengthIn(line) = FileLen[n] /\ ~Malformed(line)
      BY <1>3, <3>2, <3>3, <3>4, ResponseLines, Zenon
    <3>6. Answering(n, TheResponse(n) \o (<<>> \o rest), st, s, up)
      <4>1. <<>> \o rest = rest
        BY TextsEmpty, Zenon
      <4> QED
        BY <2>5, <3>3, <4>1, Zenon
    <3>7. Response(k, c, line) \in ClientState /\ Conv(Response(k, c, line), st, s, up, rest)
      BY <1>1, <1>3, <3>5, <3>6, ConvResponse
    <3> QED
      BY <3>1, <3>2, <3>7, Zenon
  <2> QED
    BY <2>8, <2>9, Zenon
<1> QED
  BY <1>5, <1>6, Zenon

\* More of the file, or the end of the stream.
MoreOfFile(k, got) == [k EXCEPT !.rcvd.data = @ \o got, !.length = @ - Len(got),
                                !.pc = IF got = <<>> THEN "check" ELSE @]

LEMMA ConvReadFile ==
  ASSUME NEW k \in ClientState, NEW st, NEW s \in ServerState, NEW up, NEW down \in Texts,
         k.pc = "file", k.length > 0, Conv(k, st, s, up, down),
         NEW got \in Texts, NEW rest \in Texts, Len(got) <= k.length, got \o rest = down,
         got = <<>> => Dead(st)
  PROVE  MoreOfFile(k, got) \in ClientState /\ Conv(MoreOfFile(k, got), st, s, up, rest)
<1>0. k.rcvd.data \in Texts /\ k.length \in Int /\ k.rcvd \in Received
  BY DEF ClientState, Received
<1>1. PICK n : n = k.rcvd.of
  OBVIOUS
<1>2. InFile(k, n, st, s, up, down)
  BY <1>1, Zenon DEF Conv
<1>3. n \in Names /\ k.rcvd.state = "open" /\ FileLen[n] # -1
  BY <1>2, Zenon DEF InFile
<1>4. PICK data \in Texts : data = k.rcvd.data \o got
  BY <1>0, TextsJoin, Zenon
<1>5. PICK g \in Nat : g = Len(got)
  BY DEF Texts
<1>6. PICK m \in Nat : m = Len(k.rcvd.data)
  BY <1>0 DEF Texts
<1>7. PICK l \in Nat : l = FileLen[n]
  BY <1>3, Lengths
<1>8. k.length = l - m /\ m <= l /\ g <= l - m
  BY <1>2, <1>5, <1>6, <1>7 DEF InFile
<1>9. Len(data) = m + g
  <2>1. k.rcvd.data \in Seq(Char) /\ got \in Seq(Char)
    BY <1>0 DEF Texts
  <2>2. JoinOf(k.rcvd.data \o got, k.rcvd.data, got)
    BY <2>1, JoinedTexts, Zenon
  <2> QED
    BY <1>4, <1>5, <1>6, <2>2, Zenon DEF JoinOf
<1>10. PICK len \in Int : len = l - (m + g) /\ len = k.length - g
  BY <1>8
<1>11. PICK pc : pc = (IF got = <<>> THEN "check" ELSE "file") /\ pc \in {"check", "file"}
  OBVIOUS
<1>12. PICK r : r = [k.rcvd EXCEPT !.data = data]
  OBVIOUS
<1>13. r \in Received /\ r.of = n /\ r.data = data /\ r.state = "open"
  BY <1>0, <1>1, <1>3, <1>12 DEF Received
<1>14. PICK k2 : k2 = [k EXCEPT !.rcvd = r, !.length = len, !.pc = pc]
  OBVIOUS
<1>15. MoreOfFile(k, got) = k2
  BY <1>4, <1>5, <1>10, <1>11, <1>12, <1>14 DEF MoreOfFile, ClientState, Received
<1>16. k2 \in ClientState /\ k2.pc = pc /\ k2.rcvd = r /\ k2.length = len
  BY <1>10, <1>11, <1>13, <1>14 DEF ClientState
<1>17. CASE got = <<>>
  <2>1. g = 0
    BY <1>5, <1>17
  <2>2. len # 0
    BY <1>0, <1>10, <2>1
  <2>3. k2.pc = "check" /\ k2.length # 0 /\ k2.rcvd.state = "open" /\ Dead(st)
    BY <1>11, <1>13, <1>16, <1>17, <2>2
  <2>4. Conv(k2, st, s, up, rest)
    BY <2>3 DEF Conv
  <2> QED
    BY <1>15, <1>16, <2>4, Zenon
<1>18. CASE got # <<>>
  <2>1. k2.pc = "file" /\ k2.rcvd.of = n /\ k2.rcvd.state = "open" /\ k2.rcvd.data = data
    BY <1>11, <1>13, <1>16, <1>18
  <2>2. Len(data) <= FileLen[n] /\ k2.length = FileLen[n] - Len(data)
    BY <1>7, <1>8, <1>9, <1>10, <1>16
  <2>3. data \o rest = k.rcvd.data \o down
    <3>1. PICK a \in Texts : a = k.rcvd.data
      BY <1>0, Zenon
    <3>2. (a \o got) \o rest = a \o (got \o rest)
      BY TextsAssoc, Zenon
    <3> QED
      BY <1>4, <3>1, <3>2, Zenon
  <2>4. Answering(n, TheResponse(n) \o (data \o rest), st, s, up)
    BY <1>2, <2>3, Zenon DEF InFile
  <2>5. InFile(k2, n, st, s, up, rest)
    BY <1>3, <2>1, <2>2, <2>4, Zenon DEF InFile
  <2>6. Conv(k2, st, s, up, rest)
    BY <2>1, <2>5 DEF Conv
  <2> QED
    BY <1>15, <1>16, <2>6, Zenon
<1> QED
  BY <1>17, <1>18, Zenon

\* The file is closed.
Kept(k, c) == [k EXCEPT !.pc = IF Whole(k) /\ c \notin OneFile THEN "prompt" ELSE "leave",
                        !.rcvd.state = IF Whole(k) THEN "whole" ELSE "short", !.length = 0]

LEMMA ConvFileDone ==
  ASSUME NEW k \in ClientState, NEW st, NEW s \in ServerState, NEW up, NEW down \in Texts, NEW c,
         k.pc = "check" \/ (k.pc = "file" /\ k.length = 0), Conv(k, st, s, up, down)
  PROVE  Kept(k, c) \in ClientState /\ Conv(Kept(k, c), st, s, up, down)
<1>0. k.rcvd.data \in Texts /\ k.length \in Int /\ k.rcvd \in Received
  BY DEF ClientState, Received
<1>1. PICK how : how = (IF Whole(k) THEN "whole" ELSE "short") /\ how \in {"whole", "short"}
  OBVIOUS
<1>2. PICK pc : /\ pc = (IF Whole(k) /\ c \notin OneFile THEN "prompt" ELSE "leave")
                /\ pc \in {"prompt", "leave"}
  OBVIOUS
<1>3. PICK r : r = [k.rcvd EXCEPT !.state = how]
  OBVIOUS
<1>4. r \in Received /\ r.of = k.rcvd.of /\ r.data = k.rcvd.data /\ r.state = how
  BY <1>0, <1>1, <1>3 DEF Received
<1>5. PICK k2 : k2 = [k EXCEPT !.pc = pc, !.rcvd = r, !.length = 0]
  OBVIOUS
<1>6. Kept(k, c) = k2
  <2>1. Kept(k, c) = [k EXCEPT !.pc = pc, !.rcvd = [@ EXCEPT !.state = how], !.length = 0]
    BY <1>1, <1>2 DEF Kept, ClientState
  <2> QED
    BY <1>3, <1>5, <2>1 DEF ClientState
<1>7. k2 \in ClientState /\ k2.pc = pc /\ k2.rcvd = r
  <2>1. 0 \in Int
    OBVIOUS
  <2> QED
    BY <1>2, <1>4, <1>5, <2>1 DEF ClientState
<1>8. CASE k.pc = "check"
  <2>1. k.length # 0 /\ Dead(st)
    BY <1>8, Zenon DEF Conv
  <2>2. pc = "leave" /\ how = "short"
    BY <1>1, <1>2, <2>1 DEF Whole
  <2>3. Conv(k2, st, s, up, down)
    BY <1>4, <1>7, <2>1, <2>2 DEF Conv
  <2> QED
    BY <1>6, <1>7, <2>3, Zenon
<1>9. CASE k.pc = "file" /\ k.length = 0
  <2>0. PICK n : n = k.rcvd.of
    OBVIOUS
  <2>1. InFile(k, n, st, s, up, down)
    BY <1>9, <2>0, Zenon DEF Conv
  <2>2. n \in Names
    BY <2>1, Zenon DEF InFile
  <2>3. Len(k.rcvd.data) = Len(FileBytes(n))
    <3>1. PICK l \in Nat : l = FileLen[n] /\ l = Len(FileBytes(n))
      BY <2>1, <2>2, FileIs, Zenon DEF InFile
    <3>2. PICK m \in Nat : m = Len(k.rcvd.data)
      BY <1>0 DEF Texts
    <3> QED
      BY <1>9, <2>1, <3>1, <3>2 DEF InFile
  <2>4. Answering(n, TheResponse(n) \o (k.rcvd.data \o down), st, s, up)
    BY <2>1, Zenon DEF InFile
  <2>5. k.rcvd.data = FileBytes(n) /\ down = <<>> /\ up = <<>> /\ AtRest(st, s)
    BY <1>0, <2>2, <2>3, <2>4, AnswerHeard
  <2>6. how = "whole"
    BY <1>1, <1>9 DEF Whole
  <2>7. Conv(k2, st, s, up, down)
    BY <1>2, <1>4, <1>7, <2>0, <2>2, <2>5, <2>6 DEF Conv
  <2> QED
    BY <1>6, <1>7, <2>7, Zenon
<1> QED
  BY <1>8, <1>9, Zenon
-----------------------------------------------------------------------------
(* The conversation goes on: the server                                    *)

LEMMA ConvAccept ==
  ASSUME NEW k, NEW s, NEW up, NEW down, Conv(k, "waiting", s, up, down),
         NEW s2, s2.pc = "line", s2.line = <<>>
  PROVE  Conv(k, "served", s2, up, down)
<1>1. AtRest("served", s2) /\ AtLine("served", s2) /\ SoFar("served", s2) = <<>>
  BY DEF AtRest, AtLine, SoFar
<1>2. SoFar("waiting", s) = <<>>
  BY DEF SoFar
<1>3. ASSUME NEW n, InResponse(k, n, "waiting", s, up, down)
      PROVE  InResponse(k, n, "served", s2, up, down)
  <2>1. ~Answering(n, k.line \o down, "waiting", s, up)
    BY DEF Answering, Dead
  <2>2. Asking(k, n, "waiting", s, up, down)
    BY <1>3, <2>1, Zenon DEF InResponse
  <2>3. /\ k.line = <<>> /\ down = <<>>
        /\ SoFar("waiting", s) \o up = Request(n)
    BY <2>2 DEF Asking, Dead
  <2>4. Asking(k, n, "served", s2, up, down)
    BY <1>1, <1>2, <2>3, Zenon DEF Asking
  <2> QED
    BY <1>3, <2>4, Zenon DEF InResponse
<1>4. ASSUME NEW n, InFile(k, n, "waiting", s, up, down)
      PROVE  FALSE
  BY <1>4 DEF InFile, Answering, Dead
<1>5. ~Dead("waiting")
  BY DEF Dead
<1> QED
  BY <1>1, <1>3, <1>4, <1>5, Zenon DEF Conv

\* Only a question is ever on its way to the server while it reads.
LEMMA OnlyQuestions ==
  ASSUME NEW k \in ClientState, NEW s, NEW up, NEW down, k.pc # "connect",
         Conv(k, "served", s, up, down), s.pc \in {"line", "process"},
         up # <<>> \/ s.line # <<>>
  PROVE  /\ k.pc = "response" /\ InResponse(k, k.rcvd.of, "served", s, up, down)
         /\ Asking(k, k.rcvd.of, "served", s, up, down) /\ k.rcvd.of \in Names
<1>0. k.pc \in {"connect", "prompt", "response", "file", "check", "leave", "closing", "end"}
  BY DEF ClientState
<1>1. ~Dead("served")
  BY DEF Dead
<1>2. AtRest("served", s) => s.pc = "line" /\ s.line = <<>>
  BY <1>1 DEF AtRest, AtLine, SoFar
<1>3. ASSUME NEW n, NEW t, Answering(n, t, "served", s, up)
      PROVE  s.pc = "line" /\ s.line = <<>> /\ up = <<>>
  BY <1>1, <1>3 DEF Answering
<1>4. k.pc # "prompt" /\ k.pc \notin {"leave", "closing", "end"}
  BY <1>1, <1>2 DEF Conv
<1>5. k.pc # "file"
  BY <1>3, Zenon DEF Conv, InFile
<1>6. k.pc # "check"
  BY <1>1, Zenon DEF Conv
<1>7. k.pc = "response"
  BY <1>0, <1>4, <1>5, <1>6
<1>8. InResponse(k, k.rcvd.of, "served", s, up, down)
  BY <1>7, Zenon DEF Conv
<1>9. Asking(k, k.rcvd.of, "served", s, up, down) /\ k.rcvd.of \in Names
  BY <1>3, <1>8, Zenon DEF InResponse
<1> QED
  BY <1>7, <1>8, <1>9, Zenon

\* The client asks, and nothing else is going on.
LEMMA AskingConv ==
  ASSUME NEW k, NEW st, NEW s, NEW up, NEW down, NEW st2, NEW s2, NEW up2, NEW down2,
         Conv(k, st, s, up, down), k.pc = "response",
         InResponse(k, k.rcvd.of, st2, s2, up2, down2)
  PROVE  Conv(k, st2, s2, up2, down2)
<1>1. k.rcvd.state = "whole" => k.rcvd.of \in Names /\ k.rcvd.data = FileBytes(k.rcvd.of)
  BY Zenon DEF Conv
<1> QED
  BY <1>1 DEF Conv

\* One more character of a question, or the end of the stream.
Taken(s, got) ==
  LET line == Line(s.line, got)
  IN  IF LineRead(s.line, got)
      THEN [s EXCEPT !.pc = IF line = <<>> THEN "close" ELSE "process", !.line = line]
      ELSE [s EXCEPT !.line = @ \o got]

LEMMA ConvReadRequest ==
  ASSUME NEW k \in ClientState, NEW s \in ServerState, NEW up \in Texts, NEW down,
         s.pc = "line", k.pc # "connect", Conv(k, "served", s, up, down),
         NEW got \in Texts, NEW rest \in Texts, Len(got) <= 1, got \o rest = up,
         got = <<>> => k.pc \in {"closing", "end"}
  PROVE  /\ Taken(s, got) \in ServerState
         /\ Taken(s, got).pc \in {"line", "process"} =>
              Conv(k, "served", Taken(s, got), rest, down)
         /\ Taken(s, got).pc \notin {"line", "process"} =>
              /\ Taken(s, got).pc = "close"
              /\ Conv(k, "ended", Taken(s, got), rest, down)
<1>0. s.line \in Texts /\ <<>> \in Texts
  BY DEF ServerState, Texts
<1>1. ~Dead("served") /\ Dead("ended")
  BY DEF Dead
<1>2. ASSUME got = <<>>
      PROVE  /\ Taken(s, got) \in ServerState /\ Taken(s, got).pc = "close"
             /\ Conv(k, "ended", Taken(s, got), rest, down)
  <2>1. k.pc \in {"closing", "end"}
    BY <1>2
  <2>2. AtRest("served", s)
    BY <1>1, <2>1 DEF Conv
  <2>3. s.line = <<>>
    BY <1>1, <2>2 DEF AtRest, AtLine, SoFar
  <2>4. PICK s2 : s2 = [s EXCEPT !.pc = "close", !.line = <<>>]
    OBVIOUS
  <2>5. Taken(s, got) = s2
    BY <1>2, <2>3, <2>4 DEF Taken, Line, LineRead
  <2>6. s2 \in ServerState /\ s2.pc = "close"
    BY <1>0, <2>4 DEF ServerState
  <2>7. k.rcvd.state = "whole" => k.rcvd.of \in Names /\ k.rcvd.data = FileBytes(k.rcvd.of)
    BY Zenon DEF Conv
  <2>8. Conv(k, "ended", s2, rest, down)
    BY <1>1, <2>1, <2>7 DEF Conv
  <2> QED
    BY <2>5, <2>6, <2>8, Zenon
<1>3. ASSUME got # <<>>
      PROVE  /\ Taken(s, got) \in ServerState /\ Taken(s, got).pc \in {"line", "process"}
             /\ Conv(k, "served", Taken(s, got), rest, down)
  <2>1. PICK x \in Char : got = <<x>> /\ got[1] = x
    BY <1>3, OneRead, Zenon
  <2>2. up # <<>>
    BY <1>3, JoinNothing, Zenon
  <2>3. PICK n \in Names : n = k.rcvd.of
    BY <2>2, OnlyQuestions
  <2>4. /\ k.pc = "response" /\ InResponse(k, n, "served", s, up, down)
        /\ Asking(k, n, "served", s, up, down)
    BY <2>2, <2>3, OnlyQuestions
  <2>5. k.line = <<>> /\ down = <<>> /\ s.line \o up = Request(n)
    BY <1>1, <2>4 DEF Asking, SoFar
  <2>6. PICK more \in Texts : more = s.line \o got
    BY <1>0, TextsJoin, Zenon
  <2>7. more \o rest = Request(n)
    <3>1. PICK l \in Texts : l = s.line
      BY <1>0, Zenon
    <3>2. (l \o got) \o rest = l \o (got \o rest)
      BY TextsAssoc, Zenon
    <3> QED
      BY <2>5, <2>6, <3>1, <3>2, Zenon
  <2>8. ASSUME NEW s2, Asking(k, n, "served", s2, rest, down)
        PROVE  Conv(k, "served", s2, rest, down)
    <3>1. InResponse(k, n, "served", s2, rest, down)
      BY <2>4, <2>8, Zenon DEF InResponse
    <3> QED
      BY <2>3, <2>4, <3>1, AskingConv, Zenon
  <2>9. ASSUME ~Completes(s.line, x)
        PROVE  /\ Taken(s, got) \in ServerState /\ Taken(s, got).pc \in {"line", "process"}
               /\ Conv(k, "served", Taken(s, got), rest, down)
    <3>1. PICK s2 : s2 = [s EXCEPT !.line = more]
      OBVIOUS
    <3>2. Taken(s, got) = s2
      BY <1>3, <2>1, <2>6, <2>9, <3>1 DEF Taken, LineRead
    <3>3. s2 \in ServerState /\ s2.pc = "line" /\ s2.line = more
      BY <3>1 DEF ServerState
    <3>4. AtLine("served", s2) /\ SoFar("served", s2) = more
      BY <3>3 DEF AtLine, SoFar
    <3>5. Asking(k, n, "served", s2, rest, down)
      BY <2>5, <2>7, <3>4, Zenon DEF Asking
    <3>6. s2.pc \in {"line", "process"}
      BY <3>3
    <3>7. Conv(k, "served", s2, rest, down)
      BY <2>8, <3>5, Zenon
    <3> QED
      BY <3>2, <3>3, <3>6, <3>7
  <2>10. ASSUME Completes(s.line, x)
         PROVE  /\ Taken(s, got) \in ServerState /\ Taken(s, got).pc \in {"line", "process"}
                /\ Conv(k, "served", Taken(s, got), rest, down)
    <3>1. rest = <<>> /\ Front(s.line) = <<Ch("name", n, 0)>>
      BY <1>0, <2>1, <2>6, <2>7, <2>10, RequestCompletes, Zenon
    <3>2. PICK y \in Char : y = Ch("name", n, 0)
      BY Characters
    <3>3. PICK s2 : s2 = [s EXCEPT !.pc = "process", !.line = <<y>>]
      OBVIOUS
    <3>4. Taken(s, got) = s2
      <4>1. Line(s.line, got) = <<y>> /\ LineRead(s.line, got)
        BY <1>3, <2>1, <2>10, <3>1, <3>2, Zenon DEF Line, LineRead
      <4>2. <<y>> # <<>>
        OBVIOUS
      <4> QED
        BY <3>3, <4>1, <4>2 DEF Taken
    <3>5. s2 \in ServerState /\ s2.pc = "process" /\ s2.line = <<y>>
      <4>1. <<y>> \in Texts
        BY DEF Texts
      <4> QED
        BY <3>3, <4>1 DEF ServerState
    <3>6. Asking(k, n, "served", s2, rest, down)
      BY <2>5, <3>1, <3>2, <3>5, Zenon DEF Asking
    <3>7. s2.pc \in {"line", "process"}
      BY <3>5
    <3>8. Conv(k, "served", s2, rest, down)
      BY <2>8, <3>6, Zenon
    <3> QED
      BY <3>4, <3>5, <3>7, <3>8
  <2> QED
    BY <2>9, <2>10, Zenon
<1> QED
  BY <1>2, <1>3

\* The name in a line that is a name.
LEMMA NameIn ==
  ASSUME NEW n \in Names, NEW line, line = <<Ch("name", n, 0)>>
  PROVE  line \in Texts /\ Len(line) = 1 /\ line[1].of = n
<1>1. PICK x \in Char : x = Ch("name", n, 0) /\ x.of = n
  BY Characters
<1>2. line = <<x>>
  BY <1>1, Zenon
<1>3. <<x>> \in Texts /\ Len(<<x>>) = 1 /\ <<x>>[1] = x
  BY OneCharacter, Zenon
<1> QED
  BY <1>1, <1>2, <1>3, Zenon

\* The response to a question was written.
Responded(s, opened) == IF opened = "yes" THEN [s EXCEPT !.pc = "send", !.pos = 0]
                        ELSE [s EXCEPT !.pc = "line", !.line = <<>>]

LEMMA ConvRespond ==
  ASSUME NEW k \in ClientState, NEW s \in ServerState, NEW up, NEW down,
         s.pc = "process", k.pc # "connect", s.line # <<>>, Conv(k, "served", s, up, down),
         NEW n, n = s.line[1].of, NEW opened,
         opened = (IF FileLen[n] # -1 THEN "yes" ELSE "no")
  PROVE  /\ n \in Names /\ Len(s.line) = 1 /\ Responded(s, opened) \in ServerState
         /\ Responded(s, opened).pc \in {"send", "line"}
         /\ Conv(k, "served", Responded(s, opened), up, down \o TheResponse(n))
<1>0. <<>> \in Texts /\ Len(<<>>) = 0
  BY DEF Texts
<1>1. /\ k.pc = "response" /\ InResponse(k, k.rcvd.of, "served", s, up, down)
      /\ Asking(k, k.rcvd.of, "served", s, up, down) /\ k.rcvd.of \in Names
  BY OnlyQuestions
<1>2. /\ k.line = <<>> /\ down = <<>> /\ up = <<>>
      /\ s.line = <<Ch("name", k.rcvd.of, 0)>>
  BY <1>1 DEF Asking, AtLine, Dead
<1>3. s.line[1].of = k.rcvd.of /\ Len(s.line) = 1
  BY <1>1, <1>2, NameIn, Zenon
<1>4. n = k.rcvd.of /\ n \in Names
  BY <1>1, <1>3
<1>5. PICK R \in Texts : R = TheResponse(n)
  BY <1>4, AnswerType, Zenon
<1>6. down \o R = R /\ k.line \o (down \o R) = R
  BY <1>2, <1>5, TextsEmpty, Zenon
<1>7. ASSUME NEW s2, Answering(n, R, "served", s2, up)
      PROVE  Conv(k, "served", s2, up, down \o R)
  <2>1. InResponse(k, n, "served", s2, up, down \o R)
    BY <1>1, <1>4, <1>6, <1>7, Zenon DEF InResponse
  <2> QED
    BY <1>1, <1>4, <2>1, AskingConv, Zenon
<1>8. ASSUME FileLen[n] # -1
      PROVE  /\ Responded(s, opened) \in ServerState /\ Responded(s, opened).pc = "send"
             /\ Conv(k, "served", Responded(s, opened), up, down \o R)
  <2>1. PICK s2 : s2 = [s EXCEPT !.pc = "send", !.pos = 0]
    OBVIOUS
  <2>2. Responded(s, opened) = s2
    BY <1>8, <2>1 DEF Responded
  <2>3. s2 \in ServerState /\ s2.pc = "send" /\ s2.line = s.line /\ s2.pos = 0
    BY <2>1 DEF ServerState
  <2>4. 0 <= FileLen[n] /\ 0 \in Nat
    BY <1>4, <1>8, Lengths
  <2>5. SubSeq(FileBytes(n), 1, s2.pos) = <<>>
    <3>1. PICK P \in Texts : P = SubSeq(FileBytes(n), 1, 0)
      BY <1>4, <1>8, <2>4, FilePart, Zenon
    <3>2. Len(P) = 0
      BY <1>4, <1>8, <2>4, <3>1, FilePart, Zenon
    <3>3. P = <<>>
      BY <3>2, NoCharacters, Zenon
    <3> QED
      BY <2>3, <3>1, <3>3, Zenon
  <2>6. R = TheResponse(n) \o SubSeq(FileBytes(n), 1, s2.pos)
    BY <1>5, <2>5, TextsEmpty, Zenon
  <2>7. s2.pos <= FileLen[n] /\ s2.line = <<Ch("name", n, 0)>>
    BY <1>2, <1>4, <2>3, <2>4
  <2>8. Answering(n, R, "served", s2, up)
    BY <1>2, <1>8, <2>3, <2>6, <2>7, Zenon DEF Answering
  <2>9. Conv(k, "served", s2, up, down \o R)
    BY <1>7, <2>8, Zenon
  <2> QED
    BY <2>2, <2>3, <2>9, Zenon
<1>9. ASSUME FileLen[n] = -1
      PROVE  /\ Responded(s, opened) \in ServerState /\ Responded(s, opened).pc = "line"
             /\ Conv(k, "served", Responded(s, opened), up, down \o R)
  <2>1. PICK s2 : s2 = [s EXCEPT !.pc = "line", !.line = <<>>]
    OBVIOUS
  <2>2. Responded(s, opened) = s2
    BY <1>9, <2>1 DEF Responded
  <2>3. s2 \in ServerState /\ s2.pc = "line" /\ s2.line = <<>>
    BY <1>0, <2>1 DEF ServerState
  <2>4. R = Answer(n)
    <3>1. FileBytes(n) = <<>>
      BY <1>4, <1>9, FileIs, Zenon
    <3> QED
      BY <1>5, <3>1, TextsEmpty, Zenon DEF Answer
  <2>5. Answering(n, R, "served", s2, up)
    BY <1>2, <2>3, <2>4, Zenon DEF Answering
  <2>6. Conv(k, "served", s2, up, down \o R)
    BY <1>7, <2>5, Zenon
  <2> QED
    BY <2>2, <2>3, <2>6, Zenon
<1> QED
  BY <1>3, <1>4, <1>5, <1>8, <1>9

\* While the server sends, the client reads the answer or has all of it.
LEMMA OnlyAnswers ==
  ASSUME NEW k \in ClientState, NEW s, NEW up, NEW down, k.pc # "connect",
         Conv(k, "served", s, up, down), s.pc = "send", s.pos # FileLen[s.line[1].of]
  PROVE  /\ k.rcvd.of \in Names
         /\ \/ k.pc = "response" /\ InResponse(k, k.rcvd.of, "served", s, up, down)
               /\ Answering(k.rcvd.of, k.line \o down, "served", s, up)
            \/ k.pc = "file" /\ InFile(k, k.rcvd.of, "served", s, up, down)
<1>0. k.pc \in {"connect", "prompt", "response", "file", "check", "leave", "closing", "end"}
  BY DEF ClientState
<1>1. ~Dead("served")
  BY DEF Dead
<1>2. ~AtLine("served", s)
  BY DEF AtLine
<1>3. ~AtRest("served", s)
  BY <1>1, <1>2, Zenon DEF AtRest
<1>4. k.pc # "prompt" /\ k.pc \notin {"leave", "closing", "end"}
  BY <1>1, <1>3 DEF Conv
<1>5. k.pc # "check"
  BY <1>1, Zenon DEF Conv
<1>6. CASE k.pc = "response"
  <2>1. InResponse(k, k.rcvd.of, "served", s, up, down)
    BY <1>6, Zenon DEF Conv
  <2>2. ~Asking(k, k.rcvd.of, "served", s, up, down)
    BY <1>1, <1>2 DEF Asking
  <2> QED
    BY <1>6, <2>1, <2>2, Zenon DEF InResponse
<1>7. CASE k.pc = "file"
  <2>1. InFile(k, k.rcvd.of, "served", s, up, down)
    BY <1>7, Zenon DEF Conv
  <2> QED
    BY <1>7, <2>1, Zenon DEF InFile
<1> QED
  BY <1>0, <1>4, <1>5, <1>6, <1>7

\* More of the answer was written.
LEMMA ConvAnswer ==
  ASSUME NEW k \in ClientState, NEW s, NEW up, NEW down \in Texts, NEW s2, NEW d \in Texts,
         k.pc # "connect", Conv(k, "served", s, up, down),
         s.pc = "send", s.pos # FileLen[s.line[1].of],
         \A t \in Texts : Answering(k.rcvd.of, t, "served", s, up)
                            => Answering(k.rcvd.of, t \o d, "served", s2, up)
  PROVE  Conv(k, "served", s2, up, down \o d)
<1>0. PICK n \in Names : n = k.rcvd.of
  BY OnlyAnswers
<1>1. k.line \in Texts /\ k.rcvd.data \in Texts /\ TheResponse(n) \in Texts
  BY AnswerType DEF ClientState, Received
<1>2. k.rcvd.state = "whole" => k.rcvd.of \in Names /\ k.rcvd.data = FileBytes(k.rcvd.of)
  BY Zenon DEF Conv
<1>3. ASSUME k.pc = "response", InResponse(k, n, "served", s, up, down),
             Answering(n, k.line \o down, "served", s, up)
      PROVE  Conv(k, "served", s2, up, down \o d)
  <2>1. PICK l \in Texts : l = k.line
    BY <1>1, Zenon
  <2>2. (l \o down) \o d = l \o (down \o d)
    BY TextsAssoc, Zenon
  <2>3. l \o down \in Texts
    BY TextsJoin, Zenon
  <2>4. Answering(n, (l \o down) \o d, "served", s2, up)
    BY <1>0, <1>3, <2>1, <2>3, Zenon
  <2>5. InResponse(k, n, "served", s2, up, down \o d)
    BY <1>3, <2>1, <2>2, <2>4, Zenon DEF InResponse
  <2> QED
    BY <1>0, <1>3, <2>5, AskingConv, Zenon
<1>4. ASSUME k.pc = "file", InFile(k, n, "served", s, up, down)
      PROVE  Conv(k, "served", s2, up, down \o d)
  <2>1. PICK R \in Texts : R = TheResponse(n)
    BY <1>1, Zenon
  <2>2. PICK a \in Texts : a = k.rcvd.data
    BY <1>1, Zenon
  <2>3. PICK b \in Texts : b = a \o down
    BY TextsJoin, Zenon
  <2>4. (R \o b) \o d = R \o (b \o d)
    BY TextsAssoc, Zenon
  <2>5. b \o d = a \o (down \o d)
    <3>1. (a \o down) \o d = a \o (down \o d)
      BY TextsAssoc, Zenon
    <3> QED
      BY <2>3, <3>1, Zenon
  <2>6. R \o b \in Texts
    BY TextsJoin, Zenon
  <2>7. Answering(n, R \o b, "served", s, up)
    BY <1>4, <2>1, <2>2, <2>3, Zenon DEF InFile
  <2>8. Answering(n, (R \o b) \o d, "served", s2, up)
    BY <1>0, <2>6, <2>7, Zenon
  <2>9. Answering(n, R \o (a \o (down \o d)), "served", s2, up)
    BY <2>4, <2>5, <2>8, Zenon
  <2>10. InFile(k, n, "served", s2, up, down \o d)
    BY <1>4, <2>1, <2>2, <2>9, Zenon DEF InFile
  <2> QED
    BY <1>0, <1>2, <1>4, <2>10 DEF Conv
<1>5. \/ k.pc = "response" /\ InResponse(k, n, "served", s, up, down)
         /\ Answering(n, k.line \o down, "served", s, up)
      \/ k.pc = "file" /\ InFile(k, n, "served", s, up, down)
  BY <1>0, OnlyAnswers
<1> QED
  BY <1>3, <1>4, <1>5, Zenon

\* The server sends the file the client has asked for.
LEMMA SendsWhatWasAsked ==
  ASSUME NEW k \in ClientState, NEW s \in ServerState, NEW up, NEW down, k.pc # "connect",
         Conv(k, "served", s, up, down), s.pc = "send", s.pos # FileLen[s.line[1].of]
  PROVE  /\ k.rcvd.of \in Names /\ s.line[1].of = k.rcvd.of
         /\ s.line = <<Ch("name", k.rcvd.of, 0)>> /\ FileLen[k.rcvd.of] # -1
         /\ s.pos <= FileLen[k.rcvd.of] /\ up = <<>>
<1>1. PICK n \in Names : n = k.rcvd.of
  BY OnlyAnswers
<1>2. \E t : Answering(n, t, "served", s, up)
  BY <1>1, OnlyAnswers, Zenon DEF InFile
<1>3. ~Dead("served")
  BY DEF Dead
<1>4. /\ s.line = <<Ch("name", n, 0)>> /\ FileLen[n] # -1 /\ s.pos <= FileLen[n] /\ up = <<>>
  BY <1>2, <1>3 DEF Answering
<1>5. s.line[1].of = n
  BY <1>4, NameIn, Zenon
<1> QED
  BY <1>1, <1>4, <1>5, Zenon

\* More of the file was written.
Named(s) == s.line[1].of
Sent(s) == [s EXCEPT !.pos = @ + Len(Block(Named(s), s.pos))]

LEMMA ConvSend ==
  ASSUME NEW k \in ClientState, NEW s \in ServerState, NEW up, NEW down \in Texts,
         s.pc = "send", k.pc # "connect", Conv(k, "served", s, up, down),
         s.pos < FileLen[Named(s)], s.pos # FileLen[Named(s)]
  PROVE  /\ Sent(s) \in ServerState /\ Sent(s).pc = "send" /\ Block(Named(s), s.pos) \in Texts
         /\ Conv(k, "served", Sent(s), up, down \o Block(Named(s), s.pos))
<1>a. PICK n : n = Named(s)
  OBVIOUS
<1>b. PICK s2 : s2 = Sent(s)
  OBVIOUS
<1>c. n = s.line[1].of /\ s.pos < FileLen[n] /\ s.pos # FileLen[n]
  BY <1>a DEF Named
<1>d. s2 = [s EXCEPT !.pos = @ + Len(Block(n, s.pos))]
  BY <1>a, <1>b DEF Sent
<1>0. PICK p \in Nat : p = s.pos
  BY DEF ServerState
<1>1. /\ n \in Names /\ n = k.rcvd.of /\ s.line = <<Ch("name", n, 0)>> /\ FileLen[n] # -1 /\ up = <<>>
  BY <1>c, SendsWhatWasAsked
<1>2. PICK l \in Nat : l = FileLen[n] /\ p < l
  BY <1>c, <1>0, <1>1, Lengths
<1>3. PICK F \in Texts : F = FileBytes(n)
  BY <1>1, FileIs, Zenon
<1>4. Len(F) = l
  BY <1>1, <1>2, <1>3, FileIs, Zenon
<1>5. PICK m \in Nat : m = (IF p + ReadSize < l THEN p + ReadSize ELSE l) /\ p <= m /\ m <= l
  BY <1>2, BufferSizes
<1>6. Block(n, s.pos) = SubSeq(F, p + 1, m)
  BY <1>0, <1>2, <1>3, <1>5, Zenon DEF Block
<1>7. PICK B \in Texts : B = Block(n, s.pos) /\ Len(B) = m - p
  <2>1. p \in 0..Len(F) /\ m \in 0..Len(F)
    BY <1>4, <1>5, <1>2
  <2> QED
    BY <1>5, <1>6, <2>1, NextPart, Zenon
<1>8. SubSeq(F, 1, m) = SubSeq(F, 1, p) \o B
  <2>1. p \in 0..Len(F) /\ m \in 0..Len(F)
    BY <1>4, <1>5, <1>2
  <2>2. p <= m
    BY <1>5
  <2>3. SubSeq(F, 1, m) = SubSeq(F, 1, p) \o SubSeq(F, p + 1, m)
    BY <2>1, <2>2, NextPart, Zenon
  <2> QED
    BY <1>6, <1>7, <2>3, Zenon
<1>9. s2 \in ServerState /\ s2.pc = "send" /\ s2.line = s.line /\ s2.pos = m
  <2>1. PICK b \in Int : b = Len(B)
    BY <1>7
  <2>2. s2 = [s EXCEPT !.pos = p + b]
    BY <1>0, <1>7, <1>d, <2>1 DEF ServerState
  <2>3. p + b = m
    BY <1>7, <2>1
  <2>4. s2 = [s EXCEPT !.pos = m]
    BY <2>2, <2>3, Zenon
  <2> QED
    BY <1>5, <2>4 DEF ServerState
<1>10. ASSUME NEW t \in Texts, Answering(n, t, "served", s, up)
       PROVE  Answering(n, t \o B, "served", s2, up)
  <2>1. ~Dead("served")
    BY DEF Dead
  <2>2. t = TheResponse(n) \o SubSeq(F, 1, p)
    BY <1>0, <1>3, <1>10, <2>1 DEF Answering
  <2>3. t \o B = TheResponse(n) \o SubSeq(F, 1, m)
    <3>1. PICK R \in Texts : R = TheResponse(n)
      BY <1>1, AnswerType, Zenon
    <3>2. PICK P \in Texts : P = SubSeq(F, 1, p)
      <4>1. p <= FileLen[n]
        BY <1>2
      <4> QED
        BY <1>1, <1>3, <4>1, FilePart, Zenon
    <3>3. (R \o P) \o B = R \o (P \o B)
      BY TextsAssoc, Zenon
    <3> QED
      BY <1>8, <2>2, <3>1, <3>2, <3>3, Zenon
  <2>4. s2.pos <= FileLen[n]
    BY <1>2, <1>5, <1>9
  <2> QED
    BY <1>1, <1>3, <1>9, <2>3, <2>4, Zenon DEF Answering
<1>11. Conv(k, "served", s2, up, down \o B)
  BY <1>1, <1>c, <1>10, ConvAnswer, Zenon
<1> QED
  BY <1>a, <1>b, <1>7, <1>9, <1>11, Zenon

\* The file was sent to its end.
Finished(s) == [s EXCEPT !.pc = "line", !.line = <<>>, !.pos = 0]

LEMMA ConvFileSent ==
  ASSUME NEW k \in ClientState, NEW s \in ServerState, NEW up, NEW down \in Texts,
         s.pc = "send", k.pc # "connect", Conv(k, "served", s, up, down),
         s.pos >= FileLen[Named(s)]
  PROVE  /\ Finished(s) \in ServerState /\ Finished(s).pc = "line"
         /\ Conv(k, "served", Finished(s), up, down)
<1>a. PICK n : n = s.line[1].of /\ s.pos >= FileLen[n]
  BY DEF Named
<1>b. PICK s2 : s2 = Finished(s)
  OBVIOUS
<1>0. <<>> \in Texts
  BY HoldsNothing, Zenon
<1>1. s2 \in ServerState /\ s2.pc = "line" /\ s2.line = <<>>
  BY <1>0, <1>b DEF ServerState, Finished
<1>2. ~Dead("served") /\ AtRest("served", s2) /\ AtLine("served", s2) /\ SoFar("served", s2) = <<>>
  BY <1>1 DEF Dead, AtRest, AtLine, SoFar
<1>3. SoFar("served", s) = <<>>
  BY DEF SoFar
<1>4. ASSUME NEW a \in Names, NEW t, Answering(a, t, "served", s, up)
      PROVE  Answering(a, t, "served", s2, up)
  <2>1. /\ s.line = <<Ch("name", a, 0)>> /\ FileLen[a] # -1 /\ s.pos <= FileLen[a] /\ up = <<>>
        /\ t = TheResponse(a) \o SubSeq(FileBytes(a), 1, s.pos)
    BY <1>2, <1>4 DEF Answering
  <2>2. a = n
    BY <1>a, <2>1, NameIn, Zenon
  <2>3. PICK p \in Nat : p = s.pos
    BY DEF ServerState
  <2>4. PICK l \in Nat : l = FileLen[a]
    BY <2>1, Lengths
  <2>5. p = l
    BY <1>a, <2>1, <2>2, <2>3, <2>4
  <2>6. p <= FileLen[a]
    BY <2>1, <2>3
  <2>7. SubSeq(FileBytes(a), 1, p) = FileBytes(a)
    BY <2>1, <2>4, <2>5, <2>6, FilePart, Zenon
  <2>8. t = Answer(a)
    BY <2>1, <2>3, <2>7, Zenon DEF Answer
  <2> QED
    BY <1>1, <2>1, <2>8, Zenon DEF Answering
<1>5. ASSUME NEW a, InResponse(k, a, "served", s, up, down)
      PROVE  InResponse(k, a, "served", s2, up, down)
  <2>1. a \in Names
    BY <1>5, Zenon DEF InResponse
  <2>2. ASSUME Asking(k, a, "served", s, up, down)
        PROVE  Asking(k, a, "served", s2, up, down)
    <3>1. /\ k.line = <<>> /\ down = <<>> /\ SoFar("served", s) \o up = Request(a)
      BY <1>2, <2>2 DEF Asking
    <3> QED
      BY <1>2, <1>3, <3>1, Zenon DEF Asking
  <2> QED
    BY <1>4, <1>5, <2>1, <2>2, Zenon DEF InResponse
<1>6. ASSUME NEW a, InFile(k, a, "served", s, up, down)
      PROVE  InFile(k, a, "served", s2, up, down)
  <2>1. a \in Names
    BY <1>6, Zenon DEF InFile
  <2> QED
    BY <1>4, <1>6, <2>1, Zenon DEF InFile
<1>7. Conv(k, "served", s2, up, down)
  BY <1>2, <1>5, <1>6, Zenon DEF Conv
<1> QED
  BY <1>b, <1>1, <1>7, Zenon
-----------------------------------------------------------------------------
(* The inductive invariant                                                 *)

Typed == /\ QueuesTyped
         /\ client \in [Clients -> ClientState] /\ server \in ServerState
         /\ pending \in Seq(Clients)

\* A connection is accepted once, and served until it is closed.
Queueing ==
  /\ server.pc = "accept" <=> server.sd = <<>>
  /\ \A i, j \in DOMAIN pending : pending[i] = pending[j] => i = j
  /\ \A c \in Clients : Waits(c) \/ client[c].pc = "connect" => server.sd # <<c>>
  /\ \A c \in Clients : Waits(c) => client[c].pc # "connect"
  /\ server.pc = "process" => server.line # <<>>

Conversation(c) ==
  Conv(client[c], Standing(c), server, Unread(ServerEnd(c)), Unread(ClientEnd(c)))

Inv == Typed /\ Queueing /\ Links /\ \A c \in Clients : Conversation(c)

\* What a thread, or a dequeue that only begins, leaves as it is.
LEMMA SpeakersStay ==
  ASSUME Queueing, UNCHANGED <<client, server, pending>>
  PROVE  /\ Queueing' /\ ClosedStays
         /\ \A c \in Clients : Standing(c)' = Standing(c)
<1>1. \A c \in Clients : Standing(c)' = Standing(c)
  BY DEF Standing, Waits
<1>2. ClosedStays
  BY <1>1, TheEnds DEF ClosedStays, AppClosed
<1>3. Queueing'
  BY DEF Queueing, Waits
<1> QED
  BY <1>1, <1>2, <1>3

\* A connected client goes on.
LEMMA ClientGoesOn ==
  ASSUME Typed, Queueing, NEW c \in Clients, NEW k2 \in ClientState,
         client' = [client EXCEPT ![c] = k2], UNCHANGED <<server, pending>>,
         client[c].pc # "connect", k2.pc # "connect"
  PROVE  /\ Queueing'
         /\ client' \in [Clients -> ClientState] /\ client'[c] = k2
         /\ \A d \in Clients : d # c => client'[d] = client[d]
         /\ \A d \in Clients : Standing(d)' = Standing(d)
<1>1. client \in [Clients -> ClientState]
  BY DEF Typed
<1>2. /\ client' \in [Clients -> ClientState] /\ client'[c] = k2
      /\ \A d \in Clients : d # c => client'[d] = client[d]
  BY <1>1
<1>3. \A d \in Clients : client'[d].pc = "connect" <=> client[d].pc = "connect"
  BY <1>2
<1>4. \A d \in Clients : Standing(d)' = Standing(d)
  BY <1>3 DEF Standing, Waits
<1>5. Queueing'
  BY <1>3 DEF Queueing, Waits
<1> QED
  BY <1>2, <1>4, <1>5

\* Its myclose(), when it was called, stays called.
LEMMA ClientStaysClosed ==
  ASSUME Typed, NEW c \in Clients, NEW k2,
         client' = [client EXCEPT ![c] = k2], UNCHANGED <<server, pending>>,
         client[c].pc # "connect", k2.pc # "connect",
         client[c].pc \in {"closing", "end"} => k2.pc \in {"closing", "end"}
  PROVE  ClosedStays
<1>1. client \in [Clients -> ClientState]
  BY DEF Typed
<1>2. client'[c] = k2 /\ \A d \in Clients : d # c => client'[d] = client[d]
  BY <1>1
<1>3. \A d \in Clients : client'[d].pc = "connect" <=> client[d].pc = "connect"
  BY <1>2
<1>4. \A d \in Clients : Standing(d)' = Standing(d)
  BY <1>3 DEF Standing, Waits
<1>5. \A d \in Clients : client[d].pc \in {"closing", "end"} => client'[d].pc \in {"closing", "end"}
  BY <1>2
<1> QED
  BY <1>4, <1>5, TheEnds DEF ClosedStays, AppClosed

\* Only the client the server serves depends on what the server does.
LEMMA ConvElsewhere ==
  ASSUME NEW k, NEW st, NEW s, NEW up, NEW down, Conv(k, st, s, up, down), st # "served", NEW s2
  PROVE  Conv(k, st, s2, up, down)
<1>1. /\ AtLine(st, s2) <=> AtLine(st, s)
      /\ SoFar(st, s2) = SoFar(st, s)
      /\ AtRest(st, s2) <=> AtRest(st, s)
  BY DEF AtLine, SoFar, AtRest
<1>2. \A n : Asking(k, n, st, s, up, down) => Asking(k, n, st, s2, up, down)
  BY <1>1 DEF Asking
<1>3. \A n, t : Answering(n, t, st, s, up) => Answering(n, t, st, s2, up)
  BY DEF Answering
<1>4. \A n : InResponse(k, n, st, s, up, down) => InResponse(k, n, st, s2, up, down)
  BY <1>2, <1>3, Zenon DEF InResponse
<1>5. \A n : InFile(k, n, st, s, up, down) => InFile(k, n, st, s2, up, down)
  BY <1>3, Zenon DEF InFile
<1> QED
  BY <1>1, <1>4, <1>5, Zenon DEF Conv

\* Where the server is while it is with c's connection.
Phase(s) == IF s.pc = "closing" THEN "closed" ELSE IF s.pc = "close" THEN "ended" ELSE "served"

LEMMA ServingOne ==
  ASSUME Queueing, NEW c \in Clients, server.sd = <<c>>
  PROVE  /\ client[c].pc # "connect" /\ ~Waits(c) /\ Standing(c) = Phase(server)
         /\ \A d \in Clients : d # c => /\ server.sd # <<d>>
                                        /\ Standing(d) \in {"none", "waiting", "closed"}
<1>1. client[c].pc # "connect" /\ ~Waits(c)
  BY DEF Queueing
<1>2. Standing(c) = Phase(server)
  BY <1>1 DEF Standing, Phase
<1>3. ASSUME NEW d \in Clients, d # c
      PROVE  server.sd # <<d>> /\ Standing(d) \in {"none", "waiting", "closed"}
  <2>1. <<c>>[1] = c /\ <<d>>[1] = d
    OBVIOUS
  <2>2. server.sd # <<d>>
    BY <1>3, <2>1
  <2> QED
    BY <2>2 DEF Standing
<1> QED
  BY <1>1, <1>2, <1>3

\* The server goes on with the connection it serves.
LEMMA ServerGoesOn ==
  ASSUME Queueing, NEW c \in Clients, server.sd = <<c>>,
         NEW s2 \in ServerState, server' = s2, UNCHANGED <<client, pending>>,
         s2.sd = <<c>>, s2.pc # "accept", s2.pc = "process" => s2.line # <<>>,
         server.pc = "closing" => s2.pc = "closing"
  PROVE  /\ Queueing' /\ ClosedStays /\ Standing(c)' = Phase(s2)
         /\ \A d \in Clients : d # c => Standing(d)' = Standing(d)
<1>1. Queueing'
  <2>1. <<c>> # <<>>
    OBVIOUS
  <2> QED
    BY <2>1 DEF Queueing, Waits
<1>2. /\ client[c].pc # "connect" /\ ~Waits(c) /\ Standing(c) = Phase(server)
      /\ \A d \in Clients : d # c => server.sd # <<d>>
  BY ServingOne, Zenon
<1>3. Standing(c)' = Phase(s2)
  BY <1>2 DEF Standing, Phase, Waits
<1>4. \A d \in Clients : d # c => Standing(d)' = Standing(d)
  BY <1>2 DEF Standing, Waits
<1>5. \A d \in Clients : Standing(d) = "closed" => Standing(d)' = "closed"
  BY <1>2, <1>3, <1>4 DEF Phase
<1>6. ClosedStays
  BY <1>5, TheEnds DEF ClosedStays, AppClosed
<1> QED
  BY <1>1, <1>3, <1>4, <1>6

\* Nothing happens to the conversation of a client the server has nothing to do with.
LEMMA ConversationStays ==
  ASSUME NEW c \in Clients, Conversation(c), client'[c] = client[c], Standing(c)' = Standing(c),
         server' = server \/ Standing(c) # "served",
         Unread(ServerEnd(c))' = Unread(ServerEnd(c)),
         Unread(ClientEnd(c))' = Unread(ClientEnd(c))
  PROVE  Conversation(c)'
<1>1. PICK k : k = client[c]
  OBVIOUS
<1>2. PICK st : st = Standing(c)
  OBVIOUS
<1>3. PICK up : up = Unread(ServerEnd(c))
  OBVIOUS
<1>4. PICK down : down = Unread(ClientEnd(c))
  OBVIOUS
<1>5. Conv(k, st, server, up, down)
  BY <1>1, <1>2, <1>3, <1>4, Zenon DEF Conversation
<1>6. Conv(k, st, server', up, down)
  <2>1. CASE server' = server
    BY <1>5, <2>1, Zenon
  <2>2. CASE st # "served"
    BY <1>5, <2>2, ConvElsewhere, Zenon
  <2> QED
    BY <1>2, <2>1, <2>2, Zenon
<1> QED
  BY <1>1, <1>2, <1>3, <1>4, <1>6, Zenon DEF Conversation

\* A step of one connection.
LEMMA OthersStay ==
  ASSUME NEW c \in Clients, \A d \in Clients : Conversation(d),
         \A d \in Clients : d # c => /\ client'[d] = client[d] /\ Standing(d)' = Standing(d)
                                     /\ server' = server \/ Standing(d) # "served",
         \A e \in Ends : e[1] # c => Unread(e)' = Unread(e),
         Conversation(c)'
  PROVE  \A d \in Clients : Conversation(d)'
<1>1. ASSUME NEW d \in Clients, d # c
      PROVE  Conversation(d)'
  <2>1. ServerEnd(d) \in Ends /\ ClientEnd(d) \in Ends /\ ServerEnd(d)[1] = d /\ ClientEnd(d)[1] = d
    BY TheEnds, Zenon
  <2>2. Unread(ServerEnd(d))' = Unread(ServerEnd(d)) /\ Unread(ClientEnd(d))' = Unread(ClientEnd(d))
    BY <1>1, <2>1
  <2> QED
    BY <1>1, <2>2, ConversationStays, Zenon
<1> QED
  BY <1>1, Zenon
-----------------------------------------------------------------------------
(* The steps of the transport threads                                      *)

LEMMA AllStay ==
  ASSUME \A c \in Clients : Conversation(c), UNCHANGED <<client, server>>,
         \A c \in Clients : Standing(c)' = Standing(c),
         \A e \in Ends : Unread(e)' = Unread(e)
  PROVE  \A c \in Clients : Conversation(c)'
<1> SUFFICES ASSUME NEW c \in Clients
             PROVE  Conversation(c)'
  OBVIOUS
<1>1. Unread(ServerEnd(c))' = Unread(ServerEnd(c)) /\ Unread(ClientEnd(c))' = Unread(ClientEnd(c))
  BY TheEnds
<1> QED
  BY <1>1, ConversationStays

\* A dequeue begins: nobody sees it.
LEMMA DequeueBegins ==
  ASSUME Inv, UNCHANGED <<thread, pipe, client, server, pending, wrote, read>>,
         NEW e \in Ends, NEW max \in Nat,
         sock' = [sock EXCEPT ![e].partThread = max] \/ sock' = [sock EXCEPT ![e].partApp = max]
  PROVE  Inv'
<1>1. Typed /\ Queueing /\ Links /\ QueuesTyped
  BY DEF Inv, Typed
<1>2. Queueing' /\ ClosedStays /\ \A c \in Clients : Standing(c)' = Standing(c)
  BY <1>1, SpeakersStay
<1>3. sock \in [Ends -> Sock]
  BY <1>1 DEF QueuesTyped
<1>4. /\ sock' \in [Ends -> Sock]
      /\ \A d \in Ends : /\ sock'[d].app_recv_queue = sock[d].app_recv_queue
                         /\ sock'[d].app_send_queue = sock[d].app_send_queue
                         /\ sock'[d].close_requested = sock[d].close_requested
                         /\ sock'[d].eof = sock[d].eof
  <2>1. CASE sock' = [sock EXCEPT ![e].partThread = max]
    BY <1>3, <2>1 DEF Sock
  <2>2. CASE sock' = [sock EXCEPT ![e].partApp = max]
    BY <1>3, <2>2 DEF Sock
  <2> QED
    BY <2>1, <2>2
<1>5. QueuesTyped' /\ Links' /\ \A d \in Ends : Unread(d)' = Unread(d)
  BY <1>1, <1>2, <1>4, QueuesStay
<1>6. \A c \in Clients : Conversation(c)'
  BY <1>2, <1>5, AllStay DEF Inv
<1> QED
  BY <1>1, <1>2, <1>5, <1>6 DEF Inv, Typed

\* A FIN cuts off what is behind it.
LEMMA CutOff ==
  ASSUME Inv, NEW e \in Ends, UNCHANGED <<client, server, pending>>,
         AppClosed(Other(e)), Unread(e)' \in Texts, Starts(Unread(e)', Unread(e)),
         \A c \in Clients : Standing(c)' = Standing(c),
         \A d \in Ends : d # e => Unread(d)' = Unread(d)
  PROVE  \A c \in Clients : Conversation(c)'
<1>1. PICK c \in Clients : c = e[1]
  BY TheEnds
<1>2. PICK k \in ClientState : k = client[c]
  BY DEF Inv, Typed
<1>3. PICK s \in ServerState : s = server
  BY DEF Inv, Typed
<1>4. PICK st : st = Standing(c)
  OBVIOUS
<1>5. QueuesTyped /\ ServerEnd(c) \in Ends /\ ClientEnd(c) \in Ends /\ ServerEnd(c) # ClientEnd(c)
  <2>1. ServerEnd(c)[2] # ClientEnd(c)[2]
    BY TheEnds
  <2> QED
    BY <2>1, TheEnds DEF Inv, Typed
<1>6. PICK up \in Texts : up = Unread(ServerEnd(c))
  BY <1>5, UnreadType
<1>7. PICK down \in Texts : down = Unread(ClientEnd(c))
  BY <1>5, UnreadType
<1>8. Conv(k, st, s, up, down)
  BY <1>2, <1>3, <1>4, <1>6, <1>7, Zenon DEF Inv, Conversation
<1>9. Conversation(c)'
  <2>1. CASE e = ClientEnd(c)
    <3>1. PICK down2 \in Texts : down2 = Unread(e)'
      OBVIOUS
    <3>2. Dead(st)
      <4>1. Other(e) = ServerEnd(c)
        BY <2>1, TheEnds
      <4>2. Standing(c) = "closed"
        BY <4>1, TheEnds DEF AppClosed
      <4> QED
        BY <1>4, <4>2 DEF Dead
    <3>3. Starts(down2, down)
      BY <1>7, <2>1, <3>1, Zenon
    <3>4. Conv(k, st, s, up, down2)
      <4>1. down2 \in Texts /\ (up = <<>> => up = <<>>)
        BY <3>1
      <4> QED
        BY <1>8, <3>2, <3>3, <4>1, ConvDead
    <3>5. Unread(ServerEnd(c))' = up /\ Unread(ClientEnd(c))' = down2
      BY <1>5, <1>6, <2>1, <3>1
    <3> QED
      BY <1>2, <1>3, <1>4, <3>4, <3>5, Zenon DEF Conversation
  <2>2. CASE e = ServerEnd(c)
    <3>1. PICK up2 \in Texts : up2 = Unread(e)'
      OBVIOUS
    <3>2. up = <<>> => up2 = <<>>
      BY <1>6, <2>2, <3>1, StartsNothing, Zenon
    <3>3. k.pc \in {"closing", "end"}
      <4>1. Other(e) = ClientEnd(c)
        BY <2>2, TheEnds
      <4> QED
        BY <1>2, <4>1, TheEnds DEF AppClosed
    <3>4. Conv(k, st, s, up2, down)
      <4>1. CASE Dead(st)
        BY <1>8, <3>2, <4>1, StartsItself, ConvDead, Zenon
      <4>2. CASE ~Dead(st)
        <5>1. up = <<>>
          BY <1>8, <3>3, <4>2 DEF Conv
        <5> QED
          BY <1>8, <3>2, <5>1, Zenon
      <4> QED
        BY <4>1, <4>2
    <3>5. Unread(ServerEnd(c))' = up2 /\ Unread(ClientEnd(c))' = down
      BY <1>5, <1>7, <2>2, <3>1
    <3> QED
      BY <1>2, <1>3, <1>4, <3>4, <3>5, Zenon DEF Conversation
  <2> QED
    BY <1>1, <2>1, <2>2, TheTwoEnds
<1>10. \A d \in Ends : d[1] # c => Unread(d)' = Unread(d)
  BY <1>1
<1>11. \A d \in Clients : Conversation(d)
  BY DEF Inv
<1> QED
  BY <1>9, <1>10, <1>11, OthersStay

LEMMA ThreadStep ==
  ASSUME Inv, NEW e \in Ends, Thread(e)
  PROVE  Inv'
<1>1. Typed /\ Queueing /\ Links /\ QueuesTyped
  BY DEF Inv, Typed
<1>2. UNCHANGED <<client, server, pending>>
  BY DEF Thread, BeginTake, Take, TakeClose, PassUp, TakeFin, ThreadEnds
<1>3. Queueing' /\ ClosedStays /\ \A c \in Clients : Standing(c)' = Standing(c)
  BY <1>1, <1>2, SpeakersStay
<1>4. CASE BeginTake(e)
  BY <1>4, BufferSizes, DequeueBegins DEF BeginTake
<1>5. ASSUME QueuesTyped', Links', \A d \in Ends : Unread(d)' = Unread(d)
      PROVE  Inv'
  <2>1. \A c \in Clients : Conversation(c)'
    BY <1>2, <1>3, <1>5, AllStay DEF Inv
  <2> QED
    BY <1>1, <1>2, <1>3, <1>5, <2>1 DEF Inv, Typed
<1>6. CASE Take(e)
  BY <1>1, <1>3, <1>5, <1>6, QueuesTake
<1>7. CASE TakeClose(e)
  BY <1>1, <1>3, <1>5, <1>7, QueuesTakeClose
<1>8. CASE PassUp(e)
  BY <1>1, <1>3, <1>5, <1>8, QueuesPassUp
<1>9. CASE ThreadEnds(e)
  BY <1>1, <1>3, <1>5, <1>9, QueuesThreadEnds
<1>10. CASE TakeFin(e)
  <2>1. /\ QueuesTyped' /\ Links' /\ AppClosed(Other(e))
        /\ Unread(e)' \in Texts /\ Starts(Unread(e)', Unread(e))
        /\ \A d \in Ends : d # e => Unread(d)' = Unread(d)
    BY <1>1, <1>3, <1>10, QueuesTakeFin
  <2>2. \A c \in Clients : Conversation(c)'
    BY <1>2, <1>3, <2>1, CutOff
  <2> QED
    BY <1>1, <1>2, <1>3, <2>1, <2>2 DEF Inv, Typed
<1> QED
  BY <1>4, <1>6, <1>7, <1>8, <1>9, <1>10 DEF Thread
-----------------------------------------------------------------------------
(* The steps of a client                                                   *)

LEMMA OtherEnds ==
  ASSUME NEW c \in Clients, NEW e \in Ends, e[1] # c
  PROVE  e # ClientEnd(c) /\ e # ServerEnd(c)
BY DEF ClientEnd, ServerEnd

\* A connected client has done a step, and its conversation goes on.
LEMMA ClientSays ==
  ASSUME Inv, NEW c \in Clients, NEW k2 \in ClientState,
         client' = [client EXCEPT ![c] = k2], UNCHANGED <<server, pending>>,
         client[c].pc # "connect", k2.pc # "connect",
         QueuesTyped', Links', \A e \in Ends : e[1] # c => Unread(e)' = Unread(e),
         Conv(k2, Standing(c), server, Unread(ServerEnd(c))', Unread(ClientEnd(c))')
  PROVE  Inv'
<1>1. Typed /\ Queueing
  BY DEF Inv
<1>2. /\ Queueing' /\ client' \in [Clients -> ClientState] /\ client'[c] = k2
      /\ \A d \in Clients : d # c => client'[d] = client[d]
      /\ \A d \in Clients : Standing(d)' = Standing(d)
  BY <1>1, ClientGoesOn
<1>3. Conversation(c)'
  BY <1>2, Zenon DEF Conversation
<1>4. \A d \in Clients : Conversation(d)'
  <2>1. \A d \in Clients : Conversation(d)
    BY DEF Inv
  <2> QED
    BY <1>2, <1>3, <2>1, OthersStay
<1> QED
  BY <1>1, <1>2, <1>4 DEF Inv, Typed

\* What is known about a client before its step.
LEMMA Before ==
  ASSUME Inv, NEW c \in Clients
  PROVE  /\ Typed /\ QueuesTyped /\ Queueing /\ Links
         /\ client \in [Clients -> ClientState] /\ client[c] \in ClientState /\ server \in ServerState
         /\ ClientEnd(c) \in Ends /\ ServerEnd(c) \in Ends /\ ClientEnd(c) # ServerEnd(c)
         /\ Other(ClientEnd(c)) = ServerEnd(c) /\ Other(ServerEnd(c)) = ClientEnd(c)
         /\ ClientEnd(c)[1] = c /\ ServerEnd(c)[1] = c
         /\ Unread(ClientEnd(c)) \in Texts /\ Unread(ServerEnd(c)) \in Texts
         /\ Conv(client[c], Standing(c), server, Unread(ServerEnd(c)), Unread(ClientEnd(c)))
<1>1. Typed /\ QueuesTyped /\ Queueing /\ Links
  BY DEF Inv, Typed
<1>2. client \in [Clients -> ClientState] /\ client[c] \in ClientState /\ server \in ServerState
  BY <1>1 DEF Typed
<1>3. /\ ClientEnd(c) \in Ends /\ ServerEnd(c) \in Ends
      /\ ClientEnd(c)[1] = c /\ ServerEnd(c)[1] = c
      /\ Other(ClientEnd(c)) = ServerEnd(c) /\ Other(ServerEnd(c)) = ClientEnd(c)
      /\ ClientEnd(c)[2] # ServerEnd(c)[2]
  BY TheEnds
<1>4. Unread(ClientEnd(c)) \in Texts /\ Unread(ServerEnd(c)) \in Texts
  BY <1>1, <1>3, UnreadType, Zenon
<1>5. Conv(client[c], Standing(c), server, Unread(ServerEnd(c)), Unread(ClientEnd(c)))
  BY Zenon DEF Inv, Conversation
<1> QED
  BY <1>1, <1>2, <1>3, <1>4, <1>5

LEMMA ConnectStep ==
  ASSUME Inv, NEW c \in Clients, Connect(c)
  PROVE  Inv'
<1>1. /\ Typed /\ QueuesTyped /\ Queueing /\ Links
      /\ client \in [Clients -> ClientState] /\ client[c] \in ClientState
      /\ Conv(client[c], Standing(c), server, Unread(ServerEnd(c)), Unread(ClientEnd(c)))
  BY Before
<1>2. PICK k2 : k2 = [client[c] EXCEPT !.pc = "prompt"]
  OBVIOUS
<1>3. client[c].pc = "connect" /\ pending' = Append(pending, c) /\ pending \in Seq(Clients)
  BY <1>1 DEF Connect, Typed
<1>4. client' = [client EXCEPT ![c] = k2]
  BY <1>1, <1>2 DEF Connect
<1>5. Standing(c) = "none"
  BY <1>3 DEF Standing
<1>6. k2 \in ClientState /\ Conv(k2, "waiting", server, Unread(ServerEnd(c)), Unread(ClientEnd(c)))
  BY <1>1, <1>2, <1>3, <1>5, ConvConnect
<1>7. k2.pc = "prompt"
  BY <1>1, <1>2 DEF ClientState
<1>8. /\ client' \in [Clients -> ClientState] /\ client'[c] = k2
      /\ \A d \in Clients : d # c => client'[d] = client[d]
  BY <1>1, <1>4, <1>6
<1>9. PICK n \in Nat : n = Len(pending) /\ DOMAIN pending = 1..n
  BY <1>3
<1>10. /\ pending' \in Seq(Clients) /\ DOMAIN pending' = 1..(n + 1) /\ pending'[n + 1] = c
       /\ \A i \in 1..n : pending'[i] = pending[i]
  BY <1>3, <1>9
<1>11. Waits(c)' /\ \A d \in Clients : d # c => (Waits(d)' <=> Waits(d))
  <2>1. Waits(c)'
    BY <1>9, <1>10 DEF Waits
  <2>2. ASSUME NEW d \in Clients, d # c
        PROVE  Waits(d)' <=> Waits(d)
    <3>1. Waits(d) => Waits(d)'
      BY <1>9, <1>10 DEF Waits
    <3>2. \A i \in 1..(n + 1) : i \in 1..n \/ i = n + 1
      OBVIOUS
    <3>3. Waits(d)' => Waits(d)
      BY <1>9, <1>10, <2>2, <3>2 DEF Waits
    <3> QED
      BY <3>1, <3>3
  <2> QED
    BY <2>1, <2>2
<1>12. UNCHANGED <<sock, thread, pipe, server, wrote, read>>
  BY DEF Connect
<1>13. Standing(c)' = "waiting" /\ \A d \in Clients : d # c => Standing(d)' = Standing(d)
  BY <1>7, <1>8, <1>11, <1>12 DEF Standing
<1>14. ~Waits(c)
  BY <1>1, <1>3 DEF Queueing
<1>15. Queueing'
  <2>1. server.sd # <<c>>
    BY <1>1, <1>3 DEF Queueing
  <2>2. (server.pc = "accept" <=> server.sd = <<>>)' /\ (server.pc = "process" => server.line # <<>>)'
    BY <1>1, <1>12 DEF Queueing
  <2>3. \A i \in 1..n : pending[i] # c
    BY <1>9, <1>14 DEF Waits
  <2>4. \A i, j \in DOMAIN pending' : pending'[i] = pending'[j] => i = j
    <3>1. \A i \in 1..(n + 1) : i \in 1..n \/ i = n + 1
      OBVIOUS
    <3>2. \A i, j \in 1..n : pending[i] = pending[j] => i = j
      BY <1>1, <1>9 DEF Queueing
    <3> QED
      BY <1>10, <2>3, <3>1, <3>2
  <2>5. \A d \in Clients : (Waits(d) \/ client[d].pc = "connect" => server.sd # <<d>>)'
    BY <1>1, <1>8, <1>11, <1>12, <2>1 DEF Queueing
  <2>6. \A d \in Clients : (Waits(d) => client[d].pc # "connect")'
    BY <1>1, <1>7, <1>8, <1>11 DEF Queueing
  <2> QED
    BY <2>2, <2>4, <2>5, <2>6 DEF Queueing
<1>16. ClosedStays
  <2>1. \A d \in Clients : Standing(d) = "closed" => Standing(d)' = "closed"
    BY <1>5, <1>13
  <2>2. \A d \in Clients : client[d].pc \in {"closing", "end"} => client'[d].pc \in {"closing", "end"}
    BY <1>3, <1>8
  <2> QED
    BY <2>1, <2>2, TheEnds DEF ClosedStays, AppClosed
<1>17. QueuesTyped' /\ Links' /\ \A e \in Ends : Unread(e)' = Unread(e)
  BY <1>1, <1>12, <1>16, QueuesStay DEF QueuesTyped
<1>18. Conversation(c)'
  <2>1. /\ Unread(ServerEnd(c))' = Unread(ServerEnd(c))
        /\ Unread(ClientEnd(c))' = Unread(ClientEnd(c))
    BY <1>17, TheEnds
  <2> QED
    BY <1>6, <1>8, <1>12, <1>13, <2>1, Zenon DEF Conversation
<1>19. \A d \in Clients : Conversation(d)'
  <2>1. \A d \in Clients : Conversation(d)
    BY DEF Inv
  <2> QED
    BY <1>8, <1>12, <1>13, <1>17, <1>18, <2>1, OthersStay
<1> QED
  BY <1>1, <1>8, <1>10, <1>12, <1>15, <1>17, <1>19 DEF Inv, Typed

LEMMA AskStep ==
  ASSUME Inv, NEW c \in Clients, Ask(c)
  PROVE  Inv'
<1>1. /\ Typed /\ QueuesTyped /\ Queueing /\ Links
      /\ client \in [Clients -> ClientState] /\ client[c] \in ClientState
      /\ ClientEnd(c) \in Ends /\ ServerEnd(c) \in Ends /\ ClientEnd(c) # ServerEnd(c)
      /\ Other(ClientEnd(c)) = ServerEnd(c) /\ ClientEnd(c)[1] = c /\ ServerEnd(c)[1] = c
      /\ Conv(client[c], Standing(c), server, Unread(ServerEnd(c)), Unread(ClientEnd(c)))
  BY Before
<1>2. PICK k2 : k2 = Asked(client[c])
  OBVIOUS
<1>3. client[c].pc = "prompt" /\ client[c].asks # <<>> /\ UNCHANGED <<server, pending>>
  BY DEF Ask
<1>4. PICK n \in Names : n = Head(client[c].asks)
  BY <1>1, <1>3, ConvAsk, Zenon
<1>5. k2 \in ClientState /\ Conv(k2, Standing(c), server, Unread(ServerEnd(c)) \o Request(n), Unread(ClientEnd(c)))
  BY <1>1, <1>2, <1>3, <1>4, ConvAsk, Zenon
<1>6. k2.pc = "response"
  BY <1>1, <1>2 DEF Asked, ClientState
<1>7. client' = [client EXCEPT ![c] = k2]
  BY <1>1, <1>2 DEF Ask, Asked, ClientState, Received
<1>8. ClosedStays
  BY <1>1, <1>3, <1>6, <1>7, ClientStaysClosed
<1>9. PICK Q \in Texts : Q = Request(n)
  BY RequestIs, Zenon
<1>10. Write(ClientEnd(c), Q) /\ UNCHANGED <<thread, pipe, read>>
  BY <1>4, <1>9, Zenon DEF Ask, Request
<1>11. ~AppClosed(ClientEnd(c))
  BY <1>3, TheEnds DEF AppClosed
<1>12. /\ QueuesTyped' /\ Links' /\ Unread(ServerEnd(c))' = Unread(ServerEnd(c)) \o Q
       /\ \A d \in Ends : d # ServerEnd(c) => Unread(d)' = Unread(d)
  BY <1>1, <1>8, <1>10, <1>11, QueuesWrite
<1>13. Conv(k2, Standing(c), server, Unread(ServerEnd(c))', Unread(ClientEnd(c))')
  BY <1>1, <1>5, <1>9, <1>12
<1>14. \A e \in Ends : e[1] # c => Unread(e)' = Unread(e)
  BY <1>12, OtherEnds
<1> QED
  BY <1>3, <1>5, <1>6, <1>7, <1>12, <1>13, <1>14, ClientSays

LEMMA LeaveStep ==
  ASSUME Inv, NEW c \in Clients, Leave(c)
  PROVE  Inv'
<1>1. /\ Typed /\ QueuesTyped /\ Queueing /\ Links
      /\ client \in [Clients -> ClientState] /\ client[c] \in ClientState
      /\ ClientEnd(c) \in Ends /\ ServerEnd(c) \in Ends /\ ClientEnd(c)[1] = c /\ ServerEnd(c)[1] = c
      /\ Conv(client[c], Standing(c), server, Unread(ServerEnd(c)), Unread(ClientEnd(c)))
  BY Before
<1>2. PICK k2 : k2 = [client[c] EXCEPT !.pc = "closing"]
  OBVIOUS
<1>3. client[c].pc \in {"prompt", "leave"} /\ UNCHANGED <<server, pending>>
  BY DEF Leave
<1>4. k2 \in ClientState /\ Conv(k2, Standing(c), server, Unread(ServerEnd(c)), Unread(ClientEnd(c)))
  BY <1>1, <1>2, <1>3, ConvLeave
<1>5. k2.pc = "closing"
  BY <1>1, <1>2 DEF ClientState
<1>6. client' = [client EXCEPT ![c] = k2]
  BY <1>1, <1>2 DEF Leave
<1>7. ClosedStays /\ client'[c] = k2
  BY <1>1, <1>3, <1>5, <1>6, ClientStaysClosed
<1>8. ~AppClosed(ClientEnd(c)) /\ AppClosed(ClientEnd(c))'
  BY <1>3, <1>5, <1>7, TheEnds DEF AppClosed
<1>9. QueuesTyped' /\ Links' /\ \A d \in Ends : Unread(d)' = Unread(d)
  BY <1>1, <1>7, <1>8, QueuesClose DEF Leave
<1>10. Conv(k2, Standing(c), server, Unread(ServerEnd(c))', Unread(ClientEnd(c))')
  BY <1>1, <1>4, <1>9
<1> QED
  BY <1>3, <1>4, <1>5, <1>6, <1>9, <1>10, ClientSays

LEMMA ClientEndsStep ==
  ASSUME Inv, NEW c \in Clients, ClientEnds(c)
  PROVE  Inv'
<1>1. /\ Typed /\ QueuesTyped /\ Queueing /\ Links
      /\ client \in [Clients -> ClientState] /\ client[c] \in ClientState
      /\ ClientEnd(c) \in Ends /\ ServerEnd(c) \in Ends /\ ClientEnd(c) # ServerEnd(c)
      /\ Other(ClientEnd(c)) = ServerEnd(c) /\ ClientEnd(c)[1] = c /\ ServerEnd(c)[1] = c
      /\ Conv(client[c], Standing(c), server, Unread(ServerEnd(c)), Unread(ClientEnd(c)))
  BY Before
<1>2. PICK k2 : k2 = [client[c] EXCEPT !.pc = "end"]
  OBVIOUS
<1>3. client[c].pc = "closing" /\ UNCHANGED <<server, pending>>
  BY DEF ClientEnds
<1>4. k2.pc = "end" /\ k2 \in ClientState
  BY <1>1, <1>2 DEF ClientState
<1>5. client' = [client EXCEPT ![c] = k2]
  BY <1>1, <1>2 DEF ClientEnds
<1>6. ClosedStays
  BY <1>1, <1>3, <1>4, <1>5, ClientStaysClosed
<1>7. /\ QueuesTyped' /\ Links' /\ AppClosed(ServerEnd(c))
      /\ \A d \in Ends : d # ClientEnd(c) => Unread(d)' = Unread(d)
  BY <1>1, <1>6, QueuesEnd DEF ClientEnds
<1>8. Dead(Standing(c))
  <2>1. Standing(c) = "closed"
    BY <1>7, TheEnds DEF AppClosed
  <2> QED
    BY <2>1 DEF Dead
<1>9. Conv(k2, Standing(c), server, Unread(ServerEnd(c)), Unread(ClientEnd(c))')
  BY <1>1, <1>2, <1>3, <1>8, ConvClientEnds
<1>10. Conv(k2, Standing(c), server, Unread(ServerEnd(c))', Unread(ClientEnd(c))')
  BY <1>1, <1>7, <1>9
<1>11. \A e \in Ends : e[1] # c => Unread(e)' = Unread(e)
  BY <1>7, OtherEnds
<1> QED
  BY <1>3, <1>4, <1>5, <1>7, <1>10, <1>11, ClientSays

\* What a client's read leaves to be read.
LEMMA ClientReads ==
  ASSUME Inv, NEW c \in Clients, NEW max \in Nat, max > 0,
         CanRead(ClientEnd(c), max), EndRead(ClientEnd(c), max), ClosedStays,
         UNCHANGED <<thread, pipe, wrote>>
  PROVE  /\ QueuesTyped' /\ Links'
         /\ Got(ClientEnd(c), max) \in Texts /\ Len(Got(ClientEnd(c), max)) <= max
         /\ Got(ClientEnd(c), max) \o Unread(ClientEnd(c))' = Unread(ClientEnd(c))
         /\ Unread(ClientEnd(c))' \in Texts
         /\ Got(ClientEnd(c), max) = <<>> => Unread(ClientEnd(c)) = <<>> /\ Dead(Standing(c))
         /\ Unread(ServerEnd(c))' = Unread(ServerEnd(c))
         /\ \A e \in Ends : e[1] # c => Unread(e)' = Unread(e)
<1>1. /\ QueuesTyped /\ Links /\ ClientEnd(c) \in Ends /\ ServerEnd(c) \in Ends
      /\ ClientEnd(c) # ServerEnd(c) /\ Other(ClientEnd(c)) = ServerEnd(c)
  BY Before
<1>2. PICK e \in Ends : e = ClientEnd(c)
  BY <1>1
<1>3. PICK got : got = Got(e, max)
  OBVIOUS
<1>4. QueuesTyped' /\ Links' /\ got \in Texts /\ Len(got) <= max
  BY <1>1, <1>2, <1>3, QueuesRead, Zenon
<1>5. got \o Unread(e)' = Unread(e)
  BY <1>1, <1>2, <1>3, QueuesRead, Zenon
<1>6. got = <<>> => Unread(e) = <<>> /\ AppClosed(ServerEnd(c))
  BY <1>1, <1>2, <1>3, QueuesRead, Zenon
<1>7. \A d \in Ends : d # e => Unread(d)' = Unread(d)
  BY <1>1, <1>2, <1>3, QueuesRead, Zenon
<1>8. Unread(e)' \in Texts
  <2>1. (QueuesTyped => Unread(e) \in Texts)'
    BY UnreadType, PTL
  <2> QED
    BY <1>4, <2>1
<1>9. AppClosed(ServerEnd(c)) => Dead(Standing(c))
  BY TheEnds DEF AppClosed, Dead
<1>10. Unread(ServerEnd(c))' = Unread(ServerEnd(c)) /\ \A d \in Ends : d[1] # c => Unread(d)' = Unread(d)
  BY <1>1, <1>2, <1>7, OtherEnds
<1> QED
  BY <1>2, <1>3, <1>4, <1>5, <1>6, <1>8, <1>9, <1>10, Zenon

LEMMA ReadResponseStep ==
  ASSUME Inv, NEW c \in Clients, ReadResponse(c)
  PROVE  Inv'
<1>1. /\ Typed /\ Queueing /\ client \in [Clients -> ClientState] /\ client[c] \in ClientState
      /\ server \in ServerState /\ Unread(ClientEnd(c)) \in Texts
      /\ Conv(client[c], Standing(c), server, Unread(ServerEnd(c)), Unread(ClientEnd(c)))
  BY Before
<1>2. PICK got : got = Got(ClientEnd(c), 1)
  OBVIOUS
<1>3. PICK k2 : k2 = HeardMore(client[c], c, got)
  OBVIOUS
<1>4. client[c].pc = "response" /\ UNCHANGED <<server, pending>>
  BY DEF ReadResponse
<1>5. client' = [client EXCEPT ![c] = k2]
  <2>1. client' = [client EXCEPT ![c] =
          IF LineRead(client[c].line, got) THEN Response(client[c], c, Line(client[c].line, got))
          ELSE [client[c] EXCEPT !.line = client[c].line \o got]]
    BY <1>1, <1>2 DEF ReadResponse
  <2>2. k2 = IF LineRead(client[c].line, got) THEN Response(client[c], c, Line(client[c].line, got))
             ELSE [client[c] EXCEPT !.line = client[c].line \o got]
    BY <1>1, <1>3 DEF HeardMore, ClientState
  <2> QED
    BY <2>1, <2>2
<1>6. k2.pc # "connect"
  BY <1>1, <1>3, <1>4 DEF HeardMore, Response, ClientState
<1>7. ClosedStays
  BY <1>1, <1>4, <1>5, <1>6, ClientStaysClosed
<1>8. PICK rest : rest = Unread(ClientEnd(c))'
  OBVIOUS
<1>9. CanRead(ClientEnd(c), 1) /\ EndRead(ClientEnd(c), 1) /\ UNCHANGED <<thread, pipe, wrote>>
  BY DEF ReadResponse
<1>10. 1 \in Nat /\ 1 > 0
  OBVIOUS
<1>11. /\ QueuesTyped' /\ Links' /\ got \in Texts /\ Len(got) <= 1 /\ rest \in Texts
       /\ got \o rest = Unread(ClientEnd(c))
       /\ got = <<>> => Dead(Standing(c)) /\ Unread(ClientEnd(c)) = <<>>
       /\ Unread(ServerEnd(c))' = Unread(ServerEnd(c))
       /\ \A e \in Ends : e[1] # c => Unread(e)' = Unread(e)
  BY <1>2, <1>7, <1>8, <1>9, <1>10, ClientReads, Zenon
<1>12. k2 \in ClientState /\ Conv(k2, Standing(c), server, Unread(ServerEnd(c)), rest)
  BY <1>1, <1>3, <1>4, <1>11, ConvReadResponse, Zenon
<1>13. Conv(k2, Standing(c), server, Unread(ServerEnd(c))', Unread(ClientEnd(c))')
  BY <1>8, <1>11, <1>12, Zenon
<1> QED
  BY <1>4, <1>5, <1>6, <1>11, <1>12, <1>13, ClientSays

LEMMA ReadFileStep ==
  ASSUME Inv, NEW c \in Clients, ReadFile(c)
  PROVE  Inv'
<1>1. /\ Typed /\ Queueing /\ client \in [Clients -> ClientState] /\ client[c] \in ClientState
      /\ server \in ServerState /\ Unread(ClientEnd(c)) \in Texts
      /\ Conv(client[c], Standing(c), server, Unread(ServerEnd(c)), Unread(ClientEnd(c)))
  BY Before
<1>2. PICK max : max = ToRead(client[c])
  OBVIOUS
<1>3. PICK got : got = Got(ClientEnd(c), max)
  OBVIOUS
<1>4. PICK k2 : k2 = MoreOfFile(client[c], got)
  OBVIOUS
<1>5. client[c].pc = "file" /\ client[c].length > 0 /\ UNCHANGED <<server, pending>>
  BY DEF ReadFile
<1>6. max \in Nat /\ max > 0 /\ max <= client[c].length /\ client[c].length \in Int
  BY <1>1, <1>2, <1>5, BufferSizes DEF ToRead, ClientState
<1>7. client' = [client EXCEPT ![c] = k2]
  BY <1>1, <1>2, <1>3, <1>4 DEF ReadFile, MoreOfFile, ClientState, Received
<1>8. k2.pc # "connect"
  BY <1>1, <1>4, <1>5 DEF MoreOfFile, ClientState
<1>9. ClosedStays
  BY <1>1, <1>5, <1>7, <1>8, ClientStaysClosed
<1>10. PICK rest : rest = Unread(ClientEnd(c))'
  OBVIOUS
<1>11. CanRead(ClientEnd(c), max) /\ EndRead(ClientEnd(c), max) /\ UNCHANGED <<thread, pipe, wrote>>
  BY <1>2, Zenon DEF ReadFile
<1>12. /\ QueuesTyped' /\ Links' /\ got \in Texts /\ Len(got) <= max /\ rest \in Texts
       /\ got \o rest = Unread(ClientEnd(c))
       /\ got = <<>> => Dead(Standing(c))
       /\ Unread(ServerEnd(c))' = Unread(ServerEnd(c))
       /\ \A e \in Ends : e[1] # c => Unread(e)' = Unread(e)
  BY <1>3, <1>6, <1>9, <1>10, <1>11, ClientReads, Zenon
<1>13. Len(got) <= client[c].length
  <2>1. PICK g \in Nat : g = Len(got)
    BY <1>12 DEF Texts
  <2> QED
    BY <1>6, <1>12, <2>1
<1>14. k2 \in ClientState /\ Conv(k2, Standing(c), server, Unread(ServerEnd(c)), rest)
  BY <1>1, <1>4, <1>5, <1>12, <1>13, ConvReadFile, Zenon
<1>15. Conv(k2, Standing(c), server, Unread(ServerEnd(c))', Unread(ClientEnd(c))')
  BY <1>10, <1>12, <1>14, Zenon
<1> QED
  BY <1>5, <1>7, <1>8, <1>12, <1>14, <1>15, ClientSays

LEMMA FileDoneStep ==
  ASSUME Inv, NEW c \in Clients, FileDone(c)
  PROVE  Inv'
<1>1. /\ Typed /\ Queueing /\ Links /\ QueuesTyped
      /\ client \in [Clients -> ClientState] /\ client[c] \in ClientState
      /\ server \in ServerState /\ Unread(ClientEnd(c)) \in Texts
      /\ Conv(client[c], Standing(c), server, Unread(ServerEnd(c)), Unread(ClientEnd(c)))
  BY Before
<1>2. PICK k2 : k2 = Kept(client[c], c)
  OBVIOUS
<1>3. /\ client[c].pc = "check" \/ (client[c].pc = "file" /\ client[c].length = 0)
      /\ UNCHANGED <<sock, thread, pipe, wrote, read, server, pending>>
  BY DEF FileDone
<1>4. client' = [client EXCEPT ![c] = k2]
  BY <1>1, <1>2 DEF FileDone, Kept, ClientState, Received
<1>5. k2 \in ClientState /\ Conv(k2, Standing(c), server, Unread(ServerEnd(c)), Unread(ClientEnd(c)))
  BY <1>1, <1>2, <1>3, ConvFileDone, Zenon
<1>6. k2.pc # "connect"
  BY <1>1, <1>2 DEF Kept, ClientState
<1>7. ClosedStays
  BY <1>1, <1>3, <1>4, <1>6, ClientStaysClosed
<1>8. QueuesTyped' /\ Links' /\ \A e \in Ends : Unread(e)' = Unread(e)
  BY <1>1, <1>3, <1>7, QueuesStay DEF QueuesTyped
<1>9. Conv(k2, Standing(c), server, Unread(ServerEnd(c))', Unread(ClientEnd(c))')
  BY <1>5, <1>8, TheEnds
<1> QED
  BY <1>3, <1>4, <1>5, <1>6, <1>8, <1>9, ClientSays

LEMMA ClientStep ==
  ASSUME Inv, NEW c \in Clients, Client(c)
  PROVE  Inv'
<1>1. CASE Connect(c)
  BY <1>1, ConnectStep
<1>2. CASE Ask(c)
  BY <1>2, AskStep
<1>3. CASE Leave(c)
  BY <1>3, LeaveStep
<1>4. CASE ClientEnds(c)
  BY <1>4, ClientEndsStep
<1>5. CASE BeginClientRead(c)
  <2>1. PICK max \in Nat : BeginRead(ClientEnd(c), max)
    <3>1. client[c] \in ClientState
      BY Before
    <3>2. CASE BeginRead(ClientEnd(c), 1)
      BY <3>2
    <3>3. CASE client[c].length > 0 /\ BeginRead(ClientEnd(c), ToRead(client[c]))
      <4>1. ToRead(client[c]) \in Nat
        BY <3>1, <3>3, BufferSizes DEF ToRead, ClientState
      <4> QED
        BY <3>3, <4>1
    <3> QED
      BY <1>5, <3>2, <3>3 DEF BeginClientRead
  <2> QED
    BY <2>1, TheEnds, DequeueBegins DEF BeginRead
<1>6. CASE ReadResponse(c)
  BY <1>6, ReadResponseStep
<1>7. CASE ReadFile(c)
  BY <1>7, ReadFileStep
<1>8. CASE FileDone(c)
  BY <1>8, FileDoneStep
<1> QED
  BY <1>1, <1>2, <1>3, <1>4, <1>5, <1>6, <1>7, <1>8 DEF Client
-----------------------------------------------------------------------------
(* The steps of the server                                                 *)

LEMMA ServerAt ==
  ASSUME Inv, server.pc # "accept"
  PROVE  \E c \in Clients : server.sd = <<c>> /\ Sd = ServerEnd(c)
<1>1. server \in ServerState /\ server.sd # <<>>
  BY DEF Inv, Typed, Queueing
<1>2. PICK c \in Clients : server.sd = <<c>>
  BY <1>1 DEF ServerState
<1>3. Sd = ServerEnd(c)
  BY <1>2 DEF Sd
<1> QED
  BY <1>2, <1>3

\* The server has done a step with the connection it serves.
LEMMA ServerSays ==
  ASSUME Inv, NEW c \in Clients, server.sd = <<c>>, server.pc # "accept",
         NEW s2 \in ServerState, server' = s2, UNCHANGED <<client, pending>>,
         s2.sd = <<c>>, s2.pc # "accept", s2.pc = "process" => s2.line # <<>>,
         server.pc = "closing" => s2.pc = "closing",
         QueuesTyped', Links', \A e \in Ends : e[1] # c => Unread(e)' = Unread(e),
         Conv(client[c], Phase(s2), s2, Unread(ServerEnd(c))', Unread(ClientEnd(c))')
  PROVE  Inv'
<1>1. Typed /\ Queueing
  BY DEF Inv
<1>2. /\ Queueing' /\ Standing(c)' = Phase(s2)
      /\ \A d \in Clients : d # c => Standing(d)' = Standing(d)
  BY <1>1, ServerGoesOn
<1>3. \A d \in Clients : d # c => Standing(d) # "served"
  BY <1>1, ServingOne
<1>4. Conversation(c)'
  BY <1>2, Zenon DEF Conversation
<1>5. \A d \in Clients : Conversation(d)'
  <2>1. \A d \in Clients : Conversation(d)
    BY DEF Inv
  <2> QED
    BY <1>2, <1>3, <1>4, <2>1, OthersStay
<1> QED
  BY <1>1, <1>2, <1>5 DEF Inv, Typed

\* What is known before a step of the server with c's connection.
LEMMA BeforeServer ==
  ASSUME Inv, NEW c \in Clients, server.sd = <<c>>
  PROVE  /\ Typed /\ QueuesTyped /\ Queueing /\ Links
         /\ client[c] \in ClientState /\ client[c].pc # "connect" /\ server \in ServerState
         /\ ClientEnd(c) \in Ends /\ ServerEnd(c) \in Ends /\ ClientEnd(c) # ServerEnd(c)
         /\ Other(ClientEnd(c)) = ServerEnd(c) /\ Other(ServerEnd(c)) = ClientEnd(c)
         /\ Unread(ClientEnd(c)) \in Texts /\ Unread(ServerEnd(c)) \in Texts
         /\ Standing(c) = Phase(server)
         /\ Conv(client[c], Phase(server), server, Unread(ServerEnd(c)), Unread(ClientEnd(c)))
<1>1. client[c].pc # "connect" /\ Standing(c) = Phase(server)
  BY ServingOne DEF Inv
<1> QED
  BY <1>1, Before

LEMMA AcceptStep ==
  ASSUME Inv, Accept
  PROVE  Inv'
<1>1. /\ Typed /\ QueuesTyped /\ Queueing /\ Links
      /\ pending \in Seq(Clients) /\ server \in ServerState
  BY DEF Inv, Typed
<1>2. PICK n \in Nat : n = Len(pending) /\ DOMAIN pending = 1..n /\ n > 0
  BY <1>1 DEF Accept
<1>3. PICK c \in Clients : c = pending[1] /\ c = Head(pending)
  BY <1>1, <1>2
<1>4. /\ pending' \in Seq(Clients) /\ DOMAIN pending' = 1..(n - 1)
      /\ \A i \in 1..(n - 1) : pending'[i] = pending[i + 1]
  BY <1>1, <1>2 DEF Accept
<1>5. PICK s2 : s2 = server'
  OBVIOUS
<1>6. s2 \in ServerState /\ s2.pc = "line" /\ s2.sd = <<c>> /\ s2.line = <<>>
  <2>1. s2 = [server EXCEPT !.pc = "line", !.sd = <<c>>, !.line = <<>>]
    BY <1>3, <1>5 DEF Accept
  <2>2. <<>> \in Texts
    BY HoldsNothing, Zenon
  <2>3. <<c>> \in {<<>>} \cup {<<d>> : d \in Clients}
    OBVIOUS
  <2> QED
    BY <1>1, <2>1, <2>2, <2>3 DEF ServerState
<1>7. server.pc = "accept" /\ server.sd = <<>> /\ UNCHANGED <<sock, thread, pipe, client, wrote, read>>
  BY <1>1 DEF Accept, Queueing
<1>8. \A i, j \in 1..n : pending[i] = pending[j] => i = j
  BY <1>1, <1>2 DEF Queueing
<1>9. Waits(c) /\ ~Waits(c)' /\ \A d \in Clients : d # c => (Waits(d)' <=> Waits(d))
  <2>1. Waits(c)
    BY <1>2, <1>3 DEF Waits
  <2>2. ~Waits(c)'
    <3> SUFFICES ASSUME NEW i \in 1..(n - 1)
                 PROVE  pending'[i] # c
      BY <1>4 DEF Waits
    <3>1. i + 1 \in 1..n /\ 1 \in 1..n /\ i + 1 # 1
      BY <1>2
    <3> QED
      BY <1>3, <1>4, <1>8, <3>1
  <2>3. ASSUME NEW d \in Clients, d # c
        PROVE  Waits(d)' <=> Waits(d)
    <3>1. ASSUME NEW i \in 1..(n - 1), pending'[i] = d
          PROVE  Waits(d)
      <4>1. i + 1 \in 1..n
        OBVIOUS
      <4> QED
        BY <1>2, <1>4, <3>1, <4>1 DEF Waits
    <3>2. ASSUME NEW i \in 1..n, pending[i] = d
          PROVE  Waits(d)'
      <4>1. i # 1
        BY <1>3, <2>3, <3>2
      <4>2. PICK j \in 1..(n - 1) : j + 1 = i
        BY <4>1
      <4> QED
        BY <1>4, <3>2, <4>2 DEF Waits
    <3> QED
      BY <1>2, <1>4, <3>1, <3>2 DEF Waits
  <2> QED
    BY <2>1, <2>2, <2>3
<1>10. client[c].pc # "connect"
  BY <1>1, <1>9 DEF Queueing
<1>11. \A d \in Clients : server.sd # <<d>>
  BY <1>7
<1>12. \A d \in Clients : d # c => s2.sd # <<d>>
  <2> SUFFICES ASSUME NEW d \in Clients, d # c
               PROVE  <<c>> # <<d>>
    BY <1>6
  <2>1. <<c>>[1] = c /\ <<d>>[1] = d
    OBVIOUS
  <2> QED
    BY <2>1
<1>13. Standing(c) = "waiting" /\ Standing(c)' = "served"
  BY <1>5, <1>6, <1>7, <1>9, <1>10 DEF Standing
<1>14. \A d \in Clients : d # c => Standing(d)' = Standing(d) /\ Standing(d) # "served"
  BY <1>5, <1>7, <1>9, <1>11, <1>12 DEF Standing
<1>15. ClosedStays
  <2>1. \A d \in Clients : Standing(d) = "closed" => Standing(d)' = "closed"
    BY <1>13, <1>14
  <2> QED
    BY <1>7, <2>1, TheEnds DEF ClosedStays, AppClosed
<1>16. Queueing'
  <2>1. (server.pc = "accept" <=> server.sd = <<>>)' /\ (server.pc = "process" => server.line # <<>>)'
    BY <1>5, <1>6
  <2>2. \A i, j \in DOMAIN pending' : pending'[i] = pending'[j] => i = j
    <3> SUFFICES ASSUME NEW i \in 1..(n - 1), NEW j \in 1..(n - 1), pending[i + 1] = pending[j + 1]
                 PROVE  i = j
      BY <1>4
    <3>1. i + 1 \in 1..n /\ j + 1 \in 1..n
      OBVIOUS
    <3>2. i + 1 = j + 1
      BY <1>8, <3>1
    <3> QED
      BY <3>2
  <2>3. \A d \in Clients : (Waits(d) \/ client[d].pc = "connect" => server.sd # <<d>>)'
    BY <1>5, <1>7, <1>9, <1>10, <1>12
  <2>4. \A d \in Clients : (Waits(d) => client[d].pc # "connect")'
    BY <1>1, <1>7, <1>9 DEF Queueing
  <2> QED
    BY <2>1, <2>2, <2>3, <2>4 DEF Queueing
<1>17. QueuesTyped' /\ Links' /\ \A e \in Ends : Unread(e)' = Unread(e)
  BY <1>1, <1>7, <1>15, QueuesStay DEF QueuesTyped
<1>18. Conversation(c)'
  <2>1. Conv(client[c], "waiting", server, Unread(ServerEnd(c)), Unread(ClientEnd(c)))
    BY <1>13, Zenon DEF Inv, Conversation
  <2>2. Conv(client[c], "served", s2, Unread(ServerEnd(c)), Unread(ClientEnd(c)))
    BY <1>6, <2>1, ConvAccept
  <2>3. /\ Unread(ServerEnd(c))' = Unread(ServerEnd(c))
        /\ Unread(ClientEnd(c))' = Unread(ClientEnd(c))
    BY <1>17, TheEnds
  <2> QED
    BY <1>5, <1>7, <1>13, <2>2, <2>3, Zenon DEF Conversation
<1>19. \A d \in Clients : Conversation(d)'
  <2>1. \A d \in Clients : Conversation(d)
    BY DEF Inv
  <2> QED
    BY <1>7, <1>14, <1>17, <1>18, <2>1, OthersStay
<1> QED
  BY <1>1, <1>4, <1>5, <1>6, <1>7, <1>16, <1>17, <1>19 DEF Inv, Typed

LEMMA ReadRequestStep ==
  ASSUME Inv, ReadRequest
  PROVE  Inv'
<1>0. PICK c \in Clients : server.sd = <<c>> /\ Sd = ServerEnd(c)
  BY ServerAt DEF ReadRequest
<1>1. /\ QueuesTyped /\ Queueing /\ Links
      /\ client[c] \in ClientState /\ client[c].pc # "connect" /\ server \in ServerState
      /\ ClientEnd(c) \in Ends /\ ServerEnd(c) \in Ends /\ ClientEnd(c) # ServerEnd(c)
      /\ Other(ServerEnd(c)) = ClientEnd(c) /\ Unread(ServerEnd(c)) \in Texts
      /\ Conv(client[c], Phase(server), server, Unread(ServerEnd(c)), Unread(ClientEnd(c)))
  BY <1>0, BeforeServer
<1>2. PICK e \in Ends : e = ServerEnd(c)
  BY <1>1
<1>3. PICK got : got = Got(e, 1)
  OBVIOUS
<1>4. PICK s2 : s2 = Taken(server, got)
  OBVIOUS
<1>5. server.pc = "line" /\ UNCHANGED <<thread, pipe, client, pending, wrote>>
  BY DEF ReadRequest
<1>6. server' = s2
  BY <1>0, <1>1, <1>2, <1>3, <1>4 DEF ReadRequest, Taken
<1>7. /\ s2.pc \in {"line", "process", "close"} /\ s2.sd = <<c>>
      /\ s2.pc = "process" => s2.line # <<>>
  BY <1>0, <1>1, <1>4, <1>5 DEF Taken, ServerState
<1>8. Phase(server) = "served"
  BY <1>5 DEF Phase
<1>9. ClosedStays
  <2>1. \A d \in Clients : Standing(d) = "closed" => Standing(d)' = "closed"
    <3>1. \A d \in Clients : Standing(d) = "closed" => server.sd # <<d>>
      BY <1>5 DEF Standing
    <3>2. server'.sd = server.sd
      BY <1>0, <1>6, <1>7
    <3> QED
      BY <1>5, <3>1, <3>2 DEF Standing, Waits
  <2> QED
    BY <1>5, <2>1, TheEnds DEF ClosedStays, AppClosed
<1>10. PICK rest : rest = Unread(e)'
  OBVIOUS
<1>11. CanRead(e, 1) /\ EndRead(e, 1) /\ UNCHANGED <<thread, pipe, wrote>>
  BY <1>0, <1>2 DEF ReadRequest
<1>12. /\ QueuesTyped' /\ Links' /\ got \in Texts /\ Len(got) <= 1
       /\ got \o rest = Unread(e)
       /\ got = <<>> => AppClosed(ClientEnd(c))
       /\ \A d \in Ends : d # e => Unread(d)' = Unread(d)
  <2>1. 1 \in Nat /\ 1 > 0
    OBVIOUS
  <2> QED
    BY <1>1, <1>2, <1>3, <1>9, <1>10, <1>11, <2>1, QueuesRead
<1>13. rest \in Texts
  <2>1. (QueuesTyped => Unread(e) \in Texts)'
    BY UnreadType, PTL
  <2> QED
    BY <1>10, <1>12, <2>1
<1>14. got = <<>> => client[c].pc \in {"closing", "end"}
  BY <1>12, TheEnds DEF AppClosed
<1>15. /\ s2 \in ServerState
       /\ s2.pc \in {"line", "process"} => Conv(client[c], "served", s2, rest, Unread(ClientEnd(c)))
       /\ s2.pc \notin {"line", "process"} => Conv(client[c], "ended", s2, rest, Unread(ClientEnd(c)))
  BY <1>1, <1>2, <1>4, <1>5, <1>8, <1>12, <1>13, <1>14, ConvReadRequest
<1>16. Conv(client[c], Phase(s2), s2, rest, Unread(ClientEnd(c)))
  <2>1. CASE s2.pc \in {"line", "process"}
    <3>1. Phase(s2) = "served"
      BY <2>1 DEF Phase
    <3> QED
      BY <1>15, <2>1, <3>1
  <2>2. CASE s2.pc \notin {"line", "process"}
    <3>1. Phase(s2) = "ended"
      BY <1>7, <2>2 DEF Phase
    <3> QED
      BY <1>15, <2>2, <3>1
  <2> QED
    BY <2>1, <2>2
<1>17. Conv(client[c], Phase(s2), s2, Unread(ServerEnd(c))', Unread(ClientEnd(c))')
  BY <1>1, <1>2, <1>10, <1>12, <1>16
<1>18. \A d \in Ends : d[1] # c => Unread(d)' = Unread(d)
  BY <1>2, <1>12, OtherEnds
<1> QED
  BY <1>0, <1>5, <1>6, <1>7, <1>12, <1>15, <1>17, <1>18, ServerSays

\* The server has written to the client it serves.
LEMMA ServerWrites ==
  ASSUME Inv, NEW c \in Clients, server.sd = <<c>>, NEW data \in Texts,
         Write(ServerEnd(c), data), UNCHANGED <<thread, pipe, client, pending, read>>,
         server.pc \in {"process", "send"},
         NEW s2 \in ServerState, server' = s2, s2.sd = <<c>>, s2.pc \in {"line", "send"},
         Conv(client[c], "served", s2, Unread(ServerEnd(c)), Unread(ClientEnd(c)) \o data)
  PROVE  Inv'
<1>1. /\ QueuesTyped /\ Queueing /\ Links /\ Standing(c) = Phase(server)
      /\ ClientEnd(c) \in Ends /\ ServerEnd(c) \in Ends /\ ClientEnd(c) # ServerEnd(c)
      /\ Other(ServerEnd(c)) = ClientEnd(c)
  BY BeforeServer
<1>2. Phase(server) = "served" /\ Phase(s2) = "served"
  BY DEF Phase
<1>3. ClosedStays
  BY <1>1, ServerGoesOn
<1>4. ~AppClosed(ServerEnd(c))
  BY <1>1, <1>2, TheEnds DEF AppClosed
<1>5. /\ QueuesTyped' /\ Links' /\ Unread(ClientEnd(c))' = Unread(ClientEnd(c)) \o data
      /\ \A d \in Ends : d # ClientEnd(c) => Unread(d)' = Unread(d)
  BY <1>1, <1>3, <1>4, QueuesWrite
<1>6. Conv(client[c], Phase(s2), s2, Unread(ServerEnd(c))', Unread(ClientEnd(c))')
  BY <1>1, <1>2, <1>5
<1>7. \A d \in Ends : d[1] # c => Unread(d)' = Unread(d)
  BY <1>5, OtherEnds
<1> QED
  BY <1>5, <1>6, <1>7, ServerSays

LEMMA RespondStep ==
  ASSUME Inv, Respond
  PROVE  Inv'
<1>0. PICK c \in Clients : server.sd = <<c>> /\ Sd = ServerEnd(c)
  BY ServerAt DEF Respond
<1>1. /\ QueuesTyped /\ Queueing /\ Links
      /\ client[c] \in ClientState /\ client[c].pc # "connect" /\ server \in ServerState
      /\ Conv(client[c], Phase(server), server, Unread(ServerEnd(c)), Unread(ClientEnd(c)))
  BY <1>0, BeforeServer
<1>2. server.pc = "process" /\ server.line # <<>> /\ UNCHANGED <<thread, pipe, client, pending, read>>
  BY <1>1 DEF Respond, Queueing
<1>3. Conv(client[c], "served", server, Unread(ServerEnd(c)), Unread(ClientEnd(c)))
  <2>1. Phase(server) = "served"
    BY <1>2 DEF Phase
  <2> QED
    BY <1>1, <2>1
<1>4. PICK n : n = server.line[1].of
  OBVIOUS
<1>5. PICK opened : opened = (IF FileLen[n] # -1 THEN "yes" ELSE "no")
  OBVIOUS
<1>6. PICK s2 : s2 = Responded(server, opened)
  OBVIOUS
<1>7. /\ n \in Names /\ Len(server.line) = 1 /\ s2 \in ServerState /\ s2.pc \in {"send", "line"}
      /\ Conv(client[c], "served", s2, Unread(ServerEnd(c)), Unread(ClientEnd(c)) \o TheResponse(n))
  BY <1>1, <1>2, <1>3, <1>4, <1>5, <1>6, ConvRespond
<1>8. Requested = n /\ (Opened <=> FileLen[n] # -1)
  BY <1>4, <1>7 DEF Requested, Opened
<1>9. server' = s2
  BY <1>1, <1>5, <1>6, <1>8 DEF Respond, Responded, ServerState
<1>10. s2.sd = <<c>>
  BY <1>0, <1>1, <1>6 DEF Responded, ServerState
<1>11. Write(ServerEnd(c), TheResponse(n)) /\ TheResponse(n) \in Texts
  <2>1. (IF Opened THEN FileLen[Requested] ELSE -1) = FileLen[n]
    BY <1>8
  <2>2. Write(Sd, ResponseLine(Requested, IF Opened THEN FileLen[Requested] ELSE -1))
    BY DEF Respond
  <2>3. Write(ServerEnd(c), ResponseLine(n, FileLen[n]))
    BY <1>0, <1>8, <2>1, <2>2
  <2> QED
    BY <1>7, <2>3, AnswerType DEF TheResponse
<1> QED
  BY <1>0, <1>2, <1>7, <1>9, <1>10, <1>11, ServerWrites

LEMMA SendBlockStep ==
  ASSUME Inv, SendBlock
  PROVE  Inv'
<1>0. PICK c \in Clients : server.sd = <<c>> /\ Sd = ServerEnd(c)
  BY ServerAt DEF SendBlock
<1>1. /\ QueuesTyped /\ Queueing /\ Links
      /\ client[c] \in ClientState /\ client[c].pc # "connect" /\ server \in ServerState
      /\ Unread(ClientEnd(c)) \in Texts
      /\ Conv(client[c], Phase(server), server, Unread(ServerEnd(c)), Unread(ClientEnd(c)))
  BY <1>0, BeforeServer
<1>2. server.pc = "send" /\ UNCHANGED <<thread, pipe, client, pending, read>>
  BY DEF SendBlock
<1>3. Conv(client[c], "served", server, Unread(ServerEnd(c)), Unread(ClientEnd(c)))
  <2>1. Phase(server) = "served"
    BY <1>2 DEF Phase
  <2> QED
    BY <1>1, <2>1
<1>4. PICK n : n = Named(server) /\ n = Requested
  BY DEF Requested, Named
<1>5. server.pos < FileLen[n] /\ server.pos \in Nat
  BY <1>1, <1>4 DEF SendBlock, ServerState
<1>6. server.pos # FileLen[n]
  <2>1. PICK f : f = FileLen[n]
    OBVIOUS
  <2>2. PICK p \in Nat : p = server.pos
    BY <1>5
  <2>3. p < f
    BY <1>5, <2>1, <2>2
  <2> QED
    BY <2>1, <2>2, <2>3
<1>7. PICK s2 : s2 = Sent(server)
  OBVIOUS
<1>8. /\ s2 \in ServerState /\ s2.pc = "send" /\ Block(n, server.pos) \in Texts
      /\ Conv(client[c], "served", s2, Unread(ServerEnd(c)),
              Unread(ClientEnd(c)) \o Block(n, server.pos))
  <2>1. server.pos < FileLen[Named(server)] /\ server.pos # FileLen[Named(server)]
    BY <1>4, <1>5, <1>6, Zenon
  <2>2. n = Named(server)
    BY <1>4
  <2> QED
    BY <1>1, <1>2, <1>3, <1>7, <2>1, <2>2, ConvSend, Zenon
<1>9. server' = s2 /\ Write(ServerEnd(c), Block(n, server.pos))
  BY <1>0, <1>1, <1>4, <1>7 DEF SendBlock, Sent, ServerState
<1>10. s2.sd = <<c>>
  BY <1>0, <1>1, <1>7 DEF Sent, ServerState
<1> QED
  BY <1>0, <1>2, <1>8, <1>9, <1>10, ServerWrites

\* A step of the server that leaves the queues alone.
LEMMA ServerAlone ==
  ASSUME Inv, NEW c \in Clients, server.sd = <<c>>, server.pc # "accept", server.pc # "closing",
         UNCHANGED <<sock, thread, pipe, client, pending, wrote, read>>,
         NEW s2 \in ServerState, server' = s2, s2.sd = <<c>>, s2.pc \in {"line", "close"},
         Conv(client[c], Phase(s2), s2, Unread(ServerEnd(c)), Unread(ClientEnd(c)))
  PROVE  Inv'
<1>1. QueuesTyped /\ Queueing /\ Links
  BY BeforeServer
<1>2. ClosedStays
  BY <1>1, ServerGoesOn
<1>3. QueuesTyped' /\ Links' /\ \A e \in Ends : Unread(e)' = Unread(e)
  BY <1>1, <1>2, QueuesStay DEF QueuesTyped
<1>4. Conv(client[c], Phase(s2), s2, Unread(ServerEnd(c))', Unread(ClientEnd(c))')
  BY <1>3, TheEnds
<1> QED
  BY <1>3, <1>4, ServerSays

LEMMA FileSentStep ==
  ASSUME Inv, FileSent
  PROVE  Inv'
<1>0. PICK c \in Clients : server.sd = <<c>> /\ Sd = ServerEnd(c)
  BY ServerAt DEF FileSent
<1>1. /\ client[c] \in ClientState /\ client[c].pc # "connect" /\ server \in ServerState
      /\ Unread(ClientEnd(c)) \in Texts
      /\ Conv(client[c], Phase(server), server, Unread(ServerEnd(c)), Unread(ClientEnd(c)))
  BY <1>0, BeforeServer
<1>2. server.pc = "send" /\ UNCHANGED <<sock, thread, pipe, client, pending, wrote, read>>
  BY DEF FileSent
<1>3. Phase(server) = "served"
  BY <1>2 DEF Phase
<1>4. PICK s2 : s2 = Finished(server)
  OBVIOUS
<1>5. server' = s2 /\ server.pos >= FileLen[Named(server)]
  BY <1>4 DEF FileSent, Requested, Finished, Named
<1>6. s2 \in ServerState /\ s2.pc = "line"
      /\ Conv(client[c], "served", s2, Unread(ServerEnd(c)), Unread(ClientEnd(c)))
  <2>1. Conv(client[c], "served", server, Unread(ServerEnd(c)), Unread(ClientEnd(c)))
    BY <1>1, <1>3
  <2> QED
    BY <1>1, <1>2, <1>4, <1>5, <2>1, ConvFileSent, Zenon
<1>7. Phase(s2) = "served" /\ s2.sd = <<c>>
  BY <1>0, <1>1, <1>4, <1>6 DEF Phase, ServerState, Finished
<1> QED
  BY <1>0, <1>2, <1>5, <1>6, <1>7, ServerAlone

LEMMA ReadFailsStep ==
  ASSUME Inv, ReadFails
  PROVE  Inv'
<1>0. PICK c \in Clients : server.sd = <<c>> /\ Sd = ServerEnd(c)
  BY ServerAt DEF ReadFails
<1>1. /\ client[c] \in ClientState /\ server \in ServerState /\ Unread(ClientEnd(c)) \in Texts
      /\ Conv(client[c], Phase(server), server, Unread(ServerEnd(c)), Unread(ClientEnd(c)))
  BY <1>0, BeforeServer
<1>2. server.pc = "send" /\ UNCHANGED <<sock, thread, pipe, client, pending, wrote, read>>
  BY DEF ReadFails
<1>3. PICK s2 : s2 = [server EXCEPT !.pc = "close", !.line = <<>>, !.pos = 0]
  OBVIOUS
<1>4. server' = s2
  BY <1>3 DEF ReadFails
<1>5. s2 \in ServerState /\ s2.pc = "close" /\ s2.sd = <<c>>
  BY <1>0, <1>1, <1>3, HoldsNothing DEF ServerState
<1>6. Phase(s2) = "ended" /\ Dead("ended")
  BY <1>5 DEF Phase, Dead
<1>7. Starts(Unread(ClientEnd(c)), Unread(ClientEnd(c)))
  BY <1>1, StartsItself
<1>8. Conv(client[c], Phase(s2), s2, Unread(ServerEnd(c)), Unread(ClientEnd(c)))
  BY <1>1, <1>6, <1>7, ConvDead
<1> QED
  BY <1>0, <1>2, <1>4, <1>5, <1>8, ServerAlone

LEMMA ServerClosesStep ==
  ASSUME Inv, ServerCloses
  PROVE  Inv'
<1>0. PICK c \in Clients : server.sd = <<c>> /\ Sd = ServerEnd(c)
  BY ServerAt DEF ServerCloses
<1>1. /\ QueuesTyped /\ Queueing /\ Links /\ Standing(c) = Phase(server)
      /\ client[c] \in ClientState /\ server \in ServerState
      /\ ServerEnd(c) \in Ends /\ Unread(ClientEnd(c)) \in Texts
      /\ Conv(client[c], Phase(server), server, Unread(ServerEnd(c)), Unread(ClientEnd(c)))
  BY <1>0, BeforeServer
<1>2. server.pc = "close" /\ UNCHANGED <<thread, pipe, client, pending, wrote, read>>
  BY DEF ServerCloses
<1>3. PICK s2 : s2 = [server EXCEPT !.pc = "closing"]
  OBVIOUS
<1>4. server' = s2
  BY <1>3 DEF ServerCloses
<1>5. s2 \in ServerState /\ s2.pc = "closing" /\ s2.sd = <<c>>
  BY <1>0, <1>1, <1>3 DEF ServerState
<1>6. Phase(s2) = "closed" /\ Phase(server) = "ended" /\ Dead("closed")
  BY <1>2, <1>5 DEF Phase, Dead
<1>7. Starts(Unread(ClientEnd(c)), Unread(ClientEnd(c)))
  BY <1>1, StartsItself
<1>8. Conv(client[c], Phase(s2), s2, Unread(ServerEnd(c)), Unread(ClientEnd(c)))
  BY <1>1, <1>6, <1>7, ConvDead
<1>9. ClosedStays /\ Standing(c)' = Phase(s2)
  BY <1>0, <1>1, <1>2, <1>4, <1>5, ServerGoesOn
<1>10. ~AppClosed(ServerEnd(c)) /\ AppClosed(ServerEnd(c))'
  BY <1>1, <1>6, <1>9, TheEnds DEF AppClosed
<1>11. Close(ServerEnd(c))
  BY <1>0 DEF ServerCloses
<1>12. QueuesTyped' /\ Links' /\ \A d \in Ends : Unread(d)' = Unread(d)
  BY <1>1, <1>2, <1>9, <1>10, <1>11, QueuesClose
<1>13. Conv(client[c], Phase(s2), s2, Unread(ServerEnd(c))', Unread(ClientEnd(c))')
  BY <1>8, <1>12, TheEnds
<1> QED
  BY <1>0, <1>2, <1>4, <1>5, <1>12, <1>13, ServerSays

LEMMA ServerClosedStep ==
  ASSUME Inv, ServerClosed
  PROVE  Inv'
<1>0. PICK c \in Clients : server.sd = <<c>> /\ Sd = ServerEnd(c)
  BY ServerAt DEF ServerClosed
<1>1. /\ Typed /\ QueuesTyped /\ Queueing /\ Links /\ Standing(c) = Phase(server)
      /\ client[c] \in ClientState /\ client[c].pc # "connect" /\ server \in ServerState
      /\ ClientEnd(c) \in Ends /\ ServerEnd(c) \in Ends /\ ClientEnd(c) # ServerEnd(c)
      /\ Unread(ClientEnd(c)) \in Texts
      /\ Conv(client[c], Phase(server), server, Unread(ServerEnd(c)), Unread(ClientEnd(c)))
  BY <1>0, BeforeServer
<1>2. server.pc = "closing" /\ UNCHANGED <<thread, pipe, client, pending, wrote, read>>
  BY DEF ServerClosed
<1>3. PICK s2 : s2 = [server EXCEPT !.pc = "accept", !.sd = <<>>]
  OBVIOUS
<1>4. server' = s2
  BY <1>3 DEF ServerClosed
<1>5. s2 \in ServerState /\ s2.pc = "accept" /\ s2.sd = <<>>
  BY <1>1, <1>3 DEF ServerState
<1>6. Standing(c) = "closed" /\ \A d \in Clients : Standing(d) # "served"
  <2>1. Standing(c) = "closed"
    BY <1>1, <1>2 DEF Phase
  <2>2. \A d \in Clients : d # c => Standing(d) \in {"none", "waiting", "closed"}
    BY <1>0, <1>1, ServingOne
  <2> QED
    BY <2>1, <2>2
<1>7. \A d \in Clients : Standing(d)' = Standing(d)
  <2>1. \A d \in Clients : s2.sd # <<d>>
    BY <1>5
  <2>2. Standing(c)' = "closed"
    <3>1. ~Waits(c)
      BY <1>0, <1>1, ServingOne
    <3> QED
      BY <1>1, <1>2, <1>4, <2>1, <3>1 DEF Standing, Waits
  <2>3. ASSUME NEW d \in Clients, d # c
        PROVE  Standing(d)' = Standing(d)
    <3>1. server.sd # <<d>>
      BY <1>0, <1>1, <2>3, ServingOne
    <3> QED
      BY <1>2, <1>4, <2>1, <3>1 DEF Standing, Waits
  <2> QED
    BY <1>6, <2>2, <2>3
<1>8. ClosedStays
  BY <1>2, <1>7, TheEnds DEF ClosedStays, AppClosed
<1>9. Queueing'
  <2>1. \A d \in Clients : s2.sd # <<d>>
    BY <1>5
  <2> QED
    BY <1>1, <1>2, <1>4, <1>5, <2>1 DEF Queueing, Waits
<1>10. PICK e \in Ends : e = ServerEnd(c)
  BY <1>1
<1>11. /\ QueuesTyped' /\ Links' /\ Unread(e)' = <<>>
       /\ \A d \in Ends : d # e => Unread(d)' = Unread(d)
  BY <1>0, <1>1, <1>2, <1>8, <1>10, QueuesEnd DEF ServerClosed
<1>12. Conversation(c)'
  <2>1. Dead("closed")
    BY DEF Dead
  <2>2. Starts(Unread(ClientEnd(c)), Unread(ClientEnd(c)))
    BY <1>1, StartsItself
  <2>3. Conv(client[c], "closed", s2, <<>>, Unread(ClientEnd(c)))
    BY <1>1, <2>1, <2>2, ConvDead
  <2>4. Unread(ClientEnd(c))' = Unread(ClientEnd(c)) /\ Unread(ServerEnd(c))' = <<>>
    BY <1>1, <1>10, <1>11
  <2> QED
    BY <1>2, <1>4, <1>6, <1>7, <2>3, <2>4, Zenon DEF Conversation
<1>13. \A d \in Ends : d[1] # c => Unread(d)' = Unread(d)
  BY <1>10, <1>11, OtherEnds
<1>14. \A d \in Clients : Conversation(d)'
  <2>1. \A d \in Clients : Conversation(d)
    BY DEF Inv
  <2> QED
    BY <1>2, <1>6, <1>7, <1>12, <1>13, <2>1, OthersStay
<1> QED
  BY <1>1, <1>2, <1>4, <1>5, <1>9, <1>11, <1>14 DEF Inv, Typed

LEMMA ServerStep ==
  ASSUME Inv, Server
  PROVE  Inv'
<1>1. CASE Accept
  BY <1>1, AcceptStep
<1>2. CASE BeginServerRead
  <2>1. PICK c \in Clients : Sd = ServerEnd(c)
    BY <1>2, ServerAt DEF BeginServerRead
  <2>2. PICK e \in Ends : e = Sd
    BY <2>1, TheEnds
  <2>3. BeginRead(e, 1) /\ 1 \in Nat
    BY <1>2, <2>2 DEF BeginServerRead
  <2> QED
    BY <2>3, DequeueBegins DEF BeginRead
<1>3. CASE ReadRequest
  BY <1>3, ReadRequestStep
<1>4. CASE Respond
  BY <1>4, RespondStep
<1>5. CASE SendBlock
  BY <1>5, SendBlockStep
<1>6. CASE FileSent
  BY <1>6, FileSentStep
<1>7. CASE ReadFails
  BY <1>7, ReadFailsStep
<1>8. CASE ServerCloses
  BY <1>8, ServerClosesStep
<1>9. CASE ServerClosed
  BY <1>9, ServerClosedStep
<1> QED
  BY <1>1, <1>2, <1>3, <1>4, <1>5, <1>6, <1>7, <1>8, <1>9 DEF Server
-----------------------------------------------------------------------------
(* The invariant of every behaviour                                        *)

Quiet == [fin |-> FALSE, finReceived |-> FALSE, done |-> FALSE]

LEMMA AtFirst ==
  ASSUME Init
  PROVE  /\ sock = [e \in Ends |-> NewSock] /\ thread = [e \in Ends |-> Quiet]
         /\ pipe = [e \in Ends |-> <<>>]
         /\ wrote = [e \in Ends |-> <<>>] /\ read = [e \in Ends |-> <<>>]
         /\ pending = <<>>
         /\ server = [pc |-> "accept", sd |-> <<>>, line |-> <<>>, pos |-> 0]
         /\ client = [c \in Clients |->
                        [pc |-> "connect", asks |-> Asks[c], line |-> <<>>, length |-> 0,
                         rcvd |-> [of |-> Unnamed, data |-> <<>>, state |-> "none"]]]
BY Zenon DEF Init, NewClient, Quiet, Unnamed

LEMMA FirstClients ==
  ASSUME Init
  PROVE  /\ client \in [Clients -> ClientState] /\ server \in ServerState
         /\ pending \in Seq(Clients)
         /\ \A c \in Clients : client[c].pc = "connect" /\ client[c].rcvd.state = "none"
         /\ \A c \in Clients : ~Waits(c) /\ Standing(c) = "none"
<1>1. <<>> \in Texts
  BY HoldsNothing, Zenon
<1>2. \A c \in Clients : Asks[c] \in Seq(Names)
  BY FileTransferAssumption DEF FileTransferAssumption
<1>3. PICK r : r = [of |-> Unnamed, data |-> <<>>, state |-> "none"]
  OBVIOUS
<1>4. r \in Received /\ r.state = "none"
  BY <1>1, <1>3 DEF Received
<1>5. client = [c \in Clients |-> [pc |-> "connect", asks |-> Asks[c], line |-> <<>>,
                                   length |-> 0, rcvd |-> r]]
  BY <1>3, AtFirst, Zenon
<1>6. \A c \in Clients : [pc |-> "connect", asks |-> Asks[c], line |-> <<>>,
                          length |-> 0, rcvd |-> r] \in ClientState
  BY <1>1, <1>2, <1>4 DEF ClientState
<1>7. client \in [Clients -> ClientState]
  BY <1>5, <1>6
<1>8. server \in ServerState
  <2>1. server = [pc |-> "accept", sd |-> <<>>, line |-> <<>>, pos |-> 0]
    BY AtFirst, Zenon
  <2> QED
    BY <1>1, <2>1 DEF ServerState
<1>9. pending = <<>>
  BY AtFirst, Zenon
<1>10. \A c \in Clients : client[c].pc = "connect" /\ client[c].rcvd.state = "none"
  BY <1>4, <1>5
<1>11. \A c \in Clients : ~Waits(c)
  BY <1>9 DEF Waits
<1>12. \A c \in Clients : Standing(c) = "none"
  BY <1>10 DEF Standing
<1>13. pending \in Seq(Clients)
  BY <1>9
<1> QED
  BY <1>7, <1>8, <1>10, <1>11, <1>12, <1>13, Zenon

LEMMA FirstQueues ==
  ASSUME Init
  PROVE  QueuesTyped /\ Links /\ \A e \in Ends : Unread(e) = <<>>
<1>1. <<>> \in Texts /\ <<>> \in Queues /\ FlattenSeq(<<>>) = <<>>
  BY HoldsNothing, Zenon
<1>2. /\ sock = [e \in Ends |-> NewSock] /\ thread = [e \in Ends |-> Quiet]
      /\ pipe = [e \in Ends |-> <<>>]
      /\ wrote = [e \in Ends |-> <<>>] /\ read = [e \in Ends |-> <<>>]
  BY AtFirst, Zenon
<1>3. NewSock \in Sock /\ Quiet \in TransportThread
  BY <1>1 DEF NewSock, Sock, Quiet, TransportThread
<1>4. QueuesTyped
  BY <1>1, <1>2, <1>3 DEF QueuesTyped
<1>5. ASSUME NEW e \in Ends
      PROVE  /\ Other(e) \in Ends
             /\ sock[e].app_send_queue = <<>> /\ sock[e].app_recv_queue = <<>>
             /\ ~sock[e].close_requested /\ ~sock[e].eof
             /\ pipe[e] = <<>> /\ wrote[e] = <<>> /\ read[e] = <<>>
             /\ ~thread[e].fin /\ ~thread[e].finReceived /\ ~thread[e].done
  BY <1>2, TheEnds DEF NewSock, Quiet
<1>6. ASSUME NEW e \in Ends
      PROVE  Unread(e) = <<>>
  <2>1. Unread(e) = Way(<<>>, <<>>, <<>>)
    BY <1>5, UnreadIsWay
  <2> QED
    BY <1>1, <2>1, WayEmpty, Zenon
<1>7. <<>> \o <<>> = <<>>
  BY <1>1, TextsEmpty, Zenon
<1>8. ASSUME NEW e \in Ends
      PROVE  Sender(e) /\ OnLine(e) /\ Receiver(e) /\ Stream(e)
  <2>1. NoEof(<<>>) /\ EofLast(<<>>) /\ OnlyEof(<<>>)
    BY EofEmpty
  <2>2. Sender(e) /\ OnLine(e) /\ Receiver(e)
    BY <1>5, <2>1 DEF Sender, OnLine, Receiver
  <2>3. Starts(<<>>, <<>>)
    BY <1>1, StartsItself, Zenon
  <2>4. wrote[Other(e)] = <<>>
    BY <1>5
  <2>5. FlattenSeq(sock[e].app_send_queue) = <<>> /\ read[e] = <<>>
    BY <1>1, <1>5, Zenon
  <2>6. Stream(e)
    BY <1>6, <1>7, <2>3, <2>4, <2>5, Zenon DEF Stream
  <2> QED
    BY <2>2, <2>6
<1> QED
  BY <1>4, <1>6, <1>8, Zenon DEF Links

LEMMA InitInv ==
  ASSUME Init
  PROVE  Inv
<1>1. QueuesTyped /\ Links /\ \A e \in Ends : Unread(e) = <<>>
  BY FirstQueues, Zenon
<1>2. Typed
  BY <1>1, FirstClients, Zenon DEF Typed
<1>3. server.pc = "accept" /\ server.sd = <<>> /\ pending = <<>>
  BY AtFirst
<1>4. Queueing
  <2>1. \A c \in Clients : <<c>> # <<>>
    OBVIOUS
  <2> QED
    BY <1>3, <2>1, FirstClients DEF Queueing
<1>5. ASSUME NEW c \in Clients
      PROVE  Conversation(c)
  <2>1. client[c].pc = "connect" /\ client[c].rcvd.state = "none"
    BY FirstClients, Zenon
  <2>2. Unread(ServerEnd(c)) = <<>> /\ Unread(ClientEnd(c)) = <<>>
    BY <1>1, TheEnds, Zenon
  <2> QED
    BY <2>1, <2>2 DEF Conversation, Conv
<1> QED
  BY <1>1, <1>2, <1>4, <1>5, Zenon DEF Inv

LEMMA StutterStep ==
  ASSUME Inv, UNCHANGED vars
  PROVE  Inv'
<1>1. UNCHANGED <<sock, thread, pipe, client, server, pending, wrote, read>>
  BY DEF vars
<1>2. Typed /\ Queueing /\ Links /\ QueuesTyped
  BY DEF Inv, Typed
<1>3. Queueing' /\ ClosedStays /\ \A c \in Clients : Standing(c)' = Standing(c)
  BY <1>1, <1>2, SpeakersStay
<1>4. QueuesTyped' /\ Links' /\ \A e \in Ends : Unread(e)' = Unread(e)
  <2>1. sock' \in [Ends -> Sock]
    BY <1>1, <1>2 DEF QueuesTyped
  <2> QED
    BY <1>1, <1>2, <1>3, <2>1, QueuesStay
<1>5. \A c \in Clients : Conversation(c)'
  BY <1>1, <1>3, <1>4, AllStay DEF Inv
<1> QED
  BY <1>1, <1>2, <1>3, <1>4, <1>5 DEF Inv, Typed

LEMMA NextInv ==
  ASSUME Inv, [Next]_vars
  PROVE  Inv'
<1>1. ASSUME NEW c \in Clients, Client(c)
      PROVE  Inv'
  BY <1>1, ClientStep, Zenon
<1>2. CASE Server
  BY <1>2, ServerStep, Zenon
<1>3. ASSUME NEW e \in Ends, Thread(e)
      PROVE  Inv'
  BY <1>3, ThreadStep, Zenon
<1>4. CASE UNCHANGED vars
  BY <1>4, StutterStep, Zenon
<1> QED
  BY <1>1, <1>2, <1>3, <1>4, Zenon DEF Next

\* The conversation of every client and the server, and the queues between
\* them, in every state: loop_until_end() and do_connection() agree at each
\* character on how far the request and its answer have got.
THEOREM Invariance == Spec => []Inv
<1>1. Init => Inv
  BY InitInv, Zenon
<1>2. Inv /\ [Next]_vars => Inv'
  BY NextInv, Zenon
<1> QED
  BY <1>1, <1>2, PTL DEF Spec

\* The queues hold lists of characters, the two programs are at one of their
\* points with a buffer and a count that fit it, and a connection of pending is
\* a client's.
THEOREM TypeCorrect == Spec => []Typed
<1>1. Inv => Typed
  BY Zenon DEF Inv
<1> QED
  BY <1>1, Invariance, PTL

\* loop_until_end() of client.c: a file kept as complete is, byte for byte, the
\* file that was asked for, for any files and questions, any sizes of the
\* buffers and segments, read() failing at the server, and the end of the
\* stream lost before a FIN.
THEOREM SavedIsServedAlways == Spec => []SavedIsServed
<1>1. ASSUME Inv
      PROVE  SavedIsServed
  <2>1. ASSUME NEW c \in Clients, client[c].rcvd.state = "whole"
        PROVE  client[c].rcvd.data = FileBytes(client[c].rcvd.of)
    <3>1. PICK k : k = client[c]
      OBVIOUS
    <3>2. Conv(k, Standing(c), server, Unread(ServerEnd(c)), Unread(ClientEnd(c)))
      BY <1>1, <3>1, Zenon DEF Inv, Conversation
    <3> QED
      BY <2>1, <3>1, <3>2, Zenon DEF Conv
  <2> QED
    BY <2>1, Zenon DEF SavedIsServed
<1> QED
  BY <1>1, Invariance, PTL

\* The prompt of client.c: the answer to the last request was taken to its last
\* byte, nothing of it is left in a queue or on the line, and process_line() has
\* no more to send, so the next response line is the next answer's.
THEOREM PromptIsCleanAlways == Spec => []PromptIsClean
<1>1. ASSUME Inv
      PROVE  PromptIsClean
  <2>1. ASSUME NEW c \in Clients, client[c].pc = "prompt"
        PROVE  /\ Unread(ClientEnd(c)) = <<>> /\ Unread(ServerEnd(c)) = <<>>
               /\ server.sd = <<c>> /\ server.pc = "send" => server.pos = FileLen[Requested]
    <3>1. PICK k : k = client[c]
      OBVIOUS
    <3>2. Conv(k, Standing(c), server, Unread(ServerEnd(c)), Unread(ClientEnd(c)))
      BY <1>1, <3>1, Zenon DEF Inv, Conversation
    <3>3. Unread(ServerEnd(c)) = <<>> /\ Unread(ClientEnd(c)) = <<>> /\ AtRest(Standing(c), server)
      BY <2>1, <3>1, <3>2, Zenon DEF Conv
    <3>4. ASSUME server.sd = <<c>>, server.pc = "send"
          PROVE  server.pos = FileLen[Requested]
      <4>1. Standing(c) = "served"
        BY <1>1, <3>4, ServingOne DEF Inv, Phase
      <4> QED
        BY <3>3, <3>4, <4>1 DEF AtRest, AtLine, Dead, Requested
    <3> QED
      BY <3>3, <3>4, Zenon
  <2> QED
    BY <2>1, Zenon DEF PromptIsClean
<1> QED
  BY <1>1, Invariance, PTL

LEMMA StartsIsPrefix ==
  ASSUME NEW s \in Texts, NEW t \in Texts, Starts(s, t)
  PROVE  IsPrefix(s, t)
<1>1. PICK r \in Texts : t = s \o r
  BY Zenon DEF Starts
<1>2. s \in Seq(Char) /\ r \in Seq(Char) /\ t \in Seq(Char)
  BY DEF Texts
<1>3. PICK n \in Nat : n = Len(s)
  BY <1>2
<1>4. PICK m \in Nat : m = Len(r)
  BY <1>2
<1>5. Len(t) = n + m /\ \A i \in 1..n : t[i] = s[i]
  BY <1>1, <1>2, <1>3, <1>4, Joined
<1>6. n \in 0..Len(t) /\ n \in 0..Len(s)
  BY <1>3, <1>5
<1>7. /\ SubSeq(t, 1, n) \in Seq(Char) /\ Len(SubSeq(t, 1, n)) = n
      /\ \A i \in 1..n : SubSeq(t, 1, n)[i] = t[i]
  BY <1>2, <1>6, FirstPart
<1>8. /\ SubSeq(s, 1, n) \in Seq(Char) /\ Len(SubSeq(s, 1, n)) = n
      /\ \A i \in 1..n : SubSeq(s, 1, n)[i] = s[i]
  BY <1>2, <1>6, FirstPart
<1>9. SubSeq(s, 1, n) = SubSeq(t, 1, n)
  BY <1>5, <1>7, <1>8, SeqEqual
<1> QED
  BY <1>3, <1>5, <1>9 DEF IsPrefix

\* The queues of mysock.c with their partial dequeues: what an application has
\* read and has queued is the beginning of what the other one wrote, and with
\* what is on its way it is all of it until a FIN is taken early.
THEOREM StreamKeptAlways == Spec => []StreamKept
<1>1. ASSUME Inv
      PROVE  StreamKept
  <2>1. ASSUME NEW e \in Ends
        PROVE  /\ IsPrefix(read[e] \o FlattenSeq(sock[e].app_send_queue), wrote[Other(e)])
               /\ ~thread[e].finReceived => read[e] \o Unread(e) = wrote[Other(e)]
    <3>1. Stream(e) /\ QueuesTyped
      BY <1>1 DEF Inv, Links, Typed
    <3>2. wrote[Other(e)] \in Texts /\ read[e] \in Texts
      BY <3>1, TheEnds DEF QueuesTyped
    <3>3. FlattenSeq(sock[e].app_send_queue) \in Texts
      BY <3>1, UnreadType, Zenon
    <3>4. read[e] \o FlattenSeq(sock[e].app_send_queue) \in Texts
      BY <3>2, <3>3, TextsJoin, Zenon
    <3>5. IsPrefix(read[e] \o FlattenSeq(sock[e].app_send_queue), wrote[Other(e)])
      BY <3>1, <3>2, <3>4, StartsIsPrefix, Zenon DEF Stream
    <3> QED
      BY <3>1, <3>5, Zenon DEF Stream
  <2> QED
    BY <2>1, Zenon DEF StreamKept
<1> QED
  BY <1>1, Invariance, PTL
=============================================================================
