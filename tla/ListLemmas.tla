------------------------------ MODULE ListLemmas -------------------------------
(***************************************************************************)
(* Facts about positions and lists that the proofs of several components   *)
(* rest on: the largest and the smallest position of a set, induction over *)
(* positions, what a function defined by recursion on positions is, and    *)
(* what FlattenSeq returns.  Sets stand for the predicates of induction,   *)
(* and functions for the steps of a recursion.                             *)
(***************************************************************************)
EXTENDS Integers, FiniteSets, FiniteSetTheorems, SequenceTheorems, SequencesExt, TLAPS

\* The largest of a nonempty set of positions exists.  The argument is by
\* well-foundedness: of the tails of the set the least one starts at its largest
\* member.
LEMMA LargestOf ==
  ASSUME NEW n \in Nat, NEW S \in SUBSET (1..n), S # {}
  PROVE  \E i \in S : \A j \in S : j <= i
<1> DEFINE From(i) == S \cap (i..n)
           Tails   == {From(i) : i \in S}
<1>1. IsFiniteSet(S)
  <2>1. 1 \in Int /\ n \in Int
    OBVIOUS
  <2>2. IsFiniteSet(1..n)
    BY <2>1, FS_Interval, Zenon
  <2> QED
    BY <2>2, FS_Subset, Zenon
<1>2. Tails \subseteq FiniteSubsetsOf(S)
  BY <1>1, FS_FiniteSubsetsOfFinite, Zenon
<1>3. Tails # {}
  <2>1. PICK i \in S : TRUE
    BY Zenon
  <2>2. From(i) \in Tails
    BY Zenon
  <2> QED
    BY <2>2, Zenon
<1>4. PICK t \in Tails : \A u \in Tails : ~(<<u, t>> \in StrictSubsetOrdering(S))
  <2>1. IsWellFoundedOn(StrictSubsetOrdering(S), FiniteSubsetsOf(S))
    BY FS_StrictSubsetOrderingWellFounded, Zenon
  <2> HIDE DEF Tails
  <2> QED
    BY <1>2, <1>3, <2>1, WFMin, Zenon
<1>5. PICK i \in S : t = From(i)
  BY <1>4, Zenon
<1>6. ASSUME NEW j \in S, ~(j <= i)
      PROVE  FALSE
  <2>1. i \in From(i) /\ i \notin From(j) /\ From(j) \subseteq From(i)
    BY <1>6
  <2>2. From(j) \in Tails
    BY Zenon
  <2>3. <<From(j), t>> \in StrictSubsetOrdering(S)
    BY <1>5, <2>1 DEF StrictSubsetOrdering
  <2> QED
    BY <1>4, <2>2, <2>3, Zenon
<1> QED
  BY <1>6

\* A property of 0 that goes from each position to the next holds of them all: the
\* largest of the positions whose predecessors have it is the last one.
LEMMA Induction ==
  ASSUME NEW n \in Nat, NEW P, 0 \in P, \A i \in 0..(n - 1) : i \in P => i + 1 \in P
  PROVE  0..n \subseteq P
<1> SUFFICES ASSUME NEW k \in 0..n, k \notin P
             PROVE  FALSE
  OBVIOUS
<1> DEFINE After == {i \in 1..k : i - 1 \in P}
<1>1. k \in Nat /\ After \in SUBSET (1..k) /\ After # {}
  <2>1. 1 \in After
    BY SMT
  <2> QED
    BY <2>1
<1>2. PICK i \in After : \A j \in After : j <= i
  BY <1>1, LargestOf, Zenon
<1>3. i \in P
  BY <1>2
<1>4. CASE i = k
  BY <1>3, <1>4
<1>5. CASE i # k
  <2>1. i + 1 \in After
    BY <1>2, <1>3, <1>5
  <2> QED
    BY <1>2, <2>1
<1> QED
  BY <1>4, <1>5

\* The smallest of a nonempty set of positions: as far above n as the largest of
\* the set mirrored.
LEMMA SmallestOf ==
  ASSUME NEW n \in Nat, NEW S \in SUBSET (1..n), S # {}
  PROVE  \E i \in S : \A j \in S : i <= j
<1> DEFINE Mirrored == {n + 1 - i : i \in S}
<1>1. Mirrored \in SUBSET (1..n) /\ Mirrored # {}
  <2>1. Mirrored \subseteq 1..n
    OBVIOUS
  <2>2. Mirrored # {}
    BY Zenon
  <2> QED
    BY <2>1, <2>2, Zenon
<1>2. PICK m \in Mirrored : \A j \in Mirrored : j <= m
  <2> HIDE DEF Mirrored
  <2> QED
    BY <1>1, LargestOf, Zenon
<1>3. PICK i \in S : m = n + 1 - i
  BY <1>2
<1>4. ASSUME NEW j \in S
      PROVE  i <= j
  <2>1. n + 1 - j <= m
    BY <1>2
  <2> QED
    BY <1>3, <2>1
<1> QED
  BY <1>4

\* f solves a recursion on positions: G gives the value at a position from the one
\* before it, and b is the first.
Follows(f, n, G) == \A i \in 1..n : f[i] = G[i][f[i - 1]]
Solves(f, n, A, b, G) == f \in [0..n -> A] /\ f[0] = b /\ Follows(f, n, G)

\* Such a recursion has a solution.
LEMMA Recursion ==
  ASSUME NEW n \in Nat, NEW A, NEW b \in A, NEW G \in [1..n -> [A -> A]]
  PROVE  \E f : Solves(f, n, A, b, G)
<1> DEFINE SolvesTo(f, k) == f[0] = b /\ \A i \in 1..k : f[i] = G[i][f[i - 1]]
           Solved == {k \in 0..n : \E f \in [0..k -> A] : SolvesTo(f, k)}
<1>1. 0 \in Solved
  <2>1. [i \in 0..0 |-> b] \in [0..0 -> A] /\ SolvesTo([i \in 0..0 |-> b], 0)
    BY SMT
  <2>2. 0 \in 0..n
    OBVIOUS
  <2> HIDE DEF SolvesTo
  <2> QED
    BY <2>1, <2>2, Zenon
<1>2. ASSUME NEW k \in 0..(n - 1), k \in Solved
      PROVE  k + 1 \in Solved
  <2>1. PICK f \in [0..k -> A] : SolvesTo(f, k)
    BY <1>2
  <2> DEFINE g == [i \in 0..(k + 1) |-> IF i = k + 1 THEN G[k + 1][f[k]] ELSE f[i]]
  <2>2. g \in [0..(k + 1) -> A]
    <3>1. G[k + 1][f[k]] \in A
      BY SMT
    <3> QED
      BY <3>1
  <2>3. SolvesTo(g, k + 1)
    <3>1. g[0] = b
      BY <2>1
    <3>2. ASSUME NEW i \in 1..(k + 1)
          PROVE  g[i] = G[i][g[i - 1]]
      <4>1. CASE i = k + 1
        BY <4>1
      <4>2. CASE i # k + 1
        <5>1. i \in 1..k /\ i - 1 \in 0..k
          BY <4>2
        <5> QED
          BY <2>1, <5>1
      <4> QED
        BY <4>1, <4>2
    <3> QED
      BY <3>1, <3>2
  <2>4. k + 1 \in 0..n
    OBVIOUS
  <2> HIDE DEF SolvesTo, g
  <2> QED
    BY <2>2, <2>3, <2>4, Zenon
<1>3. 0..n \subseteq Solved
  <2> HIDE DEF Solved
  <2> QED
    BY <1>1, <1>2, Induction, Zenon
<1>4. PICK f \in [0..n -> A] : SolvesTo(f, n)
  BY <1>3
<1>5. Solves(f, n, A, b, G)
  BY <1>4 DEF Solves, Follows
<1> QED
  BY <1>5, Zenon

\* It has one only.
LEMMA RecursionUnique ==
  ASSUME NEW n \in Nat, NEW G, NEW f, NEW g, f[0] = g[0], Follows(f, n, G), Follows(g, n, G)
  PROVE  \A i \in 0..n : f[i] = g[i]
<1> DEFINE Same == {i \in 0..n : f[i] = g[i]}
<1>1. 0 \in Same
  OBVIOUS
<1>2. ASSUME NEW i \in 0..(n - 1), i \in Same
      PROVE  i + 1 \in Same
  <2>1. i + 1 \in 1..n /\ (i + 1) - 1 = i
    OBVIOUS
  <2>2. f[i + 1] = G[i + 1][f[i]] /\ g[i + 1] = G[i + 1][g[i]]
    BY <2>1 DEF Follows
  <2> QED
    BY <1>2, <2>1, <2>2
<1>3. 0..n \subseteq Same
  <2> HIDE DEF Same
  <2> QED
    BY <1>1, <1>2, Induction, Zenon
<1> QED
  BY <1>3
-----------------------------------------------------------------------------
\* f flattens a list of lists over S step by step.
Flattens(f, ss, S) == /\ f \in [0..Len(ss) -> Seq(S)]
                      /\ f[0] = <<>>
                      /\ \A i \in 1..Len(ss) : f[i] = f[i - 1] \o ss[i]
                      /\ FlattenSeq(ss) = f[Len(ss)]

\* Flattening a list of lists appends them one after the other.
LEMMA FlattenSteps ==
  ASSUME NEW S, NEW ss \in Seq(Seq(S))
  PROVE  \E f : Flattens(f, ss, S)
<1>n. PICK n : n = Len(ss)
  OBVIOUS
<1> DEFINE G == [i \in 1..n |-> [s \in Seq(S) |-> s \o ss[i]]]
<1>1. n \in Nat /\ \A i \in 1..n : ss[i] \in Seq(S)
  BY <1>n
<1>2. G \in [1..n -> [Seq(S) -> Seq(S)]]
  BY <1>1
<1>3. <<>> \in Seq(S)
  OBVIOUS
<1>4. PICK f \in [0..n -> Seq(S)] : f[0] = <<>> /\ \A i \in 1..n : f[i] = G[i][f[i - 1]]
  <2>1. \E f : Solves(f, n, Seq(S), <<>>, G)
    <3> HIDE DEF G
    <3> QED
      BY <1>1, <1>2, <1>3, Recursion, Zenon
  <2> QED
    BY <2>1, Zenon DEF Solves, Follows
<1>5. \A i \in 1..n : f[i] = f[i - 1] \o ss[i]
  <2> SUFFICES ASSUME NEW i \in 1..n
               PROVE  f[i] = f[i - 1] \o ss[i]
    OBVIOUS
  <2>1. i - 1 \in 0..n /\ f[i - 1] \in Seq(S)
    BY <1>1, <1>4
  <2> QED
    BY <1>4, <2>1
<1>6. CASE n = 0
  <2>1. ss = <<>> /\ FlattenSeq(ss) = ss
    BY <1>6, <1>n DEF FlattenSeq
  <2> QED
    BY <1>4, <1>5, <1>6, <1>n, <2>1 DEF Flattens
<1>7. CASE n # 0
  <2> DEFINE flatten[i \in 1..n] == IF i = 1 THEN ss[i] ELSE flatten[i - 1] \o ss[i]
  <2>1. flatten = [i \in 1..n |-> IF i = 1 THEN ss[i] ELSE flatten[i - 1] \o ss[i]]
    <3> DEFINE h == [i \in 1..n |-> f[i]]
    <3>1. h = [i \in 1..n |-> IF i = 1 THEN ss[i] ELSE h[i - 1] \o ss[i]]
      <4> SUFFICES ASSUME NEW i \in 1..n
                   PROVE  f[i] = IF i = 1 THEN ss[i] ELSE h[i - 1] \o ss[i]
        BY Zenon
      <4>1. CASE i = 1
        <5>1. f[1] = <<>> \o ss[1]
          <6>1. 1 \in 1..n /\ 1 - 1 = 0
            BY <1>1, <4>1
          <6>2. f[1] = f[1 - 1] \o ss[1]
            BY <1>5, <6>1, Zenon
          <6> QED
            BY <1>4, <6>1, <6>2, Zenon
        <5> QED
          BY <1>1, <4>1, <5>1
      <4>2. CASE i # 1
        <5>1. i - 1 \in 1..n
          BY <1>1, <4>2
        <5> QED
          BY <1>5, <4>2, <5>1
      <4> QED
        BY <4>1, <4>2
    <3> HIDE DEF h
    <3> QED
      BY <3>1, Zenon
  <2>2. FlattenSeq(ss) = flatten[n]
    BY <1>7, <1>n, Zenon DEF FlattenSeq
  <2> HIDE DEF flatten
  <2> DEFINE Same == {i \in 0..n : i = 0 \/ flatten[i] = f[i]}
  <2>3. 0 \in Same
    BY <1>1
  <2>4. ASSUME NEW i \in 0..(n - 1), i \in Same
        PROVE  i + 1 \in Same
    <3>1. i + 1 \in 1..n /\ (i + 1) - 1 = i
      BY <1>1
    <3>2. f[i + 1] = f[i] \o ss[i + 1]
      BY <1>5, <3>1
    <3>3. flatten[i + 1] = IF i + 1 = 1 THEN ss[i + 1] ELSE flatten[i] \o ss[i + 1]
      BY <2>1, <3>1
    <3>4. CASE i = 0
      <4>1. 0 + 1 = 1
        OBVIOUS
      <4>2. f[1] = <<>> \o ss[1]
        BY <1>4, <3>2, <3>4, <4>1, Zenon
      <4>3. ss[1] \in Seq(S)
        BY <1>1, <3>1, <3>4
      <4>4. f[1] = ss[1]
        BY <4>2, <4>3
      <4> QED
        BY <3>1, <3>3, <3>4, <4>4
    <3>5. CASE i # 0
      <4>1. i + 1 # 1 /\ i + 1 \in 0..n
        BY <1>1, <3>1, <3>5
      <4>2. flatten[i + 1] = f[i + 1]
        BY <2>4, <3>2, <3>3, <3>5, <4>1
      <4> QED
        BY <4>1, <4>2
    <3> QED
      BY <3>4, <3>5
  <2>5. 0..n \subseteq Same
    <3> HIDE DEF Same
    <3> QED
      BY <1>1, <2>3, <2>4, Induction, Zenon
  <2>6. flatten[n] = f[n]
    BY <1>1, <1>7, <2>5
  <2> QED
    BY <1>4, <1>5, <1>n, <2>2, <2>6 DEF Flattens
<1> QED
  BY <1>6, <1>7

LEMMA FlattenType ==
  ASSUME NEW S, NEW ss \in Seq(Seq(S))
  PROVE  FlattenSeq(ss) \in Seq(S)
<1>1. PICK f : Flattens(f, ss, S)
  BY FlattenSteps, Zenon
<1>2. Len(ss) \in 0..Len(ss)
  OBVIOUS
<1> QED
  BY <1>1, <1>2 DEF Flattens

LEMMA FlattenEmpty == FlattenSeq(<<>>) = <<>>
BY DEF FlattenSeq

\* One list more.
LEMMA FlattenAppend ==
  ASSUME NEW S, NEW ss \in Seq(Seq(S)), NEW s \in Seq(S)
  PROVE  FlattenSeq(Append(ss, s)) = FlattenSeq(ss) \o s
<1>n. PICK n : n = Len(ss)
  OBVIOUS
<1>t. PICK tt : tt = Append(ss, s)
  OBVIOUS
<1>1. /\ n \in Nat /\ tt \in Seq(Seq(S)) /\ Len(tt) = n + 1 /\ tt[n + 1] = s
      /\ \A i \in 1..n : tt[i] = ss[i]
  BY <1>n, <1>t
<1>2. PICK f : Flattens(f, ss, S)
  BY FlattenSteps, Zenon
<1>3. PICK g : Flattens(g, tt, S)
  BY <1>1, FlattenSteps, Zenon
<1> DEFINE G == [i \in 1..n |-> [t \in Seq(S) |-> t \o ss[i]]]
<1>4. Follows(f, n, G)
  <2> SUFFICES ASSUME NEW i \in 1..n
               PROVE  f[i] = G[i][f[i - 1]]
    BY DEF Follows
  <2>1. i \in 1..Len(ss) /\ i - 1 \in 0..Len(ss)
    BY <1>1, <1>n
  <2>2. f[i - 1] \in Seq(S) /\ f[i] = f[i - 1] \o ss[i]
    BY <2>1, <1>2 DEF Flattens
  <2> QED
    BY <2>2
<1>5. Follows(g, n, G)
  <2> SUFFICES ASSUME NEW i \in 1..n
               PROVE  g[i] = G[i][g[i - 1]]
    BY DEF Follows
  <2>1. i \in 1..(n + 1) /\ i - 1 \in 0..(n + 1) /\ ss[i] = tt[i] /\ Len(tt) = n + 1
    BY <1>1
  <2>2. g[i - 1] \in Seq(S) /\ g[i] = g[i - 1] \o ss[i]
    BY <2>1, <1>3 DEF Flattens
  <2> QED
    BY <2>2
<1>6. f[n] = g[n]
  <2>1. f[0] = g[0] /\ n \in 0..n
    BY <1>1, <1>2, <1>3 DEF Flattens
  <2>2. \A i \in 0..n : f[i] = g[i]
    <3>1. n \in Nat /\ f[0] = g[0]
      BY <1>1, <2>1
    <3> HIDE DEF G
    <3> QED
      BY <3>1, <1>4, <1>5, RecursionUnique
  <2> QED
    BY <2>1, <2>2
<1>7. g[n + 1] = g[n] \o s
  <2>1. n + 1 \in 1..(n + 1) /\ (n + 1) - 1 = n
    BY <1>1
  <2>2. g[n + 1] = g[(n + 1) - 1] \o tt[n + 1]
    BY <1>1, <1>3, <2>1, Zenon DEF Flattens
  <2> QED
    BY <1>1, <2>1, <2>2
<1> QED
  BY <1>1, <1>2, <1>3, <1>6, <1>7, <1>n, <1>t DEF Flattens

\* A list of one list, and of two.
LEMMA FlattenOne ==
  ASSUME NEW S, NEW s \in Seq(S)
  PROVE  FlattenSeq(<<s>>) = s
<1>1. <<>> \in Seq(Seq(S)) /\ Append(<<>>, s) = <<s>>
  OBVIOUS
<1>2. FlattenSeq(<<s>>) = FlattenSeq(<<>>) \o s
  BY <1>1, FlattenAppend, Zenon
<1> QED
  BY <1>2, FlattenEmpty

LEMMA FlattenTwo ==
  ASSUME NEW S, NEW s \in Seq(S), NEW t \in Seq(S)
  PROVE  FlattenSeq(<<s, t>>) = s \o t
<1>1. <<s>> \in Seq(Seq(S))
  OBVIOUS
<1>2. Append(<<s>>, t) = <<s, t>>
  <2>0. Append(<<s>>, t) \in Seq(Seq(S))
    BY <1>1, AppendProperties, Zenon
  <2>1. PICK u \in Seq(Seq(S)) : u = Append(<<s>>, t)
    BY <2>0, Zenon
  <2>2. Len(u) = 2 /\ u[1] = s /\ u[2] = t
    BY <1>1, <2>1
  <2>3. u = <<s, t>>
    BY <2>2
  <2> QED
    BY <2>1, <2>3
<1>3. FlattenSeq(<<s, t>>) = FlattenSeq(<<s>>) \o t
  BY <1>1, <1>2, FlattenAppend, Zenon
<1> QED
  BY <1>3, FlattenOne
-----------------------------------------------------------------------------
\* The first n elements of a list, and the others.
LEMMA FirstPart ==
  ASSUME NEW S, NEW s \in Seq(S), NEW n \in 0..Len(s)
  PROVE  /\ SubSeq(s, 1, n) \in Seq(S)
         /\ Len(SubSeq(s, 1, n)) = n
         /\ \A i \in 1..n : SubSeq(s, 1, n)[i] = s[i]
<1>1. 1 \in Int /\ n \in Int /\ \A i \in 1..n : s[i] \in S
  OBVIOUS
<1> QED
  BY <1>1, SubSeqProperties

LEMMA LastPart ==
  ASSUME NEW S, NEW s \in Seq(S), NEW n \in 0..Len(s)
  PROVE  /\ SubSeq(s, n + 1, Len(s)) \in Seq(S)
         /\ Len(SubSeq(s, n + 1, Len(s))) = Len(s) - n
         /\ \A i \in 1..(Len(s) - n) : SubSeq(s, n + 1, Len(s))[i] = s[n + i]
<1>1. n + 1 \in Int /\ Len(s) \in Int /\ \A i \in (n + 1)..Len(s) : s[i] \in S
  OBVIOUS
<1> QED
  BY <1>1, SubSeqProperties

\* Moving the first n elements of a list to the end of another changes nothing in
\* the two lists put together.
LEMMA MovePart ==
  ASSUME NEW S, NEW s \in Seq(S), NEW t \in Seq(S), NEW n \in 0..Len(t)
  PROVE  (s \o SubSeq(t, 1, n)) \o SubSeq(t, n + 1, Len(t)) = s \o t
<1>1. PICK a \in Seq(S) : a = SubSeq(t, 1, n)
  BY FirstPart, Zenon
<1>2. PICK b \in Seq(S) : b = SubSeq(t, n + 1, Len(t))
  BY LastPart, Zenon
<1>3. Len(a) = n /\ \A i \in 1..n : a[i] = t[i]
  BY <1>1, FirstPart
<1>4. Len(b) = Len(t) - n /\ \A i \in 1..(Len(t) - n) : b[i] = t[n + i]
  BY <1>2, LastPart
<1>5. a \o b = t
  <2>0. Len(a \o b) = Len(a) + Len(b) /\ a \o b \in Seq(S)
    OBVIOUS
  <2>1. Len(a \o b) = Len(t) /\ a \o b \in Seq(S)
    BY <1>3, <1>4, <2>0
  <2>2. \A i \in 1..Len(t) : (a \o b)[i] = t[i]
    <3> SUFFICES ASSUME NEW i \in 1..Len(t)
                 PROVE  (a \o b)[i] = t[i]
      OBVIOUS
    <3>1. CASE i <= n
      BY <1>3, <1>4, <3>1
    <3>2. CASE ~(i <= n)
      <4>1. (a \o b)[i] = b[i - n]
        BY <1>3, <1>4, <3>2
      <4> QED
        BY <1>4, <3>2, <4>1
    <3> QED
      BY <3>1, <3>2
  <2> QED
    BY <2>1, <2>2, SeqEqual
<1>6. (s \o a) \o b = s \o (a \o b)
  OBVIOUS
<1> QED
  BY <1>1, <1>2, <1>5, <1>6

\* What two lists put together hold.
LEMMA Joined ==
  ASSUME NEW S, NEW a \in Seq(S), NEW b \in Seq(S), NEW n, NEW m, n = Len(a), m = Len(b)
  PROVE  /\ a \o b \in Seq(S)
         /\ Len(a \o b) = n + m
         /\ \A i \in 1..n : (a \o b)[i] = a[i]
         /\ \A i \in 1..m : (a \o b)[n + i] = b[i]
         /\ \A i \in (n + 1)..(n + m) : (a \o b)[i] = b[i - n]
<1>1. n \in Nat /\ m \in Nat
  OBVIOUS
<1>2. a \o b \in Seq(S) /\ Len(a \o b) = Len(a) + Len(b)
  OBVIOUS
<1>3. \A i \in 1..(Len(a) + Len(b)) : (a \o b)[i] = IF i <= Len(a) THEN a[i] ELSE b[i - Len(a)]
  BY ConcatProperties
<1>4. \A i \in 1..n : (a \o b)[i] = a[i]
  BY <1>1, <1>3
<1>5. \A i \in (n + 1)..(n + m) : (a \o b)[i] = b[i - n]
  BY <1>1, <1>3
<1>6. \A i \in 1..m : (a \o b)[n + i] = b[i]
  <2> SUFFICES ASSUME NEW i \in 1..m
               PROVE  (a \o b)[n + i] = b[i]
    OBVIOUS
  <2>1. n + i \in (n + 1)..(n + m) /\ (n + i) - n = i
    BY <1>1
  <2> QED
    BY <1>5, <2>1
<1> QED
  BY <1>2, <1>4, <1>5, <1>6
-----------------------------------------------------------------------------
\* The elements of a list, of a list and an element more, and of two lists.
LEMMA RangeType ==
  ASSUME NEW S, NEW s \in Seq(S)
  PROVE  Range(s) \subseteq S /\ \A i \in DOMAIN s : s[i] \in Range(s)
BY DEF Range

LEMMA RangeAppend ==
  ASSUME NEW S, NEW s \in Seq(S), NEW x \in S
  PROVE  Range(Append(s, x)) = Range(s) \cup {x}
<1>1. PICK n \in Nat : n = Len(s)
  OBVIOUS
<1>2. PICK t \in Seq(S) : t = Append(s, x)
  <2>1. Append(s, x) \in Seq(S)
    OBVIOUS
  <2> QED
    BY <2>1, Zenon
<1>3. /\ DOMAIN s = 1..n /\ DOMAIN t = 1..(n + 1) /\ t[n + 1] = x
      /\ \A i \in 1..n : t[i] = s[i]
  BY <1>1, <1>2
<1>4. n + 1 \in DOMAIN t /\ DOMAIN s \subseteq DOMAIN t
  BY <1>3
<1>5. \A i \in DOMAIN t : i \in DOMAIN s \/ i = n + 1
  BY <1>3
<1>6. Range(t) = Range(s) \cup {x}
  BY <1>3, <1>4, <1>5 DEF Range
<1> QED
  BY <1>2, <1>6

LEMMA RangeJoined ==
  ASSUME NEW S, NEW s \in Seq(S), NEW t \in Seq(S)
  PROVE  Range(s \o t) = Range(s) \cup Range(t)
<1>1. PICK n \in Nat : n = Len(s)
  OBVIOUS
<1>2. PICK m \in Nat : m = Len(t)
  OBVIOUS
<1>3. PICK u \in Seq(S) : u = s \o t
  <2>1. s \o t \in Seq(S)
    OBVIOUS
  <2> QED
    BY <2>1, Zenon
<1>4. /\ DOMAIN s = 1..n /\ DOMAIN t = 1..m /\ DOMAIN u = 1..(n + m)
      /\ \A i \in 1..n : u[i] = s[i]
      /\ \A i \in 1..m : u[n + i] = t[i]
  <2>1. Len(u) = n + m
    BY <1>1, <1>2, <1>3
  <2> QED
    BY <1>1, <1>2, <1>3, <2>1, Joined
<1>5. ASSUME NEW x \in Range(u)
      PROVE  x \in Range(s) \cup Range(t)
  <2>1. PICK i \in 1..(n + m) : x = u[i]
    BY <1>4 DEF Range
  <2>2. CASE i <= n
    <3>1. i \in DOMAIN s /\ x = s[i]
      BY <1>4, <2>1, <2>2
    <3> QED
      BY <3>1, Zenon DEF Range
  <2>3. CASE ~(i <= n)
    <3>1. i - n \in 1..m /\ n + (i - n) = i
      BY <2>3
    <3>2. i - n \in DOMAIN t /\ x = t[i - n]
      BY <1>4, <2>1, <3>1
    <3> QED
      BY <3>2, Zenon DEF Range
  <2> QED
    BY <2>2, <2>3
<1>6. Range(s) \subseteq Range(u)
  <2>1. \A i \in 1..n : i \in 1..(n + m)
    OBVIOUS
  <2> QED
    BY <1>4, <2>1 DEF Range
<1>7. Range(t) \subseteq Range(u)
  <2>1. \A i \in 1..m : n + i \in 1..(n + m)
    OBVIOUS
  <2> QED
    BY <1>4, <2>1 DEF Range
<1>8. Range(u) = Range(s) \cup Range(t)
  BY <1>5, <1>6, <1>7
<1> QED
  BY <1>3, <1>8

\* Lists are put together in any order of the steps.
LEMMA JoinAssoc ==
  ASSUME NEW S, NEW a \in Seq(S), NEW b \in Seq(S), NEW c \in Seq(S)
  PROVE  /\ a \o b \in Seq(S) /\ b \o c \in Seq(S) /\ a \o (b \o c) \in Seq(S)
         /\ a \o (b \o c) = (a \o b) \o c
<1>1. a \o b \in Seq(S) /\ b \o c \in Seq(S)
  OBVIOUS
<1>2. PICK d \in Seq(S) : d = b \o c
  BY <1>1, Zenon
<1>3. a \o d \in Seq(S)
  OBVIOUS
<1>4. (a \o b) \o c = a \o (b \o c)
  OBVIOUS
<1> QED
  BY <1>1, <1>2, <1>3, <1>4, Zenon

\* A list with one element more.
LEMMA Appended ==
  ASSUME NEW S, NEW s \in Seq(S), NEW x \in S
  PROVE  /\ Append(s, x) \in Seq(S) /\ Len(Append(s, x)) = Len(s) + 1
         /\ Append(s, x)[Len(s) + 1] = x
         /\ \A i \in 1..Len(s) : Append(s, x)[i] = s[i]
OBVIOUS

\* One element more at the end of the second list.
LEMMA JoinAppend ==
  ASSUME NEW S, NEW s \in Seq(S), NEW t \in Seq(S), NEW x \in S
  PROVE  s \o Append(t, x) = Append(s \o t, x)
<1>1. Append(t, x) = t \o <<x>> /\ <<x>> \in Seq(S)
  BY AppendIsConcat
<1>2. PICK u \in Seq(S) : u = s \o t
  <2>1. s \o t \in Seq(S)
    OBVIOUS
  <2> QED
    BY <2>1, Zenon
<1>3. Append(u, x) = u \o <<x>>
  BY AppendIsConcat
<1>4. (s \o t) \o <<x>> = s \o (t \o <<x>>)
  BY <1>1, ConcatAssociative
<1> QED
  BY <1>1, <1>2, <1>3, <1>4

\* A list with an element inserted.
LEMMA InsertType ==
  ASSUME NEW S, NEW s \in Seq(S), NEW i \in 1..(Len(s) + 1), NEW x \in S
  PROVE  /\ InsertAt(s, i, x) \in Seq(S)
         /\ Range(InsertAt(s, i, x)) = Range(s) \cup {x}
<1>1. PICK n \in Nat : n = i - 1 /\ n \in 0..Len(s)
  OBVIOUS
<1>2. PICK a \in Seq(S) : a = SubSeq(s, 1, n)
  BY <1>1, FirstPart, Zenon
<1>3. PICK b \in Seq(S) : b = SubSeq(s, n + 1, Len(s))
  BY <1>1, LastPart, Zenon
<1>4. InsertAt(s, i, x) = (a \o <<x>>) \o b
  <2>1. i - 1 = n /\ i = n + 1
    BY <1>1
  <2> QED
    BY <1>2, <1>3, <2>1 DEF InsertAt
<1>5. s = a \o b
  <2>0. <<>> \in Seq(S)
    BY EmptySeq, Zenon
  <2>1. PICK z \in Seq(S) : z = <<>>
    BY <2>0, Zenon
  <2>2. (z \o SubSeq(s, 1, n)) \o SubSeq(s, n + 1, Len(s)) = z \o s
    BY <1>1, MovePart, Zenon
  <2>3. z \o s = s /\ z \o a = a
    <3>1. a \in Seq(S)
      BY <1>2
    <3>2. <<>> \o s = s /\ <<>> \o a = a
      BY <3>1, ConcatEmptySeq, Zenon
    <3> QED
      BY <2>1, <3>2, Zenon
  <2> QED
    BY <1>2, <1>3, <2>2, <2>3
<1>6. Range(s) = Range(a) \cup Range(b)
  <2>1. a \in Seq(S) /\ b \in Seq(S)
    BY <1>2, <1>3
  <2>2. Range(a \o b) = Range(a) \cup Range(b)
    BY <2>1, RangeJoined, Zenon
  <2> QED
    BY <1>5, <2>2, Zenon
<1>7. PICK c \in Seq(S) : c = Append(a, x)
  <2>1. Append(a, x) \in Seq(S)
    BY <1>2
  <2> QED
    BY <2>1, Zenon
<1>8. a \o <<x>> = c
  <2>1. a \in Seq(S)
    BY <1>2
  <2>2. Append(a, x) = a \o <<x>>
    BY <2>1, AppendIsConcat
  <2> QED
    BY <1>7, <2>2, Zenon
<1>9. Range(c) = Range(a) \cup {x}
  <2>1. a \in Seq(S)
    BY <1>2
  <2>2. Range(Append(a, x)) = Range(a) \cup {x}
    BY <2>1, RangeAppend
  <2> QED
    BY <1>7, <2>2, Zenon
<1>10. Range(c \o b) = Range(c) \cup Range(b) /\ c \o b \in Seq(S)
  <2>1. c \o b \in Seq(S)
    BY <1>3, <1>7
  <2>2. c \in Seq(S) /\ b \in Seq(S)
    BY <1>3, <1>7, Zenon
  <2>3. Range(c \o b) = Range(c) \cup Range(b)
    BY <2>2, RangeJoined
  <2> QED
    BY <2>1, <2>3, Zenon
<1> QED
  BY <1>4, <1>6, <1>8, <1>9, <1>10

\* A flattened list has the elements of its lists.
LEMMA FlattenMembers ==
  ASSUME NEW S, NEW ss \in Seq(Seq(S)), NEW x
  PROVE  x \in Range(FlattenSeq(ss)) <=> \E i \in DOMAIN ss : x \in Range(ss[i])
<1>1. PICK f : Flattens(f, ss, S)
  BY FlattenSteps, Zenon
<1>2. PICK n \in Nat : n = Len(ss)
  OBVIOUS
<1>3. /\ f \in [0..n -> Seq(S)] /\ f[0] = <<>> /\ FlattenSeq(ss) = f[n]
      /\ \A i \in 1..n : f[i] = f[i - 1] \o ss[i]
  BY <1>1, <1>2 DEF Flattens
<1> DEFINE Upto(k) == x \in Range(f[k]) <=> \E i \in 1..k : x \in Range(ss[i])
           Good == {k \in 0..n : Upto(k)}
<1>4. 0 \in Good
  <2>1. Range(f[0]) = {}
    BY <1>3 DEF Range
  <2> QED
    BY <2>1
<1>5. ASSUME NEW k \in 0..(n - 1), k \in Good
      PROVE  k + 1 \in Good
  <2>1. k \in 0..n /\ k + 1 \in 1..n /\ k + 1 \in 0..n /\ (k + 1) - 1 = k
    OBVIOUS
  <2>2. PICK a \in Seq(S) : a = f[k]
    BY <1>3, <2>1
  <2>3. PICK b \in Seq(S) : b = ss[k + 1]
    BY <1>2, <2>1
  <2>4. f[k + 1] = a \o b
    BY <1>3, <2>1, <2>2, <2>3
  <2>5. Range(f[k + 1]) = Range(a) \cup Range(b)
    BY <2>2, <2>3, <2>4, RangeJoined
  <2>6. x \in Range(a) <=> \E i \in 1..k : x \in Range(ss[i])
    BY <1>5, <2>2
  <2>7. 1..(k + 1) = 1..k \cup {k + 1}
    OBVIOUS
  <2>8. Upto(k + 1)
    BY <2>3, <2>5, <2>6, <2>7
  <2> QED
    BY <2>1, <2>8
<1>6. 0..n \subseteq Good
  <2> HIDE DEF Good
  <2> QED
    BY <1>2, <1>4, <1>5, Induction, Zenon
<1>7. Upto(n)
  <2>1. n \in 0..n
    BY <1>2
  <2> QED
    BY <1>6, <2>1
<1>8. DOMAIN ss = 1..n
  BY <1>2
<1> QED
  BY <1>3, <1>7, <1>8

\* The head and the tail of a list.
LEMMA RangeHeadTail ==
  ASSUME NEW S, NEW s \in Seq(S), s # <<>>
  PROVE  /\ Head(s) \in S /\ Head(s) \in Range(s)
         /\ Tail(s) \in Seq(S) /\ Range(s) = {Head(s)} \cup Range(Tail(s))
<1>1. PICK n \in Nat : n = Len(s)
  OBVIOUS
<1>2. PICK t \in Seq(S) : t = Tail(s)
  BY HeadTailProperties
<1>3. /\ n > 0 /\ Len(t) = n - 1 /\ \A i \in 1..(n - 1) : t[i] = s[i + 1]
      /\ Head(s) = s[1]
  BY <1>1, <1>2, EmptySeq, HeadTailProperties
<1>4. DOMAIN s = 1..n /\ DOMAIN t = 1..(n - 1) /\ s[1] \in S
  BY <1>1, <1>2, <1>3
<1>5. ASSUME NEW x \in Range(s)
      PROVE  x \in {s[1]} \cup Range(t)
  <2>1. PICK i \in 1..n : x = s[i]
    BY <1>4 DEF Range
  <2>2. CASE i # 1
    <3>1. i - 1 \in 1..(n - 1) /\ (i - 1) + 1 = i
      BY <2>2
    <3>2. i - 1 \in DOMAIN t /\ x = t[i - 1]
      BY <1>3, <1>4, <2>1, <3>1
    <3> QED
      BY <3>2, Zenon DEF Range
  <2> QED
    BY <2>1, <2>2
<1>6. s[1] \in Range(s)
  <2>1. 1 \in DOMAIN s
    BY <1>3, <1>4
  <2> QED
    BY <2>1, Zenon DEF Range
<1>7. Range(t) \subseteq Range(s)
  <2>1. \A i \in 1..(n - 1) : i + 1 \in 1..n
    OBVIOUS
  <2> QED
    BY <1>3, <1>4, <2>1 DEF Range
<1> QED
  BY <1>2, <1>3, <1>4, <1>5, <1>6, <1>7
-----------------------------------------------------------------------------
\* Two lists of lists.
LEMMA FlattenJoined ==
  ASSUME NEW S, NEW ss \in Seq(Seq(S)), NEW ts \in Seq(Seq(S))
  PROVE  FlattenSeq(ss \o ts) = FlattenSeq(ss) \o FlattenSeq(ts)
<1>n. PICK n \in Nat : n = Len(ss)
  OBVIOUS
<1>m. PICK m \in Nat : m = Len(ts)
  OBVIOUS
<1>u. PICK us \in Seq(Seq(S)) : us = ss \o ts
  <2>1. ss \o ts \in Seq(Seq(S))
    OBVIOUS
  <2> QED
    BY <2>1, Zenon
<1>1. /\ Len(us) = n + m /\ \A i \in 1..n : us[i] = ss[i]
      /\ \A i \in 1..m : us[n + i] = ts[i]
  BY <1>n, <1>m, <1>u, Joined
<1>2. PICK f : Flattens(f, ss, S)
  BY FlattenSteps, Zenon
<1>3. PICK g : Flattens(g, ts, S)
  BY FlattenSteps, Zenon
<1>4. PICK h : Flattens(h, us, S)
  BY FlattenSteps, Zenon
<1>5. /\ f \in [0..n -> Seq(S)] /\ f[0] = <<>> /\ FlattenSeq(ss) = f[n]
      /\ \A i \in 1..n : f[i] = f[i - 1] \o ss[i]
  BY <1>n, <1>2 DEF Flattens
<1>6. /\ g \in [0..m -> Seq(S)] /\ g[0] = <<>> /\ FlattenSeq(ts) = g[m]
      /\ \A i \in 1..m : g[i] = g[i - 1] \o ts[i]
  BY <1>m, <1>3 DEF Flattens
<1>7. /\ h \in [0..(n + m) -> Seq(S)] /\ h[0] = <<>> /\ FlattenSeq(us) = h[n + m]
      /\ \A i \in 1..(n + m) : h[i] = h[i - 1] \o us[i]
  BY <1>1, <1>4 DEF Flattens
<1> DEFINE G == [i \in 1..n |-> [t \in Seq(S) |-> t \o ss[i]]]
<1>8. f[n] = h[n]
  <2>1. Follows(f, n, G)
    <3> SUFFICES ASSUME NEW i \in 1..n
                 PROVE  f[i] = G[i][f[i - 1]]
      BY DEF Follows
    <3>1. i - 1 \in 0..n
      OBVIOUS
    <3> QED
      BY <1>5, <3>1
  <2>2. Follows(h, n, G)
    <3> SUFFICES ASSUME NEW i \in 1..n
                 PROVE  h[i] = G[i][h[i - 1]]
      BY DEF Follows
    <3>1. i - 1 \in 0..(n + m) /\ i \in 1..(n + m) /\ us[i] = ss[i]
      BY <1>1
    <3> QED
      BY <1>7, <3>1
  <2>3. \A i \in 0..n : f[i] = h[i]
    <3>1. f[0] = h[0]
      BY <1>5, <1>7
    <3> HIDE DEF G
    <3> QED
      BY <2>1, <2>2, <3>1, RecursionUnique
  <2>4. n \in 0..n
    OBVIOUS
  <2> QED
    BY <2>3, <2>4, Zenon
<1> DEFINE SameAt(i) == h[n + i] = h[n] \o g[i]
           Same == {i \in 0..m : SameAt(i)}
<1>9. 0 \in Same
  <2>1. n + 0 = n /\ n \in 0..(n + m)
    OBVIOUS
  <2>2. PICK a \in Seq(S) : a = h[n]
    BY <1>7, <2>1
  <2>3. a \o <<>> = a
    OBVIOUS
  <2>4. SameAt(0)
    BY <1>6, <2>1, <2>2, <2>3, Zenon
  <2>5. 0 \in 0..m
    OBVIOUS
  <2> QED
    BY <2>4, <2>5, Zenon
<1>10. ASSUME NEW i \in 0..(m - 1), i \in Same
       PROVE  i + 1 \in Same
  <2>1. /\ i + 1 \in 1..m /\ (i + 1) - 1 = i /\ n + (i + 1) \in 1..(n + m)
        /\ (n + (i + 1)) - 1 = n + i /\ i \in 0..m /\ n \in 0..(n + m)
    OBVIOUS
  <2>2. PICK a \in Seq(S) : a = h[n]
    BY <1>7, <2>1
  <2>3. PICK b \in Seq(S) : b = g[i]
    BY <1>6, <2>1
  <2>4. PICK c \in Seq(S) : c = ts[i + 1]
    BY <1>m, <2>1
  <2>5. h[n + (i + 1)] = (a \o b) \o c
    <3>1. h[n + (i + 1)] = h[n + i] \o us[n + (i + 1)]
      BY <1>7, <2>1
    <3>2. us[n + (i + 1)] = c
      BY <1>1, <2>1, <2>4
    <3>3. h[n + i] = a \o b
      BY <1>10, <2>2, <2>3
    <3> QED
      BY <3>1, <3>2, <3>3, Zenon
  <2>6. g[i + 1] = b \o c
    <3>1. g[i + 1] = g[i] \o ts[i + 1]
      BY <1>6, <2>1
    <3> QED
      BY <2>3, <2>4, <3>1, Zenon
  <2>7. a \o (b \o c) = (a \o b) \o c
    BY JoinAssoc
  <2>8. SameAt(i + 1)
    BY <2>2, <2>5, <2>6, <2>7, Zenon
  <2>9. i + 1 \in 0..m
    BY <2>1
  <2> QED
    BY <2>8, <2>9, Zenon
<1>11. 0..m \subseteq Same
  <2> HIDE DEF Same
  <2> QED
    BY <1>9, <1>10, Induction, Zenon
<1>12. h[n + m] = h[n] \o g[m]
  <2>1. m \in 0..m
    OBVIOUS
  <2> QED
    BY <1>11, <2>1, Zenon
<1> QED
  BY <1>5, <1>6, <1>7, <1>8, <1>12, <1>u, Zenon

\* Lists of nothing.
LEMMA FlattenNothing ==
  ASSUME NEW S, NEW ss \in Seq(Seq(S)), \A i \in DOMAIN ss : ss[i] = <<>>
  PROVE  FlattenSeq(ss) = <<>>
<1>1. PICK t \in Seq(S) : t = FlattenSeq(ss)
  BY FlattenType, Zenon
<1>2. Range(t) = {}
  <2> SUFFICES ASSUME NEW x \in Range(t) PROVE FALSE
    BY Zenon
  <2>1. PICK i \in DOMAIN ss : x \in Range(ss[i])
    BY <1>1, FlattenMembers
  <2>2. Range(<<>>) = {}
    BY DEF Range
  <2> QED
    BY <2>1, <2>2
<1>3. DOMAIN t = {}
  BY <1>2, Zenon DEF Range
<1>4. Len(t) = 0
  <2>1. DOMAIN t = 1..Len(t) /\ Len(t) \in Nat
    OBVIOUS
  <2>2. Len(t) > 0 => 1 \in 1..Len(t)
    BY <2>1
  <2> QED
    BY <1>3, <2>1, <2>2
<1> QED
  BY <1>1, <1>4
=============================================================================
