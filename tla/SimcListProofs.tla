---------------------------- MODULE SimcListProofs ----------------------------
(***************************************************************************)
(* The list of simclist.c, for any length, any number of spare elements    *)
(* and any data: its links are those of one sequence of elements, its       *)
(* memory is accounted for, it is read right whichever way it is walked,    *)
(* and the user sees a sequence.                                           *)
(***************************************************************************)
EXTENDS SimcList, ListLemmas, FunctionTheorems

-----------------------------------------------------------------------------
(* Walking along links                                                     *)

\* f is the function an operator of the model defines by recursion on positions.
\* Walking n links from c: whatever f takes the same steps tells where it ends.
LEMMA WalkIs ==
  ASSUME NEW link, NEW c, NEW n \in Nat, NEW f, f[0] = c,
         \A i \in 1..n : f[i] = Follow(link, f[i - 1])
  PROVE  Walk(link, c, n) = f[n]
<1> DEFINE at[k \in 0..n] == IF k = 0 THEN c ELSE Follow(link, at[k - 1])
<1>1. at = [k \in 0..n |-> IF k = 0 THEN c ELSE Follow(link, at[k - 1])]
  <2> DEFINE h == [k \in 0..n |-> f[k]]
  <2>1. h = [k \in 0..n |-> IF k = 0 THEN c ELSE Follow(link, h[k - 1])]
    <3> SUFFICES ASSUME NEW k \in 0..n
                 PROVE  f[k] = IF k = 0 THEN c ELSE Follow(link, h[k - 1])
      BY Zenon
    <3>1. CASE k = 0
      BY <3>1
    <3>2. CASE k # 0
      <4>1. k \in 1..n /\ k - 1 \in 0..n
        BY <3>2
      <4> QED
        BY <3>2, <4>1
    <3> QED
      BY <3>1, <3>2
  <2> HIDE DEF h
  <2> QED
    BY <2>1, Zenon
<1>2. Walk(link, c, n) = at[n]
  BY Zenon DEF Walk
<1> HIDE DEF at
<1> DEFINE Same == {k \in 0..n : at[k] = f[k]}
<1>3. 0 \in Same
  BY <1>1
<1>4. ASSUME NEW k \in 0..(n - 1), k \in Same
      PROVE  k + 1 \in Same
  <2>1. k + 1 \in 1..n /\ (k + 1) - 1 = k /\ k + 1 # 0 /\ k + 1 \in 0..n
    OBVIOUS
  <2>2. at[k + 1] = Follow(link, at[k])
    BY <1>1, <2>1
  <2> QED
    BY <1>4, <2>1, <2>2
<1>5. 0..n \subseteq Same
  <2> HIDE DEF Same
  <2> QED
    BY <1>3, <1>4, Induction, Zenon
<1>6. n \in Same
  BY <1>5
<1> QED
  BY <1>2, <1>6

-----------------------------------------------------------------------------
(* The invariant                                                           *)

USE SimcListAssumption DEF SimcListAssumption

Pointers == Cells \cup {NULL}

Lists == [next : [Cells -> Pointers], prev : [Cells -> Pointers],
          data : [Cells -> Data \cup {NULL}], mid : Pointers, numels : 0..MaxLen,
          spareels : Seq(Elements), allocated : SUBSET Elements,
          iter_active : BOOLEAN, iter_pos : Nat, iter_curentry : Pointers]

\* p names the elements of a list of n in order, between the two sentinels.
Path(p, n) ==
  /\ p \in [0..(n + 1) -> Cells]
  /\ p[0] = head_sentinel /\ p[n + 1] = tail_sentinel
  /\ \A i, j \in 0..(n + 1) : p[i] = p[j] => i = j

Inside(p, n) == {p[k] : k \in 1..n}

\* The links lead along p, both ways, and nowhere past its ends.
Chained(s, p) ==
  /\ Path(p, s.numels)
  /\ \A k \in 0..s.numels : s.next[p[k]] = p[k + 1] /\ s.prev[p[k + 1]] = p[k]
  /\ s.prev[head_sentinel] = NULL /\ s.next[tail_sentinel] = NULL

Centre(p, n) == IF n = 0 THEN NULL ELSE p[(n - 1) \div 2 + 1]

Holds(s, p) == \A k \in 1..s.numels : s.data[p[k]] \in Data

\* The elements in use are S; the others that were allocated are spare, once each.
Memory(s, S) ==
  /\ Len(s.spareels) <= SIMCLIST_MAX_SPARE_ELEMS
  /\ \A i, j \in 1..Len(s.spareels) : s.spareels[i] = s.spareels[j] => i = j
  /\ \A i \in 1..Len(s.spareels) : s.spareels[i] \notin S
  /\ s.allocated = S \cup {s.spareels[i] : i \in 1..Len(s.spareels)}

WellFormed(s, p) ==
  /\ s \in Lists
  /\ Chained(s, p)
  /\ s.mid = Centre(p, s.numels)
  /\ Holds(s, p)
  /\ Memory(s, Inside(p, s.numels))

\* An iteration is as far as what it has returned, and its element is the next.
Iterates(s, p) ==
  IF s.iter_active
  THEN /\ s.iter_pos <= s.numels /\ s.iter_curentry = p[s.iter_pos + 1]
       /\ Len(returned) = s.iter_pos
  ELSE returned = <<>>

Inv == returned \in Seq(Data) /\ \E p : WellFormed(l, p) /\ Iterates(l, p)

\* What is inside a path is neither sentinel.
LEMMA PathInside ==
  ASSUME NEW n \in Nat, NEW p, Path(p, n)
  PROVE  /\ \A k \in 1..n : p[k] \in Elements
         /\ Inside(p, n) \subseteq Elements
<1>1. ASSUME NEW k \in 1..n
      PROVE  p[k] \in Elements
  <2>1. k \in 0..(n + 1) /\ 0 \in 0..(n + 1) /\ n + 1 \in 0..(n + 1) /\ k # 0 /\ k # n + 1
    OBVIOUS
  <2>2. p[k] \in Cells /\ p[k] # head_sentinel /\ p[k] # tail_sentinel
    BY <2>1 DEF Path
  <2> QED
    BY <2>2 DEF Cells
<1> QED
  BY <1>1 DEF Inside

\* Nothing that is in memory is where NULL points.
LEMMA NullIsNoCell == NULL \notin Cells
BY DEF NULL, Cells, Elements, head_sentinel, tail_sentinel

\* Forwards and backwards from a place on the path.
LEMMA WalkNext ==
  ASSUME NEW s \in Lists, NEW p, Chained(s, p), NEW i \in 0..(s.numels + 1), NEW n \in Nat,
         i + n <= s.numels + 1
  PROVE  Walk(s.next, p[i], n) = p[i + n]
<1> DEFINE f == [k \in 0..n |-> p[i + k]]
<1>1. PICK m \in Nat : m = s.numels
  BY DEF Lists
<1>2. f[0] = p[i] /\ f[n] = p[i + n]
  OBVIOUS
<1>3. ASSUME NEW k \in 1..n
      PROVE  f[k] = Follow(s.next, f[k - 1])
  <2>1. i + (k - 1) \in 0..m /\ (i + (k - 1)) + 1 = i + k /\ k - 1 \in 0..n /\ k \in 0..n
    BY <1>1
  <2>2. p[i + (k - 1)] # NULL
    BY <1>1, <2>1, NullIsNoCell DEF Chained, Path
  <2>3. s.next[p[i + (k - 1)]] = p[i + k]
    BY <1>1, <2>1 DEF Chained
  <2> QED
    BY <2>1, <2>2, <2>3 DEF Follow
<1> HIDE DEF f
<1>4. Walk(s.next, p[i], n) = f[n]
  BY <1>2, <1>3, WalkIs
<1> QED
  BY <1>2, <1>4

LEMMA WalkPrev ==
  ASSUME NEW s \in Lists, NEW p, Chained(s, p), NEW i \in 0..(s.numels + 1), NEW n \in 0..i
  PROVE  Walk(s.prev, p[i], n) = p[i - n]
<1> DEFINE f == [k \in 0..n |-> p[i - k]]
<1>1. PICK m \in Nat : m = s.numels
  BY DEF Lists
<1>n. n \in Nat
  BY <1>1
<1>2. f[0] = p[i] /\ f[n] = p[i - n]
  BY <1>1, <1>n
<1>3. ASSUME NEW k \in 1..n
      PROVE  f[k] = Follow(s.prev, f[k - 1])
  <2>1. /\ i - k \in 0..m /\ (i - k) + 1 = i - (k - 1) /\ k - 1 \in 0..n /\ k \in 0..n
        /\ i - (k - 1) \in 0..(m + 1)
    BY <1>1, <1>n
  <2>2. p[i - (k - 1)] # NULL
    BY <1>1, <2>1, NullIsNoCell DEF Chained, Path
  <2>3. s.prev[p[i - (k - 1)]] = p[i - k]
    BY <1>1, <2>1 DEF Chained
  <2> QED
    BY <2>1, <2>2, <2>3 DEF Follow
<1> HIDE DEF f
<1>4. Walk(s.prev, p[i], n) = f[n]
  BY <1>2, <1>3, <1>n, WalkIs
<1> QED
  BY <1>2, <1>4

\* From the head sentinel: the elements are those of the path.
LEMMA WalkHead ==
  ASSUME NEW s \in Lists, NEW p, Chained(s, p), NEW n \in 0..(s.numels + 1)
  PROVE  Walk(s.next, head_sentinel, n) = p[n]
<1>1. PICK m \in Nat : m = s.numels
  BY DEF Lists
<1>2. 0 \in 0..(s.numels + 1) /\ n \in Nat /\ 0 + n <= s.numels + 1 /\ 0 + n = n
  BY <1>1
<1>3. Walk(s.next, p[0], n) = p[0 + n]
  BY <1>2, WalkNext, Zenon
<1> QED
  BY <1>2, <1>3 DEF Chained, Path

LEMMA LinkedIs ==
  ASSUME NEW s \in Lists, NEW p, Chained(s, p)
  PROVE  Linked(s) = [k \in 1..s.numels |-> p[k]]
<1>1. ASSUME NEW k \in 1..s.numels
      PROVE  Walk(s.next, head_sentinel, k) = p[k]
  <2>1. k \in 0..(s.numels + 1)
    BY DEF Lists
  <2> QED
    BY <2>1, WalkHead, Zenon
<1> QED
  BY <1>1 DEF Linked

LEMMA ItemsIs ==
  ASSUME NEW s \in Lists, NEW p, Chained(s, p)
  PROVE  Items(s) = [k \in 1..s.numels |-> s.data[p[k]]]
<1>1. Linked(s) = [k \in 1..s.numels |-> p[k]]
  BY LinkedIs
<1>2. ASSUME NEW k \in 1..s.numels
      PROVE  p[k] # NULL
  <2>1. k \in 0..(s.numels + 1)
    BY DEF Lists
  <2> QED
    BY <2>1, NullIsNoCell DEF Chained, Path
<1> QED
  BY <1>1, <1>2 DEF Items, Follow

-----------------------------------------------------------------------------
(* Finding elements                                                        *)

\* Whichever way list_findpos() takes, it ends at the element at pos.
LEMMA FindPos ==
  ASSUME NEW s \in Lists, NEW p, Chained(s, p), s.mid = Centre(p, s.numels),
         NEW pos \in -1..s.numels
  PROVE  list_findpos(s, pos) = p[pos + 1]
<1>1. PICK n \in Nat : n = s.numels
  BY DEF Lists
<1>2. p[0] = head_sentinel /\ p[n + 1] = tail_sentinel
  BY <1>1 DEF Chained, Path
<1>m. PICK middle \in Int : middle = (n - 1) \div 2
  OBVIOUS
<1> DEFINE upTo(k) == 4 * (pos + 1) <= k * n
           aFew == IF middle > pos THEN middle - pos ELSE 0
           onward == IF pos > middle THEN pos - middle ELSE 0
<1>3. list_findpos(s, pos) =
        CASE pos < -1 \/ pos > n -> NULL
          [] n > 0 /\ upTo(1) -> Walk(s.next, head_sentinel, pos + 1)
          [] n > 0 /\ ~upTo(1) /\ 2 * (pos + 1) < n -> Walk(s.prev, s.mid, aFew)
          [] n > 0 /\ 2 * (pos + 1) >= n /\ upTo(3) -> Walk(s.next, s.mid, onward)
          [] OTHER -> Walk(s.prev, tail_sentinel, n - pos)
  BY <1>1, <1>m DEF list_findpos, MidIndex
<1>4. ~(pos < -1 \/ pos > n)
  BY <1>1
<1>5. CASE n > 0 /\ upTo(1)
  <2>1. pos + 1 \in 0..(n + 1)
    BY <1>1
  <2>2. Walk(s.next, head_sentinel, pos + 1) = p[pos + 1]
    BY <1>1, <2>1, WalkHead
  <2>3. ~(2 * (pos + 1) < n /\ ~upTo(1))
    BY <1>5
  <2>4. list_findpos(s, pos) = Walk(s.next, head_sentinel, pos + 1)
    <3>1. ~(2 * (pos + 1) >= n /\ n > 0)
      BY <1>1, <1>5
    <3> HIDE DEF upTo
    <3> QED
      BY <1>3, <1>4, <1>5, <2>3, <3>1, Zenon
  <2> QED
    BY <2>2, <2>4
<1>6. CASE n > 0 /\ ~upTo(1) /\ 2 * (pos + 1) < n
  <2>1. middle >= pos /\ middle \in 0..(n - 1) /\ pos \in Int
    BY <1>1, <1>6, <1>m
  <2>2. s.mid = p[middle + 1]
    BY <1>1, <1>6, <1>m DEF Centre
  <2>3. aFew = middle - pos /\ aFew \in 0..(middle + 1) /\ middle + 1 \in 0..(n + 1)
    BY <1>4, <2>1
  <2>4. Walk(s.prev, p[middle + 1], aFew) = p[(middle + 1) - aFew]
    <3> HIDE DEF aFew
    <3> QED
      BY <1>1, <2>3, WalkPrev
  <2>5. (middle + 1) - aFew = pos + 1
    BY <2>1, <2>3
  <2>6. list_findpos(s, pos) = Walk(s.prev, s.mid, aFew)
    <3>1. ~(2 * (pos + 1) >= n)
      BY <1>1, <1>6
    <3> HIDE DEF upTo, aFew, onward
    <3> QED
      BY <1>3, <1>4, <1>6, <3>1, Zenon
  <2> QED
    BY <2>2, <2>4, <2>5, <2>6
<1>7. CASE n > 0 /\ 2 * (pos + 1) >= n /\ upTo(3)
  <2>1. middle <= pos /\ middle \in 0..(n - 1) /\ pos \in Int /\ pos <= n - 1
    BY <1>1, <1>7, <1>m
  <2>2. s.mid = p[middle + 1]
    BY <1>1, <1>7, <1>m DEF Centre
  <2>3. onward = pos - middle /\ onward \in Nat /\ middle + 1 \in 0..(n + 1)
        /\ (middle + 1) + onward <= n + 1
    BY <2>1
  <2>4. Walk(s.next, p[middle + 1], onward) = p[(middle + 1) + onward]
    <3> HIDE DEF onward
    <3> QED
      BY <1>1, <2>3, WalkNext
  <2>5. (middle + 1) + onward = pos + 1
    BY <2>1, <2>3
  <2>6. list_findpos(s, pos) = Walk(s.next, s.mid, onward)
    <3>1. ~upTo(1) /\ ~(2 * (pos + 1) < n)
      BY <1>1, <1>7
    <3> HIDE DEF upTo, aFew, onward
    <3> QED
      BY <1>3, <1>4, <1>7, <3>1, Zenon
  <2> QED
    BY <2>2, <2>4, <2>5, <2>6
<1>8. CASE ~(n > 0 /\ upTo(1)) /\ ~(n > 0 /\ ~upTo(1) /\ 2 * (pos + 1) < n)
           /\ ~(n > 0 /\ 2 * (pos + 1) >= n /\ upTo(3))
  <2>1. list_findpos(s, pos) = Walk(s.prev, tail_sentinel, n - pos)
    <3> HIDE DEF upTo, aFew, onward
    <3> QED
      BY <1>3, <1>4, <1>8, Zenon
  <2>2. n - pos \in 0..(n + 1) /\ n + 1 \in 0..(n + 1) /\ (n + 1) - (n - pos) = pos + 1
    BY <1>1
  <2>3. Walk(s.prev, p[n + 1], n - pos) = p[(n + 1) - (n - pos)]
    BY <1>1, <2>2, WalkPrev
  <2> QED
    BY <1>2, <2>1, <2>2, <2>3
<1> HIDE DEF upTo, aFew, onward
<1> QED
  BY <1>5, <1>6, <1>7, <1>8, Zenon

-----------------------------------------------------------------------------
(* Reading the list                                                        *)

\* How two data compare, whichever of the orders is asked for.
LEMMA AfterOrders ==
  ASSUME NEW versus \in {-1, 1}
  PROVE  \A x, y, z \in Nat : /\ ~After(x, x, versus)
                              /\ After(x, y, versus) => ~After(y, x, versus)
                              /\ ~After(x, y, versus) /\ ~After(y, z, versus) => ~After(x, z, versus)
<1>1. CASE versus = 1
  BY <1>1 DEF After
<1>2. CASE versus = -1
  BY <1>2 DEF After
<1> QED
  BY <1>1, <1>2

LEMMA MinMaxIs ==
  ASSUME NEW s \in Lists, NEW items \in [1..s.numels -> Data], Items(s) = items, s.numels > 0,
         NEW versus \in {-1, 1}
  PROVE  /\ list_get_minmax(s, versus) \in Range(items)
         /\ \A d \in Range(items) : ~After(d, list_get_minmax(s, versus), versus)
<1>1. PICK n \in Nat : n = s.numels /\ n > 0
  BY DEF Lists
<1>2. items \in [1..n -> Data]
  BY <1>1
<1> DEFINE cur[k \in 0..(n - 1)] ==
             IF k = 0 THEN items[1]
             ELSE IF After(items[k + 1], cur[k - 1], versus) THEN items[k + 1] ELSE cur[k - 1]
<1>3. cur = [k \in 0..(n - 1) |->
              IF k = 0 THEN items[1]
              ELSE IF After(items[k + 1], cur[k - 1], versus) THEN items[k + 1] ELSE cur[k - 1]]
  <2> DEFINE G == [k \in 1..(n - 1) |->
                    [x \in Data |-> IF After(items[k + 1], x, versus) THEN items[k + 1] ELSE x]]
  <2>1. n - 1 \in Nat /\ items[1] \in Data
    BY <1>1, <1>2
  <2>2. G \in [1..(n - 1) -> [Data -> Data]]
    <3> SUFFICES ASSUME NEW k \in 1..(n - 1)
                 PROVE  items[k + 1] \in Data
      BY Zenon
    <3>1. k + 1 \in 1..n
      BY <1>1
    <3> QED
      BY <1>2, <3>1
  <2>3. PICK g : Solves(g, n - 1, Data, items[1], G)
    <3> HIDE DEF G
    <3> QED
      BY <2>1, <2>2, Recursion, Zenon
  <2>4. g = [k \in 0..(n - 1) |->
              IF k = 0 THEN items[1]
              ELSE IF After(items[k + 1], g[k - 1], versus) THEN items[k + 1] ELSE g[k - 1]]
    <3>1. g \in [0..(n - 1) -> Data] /\ g[0] = items[1]
      BY <2>3 DEF Solves
    <3>2. ASSUME NEW k \in 0..(n - 1), k # 0
          PROVE  g[k] = IF After(items[k + 1], g[k - 1], versus) THEN items[k + 1] ELSE g[k - 1]
      <4>1. k \in 1..(n - 1) /\ k - 1 \in 0..(n - 1)
        BY <1>1, <3>2
      <4>2. g[k] = G[k][g[k - 1]] /\ g[k - 1] \in Data
        BY <2>3, <3>1, <4>1 DEF Solves, Follows
      <4> QED
        BY <4>1, <4>2
    <3> HIDE DEF G
    <3> QED
      BY <3>1, <3>2
  <2> QED
    BY <2>4, Zenon
<1>4. list_get_minmax(s, versus) = cur[n - 1]
  <2>1. s.numels # 0
    BY <1>1
  <2> QED
    BY <1>1, <2>1, Zenon DEF list_get_minmax
<1> HIDE DEF cur
<1> DEFINE Best == {k \in 0..(n - 1) :
                     /\ \E i \in 1..(k + 1) : cur[k] = items[i]
                     /\ \A i \in 1..(k + 1) : ~After(items[i], cur[k], versus)}
<1>5. \A i \in 1..n : items[i] \in Nat
  BY <1>2
<1>6. 0 \in Best
  <2>1. cur[0] = items[1] /\ ~After(items[1], items[1], versus)
    BY <1>1, <1>3, <1>5, AfterOrders
  <2> QED
    BY <1>1, <2>1
<1>7. ASSUME NEW k \in 0..((n - 1) - 1), k \in Best
      PROVE  k + 1 \in Best
  <2>1. k + 1 \in 0..(n - 1) /\ k + 1 # 0 /\ (k + 1) - 1 = k /\ (k + 1) + 1 \in 1..n
    BY <1>1
  <2>2. cur[k + 1] = IF After(items[(k + 1) + 1], cur[k], versus) THEN items[(k + 1) + 1] ELSE cur[k]
    BY <1>3, <2>1
  <2>3. PICK h \in 1..(k + 1) : cur[k] = items[h]
    BY <1>7
  <2>4. h \in 1..n /\ cur[k] \in Nat /\ cur[k + 1] \in Nat
    BY <1>5, <2>1, <2>2, <2>3
  <2>5. \E i \in 1..((k + 1) + 1) : cur[k + 1] = items[i]
    BY <2>1, <2>2, <2>3
  <2>6. ASSUME NEW i \in 1..((k + 1) + 1)
        PROVE  ~After(items[i], cur[k + 1], versus)
    <3>1. i \in 1..n /\ items[i] \in Nat /\ items[(k + 1) + 1] \in Nat
      BY <1>5, <2>1
    <3>2. CASE i = (k + 1) + 1
      BY <2>2, <2>4, <3>1, <3>2, AfterOrders
    <3>3. CASE i # (k + 1) + 1
      <4>1. ~After(items[i], cur[k], versus)
        <5>1. i \in 1..(k + 1)
          BY <3>3
        <5> QED
          BY <1>7, <5>1
      <4>2. ~After(cur[k], cur[k + 1], versus)
        BY <2>2, <2>4, <3>1, AfterOrders
      <4> QED
        BY <2>4, <3>1, <4>1, <4>2, AfterOrders
    <3> QED
      BY <3>2, <3>3
  <2> QED
    BY <2>1, <2>5, <2>6
<1>8. n - 1 \in Best
  <2>1. n - 1 \in Nat /\ n - 1 \in 0..(n - 1)
    BY <1>1
  <2>2. 0..(n - 1) \subseteq Best
    <3> HIDE DEF Best
    <3> QED
      BY <1>6, <1>7, <2>1, Induction, Zenon
  <2> QED
    BY <2>1, <2>2
<1>9. DOMAIN items = 1..n /\ (n - 1) + 1 = n
  BY <1>1, <1>2
<1> QED
  BY <1>4, <1>8, <1>9 DEF Range

-----------------------------------------------------------------------------
(* Elements and their memory                                               *)

\* As many different values as positions.
LEMMA CountDistinct ==
  ASSUME NEW n \in Nat, NEW f, \A i, j \in 1..n : f[i] = f[j] => i = j
  PROVE  IsFiniteSet({f[k] : k \in 1..n}) /\ Cardinality({f[k] : k \in 1..n}) = n
<1> DEFINE S == {f[k] : k \in 1..n}
           g == [k \in 1..n |-> f[k]]
<1>1. g \in [1..n -> S] /\ (\A a, b \in 1..n : g[a] = g[b] => a = b)
      /\ \A t \in S : \E k \in 1..n : g[k] = t
  OBVIOUS
<1>2. g \in Bijection(1..n, S)
  <2> HIDE DEF g, S
  <2> QED
    BY <1>1, Fun_IsBij, Zenon
<1>3. ExistsBijection(1..n, S)
  BY <1>2, Zenon DEF ExistsBijection
<1> HIDE DEF S
<1>4. Cardinality(S) = n
  BY <1>3, FS_CountingElements, Zenon
<1>5. IsFiniteSet(S)
  BY <1>3, FS_NatBijection, Zenon
<1> QED
  BY <1>4, <1>5 DEF S

LEMMA InsideCount ==
  ASSUME NEW n \in Nat, NEW p, Path(p, n)
  PROVE  IsFiniteSet(Inside(p, n)) /\ Cardinality(Inside(p, n)) = n
<1>1. \A i, j \in 1..n : p[i] = p[j] => i = j
  BY DEF Path
<1> QED
  BY <1>1, CountDistinct, Zenon DEF Inside

LEMMA ElementsCount == IsFiniteSet(Elements) /\ Cardinality(Elements) = MaxLen
<1>1. 1 \in Int /\ MaxLen \in Int /\ ~(1 > MaxLen) /\ MaxLen - 1 + 1 = MaxLen
  OBVIOUS
<1> QED
  BY <1>1, FS_Interval DEF Elements

\* A path that is not full leaves an element.
LEMMA NotFull ==
  ASSUME NEW n \in Nat, n < MaxLen, NEW p, Path(p, n)
  PROVE  Inside(p, n) \in SUBSET Elements /\ Inside(p, n) # Elements
<1>1. Inside(p, n) \in SUBSET Elements
  BY PathInside
<1>2. Cardinality(Inside(p, n)) = n /\ n # MaxLen
  BY InsideCount
<1> QED
  BY <1>1, <1>2, ElementsCount

LEMMA NoFuller ==
  ASSUME NEW n \in Nat, NEW p, Path(p, n)
  PROVE  n <= MaxLen
<1>1. Inside(p, n) \in SUBSET Elements
  BY PathInside
<1>2. Cardinality(Inside(p, n)) <= Cardinality(Elements)
  BY <1>1, ElementsCount, FS_Subset, Zenon
<1> QED
  BY <1>2, InsideCount, ElementsCount

\* The fields a step leaves alone.
SameLinks(s, t) == t.next = s.next /\ t.prev = s.prev /\ t.data = s.data
SameMemory(s, t) == t.spareels = s.spareels /\ t.allocated = s.allocated
SameRest(s, t) == /\ t.mid = s.mid /\ t.numels = s.numels /\ t.iter_active = s.iter_active
                  /\ t.iter_pos = s.iter_pos /\ t.iter_curentry = s.iter_curentry

LEMMA JoinIs ==
  ASSUME NEW s \in Lists, NEW a \in Cells, NEW b \in Cells
  PROVE  /\ Join(s, a, b) \in Lists
         /\ Join(s, a, b).next = [s.next EXCEPT ![a] = b]
         /\ Join(s, a, b).prev = [s.prev EXCEPT ![b] = a]
         /\ Join(s, a, b).data = s.data
         /\ SameMemory(s, Join(s, a, b)) /\ SameRest(s, Join(s, a, b))
<1>1. s.next \in [Cells -> Pointers] /\ s.prev \in [Cells -> Pointers] /\ b \in Pointers /\ a \in Pointers
  BY DEF Lists, Pointers
<1>2. [s.next EXCEPT ![a] = b] \in [Cells -> Pointers] /\ [s.prev EXCEPT ![b] = a] \in [Cells -> Pointers]
  BY <1>1
<1> QED
  BY <1>1, <1>2 DEF Join, Lists, SameMemory, SameRest

\* What Release() makes of a list.
LEMMA ReleaseIs ==
  ASSUME NEW s \in Lists, NEW e \in Elements
  PROVE  /\ Release(s, e) \in Lists
         /\ Release(s, e).next = [s.next EXCEPT ![e] = NULL]
         /\ Release(s, e).prev = [s.prev EXCEPT ![e] = NULL]
         /\ Release(s, e).data = [s.data EXCEPT ![e] = NULL]
         /\ SameRest(s, Release(s, e))
         /\ Release(s, e).spareels = IF Len(s.spareels) < SIMCLIST_MAX_SPARE_ELEMS
                                     THEN Append(s.spareels, e) ELSE s.spareels
         /\ Release(s, e).allocated = IF Len(s.spareels) < SIMCLIST_MAX_SPARE_ELEMS
                                      THEN s.allocated ELSE s.allocated \ {e}
<1>1. /\ s.next \in [Cells -> Pointers] /\ s.prev \in [Cells -> Pointers]
      /\ s.data \in [Cells -> Data \cup {NULL}] /\ e \in Cells /\ NULL \in Pointers
      /\ s.spareels \in Seq(Elements) /\ s.allocated \in SUBSET Elements
  BY DEF Lists, Pointers, Cells
<1>2. /\ [s.next EXCEPT ![e] = NULL] \in [Cells -> Pointers]
      /\ [s.prev EXCEPT ![e] = NULL] \in [Cells -> Pointers]
      /\ [s.data EXCEPT ![e] = NULL] \in [Cells -> Data \cup {NULL}]
  BY <1>1
<1>3. Append(s.spareels, e) \in Seq(Elements) /\ s.allocated \ {e} \in SUBSET Elements
  BY <1>1, AppendProperties
<1> DEFINE s1 == [s EXCEPT !.next[e] = NULL, !.prev[e] = NULL, !.data[e] = NULL]
<1>4. /\ s1 \in Lists
      /\ s1.next = [s.next EXCEPT ![e] = NULL] /\ s1.prev = [s.prev EXCEPT ![e] = NULL]
      /\ s1.data = [s.data EXCEPT ![e] = NULL]
      /\ SameRest(s, s1) /\ SameMemory(s, s1)
  BY <1>2 DEF Lists, SameRest, SameMemory
<1>5. Release(s, e) = IF Len(s.spareels) < SIMCLIST_MAX_SPARE_ELEMS
                      THEN [s1 EXCEPT !.spareels = Append(s1.spareels, e)]
                      ELSE [s1 EXCEPT !.allocated = s1.allocated \ {e}]
  BY Zenon DEF Release
<1> HIDE DEF s1
<1>6. CASE Len(s.spareels) < SIMCLIST_MAX_SPARE_ELEMS
  <2>1. Release(s, e) = [s1 EXCEPT !.spareels = Append(s.spareels, e)]
    BY <1>4, <1>5, <1>6 DEF SameMemory
  <2> QED
    BY <1>3, <1>4, <1>6, <2>1 DEF Lists, SameRest, SameMemory
<1>7. CASE ~(Len(s.spareels) < SIMCLIST_MAX_SPARE_ELEMS)
  <2>1. Release(s, e) = [s1 EXCEPT !.allocated = s.allocated \ {e}]
    BY <1>4, <1>5, <1>7 DEF SameMemory
  <2> QED
    BY <1>3, <1>4, <1>7, <2>1 DEF Lists, SameRest, SameMemory
<1> QED
  BY <1>6, <1>7

\* An element taken out of use is a spare or free.
LEMMA ReleaseMemory ==
  ASSUME NEW s \in Lists, NEW S, Memory(s, S), NEW e \in S, e \in Elements
  PROVE  Memory(Release(s, e), S \ {e})
<1>1. PICK n \in Nat : n = Len(s.spareels)
  BY LenProperties DEF Lists
<1>2. /\ n <= SIMCLIST_MAX_SPARE_ELEMS
      /\ \A i, j \in 1..n : s.spareels[i] = s.spareels[j] => i = j
      /\ \A i \in 1..n : s.spareels[i] \notin S
      /\ s.allocated = S \cup {s.spareels[i] : i \in 1..n}
  BY <1>1 DEF Memory
<1>3. PICK t : t = Release(s, e)
  OBVIOUS
<1>4. CASE Len(s.spareels) < SIMCLIST_MAX_SPARE_ELEMS
  <2>1. t.spareels = Append(s.spareels, e) /\ t.allocated = s.allocated
    BY <1>3, <1>4, ReleaseIs
  <2>2. /\ Len(t.spareels) = n + 1 /\ t.spareels[n + 1] = e
        /\ \A i \in 1..n : t.spareels[i] = s.spareels[i]
    BY <1>1, <2>1, AppendProperties DEF Lists
  <2>3. \A i \in 1..(n + 1) : i = n + 1 \/ i \in 1..n
    OBVIOUS
  <2>4. \A i, j \in 1..(n + 1) : t.spareels[i] = t.spareels[j] => i = j
    BY <1>2, <2>2, <2>3
  <2>5. \A i \in 1..(n + 1) : t.spareels[i] \notin S \ {e}
    BY <1>2, <2>2, <2>3
  <2>6. {t.spareels[i] : i \in 1..(n + 1)} = {s.spareels[i] : i \in 1..n} \cup {e}
    BY <2>2, <2>3
  <2>7. n + 1 <= SIMCLIST_MAX_SPARE_ELEMS
    BY <1>1, <1>4
  <2>8. t.allocated = (S \ {e}) \cup {t.spareels[i] : i \in 1..(n + 1)}
    BY <1>2, <2>1, <2>6
  <2>9. Memory(t, S \ {e})
    BY <2>2, <2>4, <2>5, <2>7, <2>8 DEF Memory
  <2> QED
    BY <1>3, <2>9
<1>5. CASE ~(Len(s.spareels) < SIMCLIST_MAX_SPARE_ELEMS)
  <2>1. t.spareels = s.spareels /\ t.allocated = s.allocated \ {e}
    BY <1>3, <1>5, ReleaseIs
  <2>2. s.allocated \ {e} = (S \ {e}) \cup {s.spareels[i] : i \in 1..n}
    BY <1>2
  <2>3. Memory(t, S \ {e})
    BY <1>1, <1>2, <2>1, <2>2 DEF Memory
  <2> QED
    BY <1>3, <2>3
<1> QED
  BY <1>4, <1>5

\* The element a new entry gets is not in use.
LEMMA FreshIs ==
  ASSUME NEW s \in Lists, NEW S \in SUBSET Elements, S # Elements, Memory(s, S)
  PROVE  /\ Fresh(s).e \in Elements \ S
         /\ Fresh(s).s \in Lists /\ SameLinks(s, Fresh(s).s) /\ SameRest(s, Fresh(s).s)
         /\ Memory(Fresh(s).s, S \cup {Fresh(s).e})
<1>1. PICK n \in Nat : n = Len(s.spareels)
  BY LenProperties DEF Lists
<1>2. /\ n <= SIMCLIST_MAX_SPARE_ELEMS
      /\ \A i, j \in 1..n : s.spareels[i] = s.spareels[j] => i = j
      /\ \A i \in 1..n : s.spareels[i] \notin S
      /\ s.allocated = S \cup {s.spareels[i] : i \in 1..n}
  BY <1>1 DEF Memory
<1>3. s.spareels \in Seq(Elements) /\ \A i \in 1..n : s.spareels[i] \in Elements
  BY <1>1, ElementOfSeq DEF Lists
<1>4. PICK f : f = Fresh(s)
  OBVIOUS
<1>5. CASE s.spareels # <<>>
  <2> DEFINE spare == SubSeq(s.spareels, 1, n - 1)
  <2>1. n > 0
    BY <1>1, <1>3, <1>5, EmptySeq
  <2>2. /\ spare \in Seq(Elements) /\ Len(spare) = n - 1
        /\ \A i \in 1..(n - 1) : spare[i] = s.spareels[i]
    <3>1. 1 \in Int /\ n - 1 \in Int /\ \A i \in 1..(n - 1) : s.spareels[i] \in Elements
      BY <1>3, <2>1
    <3>2. /\ spare \in Seq(Elements)
          /\ Len(spare) = IF 1 <= n - 1 THEN (n - 1) - 1 + 1 ELSE 0
          /\ \A i \in 1..((n - 1) - 1 + 1) : spare[i] = s.spareels[1 + i - 1]
      BY <3>1, SubSeqProperties
    <3> HIDE DEF spare
    <3>3. (n - 1) - 1 + 1 = n - 1 /\ \A i \in 1..(n - 1) : 1 + i - 1 = i
      OBVIOUS
    <3> QED
      BY <2>1, <3>2, <3>3
  <2>3. f.s = [s EXCEPT !.spareels = spare] /\ f.e = s.spareels[n]
    BY <1>1, <1>4, <1>5 DEF Fresh, Front, Last
  <2> HIDE DEF spare
  <2>4. f.e \in Elements \ S
    BY <1>2, <1>3, <2>1, <2>3
  <2>5. f.s \in Lists /\ SameLinks(s, f.s) /\ SameRest(s, f.s)
    BY <2>2, <2>3 DEF Lists, SameLinks, SameRest
  <2>6. f.s.spareels = spare /\ f.s.allocated = s.allocated
    BY <2>3 DEF Lists
  <2>7. {s.spareels[i] : i \in 1..n} = {spare[i] : i \in 1..(n - 1)} \cup {f.e}
    <3>1. \A i \in 1..n : i = n \/ i \in 1..(n - 1)
      OBVIOUS
    <3>2. \A i \in 1..(n - 1) : i \in 1..n
      OBVIOUS
    <3> QED
      BY <2>1, <2>2, <2>3, <3>1, <3>2
  <2>8. \A i \in 1..(n - 1) : spare[i] \notin S \cup {f.e}
    <3>1. \A i \in 1..(n - 1) : i \in 1..n /\ n \in 1..n /\ i # n
      BY <2>1
    <3> QED
      BY <1>2, <2>2, <2>3, <3>1
  <2>9. \A i, j \in 1..(n - 1) : spare[i] = spare[j] => i = j
    BY <1>2, <2>2
  <2>10. n - 1 <= SIMCLIST_MAX_SPARE_ELEMS
    BY <1>2
  <2>11. f.s.allocated = (S \cup {f.e}) \cup {spare[i] : i \in 1..(n - 1)}
    BY <1>2, <2>6, <2>7
  <2>12. Memory(f.s, S \cup {f.e})
    BY <2>2, <2>6, <2>8, <2>9, <2>10, <2>11 DEF Memory
  <2> QED
    BY <1>4, <2>4, <2>5, <2>12
<1>6. CASE s.spareels = <<>>
  <2>1. n = 0
    BY <1>1, <1>6, EmptySeq
  <2>2. s.allocated = S
    BY <1>2, <2>1
  <2>3. Min(Elements \ S) \in Elements \ S
    <3>1. Elements \ S \in SUBSET (1..MaxLen) /\ Elements \ S # {}
      BY DEF Elements
    <3>2. \E i \in Elements \ S : \A j \in Elements \ S : i <= j
      BY <3>1, SmallestOf
    <3> QED
      BY <3>2 DEF Min
  <2>4. f.e = Min(Elements \ S) /\ f.s = [s EXCEPT !.allocated = S \cup {f.e}]
    BY <1>4, <1>6, <2>2 DEF Fresh
  <2>5. S \cup {f.e} \in SUBSET Elements
    BY <2>3, <2>4
  <2>6. f.s \in Lists /\ SameLinks(s, f.s) /\ SameRest(s, f.s)
    BY <2>4, <2>5 DEF Lists, SameLinks, SameRest
  <2>7. f.s.spareels = s.spareels /\ f.s.allocated = S \cup {f.e}
    BY <2>4 DEF Lists
  <2>8. Memory(f.s, S \cup {f.e})
    <3>1. Len(f.s.spareels) = 0
      BY <1>1, <2>1, <2>7
    <3>2. 1..0 = {} /\ 0 <= SIMCLIST_MAX_SPARE_ELEMS
      OBVIOUS
    <3>3. f.s.allocated = (S \cup {f.e}) \cup {f.s.spareels[i] : i \in 1..0}
      BY <2>7, <3>2
    <3> QED
      BY <3>1, <3>2, <3>3 DEF Memory
  <2> QED
    BY <1>4, <2>3, <2>4, <2>6, <2>8
<1> QED
  BY <1>5, <1>6

\* r is what is left of s when the first n of gone were taken out of use.
Released(s, r, S, gone, n) ==
  /\ r \in Lists /\ SameRest(s, r)
  /\ \A c \in Cells : (\A k \in 1..n : gone[k] # c) =>
       r.next[c] = s.next[c] /\ r.prev[c] = s.prev[c] /\ r.data[c] = s.data[c]
  /\ Memory(r, S \ {gone[k] : k \in 1..n})

LEMMA ReleaseAllIs ==
  ASSUME NEW s \in Lists, NEW S, Memory(s, S), NEW n \in Nat, NEW gone \in [1..n -> Elements],
         \A k \in 1..n : gone[k] \in S, \A i, j \in 1..n : gone[i] = gone[j] => i = j
  PROVE  Released(s, ReleaseAll(s, gone), S, gone, n)
<1>1. gone \in Seq(Elements) /\ Len(gone) = n
  BY SeqDef, LenProperties
<1> DEFINE released[k \in 0..n] == IF k = 0 THEN s ELSE Release(released[k - 1], gone[k])
<1>2. released = [k \in 0..n |-> IF k = 0 THEN s ELSE Release(released[k - 1], gone[k])]
  <2> DEFINE G == [k \in 1..n |-> [x \in Lists |-> Release(x, gone[k])]]
  <2>1. G \in [1..n -> [Lists -> Lists]]
    <3> SUFFICES ASSUME NEW k \in 1..n, NEW x \in Lists
                 PROVE  Release(x, gone[k]) \in Lists
      BY Zenon
    <3>1. gone[k] \in Elements
      OBVIOUS
    <3> QED
      BY <3>1, ReleaseIs
  <2>2. PICK g : Solves(g, n, Lists, s, G)
    <3> HIDE DEF G
    <3> QED
      BY <2>1, Recursion, Zenon
  <2>3. g = [k \in 0..n |-> IF k = 0 THEN s ELSE Release(g[k - 1], gone[k])]
    <3>1. g \in [0..n -> Lists] /\ g[0] = s
      BY <2>2 DEF Solves
    <3>2. ASSUME NEW k \in 0..n, k # 0
          PROVE  g[k] = Release(g[k - 1], gone[k])
      <4>1. k \in 1..n /\ k - 1 \in 0..n
        BY <3>2
      <4>2. g[k] = G[k][g[k - 1]] /\ g[k - 1] \in Lists
        BY <2>2, <3>1, <4>1 DEF Solves, Follows
      <4> QED
        BY <4>1, <4>2
    <3> HIDE DEF G
    <3> QED
      BY <3>1, <3>2
  <2> QED
    BY <2>3, Zenon
<1>3. ReleaseAll(s, gone) = released[n]
  BY <1>1, Zenon DEF ReleaseAll
<1> HIDE DEF released
<1> DEFINE Good == {k \in 0..n : Released(s, released[k], S, gone, k)}
<1>4. 0 \in Good
  <2>1. released[0] = s /\ 1..0 = {}
    BY <1>2
  <2>2. S \ {gone[k] : k \in 1..0} = S
    BY <2>1
  <2>3. Released(s, s, S, gone, 0)
    BY <2>2 DEF Released, SameRest
  <2> QED
    BY <2>1, <2>3
<1>5. ASSUME NEW k \in 0..(n - 1), k \in Good
      PROVE  k + 1 \in Good
  <2>1. k + 1 \in 0..n /\ k + 1 \in 1..n /\ k + 1 # 0 /\ (k + 1) - 1 = k /\ k \in 0..n
    OBVIOUS
  <2>2. PICK r : r = released[k]
    OBVIOUS
  <2>3. PICK e \in Elements : e = gone[k + 1]
    BY <2>1
  <2>4. PICK t : t = Release(r, e)
    OBVIOUS
  <2>5. released[k + 1] = t
    BY <1>2, <2>1, <2>2, <2>3, <2>4
  <2>6. Released(s, r, S, gone, k)
    BY <1>5, <2>2
  <2>7. r \in Lists /\ SameRest(s, r) /\ Memory(r, S \ {gone[i] : i \in 1..k})
    BY <2>6 DEF Released
  <2>8. \A i \in 1..k : i \in 1..n /\ i # k + 1
    BY <2>1
  <2>9. e \in S \ {gone[i] : i \in 1..k}
    BY <2>1, <2>3, <2>8
  <2>10. Memory(t, (S \ {gone[i] : i \in 1..k}) \ {e})
    BY <2>4, <2>7, <2>9, ReleaseMemory
  <2>11. (S \ {gone[i] : i \in 1..k}) \ {e} = S \ {gone[i] : i \in 1..(k + 1)}
    <3>1. \A i \in 1..(k + 1) : i = k + 1 \/ i \in 1..k
      BY <2>1
    <3>2. \A i \in 1..k : i \in 1..(k + 1)
      BY <2>1
    <3>3. k + 1 \in 1..(k + 1)
      BY <2>1
    <3> QED
      BY <2>3, <3>1, <3>2, <3>3
  <2>12. /\ t \in Lists /\ SameRest(r, t)
         /\ t.next = [r.next EXCEPT ![e] = NULL] /\ t.prev = [r.prev EXCEPT ![e] = NULL]
         /\ t.data = [r.data EXCEPT ![e] = NULL]
    BY <2>4, <2>7, ReleaseIs
  <2>13. SameRest(s, t)
    BY <2>7, <2>12 DEF SameRest
  <2>14. ASSUME NEW c \in Cells, \A i \in 1..(k + 1) : gone[i] # c
         PROVE  t.next[c] = s.next[c] /\ t.prev[c] = s.prev[c] /\ t.data[c] = s.data[c]
    <3>1. c # e /\ \A i \in 1..k : gone[i] # c
      <4>1. k + 1 \in 1..(k + 1) /\ \A i \in 1..k : i \in 1..(k + 1)
        BY <2>1
      <4> QED
        BY <2>3, <2>14, <4>1
    <3>2. r.next[c] = s.next[c] /\ r.prev[c] = s.prev[c] /\ r.data[c] = s.data[c]
      BY <2>6, <3>1 DEF Released
    <3>3. /\ r.next \in [Cells -> Pointers] /\ r.prev \in [Cells -> Pointers]
          /\ r.data \in [Cells -> Data \cup {NULL}]
      BY <2>7 DEF Lists
    <3> QED
      BY <2>12, <3>1, <3>2, <3>3
  <2>15. Released(s, t, S, gone, k + 1)
    BY <2>10, <2>11, <2>12, <2>13, <2>14 DEF Released
  <2> QED
    BY <2>1, <2>5, <2>15
<1>6. 0..n \subseteq Good
  <2> HIDE DEF Good
  <2> QED
    BY <1>4, <1>5, Induction, Zenon
<1>7. n \in Good
  BY <1>6
<1> QED
  BY <1>3, <1>7

-----------------------------------------------------------------------------
(* An element more                                                         *)

\* The path with e in the place after pos.
With(p, n, e, pos) ==
  [k \in 0..(n + 2) |-> IF k <= pos THEN p[k] ELSE IF k = pos + 1 THEN e ELSE p[k - 1]]

LEMMA WithPath ==
  ASSUME NEW n \in Nat, NEW p, Path(p, n), NEW pos \in 0..n, NEW e \in Elements, e \notin Inside(p, n)
  PROVE  /\ Path(With(p, n, e, pos), n + 1)
         /\ Inside(With(p, n, e, pos), n + 1) = Inside(p, n) \cup {e}
         /\ \A k \in 0..(n + 1) : p[k] # e
<1> DEFINE q == With(p, n, e, pos)
<1>1. /\ p \in [0..(n + 1) -> Cells] /\ p[0] = head_sentinel /\ p[n + 1] = tail_sentinel
      /\ \A i, j \in 0..(n + 1) : p[i] = p[j] => i = j
  BY DEF Path
<1>2. e \in Cells /\ e # head_sentinel /\ e # tail_sentinel
  BY DEF Cells, Elements, head_sentinel, tail_sentinel
<1>3. \A k \in 0..(n + 1) : p[k] # e
  <2> SUFFICES ASSUME NEW k \in 0..(n + 1), p[k] = e
               PROVE  FALSE
    OBVIOUS
  <2>1. k \in 1..n
    BY <1>1, <1>2
  <2> QED
    BY <2>1 DEF Inside
<1>4. /\ \A k \in 0..pos : q[k] = p[k]
      /\ q[pos + 1] = e
      /\ \A k \in (pos + 1)..(n + 1) : q[k + 1] = p[k]
  BY DEF With
<1>5. q \in [0..(n + 2) -> Cells]
  <2>1. \A k \in 0..(n + 2) : k <= pos => k \in 0..(n + 1)
    OBVIOUS
  <2>2. \A k \in 0..(n + 2) : ~(k <= pos) /\ k # pos + 1 => k - 1 \in 0..(n + 1)
    OBVIOUS
  <2> QED
    BY <1>1, <1>2, <2>1, <2>2 DEF With
<1> HIDE DEF q
<1>6. \A k \in 0..(n + 2) : k \in 0..pos \/ k = pos + 1 \/ (k - 1 \in (pos + 1)..(n + 1) /\ (k - 1) + 1 = k)
  OBVIOUS
<1>7. ASSUME NEW i \in 0..(n + 2), NEW j \in 0..(n + 2), q[i] = q[j]
      PROVE  i = j
  <2>1. CASE i \in 0..pos
    <3>1. q[i] = p[i] /\ i \in 0..(n + 1)
      BY <1>4, <2>1
    <3>2. CASE j \in 0..pos
      <4>1. q[j] = p[j] /\ j \in 0..(n + 1)
        BY <1>4, <3>2
      <4>2. p[i] = p[j]
        BY <1>7, <3>1, <4>1
      <4> QED
        BY <1>1, <3>1, <4>1, <4>2
    <3>3. CASE j = pos + 1
      BY <1>3, <1>4, <1>7, <3>1, <3>3
    <3>4. CASE j - 1 \in (pos + 1)..(n + 1) /\ (j - 1) + 1 = j
      <4>1. q[j] = p[j - 1] /\ j - 1 \in 0..(n + 1)
        BY <1>4, <3>4
      <4>2. p[i] = p[j - 1]
        BY <1>7, <3>1, <4>1
      <4>3. i = j - 1
        BY <1>1, <3>1, <4>1, <4>2
      <4> QED
        BY <2>1, <3>4, <4>3
    <3> QED
      BY <1>6, <3>2, <3>3, <3>4
  <2>2. CASE i = pos + 1
    <3>1. CASE j \in 0..pos
      BY <1>3, <1>4, <1>7, <2>2, <3>1
    <3>2. CASE j - 1 \in (pos + 1)..(n + 1) /\ (j - 1) + 1 = j
      <4>1. q[j] = p[j - 1] /\ j - 1 \in 0..(n + 1)
        BY <1>4, <3>2
      <4> QED
        BY <1>3, <1>4, <1>7, <2>2, <4>1
    <3> QED
      BY <1>6, <2>2, <3>1, <3>2
  <2>3. CASE i - 1 \in (pos + 1)..(n + 1) /\ (i - 1) + 1 = i
    <3>1. q[i] = p[i - 1] /\ i - 1 \in 0..(n + 1)
      BY <1>4, <2>3
    <3>2. CASE j \in 0..pos
      <4>1. q[j] = p[j] /\ j \in 0..(n + 1)
        BY <1>4, <3>2
      <4>2. p[i - 1] = p[j]
        BY <1>7, <3>1, <4>1
      <4>3. i - 1 = j
        BY <1>1, <3>1, <4>1, <4>2
      <4> QED
        BY <2>3, <3>2, <4>3
    <3>3. CASE j = pos + 1
      BY <1>3, <1>4, <1>7, <3>1, <3>3
    <3>4. CASE j - 1 \in (pos + 1)..(n + 1) /\ (j - 1) + 1 = j
      <4>1. q[j] = p[j - 1] /\ j - 1 \in 0..(n + 1)
        BY <1>4, <3>4
      <4>2. i - 1 = j - 1
        BY <1>1, <1>7, <3>1, <4>1
      <4> QED
        BY <2>3, <3>4, <4>2
    <3> QED
      BY <1>6, <3>2, <3>3, <3>4
  <2> QED
    BY <1>6, <2>1, <2>2, <2>3
<1>8. q[0] = head_sentinel /\ q[n + 2] = tail_sentinel
  <2>1. 0 \in 0..pos /\ n + 1 \in (pos + 1)..(n + 1) /\ (n + 1) + 1 = n + 2
    OBVIOUS
  <2> QED
    BY <1>1, <1>4, <2>1
<1>9. Path(q, n + 1)
  <2>1. (n + 1) + 1 = n + 2
    OBVIOUS
  <2> QED
    BY <1>5, <1>7, <1>8, <2>1 DEF Path
<1>10. Inside(q, n + 1) = Inside(p, n) \cup {e}
  <2>1. ASSUME NEW k \in 1..(n + 1)
        PROVE  q[k] \in Inside(p, n) \cup {e}
    <3>1. CASE k \in 0..pos
      <4>1. k \in 1..n
        BY <3>1
      <4> QED
        BY <1>4, <3>1, <4>1 DEF Inside
    <3>2. CASE k = pos + 1
      BY <1>4, <3>2
    <3>3. CASE k - 1 \in (pos + 1)..(n + 1) /\ (k - 1) + 1 = k
      <4>1. k - 1 \in 1..n /\ q[k] = p[k - 1]
        BY <1>4, <3>3
      <4> QED
        BY <4>1 DEF Inside
    <3>4. k \in 0..(n + 2)
      OBVIOUS
    <3> QED
      BY <1>6, <3>1, <3>2, <3>3, <3>4
  <2>2. ASSUME NEW k \in 1..n
        PROVE  \E i \in 1..(n + 1) : q[i] = p[k]
    <3>1. CASE k <= pos
      <4>1. k \in 0..pos /\ k \in 1..(n + 1)
        BY <3>1
      <4> QED
        BY <1>4, <4>1
    <3>2. CASE ~(k <= pos)
      <4>1. k \in (pos + 1)..(n + 1) /\ k + 1 \in 1..(n + 1)
        BY <3>2
      <4> QED
        BY <1>4, <4>1
    <3> QED
      BY <3>1, <3>2
  <2>3. pos + 1 \in 1..(n + 1)
    OBVIOUS
  <2>4. \A x \in Inside(p, n) \cup {e} : \E i \in 1..(n + 1) : x = q[i]
    BY <1>4, <2>2, <2>3 DEF Inside
  <2>5. \A x \in Inside(q, n + 1) : \E i \in 1..(n + 1) : x = q[i]
    BY DEF Inside
  <2>6. \A i \in 1..(n + 1) : q[i] \in Inside(q, n + 1)
    BY DEF Inside
  <2> QED
    BY <2>1, <2>4, <2>5, <2>6
<1> QED
  BY <1>3, <1>9, <1>10 DEF q

SameIter(s, t) == /\ t.iter_active = s.iter_active /\ t.iter_pos = s.iter_pos
                  /\ t.iter_curentry = s.iter_curentry

\* t is s with d after its first pos data.
InsertedAs(s, p, t, q, d, pos) ==
  /\ WellFormed(t, q) /\ SameIter(s, t) /\ t.numels = s.numels + 1
  /\ \A k \in 1..t.numels :
       t.data[q[k]] = IF k <= pos THEN s.data[p[k]]
                      ELSE IF k = pos + 1 THEN d ELSE s.data[p[k - 1]]

\* The middle of the longer path.
LEMMA CentreWith ==
  ASSUME NEW n \in Nat, NEW p, Path(p, n), NEW pos \in 0..n, NEW e \in Elements,
         e \notin Inside(p, n), NEW t, t.numels = n + 1, t.mid = Centre(p, n),
         \A k \in 0..(n + 1) : /\ t.next[With(p, n, e, pos)[k]] = With(p, n, e, pos)[k + 1]
                               /\ t.prev[With(p, n, e, pos)[k + 1]] = With(p, n, e, pos)[k]
  PROVE  MidAfterInsert(t, e, pos) = Centre(With(p, n, e, pos), n + 1)
<1> DEFINE q == With(p, n, e, pos)
<1>1. /\ \A k \in 0..pos : q[k] = p[k]
      /\ q[pos + 1] = e
      /\ \A k \in (pos + 1)..(n + 1) : q[k + 1] = p[k]
  BY DEF With
<1>2. \A k \in 0..(n + 1) : t.next[q[k]] = q[k + 1] /\ t.prev[q[k + 1]] = q[k]
  OBVIOUS
<1>3. \A k \in 0..(n + 2) : q[k] \in Cells /\ q[k] # NULL
  <2>1. Path(q, n + 1) /\ (n + 1) + 1 = n + 2
    BY WithPath
  <2> QED
    BY <2>1, NullIsNoCell DEF Path
<1> HIDE DEF q
<1>4. Centre(q, n + 1) = q[n \div 2 + 1]
  <2>1. n + 1 # 0 /\ (n + 1) - 1 = n
    OBVIOUS
  <2> QED
    BY <2>1 DEF Centre
<1>m. PICK m \in Nat : m = n \div 2
  OBVIOUS
<1>5. CASE n = 0
  <2>1. pos = 0 /\ n \div 2 = 0
    BY <1>5
  <2>2. MidAfterInsert(t, e, pos) = e
    BY <1>5 DEF MidAfterInsert
  <2>3. n \div 2 + 1 = pos + 1
    BY <2>1
  <2> QED
    BY <1>1, <1>4, <2>2, <2>3 DEF q
<1> DEFINE odd == (n + 1) % 2 = 1
<1>6. ASSUME n # 0
      PROVE  MidAfterInsert(t, e, pos) =
               CASE odd /\ pos >= m -> Follow(t.next, t.mid)
                 [] ~odd /\ pos <= m -> Follow(t.prev, t.mid)
                 [] OTHER -> t.mid
  <2>1. (n + 1) - 1 = n /\ n + 1 > 1 /\ ~(n + 1 = 1)
    BY <1>6
  <2> HIDE DEF odd
  <2>2. MidAfterInsert(t, e, pos) =
          CASE n + 1 = 1 -> e
            [] n + 1 > 1 /\ odd /\ pos >= m -> Follow(t.next, t.mid)
            [] n + 1 > 1 /\ ~odd /\ pos <= m -> Follow(t.prev, t.mid)
            [] OTHER -> t.mid
    BY <1>m, <2>1 DEF MidAfterInsert, odd
  <2> QED
    BY <2>1, <2>2
<1>7. ASSUME n # 0, odd
      PROVE  MidAfterInsert(t, e, pos) = q[m + 1]
  <2>1. n = 2 * m /\ m > 0 /\ (n - 1) \div 2 + 1 = m
    BY <1>7, <1>m
  <2>2. t.mid = p[m]
    BY <1>7, <2>1 DEF Centre
  <2>3. CASE pos >= m
    <3>1. m \in 0..pos /\ m \in 0..(n + 1) /\ m \in 0..(n + 2)
      BY <2>1, <2>3
    <3>2. t.mid = q[m]
      BY <1>1, <2>2, <3>1
    <3>3. Follow(t.next, t.mid) = q[m + 1]
      BY <1>2, <1>3, <3>1, <3>2 DEF Follow
    <3> QED
      BY <1>6, <1>7, <2>3, <3>3
  <2>4. CASE ~(pos >= m)
    <3>1. m \in (pos + 1)..(n + 1)
      BY <2>1, <2>4
    <3> QED
      BY <1>1, <1>6, <1>7, <2>2, <2>4, <3>1
  <2> QED
    BY <2>3, <2>4
<1>8. ASSUME n # 0, ~odd
      PROVE  MidAfterInsert(t, e, pos) = q[m + 1]
  <2>1. n = 2 * m + 1 /\ (n - 1) \div 2 + 1 = m + 1
    BY <1>8, <1>m
  <2>2. t.mid = p[m + 1]
    BY <1>8, <2>1 DEF Centre
  <2>3. CASE pos <= m
    <3>1. m + 1 \in (pos + 1)..(n + 1) /\ m + 1 \in 0..(n + 1) /\ (m + 1) + 1 \in 0..(n + 2)
      BY <2>1, <2>3
    <3>2. t.mid = q[(m + 1) + 1]
      BY <1>1, <2>2, <3>1
    <3>3. Follow(t.prev, t.mid) = q[m + 1]
      BY <1>2, <1>3, <3>1, <3>2 DEF Follow
    <3> QED
      BY <1>6, <1>8, <2>3, <3>3
  <2>4. CASE ~(pos <= m)
    <3>1. m + 1 \in 0..pos
      BY <2>1, <2>4
    <3> QED
      BY <1>1, <1>6, <1>8, <2>2, <2>4, <3>1
  <2> QED
    BY <2>3, <2>4
<1> HIDE DEF odd
<1> QED
  BY <1>4, <1>5, <1>7, <1>8, <1>m DEF q

\* list_insert_at()
LEMMA InsertIs ==
  ASSUME NEW s, NEW p, WellFormed(s, p), s.numels < MaxLen, NEW pos \in 0..s.numels, NEW d \in Data
  PROVE  \E q : InsertedAs(s, p, list_insert_at(s, d, pos), q, d, pos)
<1>1. /\ s \in Lists /\ Chained(s, p) /\ s.mid = Centre(p, s.numels)
      /\ Holds(s, p) /\ Memory(s, Inside(p, s.numels))
  BY DEF WellFormed
<1>2. PICK n \in Nat : n = s.numels /\ n < MaxLen
  BY <1>1 DEF Lists
<1>3. Path(p, n)
  BY <1>1, <1>2 DEF Chained
<1>4. PICK S \in SUBSET Elements : S = Inside(p, n) /\ S # Elements
  BY <1>2, <1>3, NotFull
<1>m. Memory(s, S)
  BY <1>1, <1>2, <1>4
<1>r. PICK r : r = Fresh(s).s
  OBVIOUS
<1>5. PICK e \in Elements : e = Fresh(s).e /\ e \notin S
  BY <1>1, <1>4, <1>m, FreshIs
<1>6. r \in Lists /\ SameLinks(s, r) /\ SameRest(s, r) /\ Memory(r, S \cup {e})
  BY <1>1, <1>4, <1>5, <1>m, <1>r, FreshIs
<1>7. Chained(r, p) /\ r.mid = Centre(p, n) /\ r.numels = n
  BY <1>1, <1>2, <1>6 DEF Chained, SameLinks, SameRest
<1>8. PICK prec \in Cells, succ \in Cells : prec = p[pos] /\ succ = p[pos + 1]
  <2>1. pos \in 0..(n + 1) /\ pos + 1 \in 0..(n + 1)
    BY <1>2
  <2> QED
    BY <1>3, <2>1 DEF Path
<1>9. list_findpos(r, pos - 1) = prec /\ Follow(r.next, prec) = succ
  <2>1. pos - 1 \in -1..r.numels /\ (pos - 1) + 1 = pos /\ pos \in 0..r.numels
    BY <1>2, <1>7
  <2>2. list_findpos(r, pos - 1) = p[pos]
    BY <1>6, <1>7, <2>1, FindPos
  <2>3. r.next[p[pos]] = p[pos + 1]
    BY <1>7, <2>1 DEF Chained
  <2> QED
    BY <1>8, <2>2, <2>3, NullIsNoCell DEF Follow
<1>10. PICK j1 : j1 = Join(r, prec, e)
  OBVIOUS
<1>11. PICK j2 : j2 = Join(j1, e, succ)
  OBVIOUS
<1>12. e \in Cells
  BY DEF Cells
<1>13. /\ j1 \in Lists /\ j1.next = [r.next EXCEPT ![prec] = e]
       /\ j1.prev = [r.prev EXCEPT ![e] = prec] /\ j1.data = r.data
       /\ SameMemory(r, j1) /\ SameRest(r, j1)
  BY <1>6, <1>8, <1>10, <1>12, JoinIs
<1>14. /\ j2 \in Lists /\ j2.next = [j1.next EXCEPT ![e] = succ]
       /\ j2.prev = [j1.prev EXCEPT ![succ] = e] /\ j2.data = j1.data
       /\ SameMemory(j1, j2) /\ SameRest(j1, j2)
  <2>1. j1 \in Lists
    BY <1>13
  <2> QED
    BY <1>8, <1>11, <1>12, <2>1, JoinIs
<1>15. PICK u : u = [j2 EXCEPT !.data[e] = d, !.numels = j2.numels + 1]
  OBVIOUS
<1>16. PICK t : t = [u EXCEPT !.mid = MidAfterInsert(u, e, pos)]
  OBVIOUS
<1>17. list_insert_at(s, d, pos) = t
  BY <1>5, <1>9, <1>r, <1>10, <1>11, <1>15, <1>16, Zenon DEF list_insert_at
<1>18. j2.numels = n /\ j2.numels + 1 \in 0..MaxLen /\ [j2.data EXCEPT ![e] = d] \in [Cells -> Data \cup {NULL}]
  BY <1>2, <1>7, <1>12, <1>13, <1>14 DEF SameRest, Lists
<1>19. /\ u \in Lists /\ u.next = j2.next /\ u.prev = j2.prev /\ u.data = [j2.data EXCEPT ![e] = d]
       /\ u.mid = j2.mid /\ u.numels = n + 1 /\ SameIter(j2, u) /\ SameMemory(j2, u)
  BY <1>14, <1>15, <1>18 DEF Lists, SameIter, SameMemory
<1> DEFINE q == With(p, n, e, pos)
<1>20. /\ Path(q, n + 1) /\ Inside(q, n + 1) = S \cup {e} /\ \A k \in 0..(n + 1) : p[k] # e
  BY <1>3, <1>4, <1>2, <1>5, WithPath
<1>21. /\ \A k \in 0..pos : q[k] = p[k]
       /\ q[pos + 1] = e
       /\ \A k \in (pos + 1)..(n + 1) : q[k + 1] = p[k]
  BY <1>2 DEF With
<1>22. /\ s.next \in [Cells -> Pointers] /\ s.prev \in [Cells -> Pointers]
       /\ \A k \in 0..(n + 1) : p[k] \in Cells
       /\ \A i, j \in 0..(n + 1) : p[i] = p[j] => i = j
       /\ p[0] = head_sentinel /\ p[n + 1] = tail_sentinel
       /\ \A k \in 0..n : s.next[p[k]] = p[k + 1] /\ s.prev[p[k + 1]] = p[k]
       /\ s.prev[head_sentinel] = NULL /\ s.next[tail_sentinel] = NULL
  BY <1>1, <1>2, <1>3 DEF Lists, Chained, Path
<1>23. \A c \in Cells : /\ u.next[c] = IF c = e THEN succ ELSE IF c = prec THEN e ELSE s.next[c]
                        /\ u.prev[c] = IF c = succ THEN e ELSE IF c = e THEN prec ELSE s.prev[c]
                        /\ u.data[c] = IF c = e THEN d ELSE s.data[c]
  <2>1. /\ u.next = [[s.next EXCEPT ![prec] = e] EXCEPT ![e] = succ]
        /\ u.prev = [[s.prev EXCEPT ![e] = prec] EXCEPT ![succ] = e]
        /\ u.data = [s.data EXCEPT ![e] = d]
    BY <1>6, <1>13, <1>14, <1>19 DEF SameLinks
  <2>2. /\ DOMAIN s.next = Cells /\ DOMAIN s.prev = Cells /\ DOMAIN s.data = Cells
    BY <1>1 DEF Lists
  <2> QED
    BY <2>1, <2>2
<1> HIDE DEF q
<1>24. ASSUME NEW k \in 0..(n + 1)
       PROVE  u.next[q[k]] = q[k + 1] /\ u.prev[q[k + 1]] = q[k]
  <2>0. pos \in Nat /\ pos <= n /\ pos \in 0..(n + 1) /\ pos + 1 \in 0..(n + 1)
    BY <1>2
  <2>1. CASE k < pos
    <3>1. /\ k \in 0..n /\ k \in 0..pos /\ k + 1 \in 0..pos /\ k \in 0..(n + 1) /\ k + 1 \in 0..(n + 1)
          /\ k # pos /\ k + 1 # pos + 1
      BY <2>0, <2>1
    <3>2. q[k] = p[k] /\ q[k + 1] = p[k + 1]
      BY <1>21, <3>1
    <3>3. p[k] # prec /\ p[k] # e /\ p[k + 1] # e /\ p[k + 1] # succ
      BY <1>8, <1>20, <1>22, <2>0, <3>1
    <3>4. u.next[p[k]] = s.next[p[k]] /\ u.prev[p[k + 1]] = s.prev[p[k + 1]]
      BY <1>22, <1>23, <3>1, <3>3
    <3> QED
      BY <1>22, <3>1, <3>2, <3>4
  <2>2. CASE k = pos
    <3>1. q[k] = prec /\ q[k + 1] = e
      <4>1. pos \in 0..pos
        BY <2>0
      <4> QED
        BY <1>8, <1>21, <2>2, <4>1
    <3>2. prec # e /\ succ # e
      BY <1>8, <1>20, <2>0
    <3> QED
      BY <1>12, <1>23, <3>1, <3>2
  <2>3. CASE k = pos + 1
    <3>1. q[k] = e /\ q[k + 1] = succ
      <4>1. pos + 1 \in (pos + 1)..(n + 1)
        BY <2>0
      <4> QED
        BY <1>8, <1>21, <2>3, <4>1
    <3> QED
      BY <1>12, <1>23, <3>1
  <2>4. CASE k > pos + 1
    <3>1. /\ k - 1 \in 0..n /\ k - 1 \in (pos + 1)..(n + 1) /\ k \in (pos + 1)..(n + 1)
          /\ k - 1 \in 0..(n + 1) /\ (k - 1) + 1 = k /\ k - 1 # pos /\ k # pos + 1
      BY <2>0, <2>4
    <3>2. q[k] = p[k - 1] /\ q[k + 1] = p[k]
      BY <1>21, <3>1
    <3>3. p[k - 1] # prec /\ p[k - 1] # e /\ p[k] # e /\ p[k] # succ
      BY <1>8, <1>20, <1>22, <2>0, <3>1
    <3>4. u.next[p[k - 1]] = s.next[p[k - 1]] /\ u.prev[p[k]] = s.prev[p[k]]
      BY <1>22, <1>23, <3>1, <3>3
    <3>5. s.next[p[k - 1]] = p[k] /\ s.prev[p[k]] = p[k - 1]
      BY <1>22, <3>1
    <3> QED
      BY <3>2, <3>4, <3>5
  <2> QED
    BY <2>0, <2>1, <2>2, <2>3, <2>4
<1>25. u.prev[head_sentinel] = NULL /\ u.next[tail_sentinel] = NULL
  <2>1. 0 \in 0..(n + 1) /\ n + 1 \in 0..(n + 1) /\ pos \in 0..(n + 1) /\ pos + 1 \in 0..(n + 1)
        /\ pos # n + 1 /\ pos + 1 # 0
    BY <1>2
  <2>2. p[0] # e /\ p[n + 1] # e /\ p[0] # succ /\ p[n + 1] # prec
    BY <1>8, <1>20, <1>22, <2>1
  <2>3. head_sentinel \in Cells /\ tail_sentinel \in Cells
    BY DEF Cells
  <2> QED
    BY <1>22, <1>23, <2>2, <2>3
<1>26. MidAfterInsert(u, e, pos) = Centre(q, n + 1)
  <2>1. u.numels = n + 1 /\ u.mid = Centre(p, n)
    BY <1>7, <1>13, <1>14, <1>19 DEF SameRest
  <2>2. pos \in 0..n /\ e \notin Inside(p, n)
    BY <1>2, <1>4, <1>5
  <2> QED
    BY <1>3, <1>24, <2>1, <2>2, CentreWith DEF q
<1>27. Centre(q, n + 1) \in Pointers
  <2>1. (n + 1) - 1 = n /\ n \div 2 + 1 \in 0..((n + 1) + 1) /\ n + 1 # 0
    OBVIOUS
  <2> QED
    BY <1>20, <2>1 DEF Centre, Path, Pointers
<1>28. /\ t \in Lists /\ t.next = u.next /\ t.prev = u.prev /\ t.data = u.data
       /\ t.mid = Centre(q, n + 1) /\ t.numels = n + 1 /\ SameIter(u, t) /\ SameMemory(u, t)
  BY <1>16, <1>19, <1>26, <1>27 DEF Lists, SameIter, SameMemory
<1>29. Chained(t, q)
  BY <1>20, <1>24, <1>25, <1>28 DEF Chained
<1>30. Memory(t, Inside(q, n + 1))
  BY <1>6, <1>13, <1>14, <1>19, <1>20, <1>28 DEF SameMemory, Memory
<1>31. \A k \in 1..(n + 1) :
         t.data[q[k]] = IF k <= pos THEN s.data[p[k]]
                        ELSE IF k = pos + 1 THEN d ELSE s.data[p[k - 1]]
  <2> SUFFICES ASSUME NEW k \in 1..(n + 1)
               PROVE  u.data[q[k]] = IF k <= pos THEN s.data[p[k]]
                                     ELSE IF k = pos + 1 THEN d ELSE s.data[p[k - 1]]
    BY <1>28
  <2>1. CASE k <= pos
    <3>1. k \in 0..pos /\ k \in 0..(n + 1)
      BY <1>2, <2>1
    <3>2. q[k] = p[k] /\ p[k] # e /\ p[k] \in Cells
      BY <1>20, <1>21, <1>22, <3>1
    <3> QED
      BY <1>23, <2>1, <3>2
  <2>2. CASE k = pos + 1
    <3>1. ~(pos + 1 <= pos)
      BY <1>2
    <3> QED
      BY <1>12, <1>21, <1>23, <2>2, <3>1
  <2>3. CASE ~(k <= pos) /\ k # pos + 1
    <3>1. k - 1 \in (pos + 1)..(n + 1) /\ k - 1 \in 0..(n + 1) /\ (k - 1) + 1 = k
      BY <1>2, <2>3
    <3>2. q[k] = p[k - 1] /\ p[k - 1] # e /\ p[k - 1] \in Cells
      BY <1>20, <1>21, <1>22, <3>1
    <3> QED
      BY <1>23, <2>3, <3>2
  <2> QED
    BY <2>1, <2>2, <2>3
<1>32. Holds(t, q)
  <2>1. \A k \in 1..n : s.data[p[k]] \in Data
    BY <1>1, <1>2 DEF Holds
  <2>2. ASSUME NEW k \in 1..(n + 1)
        PROVE  t.data[q[k]] \in Data
    <3>1. k <= pos => k \in 1..n
      BY <1>2
    <3>2. ~(k <= pos) /\ k # pos + 1 => k - 1 \in 1..n
      BY <1>2
    <3> QED
      BY <1>31, <2>1, <3>1, <3>2
  <2> QED
    BY <1>28, <2>2 DEF Holds
<1>33. WellFormed(t, q)
  BY <1>28, <1>29, <1>30, <1>32 DEF WellFormed
<1>34. SameIter(s, t)
  BY <1>6, <1>13, <1>14, <1>19, <1>28 DEF SameRest, SameIter
<1>35. InsertedAs(s, p, t, q, d, pos)
  BY <1>2, <1>28, <1>31, <1>33, <1>34 DEF InsertedAs
<1> QED
  BY <1>17, <1>35

-----------------------------------------------------------------------------
(* Elements taken out                                                      *)

\* The elements from i to j, and the path without them.
Stretch(p, i, j) == {p[k] : k \in i..j}

Without(p, n, i, j) ==
  [k \in 0..(n + 1 - (j - i + 1)) |-> IF k < i THEN p[k] ELSE p[k + (j - i + 1)]]

LEMMA WithoutPath ==
  ASSUME NEW n \in Nat, NEW p, Path(p, n), NEW i \in 1..(n + 1), NEW j \in (i - 1)..n
  PROVE  /\ n - (j - i + 1) \in Nat
         /\ Path(Without(p, n, i, j), n - (j - i + 1))
         /\ Inside(Without(p, n, i, j), n - (j - i + 1)) = Inside(p, n) \ Stretch(p, i, j)
<1> DEFINE q == Without(p, n, i, j)
<1>w. PICK w \in Nat : w = j - i + 1
  OBVIOUS
<1>m. PICK m \in Nat : m = n - w
  BY <1>w
<1>1. /\ p \in [0..(n + 1) -> Cells] /\ p[0] = head_sentinel /\ p[n + 1] = tail_sentinel
      /\ \A a, b \in 0..(n + 1) : p[a] = p[b] => a = b
  BY DEF Path
<1>2. q = [k \in 0..(m + 1) |-> IF k < i THEN p[k] ELSE p[k + w]]
  <2>1. n + 1 - w = m + 1
    BY <1>m
  <2> QED
    BY <1>w, <2>1 DEF Without
<1> DEFINE place(k) == IF k < i THEN k ELSE k + w
<1>3. \A k \in 0..(m + 1) : place(k) \in 0..(n + 1) /\ q[k] = p[place(k)]
  BY <1>2, <1>m, <1>w
<1>4. \A a, b \in 0..(m + 1) : place(a) = place(b) => a = b
  BY <1>w
<1>5. place(0) = 0 /\ place(m + 1) = n + 1
  BY <1>m, <1>w
<1>6. \A k \in 1..m : place(k) \in 1..n /\ place(k) \notin i..j
  BY <1>m, <1>w
<1>7. \A k \in 1..n : k \notin i..j => \E a \in 1..m : place(a) = k
  <2> SUFFICES ASSUME NEW k \in 1..n, k \notin i..j
               PROVE  \E a \in 1..m : place(a) = k
    OBVIOUS
  <2>1. CASE k < i
    <3>1. k \in 1..m /\ place(k) = k
      BY <1>m, <1>w, <2>1
    <3> QED
      BY <3>1, Zenon
  <2>2. CASE ~(k < i)
    <3>1. k - w \in 1..m /\ place(k - w) = k
      BY <1>m, <1>w, <2>2
    <3> QED
      BY <3>1, Zenon
  <2> QED
    BY <2>1, <2>2
<1> HIDE DEF place
<1>8. Path(q, m)
  <2>1. q \in [0..(m + 1) -> Cells]
    <3>1. \A k \in 0..(m + 1) : q[k] \in Cells
      BY <1>1, <1>3
    <3> HIDE DEF q
    <3> QED
      BY <1>2, <3>1
  <2>2. \A a, b \in 0..(m + 1) : q[a] = q[b] => a = b
    <3> SUFFICES ASSUME NEW a \in 0..(m + 1), NEW b \in 0..(m + 1), q[a] = q[b]
                 PROVE  a = b
      BY Zenon
    <3> HIDE DEF q
    <3>1. p[place(a)] = p[place(b)] /\ place(a) \in 0..(n + 1) /\ place(b) \in 0..(n + 1)
      BY <1>3, Zenon
    <3>2. place(a) = place(b)
      BY <1>1, <3>1, Zenon
    <3> QED
      BY <1>4, <3>2, Zenon
  <2>3. q[0] = head_sentinel /\ q[m + 1] = tail_sentinel
    <3>1. 0 \in 0..(m + 1) /\ m + 1 \in 0..(m + 1)
      OBVIOUS
    <3> HIDE DEF q
    <3> QED
      BY <1>1, <1>3, <1>5, <3>1
  <2> HIDE DEF q
  <2> QED
    BY <2>1, <2>2, <2>3, Zenon DEF Path
<1>9. Inside(q, m) = Inside(p, n) \ Stretch(p, i, j)
  <2> HIDE DEF q
  <2>1. ASSUME NEW x \in Inside(q, m)
        PROVE  x \in Inside(p, n) /\ x \notin Stretch(p, i, j)
    <3>1. PICK k \in 1..m : x = q[k]
      BY DEF Inside
    <3>2. k \in 0..(m + 1)
      OBVIOUS
    <3>3. x = p[place(k)] /\ place(k) \in 1..n /\ place(k) \notin i..j /\ place(k) \in 0..(n + 1)
      BY <1>3, <1>6, <3>1, <3>2
    <3>4. \A a \in i..j : a \in 0..(n + 1)
      OBVIOUS
    <3>5. x \notin Stretch(p, i, j)
      BY <1>1, <3>3, <3>4 DEF Stretch
    <3> QED
      BY <3>3, <3>5 DEF Inside
  <2>2. ASSUME NEW x \in Inside(p, n), x \notin Stretch(p, i, j)
        PROVE  x \in Inside(q, m)
    <3>1. PICK k \in 1..n : x = p[k]
      BY DEF Inside
    <3>2. k \notin i..j
      BY <2>2, <3>1 DEF Stretch
    <3>3. PICK a \in 1..m : place(a) = k
      BY <1>7, <3>2
    <3>4. a \in 0..(m + 1)
      OBVIOUS
    <3>5. q[a] = x
      BY <1>3, <3>1, <3>3, <3>4
    <3> QED
      BY <3>5 DEF Inside
  <2> QED
    BY <2>1, <2>2
<1>10. n - (j - i + 1) = m
  BY <1>m, <1>w
<1> HIDE DEF q
<1>11. n - (j - i + 1) \in Nat /\ Path(q, n - (j - i + 1))
       /\ Inside(q, n - (j - i + 1)) = Inside(p, n) \ Stretch(p, i, j)
  BY <1>8, <1>9, <1>10
<1> QED
  BY <1>11 DEF q

\* t is s without its data from i to j.
CutAs(s, p, t, q, i, j) ==
  /\ WellFormed(t, q) /\ SameIter(s, t) /\ t.numels = s.numels - (j - i + 1)
  /\ \A k \in 1..t.numels :
       t.data[q[k]] = IF k < i THEN s.data[p[k]] ELSE s.data[p[k + (j - i + 1)]]

\* What it takes to leave out the elements from i to j.
LEMMA CutIs ==
  ASSUME NEW s, NEW p, WellFormed(s, p), NEW i \in 1..(s.numels + 1), NEW j \in (i - 1)..s.numels,
         NEW t \in Lists, SameIter(s, t), t.numels = s.numels - (j - i + 1),
         t.mid = Centre(Without(p, s.numels, i, j), t.numels),
         Memory(t, Inside(p, s.numels) \ Stretch(p, i, j)),
         \A c \in Cells : c \notin Stretch(p, i, j) =>
           /\ t.next[c] = IF c = p[i - 1] THEN p[j + 1] ELSE s.next[c]
           /\ t.prev[c] = IF c = p[j + 1] THEN p[i - 1] ELSE s.prev[c]
           /\ t.data[c] = s.data[c]
  PROVE  CutAs(s, p, t, Without(p, s.numels, i, j), i, j)
<1> DEFINE q == Without(p, s.numels, i, j)
<1>1. s \in Lists /\ Chained(s, p) /\ Holds(s, p)
  BY DEF WellFormed
<1>2. PICK n \in Nat : n = s.numels
  BY <1>1 DEF Lists
<1>w. PICK w \in Nat : w = j - i + 1
  BY <1>2
<1>m. PICK m \in Nat : m = n - w
  BY <1>2, <1>w
<1>3. /\ \A k \in 0..(n + 1) : p[k] \in Cells
      /\ \A a, b \in 0..(n + 1) : p[a] = p[b] => a = b
      /\ p[0] = head_sentinel /\ p[n + 1] = tail_sentinel
      /\ \A k \in 0..n : s.next[p[k]] = p[k + 1] /\ s.prev[p[k + 1]] = p[k]
      /\ s.prev[head_sentinel] = NULL /\ s.next[tail_sentinel] = NULL
  BY <1>1, <1>2 DEF Chained, Path
<1>4. i \in 1..(n + 1) /\ j \in (i - 1)..n /\ j + 1 = i + w /\ i + w <= n + 1 /\ i - 1 \in 0..n
  BY <1>2, <1>w
<1>5. \A k \in 0..(n + 1) : k \notin i..j => p[k] \notin Stretch(p, i, j)
  <2>1. \A k \in i..j : k \in 0..(n + 1)
    BY <1>4
  <2> QED
    BY <1>3, <2>1 DEF Stretch
<1>6. \A k \in 0..(n + 1) : k \notin i..j =>
        /\ t.next[p[k]] = IF k = i - 1 THEN p[i + w] ELSE s.next[p[k]]
        /\ t.prev[p[k]] = IF k = i + w THEN p[i - 1] ELSE s.prev[p[k]]
        /\ t.data[p[k]] = s.data[p[k]]
  <2> SUFFICES ASSUME NEW k \in 0..(n + 1), k \notin i..j
               PROVE  /\ t.next[p[k]] = IF k = i - 1 THEN p[i + w] ELSE s.next[p[k]]
                      /\ t.prev[p[k]] = IF k = i + w THEN p[i - 1] ELSE s.prev[p[k]]
                      /\ t.data[p[k]] = s.data[p[k]]
    OBVIOUS
  <2>1. /\ t.next[p[k]] = IF p[k] = p[i - 1] THEN p[j + 1] ELSE s.next[p[k]]
        /\ t.prev[p[k]] = IF p[k] = p[j + 1] THEN p[i - 1] ELSE s.prev[p[k]]
        /\ t.data[p[k]] = s.data[p[k]]
    BY <1>3, <1>5
  <2>2. (p[k] = p[i - 1]) <=> k = i - 1
    <3>1. i - 1 \in 0..(n + 1)
      BY <1>4
    <3> QED
      BY <1>3, <3>1
  <2>3. (p[k] = p[j + 1]) <=> k = i + w
    <3>1. j + 1 \in 0..(n + 1) /\ j + 1 = i + w
      BY <1>4
    <3> QED
      BY <1>3, <3>1
  <2> QED
    BY <1>4, <2>1, <2>2, <2>3
<1>7. q = [k \in 0..(m + 1) |-> IF k < i THEN p[k] ELSE p[k + w]]
  <2>1. n + 1 - w = m + 1
    BY <1>m
  <2> QED
    BY <1>2, <1>w, <2>1 DEF Without
<1>8. Path(q, m) /\ Inside(q, m) = Inside(p, n) \ Stretch(p, i, j)
  <2>1. m = n - (j - i + 1)
    BY <1>m, <1>w
  <2> QED
    BY <1>1, <1>2, <1>4, <2>1, WithoutPath DEF Chained
<1>9. t.numels = m
  BY <1>2, <1>m, <1>w
<1> HIDE DEF q
<1>10. ASSUME NEW k \in 0..m
       PROVE  t.next[q[k]] = q[k + 1] /\ t.prev[q[k + 1]] = q[k]
  <2>1. CASE k + 1 < i
    <3>1. /\ k \in 0..n /\ k \in 0..(n + 1) /\ k + 1 \in 0..(n + 1) /\ k \notin i..j
          /\ k + 1 \notin i..j /\ k # i - 1 /\ k + 1 # i + w /\ k \in 0..(m + 1) /\ k + 1 \in 0..(m + 1)
          /\ k < i
      BY <1>4, <1>m, <2>1
    <3>2. q[k] = p[k] /\ q[k + 1] = p[k + 1]
      BY <1>7, <2>1, <3>1
    <3> QED
      BY <1>3, <1>6, <3>1, <3>2
  <2>2. CASE k + 1 = i
    <3>1. /\ k \in 0..(n + 1) /\ i + w \in 0..(n + 1) /\ k \notin i..j /\ i + w \notin i..j
          /\ k = i - 1 /\ k \in 0..(m + 1) /\ k + 1 \in 0..(m + 1) /\ k < i /\ ~(k + 1 < i)
      BY <1>4, <1>m, <2>2
    <3>2. q[k] = p[i - 1] /\ q[k + 1] = p[i + w]
      BY <1>7, <2>2, <3>1
    <3>3. t.next[p[k]] = p[i + w] /\ t.prev[p[i + w]] = p[i - 1]
      BY <1>6, <3>1
    <3> QED
      BY <3>1, <3>2, <3>3
  <2>3. CASE k + 1 > i
    <3>1. /\ k + w \in 0..n /\ k + w \in 0..(n + 1) /\ (k + w) + 1 \in 0..(n + 1) /\ k + w \notin i..j
          /\ (k + w) + 1 \notin i..j /\ k + w # i - 1 /\ (k + w) + 1 # i + w
          /\ k \in 0..(m + 1) /\ k + 1 \in 0..(m + 1) /\ ~(k < i) /\ ~(k + 1 < i)
          /\ (k + 1) + w = (k + w) + 1
      BY <1>4, <1>m, <2>3
    <3>2. q[k] = p[k + w] /\ q[k + 1] = p[(k + w) + 1]
      BY <1>7, <3>1
    <3>3. t.next[p[k + w]] = s.next[p[k + w]] /\ t.prev[p[(k + w) + 1]] = s.prev[p[(k + w) + 1]]
      BY <1>6, <3>1
    <3> QED
      BY <1>3, <3>1, <3>2, <3>3
  <2> QED
    BY <1>4, <2>1, <2>2, <2>3
<1>11. t.prev[head_sentinel] = NULL /\ t.next[tail_sentinel] = NULL
  <2>1. /\ 0 \in 0..(n + 1) /\ n + 1 \in 0..(n + 1) /\ 0 \notin i..j /\ n + 1 \notin i..j
        /\ 0 # i + w /\ n + 1 # i - 1
    BY <1>4
  <2> QED
    BY <1>3, <1>6, <2>1
<1>12. Chained(t, q)
  BY <1>8, <1>9, <1>10, <1>11 DEF Chained
<1>13. ASSUME NEW k \in 1..m
       PROVE  /\ t.data[q[k]] = IF k < i THEN s.data[p[k]] ELSE s.data[p[k + w]]
              /\ t.data[q[k]] \in Data
  <2>0. \A a \in 1..n : s.data[p[a]] \in Data
    BY <1>1, <1>2 DEF Holds
  <2>1. CASE k < i
    <3>1. k \in 0..(n + 1) /\ k \notin i..j /\ k \in 0..(m + 1) /\ k \in 1..n
      BY <1>4, <1>m, <2>1
    <3> QED
      BY <1>6, <1>7, <2>0, <2>1, <3>1
  <2>2. CASE ~(k < i)
    <3>1. k + w \in 0..(n + 1) /\ k + w \notin i..j /\ k \in 0..(m + 1) /\ k + w \in 1..n
      BY <1>4, <1>m, <2>2
    <3> QED
      BY <1>6, <1>7, <2>0, <2>2, <3>1
  <2> QED
    BY <2>1, <2>2
<1>14. Memory(t, Inside(q, m))
  BY <1>2, <1>8
<1>15. WellFormed(t, q)
  BY <1>9, <1>12, <1>13, <1>14 DEF WellFormed, Holds, q
<1>16. CutAs(s, p, t, q, i, j)
  BY <1>9, <1>13, <1>15, <1>w DEF CutAs
<1> QED
  BY <1>16 DEF q

\* The middle of a path that is one shorter.
LEMMA CentreWithout ==
  ASSUME NEW s \in Lists, NEW p, Chained(s, p), s.mid = Centre(p, s.numels),
         NEW pos \in 0..(s.numels - 1)
  PROVE  MidAfterDrop(s, pos) = Centre(Without(p, s.numels, pos + 1, pos + 1), s.numels - 1)
<1> DEFINE q == Without(p, s.numels, pos + 1, pos + 1)
<1>1. PICK n \in Nat : n = s.numels /\ n > 0 /\ pos \in 0..(n - 1)
  BY DEF Lists
<1>2. /\ \A k \in 0..(n + 1) : p[k] \in Cells /\ p[k] # NULL
      /\ \A k \in 0..n : s.next[p[k]] = p[k + 1] /\ s.prev[p[k + 1]] = p[k]
  BY <1>1, NullIsNoCell DEF Chained, Path
<1>3. q = [k \in 0..n |-> IF k < pos + 1 THEN p[k] ELSE p[k + 1]]
  <2>1. (pos + 1) - (pos + 1) + 1 = 1 /\ n + 1 - 1 = n
    BY <1>1
  <2> QED
    BY <1>1, <2>1 DEF Without
<1> HIDE DEF q
<1>m. PICK half \in Nat : half = n \div 2
  BY <1>1
<1> DEFINE odd == n % 2 = 1
<1>4. MidAfterDrop(s, pos) =
        CASE n = 1 -> NULL
          [] n > 1 /\ odd /\ pos >= half -> Follow(s.prev, s.mid)
          [] ~odd /\ pos < half -> Follow(s.next, s.mid)
          [] OTHER -> s.mid
  BY <1>1, <1>m DEF MidAfterDrop
<1>5. CASE n = 1
  <2>1. odd /\ n - 1 = 0
    BY <1>5
  <2>2. MidAfterDrop(s, pos) = NULL
    <3> HIDE DEF odd
    <3> QED
      BY <1>4, <1>5, <2>1
  <2> QED
    BY <1>1, <2>1, <2>2 DEF Centre, q
<1>6. CASE n > 1 /\ odd
  <2>1. n = 2 * half + 1 /\ half >= 1 /\ (n - 1) \div 2 + 1 = half + 1 /\ ((n - 1) - 1) \div 2 + 1 = half
        /\ half \in 0..n /\ half + 1 \in 0..(n + 1)
    BY <1>6, <1>m
  <2>2. s.mid = p[half + 1] /\ Centre(q, n - 1) = q[half]
    BY <1>1, <1>6, <2>1 DEF Centre
  <2>3. CASE pos >= half
    <3>1. MidAfterDrop(s, pos) = Follow(s.prev, s.mid)
      <4> HIDE DEF odd
      <4>1. n # 1
        BY <1>6
      <4> QED
        BY <1>4, <1>6, <2>3, <4>1
    <3>2. Follow(s.prev, s.mid) = p[half]
      BY <1>2, <2>1, <2>2 DEF Follow
    <3>3. q[half] = p[half]
      BY <1>3, <2>1, <2>3, <1>1
    <3> QED
      BY <1>1, <2>2, <3>1, <3>2, <3>3 DEF q
  <2>4. CASE ~(pos >= half)
    <3>1. MidAfterDrop(s, pos) = s.mid
      <4> HIDE DEF odd
      <4>1. n # 1
        BY <1>6
      <4> QED
        BY <1>4, <1>6, <2>4, <4>1
    <3>2. q[half] = p[half + 1]
      BY <1>3, <2>1, <2>4, <1>1
    <3> QED
      BY <1>1, <2>2, <3>1, <3>2 DEF q
  <2> QED
    BY <2>3, <2>4
<1>7. CASE n > 1 /\ ~odd
  <2>1. n = 2 * half /\ half >= 1 /\ (n - 1) \div 2 + 1 = half /\ ((n - 1) - 1) \div 2 + 1 = half
        /\ half \in 0..n /\ half + 1 \in 0..(n + 1)
    BY <1>7, <1>m
  <2>2. s.mid = p[half] /\ Centre(q, n - 1) = q[half]
    BY <1>1, <1>7, <2>1 DEF Centre
  <2>3. CASE pos < half
    <3>1. MidAfterDrop(s, pos) = Follow(s.next, s.mid)
      <4> HIDE DEF odd
      <4>1. n # 1
        BY <1>7
      <4> QED
        BY <1>4, <1>7, <2>3, <4>1
    <3>2. half \in 0..(n + 1)
      BY <2>1
    <3>3. Follow(s.next, s.mid) = p[half + 1]
      BY <1>2, <2>1, <2>2, <3>2 DEF Follow
    <3>4. q[half] = p[half + 1]
      BY <1>3, <2>1, <2>3, <1>1
    <3> QED
      BY <1>1, <2>2, <3>1, <3>3, <3>4 DEF q
  <2>4. CASE ~(pos < half)
    <3>1. MidAfterDrop(s, pos) = s.mid
      <4> HIDE DEF odd
      <4>1. n # 1
        BY <1>7
      <4> QED
        BY <1>4, <1>7, <2>4, <4>1
    <3>2. q[half] = p[half]
      BY <1>3, <2>1, <2>4, <1>1
    <3> QED
      BY <1>1, <2>2, <3>1, <3>2 DEF q
  <2> QED
    BY <2>3, <2>4
<1>8. n = 1 \/ n > 1
  BY <1>1
<1> QED
  BY <1>5, <1>6, <1>7, <1>8, Zenon

\* The middle of a path is a pointer.
LEMMA CentreType ==
  ASSUME NEW n \in Nat, NEW p, Path(p, n)
  PROVE  Centre(p, n) \in Pointers
<1>1. n # 0 => (n - 1) \div 2 + 1 \in 0..(n + 1)
  OBVIOUS
<1> QED
  BY <1>1 DEF Centre, Path, Pointers

\* list_drop_elem(), of the element at pos.
LEMMA DeleteAtIs ==
  ASSUME NEW s, NEW p, WellFormed(s, p), NEW pos \in 0..(s.numels - 1)
  PROVE  CutAs(s, p, list_delete_at(s, pos), Without(p, s.numels, pos + 1, pos + 1), pos + 1, pos + 1)
<1> DEFINE q == Without(p, s.numels, pos + 1, pos + 1)
<1>1. /\ s \in Lists /\ Chained(s, p) /\ s.mid = Centre(p, s.numels)
      /\ Holds(s, p) /\ Memory(s, Inside(p, s.numels))
  BY DEF WellFormed
<1>2. PICK n \in Nat : n = s.numels /\ n > 0 /\ pos \in 0..(n - 1) /\ n <= MaxLen
  BY <1>1 DEF Lists
<1>3. Path(p, n)
  BY <1>1, <1>2 DEF Chained
<1>4. /\ s.next \in [Cells -> Pointers] /\ s.prev \in [Cells -> Pointers]
      /\ s.data \in [Cells -> Data \cup {NULL}]
      /\ \A k \in 0..(n + 1) : p[k] \in Cells
      /\ \A i, j \in 0..(n + 1) : p[i] = p[j] => i = j
      /\ \A k \in 0..n : s.next[p[k]] = p[k + 1] /\ s.prev[p[k + 1]] = p[k]
  BY <1>1, <1>2, <1>3 DEF Lists, Chained, Path
<1>5. pos + 1 \in 1..n /\ pos + 1 \in 0..n /\ pos \in 0..n /\ pos + 2 \in 0..(n + 1) /\ (pos + 1) + 1 = pos + 2
      /\ pos \in 0..(n + 1) /\ pos + 1 \in 0..(n + 1)
  BY <1>2
<1>6. PICK e \in Elements : e = p[pos + 1]
  BY <1>3, <1>5, PathInside
<1>7. e \in Cells /\ e \in Inside(p, n)
  BY <1>5, <1>6 DEF Cells, Inside
<1>8. PICK a \in Cells : a = p[pos] /\ s.prev[e] = a
  BY <1>4, <1>5, <1>6
<1>9. PICK b \in Cells : b = p[pos + 2] /\ s.next[e] = b
  BY <1>4, <1>5, <1>6
<1>10. list_findpos(s, pos) = e
  <2>1. pos \in -1..s.numels
    BY <1>2
  <2> QED
    BY <1>1, <1>6, <2>1, FindPos
<1>11. PICK s1 : s1 = [s EXCEPT !.mid = MidAfterDrop(s, pos), !.numels = s.numels - 1]
  OBVIOUS
<1>12. PICK j1 : j1 = Join(s1, a, b)
  OBVIOUS
<1>13. PICK t : t = Release(j1, e)
  OBVIOUS
<1>14. list_delete_at(s, pos) = t
  BY <1>8, <1>9, <1>10, <1>11, <1>12, <1>13, Zenon DEF list_delete_at, list_drop_elem
<1>15. /\ n - ((pos + 1) - (pos + 1) + 1) = n - 1
       /\ n - 1 \in 0..MaxLen /\ pos + 1 \in 1..(n + 1) /\ pos + 1 \in ((pos + 1) - 1)..n
  BY <1>2
<1>16. Path(q, n - 1)
  <2>1. Path(Without(p, n, pos + 1, pos + 1), n - ((pos + 1) - (pos + 1) + 1))
    BY <1>3, <1>15, WithoutPath
  <2> QED
    BY <1>2, <1>15, <2>1
<1>17. MidAfterDrop(s, pos) = Centre(q, n - 1) /\ Centre(q, n - 1) \in Pointers
  <2>1. n - 1 \in Nat
    BY <1>2
  <2>2. Centre(q, n - 1) \in Pointers
    <3> HIDE DEF q
    <3> QED
      BY <1>16, <2>1, CentreType
  <2>3. MidAfterDrop(s, pos) = Centre(q, n - 1)
    BY <1>1, <1>2, CentreWithout
  <2> QED
    BY <2>2, <2>3
<1> HIDE DEF q
<1>18. /\ s1 \in Lists /\ SameLinks(s, s1) /\ SameMemory(s, s1) /\ SameIter(s, s1)
       /\ s1.mid = Centre(q, n - 1) /\ s1.numels = n - 1
  BY <1>1, <1>2, <1>11, <1>15, <1>17 DEF Lists, SameLinks, SameMemory, SameIter
<1>19. /\ j1 \in Lists /\ j1.next = [s.next EXCEPT ![a] = b] /\ j1.prev = [s.prev EXCEPT ![b] = a]
       /\ j1.data = s.data /\ SameMemory(s1, j1) /\ SameRest(s1, j1)
  <2>1. s1 \in Lists
    BY <1>18
  <2>2. /\ j1 \in Lists /\ j1.next = [s1.next EXCEPT ![a] = b] /\ j1.prev = [s1.prev EXCEPT ![b] = a]
        /\ j1.data = s1.data /\ SameMemory(s1, j1) /\ SameRest(s1, j1)
    BY <1>8, <1>9, <1>12, <2>1, JoinIs
  <2> QED
    BY <1>18, <2>2 DEF SameLinks
<1>20. /\ t \in Lists /\ t.next = [j1.next EXCEPT ![e] = NULL] /\ t.prev = [j1.prev EXCEPT ![e] = NULL]
       /\ t.data = [j1.data EXCEPT ![e] = NULL] /\ SameRest(j1, t)
  <2>1. j1 \in Lists
    BY <1>19
  <2> QED
    BY <1>13, <2>1, ReleaseIs
<1>21. Memory(j1, Inside(p, n))
  BY <1>1, <1>2, <1>18, <1>19 DEF Memory, SameMemory
<1>22. Memory(t, Inside(p, n) \ {e})
  BY <1>6, <1>7, <1>13, <1>19, <1>21, ReleaseMemory
<1>23. Stretch(p, pos + 1, pos + 1) = {e}
  <2>1. (pos + 1)..(pos + 1) = {pos + 1}
    BY <1>5
  <2> QED
    BY <1>6, <2>1 DEF Stretch
<1>24. \A c \in Cells : c \notin Stretch(p, pos + 1, pos + 1) =>
         /\ t.next[c] = IF c = p[(pos + 1) - 1] THEN p[(pos + 1) + 1] ELSE s.next[c]
         /\ t.prev[c] = IF c = p[(pos + 1) + 1] THEN p[(pos + 1) - 1] ELSE s.prev[c]
         /\ t.data[c] = s.data[c]
  <2>1. (pos + 1) - 1 = pos
    BY <1>5
  <2>2. /\ t.next = [[s.next EXCEPT ![a] = b] EXCEPT ![e] = NULL]
        /\ t.prev = [[s.prev EXCEPT ![b] = a] EXCEPT ![e] = NULL]
        /\ t.data = [s.data EXCEPT ![e] = NULL]
    BY <1>19, <1>20
  <2>3. DOMAIN s.next = Cells /\ DOMAIN s.prev = Cells /\ DOMAIN s.data = Cells
    BY <1>4
  <2>4. \A c \in Cells : c # e =>
         /\ t.next[c] = IF c = a THEN b ELSE s.next[c]
         /\ t.prev[c] = IF c = b THEN a ELSE s.prev[c]
         /\ t.data[c] = s.data[c]
    BY <2>2, <2>3
  <2> QED
    BY <1>5, <1>8, <1>9, <1>23, <2>1, <2>4
<1>25. /\ SameIter(s, t) /\ t.numels = n - 1 /\ t.mid = Centre(q, n - 1)
  BY <1>18, <1>19, <1>20 DEF SameRest, SameIter
<1>26. CutAs(s, p, t, q, pos + 1, pos + 1)
  <2>1. t \in Lists /\ t.numels = s.numels - ((pos + 1) - (pos + 1) + 1)
        /\ Memory(t, Inside(p, s.numels) \ Stretch(p, pos + 1, pos + 1))
        /\ t.mid = Centre(q, t.numels)
    BY <1>2, <1>15, <1>20, <1>22, <1>23, <1>25
  <2>2. pos + 1 \in 1..(s.numels + 1) /\ pos + 1 \in ((pos + 1) - 1)..s.numels
    BY <1>2, <1>15
  <2> QED
    BY <1>24, <1>25, <2>1, <2>2, CutIs DEF q
<1> QED
  BY <1>14, <1>26 DEF q

\* What Released() says of the links once the neighbours have been joined.
LEMMA ReleasedCut ==
  ASSUME NEW s, NEW p, WellFormed(s, p), NEW i \in 1..(s.numels + 1), NEW j \in (i - 1)..s.numels,
         NEW s1 \in Lists, SameLinks(s, s1), SameMemory(s, s1), SameIter(s, s1),
         s1.numels = s.numels - (j - i + 1), s1.mid = Centre(Without(p, s.numels, i, j), s1.numels),
         NEW gone, gone = [k \in 1..(j - i + 1) |-> p[i + k - 1]]
  PROVE  CutAs(s, p, Join(ReleaseAll(s1, gone), p[i - 1], p[j + 1]), Without(p, s.numels, i, j), i, j)
<1> DEFINE q == Without(p, s.numels, i, j)
<1>1. /\ s \in Lists /\ Chained(s, p) /\ Memory(s, Inside(p, s.numels))
  BY DEF WellFormed
<1>2. PICK n \in Nat : n = s.numels /\ i \in 1..(n + 1) /\ j \in (i - 1)..n
  BY <1>1 DEF Lists
<1>w. PICK w \in Nat : w = j - i + 1
  BY <1>2
<1>3. PICK S : S = Inside(p, n) /\ S \subseteq Elements
  BY <1>1, <1>2, PathInside DEF Chained
<1>4. \A k \in 1..w : i + k - 1 \in 1..n /\ i + k - 1 \in i..j
  BY <1>2, <1>w
<1>5. gone = [k \in 1..w |-> p[i + k - 1]]
  BY <1>w
<1>6. \A k \in 1..w : gone[k] \in S /\ gone[k] = p[i + k - 1]
  <2>1. \A k \in 1..w : gone[k] = p[i + k - 1]
    BY <1>5, Zenon
  <2>2. \A k \in 1..n : p[k] \in S
    BY <1>3, Zenon DEF Inside
  <2> QED
    BY <1>4, <2>1, <2>2, Zenon
<1>7. gone \in [1..w -> Elements]
  BY <1>3, <1>5, <1>6
<1>8. \A a, b \in 1..w : gone[a] = gone[b] => a = b
  <2> SUFFICES ASSUME NEW a \in 1..w, NEW b \in 1..w, gone[a] = gone[b]
               PROVE  a = b
    OBVIOUS
  <2>0. i + a - 1 \in 0..(n + 1) /\ i + b - 1 \in 0..(n + 1)
    <3>1. i + a - 1 \in 1..n /\ i + b - 1 \in 1..n
      BY <1>4, Zenon
    <3> QED
      BY <1>2, <3>1
  <2>1. p[i + a - 1] = p[i + b - 1]
    BY <1>6
  <2>2. i + a - 1 = i + b - 1
    BY <1>1, <1>2, <2>0, <2>1 DEF Chained, Path
  <2> QED
    BY <1>2, <2>2
<1>9. {gone[k] : k \in 1..w} = Stretch(p, i, j)
  <2>1. \A k \in 1..w : gone[k] \in Stretch(p, i, j)
    BY <1>4, <1>6 DEF Stretch
  <2>2. ASSUME NEW c \in i..j
        PROVE  \E k \in 1..w : gone[k] = p[c]
    <3>1. c - i + 1 \in 1..w /\ i + (c - i + 1) - 1 = c
      BY <1>2, <1>w
    <3>2. gone[c - i + 1] = p[c]
      BY <1>6, <3>1
    <3> QED
      BY <3>1, <3>2
  <2>3. Stretch(p, i, j) \subseteq {gone[k] : k \in 1..w}
    <3> SUFFICES ASSUME NEW x \in Stretch(p, i, j)
                 PROVE  x \in {gone[k] : k \in 1..w}
      BY Zenon
    <3>1. PICK c \in i..j : x = p[c]
      BY Zenon DEF Stretch
    <3>2. PICK k \in 1..w : gone[k] = p[c]
      BY <2>2, Zenon
    <3> QED
      BY <3>1, <3>2, Zenon
  <2>4. {gone[k] : k \in 1..w} \subseteq Stretch(p, i, j)
    BY <2>1, Zenon
  <2> QED
    BY <2>3, <2>4, Zenon
<1>10. PICK r : r = ReleaseAll(s1, gone)
  OBVIOUS
<1>11. Memory(s1, S)
  BY <1>1, <1>2, <1>3 DEF Memory, SameMemory
<1>12. Released(s1, r, S, gone, w)
  <2>1. \A k \in 1..w : gone[k] \in S
    BY <1>6
  <2> QED
    BY <1>7, <1>8, <1>10, <1>11, <2>1, ReleaseAllIs
<1>13. /\ r \in Lists /\ SameRest(s1, r) /\ Memory(r, S \ Stretch(p, i, j))
       /\ \A c \in Cells : c \notin Stretch(p, i, j) =>
            r.next[c] = s1.next[c] /\ r.prev[c] = s1.prev[c] /\ r.data[c] = s1.data[c]
  <2>1. \A c : c \notin Stretch(p, i, j) => \A k \in 1..w : gone[k] # c
    BY <1>9
  <2> QED
    BY <1>9, <1>12, <2>1 DEF Released
<1>14. PICK a \in Cells : a = p[i - 1]
  <2>1. i - 1 \in 0..(n + 1)
    BY <1>2
  <2> QED
    BY <1>1, <1>2, <2>1 DEF Chained, Path
<1>15. PICK b \in Cells : b = p[j + 1]
  <2>1. j + 1 \in 0..(n + 1)
    BY <1>2
  <2> QED
    BY <1>1, <1>2, <2>1 DEF Chained, Path
<1>16. PICK t : t = Join(r, a, b)
  OBVIOUS
<1>17. /\ t \in Lists /\ t.next = [r.next EXCEPT ![a] = b] /\ t.prev = [r.prev EXCEPT ![b] = a]
       /\ t.data = r.data /\ SameMemory(r, t) /\ SameRest(r, t)
  <2>1. r \in Lists
    BY <1>13
  <2>2. a \in Cells /\ b \in Cells
    BY <1>14, <1>15
  <2> QED
    BY <1>16, <2>1, <2>2, JoinIs
<1>18. \A c \in Cells : c \notin Stretch(p, i, j) =>
         /\ t.next[c] = IF c = p[i - 1] THEN p[j + 1] ELSE s.next[c]
         /\ t.prev[c] = IF c = p[j + 1] THEN p[i - 1] ELSE s.prev[c]
         /\ t.data[c] = s.data[c]
  <2>1. DOMAIN r.next = Cells /\ DOMAIN r.prev = Cells
    BY <1>13 DEF Lists
  <2>2. s1.next = s.next /\ s1.prev = s.prev /\ s1.data = s.data
    BY DEF SameLinks
  <2> QED
    BY <1>13, <1>14, <1>15, <1>17, <2>1, <2>2
<1>19. Memory(t, Inside(p, s.numels) \ Stretch(p, i, j))
  BY <1>2, <1>3, <1>13, <1>17 DEF Memory, SameMemory
<1>20. SameIter(s, t) /\ t.numels = s1.numels /\ t.mid = s1.mid
  BY <1>13, <1>17 DEF SameIter, SameRest
<1>21. t.mid = Centre(q, t.numels) /\ t.numels = s.numels - (j - i + 1)
  BY <1>20
<1> HIDE DEF q
<1>22. CutAs(s, p, t, q, i, j)
  BY <1>17, <1>18, <1>19, <1>20, <1>21, CutIs DEF q
<1>23. Join(ReleaseAll(s1, gone), p[i - 1], p[j + 1]) = t
  BY <1>10, <1>14, <1>15, <1>16
<1> QED
  BY <1>22, <1>23 DEF q

\* list_clear()
LEMMA ClearIs ==
  ASSUME NEW s, NEW p, WellFormed(s, p)
  PROVE  CutAs(s, p, list_clear(s), Without(p, s.numels, 1, s.numels), 1, s.numels)
<1>1. s \in Lists /\ Chained(s, p)
  BY DEF WellFormed
<1>2. PICK n \in Nat : n = s.numels
  BY <1>1 DEF Lists
<1>3. PICK s1 : s1 = [s EXCEPT !.numels = 0, !.mid = NULL]
  OBVIOUS
<1>4. /\ s1 \in Lists /\ SameLinks(s, s1) /\ SameMemory(s, s1) /\ SameIter(s, s1)
      /\ s1.numels = 0 /\ s1.mid = NULL
  <2>1. 0 \in 0..MaxLen /\ NULL \in Pointers
    BY DEF Pointers
  <2> QED
    BY <1>1, <1>3, <2>1 DEF Lists, SameLinks, SameMemory, SameIter
<1>5. PICK gone : gone = Linked(s)
  OBVIOUS
<1>6. gone = [k \in 1..n |-> p[k]]
  BY <1>1, <1>2, <1>5, LinkedIs
<1>7. gone = [k \in 1..(n - 1 + 1) |-> p[1 + k - 1]]
  <2>1. n - 1 + 1 = n /\ \A k \in 1..n : 1 + k - 1 = k
    BY <1>2
  <2> QED
    BY <1>6, <2>1
<1>8. p[0] = head_sentinel /\ p[n + 1] = tail_sentinel /\ 1 - 1 = 0
  BY <1>1, <1>2 DEF Chained, Path
<1>9. list_clear(s) = Join(ReleaseAll(s1, gone), p[1 - 1], p[n + 1])
  BY <1>3, <1>5, <1>8 DEF list_clear
<1>10. 1 \in 1..(s.numels + 1) /\ n \in (1 - 1)..s.numels /\ s1.numels = s.numels - (n - 1 + 1)
       /\ s1.mid = Centre(Without(p, s.numels, 1, n), s1.numels)
  BY <1>2, <1>4 DEF Centre
<1>11. CutAs(s, p, Join(ReleaseAll(s1, gone), p[1 - 1], p[n + 1]), Without(p, s.numels, 1, n), 1, n)
  BY <1>4, <1>7, <1>10, ReleasedCut
<1> QED
  BY <1>2, <1>9, <1>11

\* list_delete_range()
LEMMA RangeIs ==
  ASSUME NEW s, NEW p, WellFormed(s, p), NEW posend \in 0..(s.numels - 1), NEW posstart \in 0..posend
  PROVE  CutAs(s, p, list_delete_range(s, posstart, posend),
               Without(p, s.numels, posstart + 1, posend + 1), posstart + 1, posend + 1)
<1>1. s \in Lists /\ Chained(s, p) /\ s.mid = Centre(p, s.numels)
  BY DEF WellFormed
<1>2. PICK n \in Nat : n = s.numels /\ n <= MaxLen /\ posend \in 0..(n - 1)
  BY <1>1 DEF Lists
<1>3. PICK numdel \in Nat : numdel = posend - posstart + 1 /\ numdel > 0 /\ numdel <= n
  BY <1>2
<1>4. CASE numdel = n
  <2>1. posstart = 0 /\ posend + 1 = n /\ posstart + 1 = 1
    BY <1>2, <1>3, <1>4
  <2>2. list_delete_range(s, posstart, posend) = list_clear(s)
    BY <1>2, <1>3, <1>4 DEF list_delete_range
  <2>3. CutAs(s, p, list_clear(s), Without(p, n, 1, n), 1, n)
    BY <1>2, ClearIs
  <2> QED
    BY <1>2, <2>1, <2>2, <2>3
<1>5. CASE numdel # n
  <2> DEFINE q == Without(p, s.numels, posstart + 1, posend + 1)
  <2>a. PICK i : i = posstart + 1
    OBVIOUS
  <2>b. PICK j : j = posend + 1
    OBVIOUS
  <2>0. /\ i \in 1..n /\ j \in i..n /\ j - i + 1 = numdel /\ i - 1 = posstart
        /\ i + numdel = j + 1 /\ i \in 0..(n + 1) /\ numdel < n /\ n > 0
    BY <1>2, <1>3, <1>5, <2>a, <2>b
  <2>1. PICK m \in Nat : m = n - numdel /\ m > 0
    BY <2>0
  <2>2. Path(q, m)
    <3>1. i \in 1..(n + 1) /\ j \in (i - 1)..n /\ m = n - (j - i + 1)
      BY <2>0, <2>1
    <3> QED
      BY <1>1, <1>2, <2>a, <2>b, <3>1, WithoutPath DEF Chained
  <2>3. MidAfterRange(s, posstart, numdel) = Centre(q, m)
    <3>a. PICK after \in Nat : after = (n - 1 - numdel) \div 2
      BY <2>0
    <3>b. PICK middle \in Nat : middle = (n - 1) \div 2
      BY <2>0
    <3>c. PICK target : target = IF after < posstart THEN after ELSE after + numdel
      OBVIOUS
    <3>1. MidAfterRange(s, posstart, numdel) =
            IF target - middle > 0 THEN Walk(s.next, s.mid, target - middle)
            ELSE Walk(s.prev, s.mid, -(target - middle))
      BY <1>2, <3>a, <3>b, <3>c DEF MidAfterRange, MidIndex
    <3>2. s.mid = p[middle + 1]
      BY <1>1, <1>2, <2>0, <3>b DEF Centre
    <3>3. target \in 0..(n - 1) /\ middle \in 0..(n - 1) /\ middle + 1 \in 0..(n + 1)
      BY <1>2, <1>3, <2>0, <3>a, <3>b, <3>c
    <3>4. MidAfterRange(s, posstart, numdel) = p[target + 1]
      <4>1. CASE target - middle > 0
        <5>1. target - middle \in Nat /\ (middle + 1) + (target - middle) = target + 1
              /\ (middle + 1) + (target - middle) <= n + 1
          BY <3>3, <4>1
        <5>2. Walk(s.next, p[middle + 1], target - middle) = p[(middle + 1) + (target - middle)]
          BY <1>1, <1>2, <3>3, <5>1, WalkNext
        <5> QED
          BY <3>1, <3>2, <4>1, <5>1, <5>2
      <4>2. CASE ~(target - middle > 0)
        <5>1. -(target - middle) \in 0..(middle + 1) /\ (middle + 1) - (-(target - middle)) = target + 1
          BY <3>3, <4>2
        <5>2. Walk(s.prev, p[middle + 1], -(target - middle)) = p[(middle + 1) - (-(target - middle))]
          BY <1>1, <1>2, <3>3, <5>1, WalkPrev
        <5> QED
          BY <3>1, <3>2, <4>2, <5>1, <5>2
      <4> QED
        BY <4>1, <4>2
    <3>5. q = [k \in 0..(m + 1) |-> IF k < i THEN p[k] ELSE p[k + numdel]]
      <4>1. n + 1 - (j - i + 1) = m + 1
        BY <2>0, <2>1
      <4> QED
        BY <1>2, <2>0, <2>a, <2>b, <4>1 DEF Without
    <3> HIDE DEF q
    <3>6. Centre(q, m) = q[after + 1] /\ after + 1 \in 0..(m + 1)
      <4>1. (m - 1) \div 2 = after /\ m # 0 /\ after + 1 \in 0..(m + 1)
        BY <2>1, <3>a
      <4> QED
        BY <4>1 DEF Centre
    <3>7. q[after + 1] = p[target + 1]
      <4>1. CASE after < posstart
        <5>1. after + 1 < i
          BY <2>0, <4>1
        <5> QED
          BY <3>5, <3>6, <3>c, <4>1, <5>1
      <4>2. CASE ~(after < posstart)
        <5>1. ~(after + 1 < i) /\ (after + 1) + numdel = target + 1
          BY <2>0, <3>c, <4>2
        <5> QED
          BY <3>5, <3>6, <5>1
      <4> QED
        BY <4>1, <4>2
    <3> QED
      BY <3>4, <3>6, <3>7
  <2>4. Centre(q, m) \in Pointers
    <3> HIDE DEF q
    <3> QED
      BY <2>2, CentreType
  <2>5. PICK first : first = list_findpos(s, posstart)
    OBVIOUS
  <2>6. first = p[i]
    <3>1. posstart \in -1..s.numels
      BY <1>2, <2>0
    <3> QED
      BY <1>1, <2>5, <2>a, <3>1, FindPos
  <2>7. \A k \in 0..numdel : Walk(s.next, first, k) = p[i + k]
    <3> SUFFICES ASSUME NEW k \in 0..numdel
                 PROVE  Walk(s.next, p[i], k) = p[i + k]
      BY <2>6
    <3>1. k \in Nat /\ i + k <= s.numels + 1 /\ i \in 0..(s.numels + 1)
      BY <1>2, <2>0
    <3> QED
      BY <1>1, <3>1, WalkNext
  <2>8. PICK gone : gone = [k \in 1..numdel |-> Walk(s.next, first, k - 1)]
    OBVIOUS
  <2>9. gone = [k \in 1..(j - i + 1) |-> p[i + k - 1]]
    <3>1. \A k \in 1..numdel : k - 1 \in 0..numdel /\ i + (k - 1) = i + k - 1
      BY <2>0
    <3> QED
      BY <2>0, <2>7, <2>8, <3>1
  <2>10. s.prev[first] = p[i - 1] /\ Walk(s.next, first, numdel) = p[j + 1]
    <3>1. i - 1 \in 0..n /\ (i - 1) + 1 = i /\ numdel \in 0..numdel
      BY <2>0
    <3>2. s.prev[p[i]] = p[i - 1]
      BY <1>1, <1>2, <3>1 DEF Chained
    <3> QED
      BY <2>0, <2>6, <2>7, <3>1, <3>2
  <2>11. PICK s1 : s1 = [s EXCEPT !.mid = MidAfterRange(s, posstart, numdel), !.numels = s.numels - numdel]
    OBVIOUS
  <2>12. /\ s1 \in Lists /\ SameLinks(s, s1) /\ SameMemory(s, s1) /\ SameIter(s, s1)
         /\ s1.numels = m /\ s1.mid = Centre(q, m)
    <3>1. n - numdel \in 0..MaxLen
      BY <1>2, <2>0
    <3> HIDE DEF q
    <3> QED
      BY <1>1, <1>2, <2>1, <2>3, <2>4, <2>11, <3>1 DEF Lists, SameLinks, SameMemory, SameIter
  <2>13. list_delete_range(s, posstart, posend) = Join(ReleaseAll(s1, gone), p[i - 1], p[j + 1])
    <3>1. ~(numdel = s.numels)
      BY <1>2, <1>5
    <3> QED
      BY <1>3, <2>5, <2>8, <2>10, <2>11, <3>1, Zenon DEF list_delete_range
  <2>14. i \in 1..(s.numels + 1) /\ j \in (i - 1)..s.numels /\ s1.numels = s.numels - (j - i + 1)
    BY <1>2, <2>0, <2>1, <2>12
  <2>15. s1.mid = Centre(Without(p, s.numels, i, j), s1.numels)
    BY <2>12, <2>a, <2>b
  <2>16. CutAs(s, p, Join(ReleaseAll(s1, gone), p[i - 1], p[j + 1]), Without(p, s.numels, i, j), i, j)
    <3> HIDE DEF q
    <3> QED
      BY <2>9, <2>12, <2>14, <2>15, ReleasedCut
  <2> QED
    BY <2>13, <2>16, <2>a, <2>b
<1> QED
  BY <1>4, <1>5

-----------------------------------------------------------------------------
(* New lists                                                               *)

\* list_init()
LEMMA EmptyIs ==
  /\ WellFormed(Empty, [k \in 0..1 |-> IF k = 0 THEN head_sentinel ELSE tail_sentinel])
  /\ Empty.numels = 0 /\ ~Empty.iter_active
<1> DEFINE p == [k \in 0..1 |-> IF k = 0 THEN head_sentinel ELSE tail_sentinel]
<1>1. /\ head_sentinel \in Cells /\ tail_sentinel \in Cells /\ head_sentinel # tail_sentinel
      /\ NULL \in Pointers /\ Cells \subseteq Pointers
  BY DEF Cells, Pointers, head_sentinel, tail_sentinel
<1>2. /\ Empty.next = [c \in Cells |-> IF c = head_sentinel THEN tail_sentinel ELSE NULL]
      /\ Empty.prev = [c \in Cells |-> IF c = tail_sentinel THEN head_sentinel ELSE NULL]
      /\ Empty.mid = NULL /\ Empty.numels = 0 /\ Empty.spareels = <<>> /\ Empty.allocated = {}
      /\ Empty.iter_active = FALSE
  BY DEF Empty
<1>3. Empty \in Lists
  <2>1. /\ [c \in Cells |-> IF c = head_sentinel THEN tail_sentinel ELSE NULL] \in [Cells -> Pointers]
        /\ [c \in Cells |-> IF c = tail_sentinel THEN head_sentinel ELSE NULL] \in [Cells -> Pointers]
        /\ [c \in Cells |-> NULL] \in [Cells -> Data \cup {NULL}]
    BY <1>1
  <2>2. <<>> \in Seq(Elements) /\ 0 \in 0..MaxLen /\ 0 \in Nat
    OBVIOUS
  <2> QED
    BY <1>1, <2>1, <2>2 DEF Empty, Lists
<1>4. Path(p, 0)
  <2>1. \A k \in 0..1 : k = 0 \/ k = 1
    OBVIOUS
  <2>2. p \in [0..1 -> Cells] /\ p[0] = head_sentinel /\ p[1] = tail_sentinel
    BY <1>1
  <2>3. \A i, j \in 0..1 : p[i] = p[j] => i = j
    BY <1>1, <2>1, <2>2
  <2>4. 0 + 1 = 1
    OBVIOUS
  <2> HIDE DEF p
  <2> QED
    BY <2>2, <2>3, <2>4 DEF Path
<1>5. Chained(Empty, p)
  <2>1. \A k \in 0..0 : k = 0
    OBVIOUS
  <2>2. Empty.next[p[0]] = p[0 + 1] /\ Empty.prev[p[0 + 1]] = p[0]
    BY <1>1, <1>2
  <2>3. Empty.prev[head_sentinel] = NULL /\ Empty.next[tail_sentinel] = NULL
    BY <1>1, <1>2
  <2> HIDE DEF p
  <2> QED
    BY <1>2, <1>4, <2>1, <2>2, <2>3 DEF Chained
<1> HIDE DEF p
<1>6. Memory(Empty, Inside(p, 0))
  <2>1. Len(<<>>) = 0 /\ 1..0 = {} /\ 0 <= SIMCLIST_MAX_SPARE_ELEMS
    OBVIOUS
  <2> QED
    BY <1>2, <2>1 DEF Memory, Inside
<1>7. Holds(Empty, p) /\ Centre(p, 0) = NULL
  <2>1. 1..0 = {}
    OBVIOUS
  <2> QED
    BY <1>2, <2>1 DEF Holds, Centre
<1>8. WellFormed(Empty, p)
  BY <1>2, <1>3, <1>5, <1>6, <1>7 DEF WellFormed
<1> QED
  BY <1>2, <1>8 DEF p

\* t is a list of the data d that nobody iterates over.
ListOf(t, q, d) ==
  /\ WellFormed(t, q) /\ ~t.iter_active /\ t.numels = Len(d)
  /\ \A k \in 1..Len(d) : t.data[q[k]] = d[k]

\* list_concat()
LEMMA ConcatIs ==
  ASSUME NEW d1 \in Seq(Data), NEW d2 \in Seq(Data), Len(d1) + Len(d2) <= MaxLen
  PROVE  \E q : ListOf(list_concat(d1, d2), q, d1 \o d2)
<1>1. PICK n1 \in Nat, n2 \in Nat : n1 = Len(d1) /\ n2 = Len(d2) /\ n1 + n2 <= MaxLen
  BY LenProperties
<1>2. PICK n \in Nat : n = n1 + n2 /\ n <= MaxLen
  BY <1>1
<1>3. PICK d : d = d1 \o d2
  OBVIOUS
<1>4. d \in Seq(Data) /\ Len(d) = n /\ \A k \in 1..n : d[k] \in Data
  <2>1. d \in Seq(Data) /\ Len(d) = n
    BY <1>1, <1>2, <1>3, ConcatProperties
  <2> QED
    BY <2>1, ElementOfSeq
<1>5. CASE n = 0
  <2>1. list_concat(d1, d2) = Empty
    BY <1>3, <1>4, <1>5 DEF list_concat
  <2>2. 1..0 = {}
    OBVIOUS
  <2>3. ListOf(Empty, [k \in 0..1 |-> IF k = 0 THEN head_sentinel ELSE tail_sentinel], d)
    BY <1>4, <1>5, <2>2, EmptyIs DEF ListOf
  <2> QED
    BY <1>3, <2>1, <2>3
<1>6. CASE n # 0
  <2> DEFINE next == [c \in Cells |-> CASE c < n -> c + 1 [] c = n -> tail_sentinel [] OTHER -> NULL]
             prev == [c \in Cells |-> CASE c \in 1..n -> c - 1 [] c = tail_sentinel -> n [] OTHER -> NULL]
             data == [c \in Cells |-> IF c \in 1..n THEN d[c] ELSE NULL]
             q    == [k \in 0..(n + 1) |-> IF k = n + 1 THEN tail_sentinel ELSE k]
  <2>1. PICK s : s = [Empty EXCEPT !.next = next, !.prev = prev, !.data = data,
                                   !.numels = n, !.allocated = 1..n]
    OBVIOUS
  <2>2. /\ \A k \in 0..n : k \in Cells /\ k # tail_sentinel
        /\ tail_sentinel \in Cells /\ head_sentinel = 0
        /\ \A c \in Cells : c \in Int /\ c >= 0
        /\ tail_sentinel > n
    BY <1>2 DEF Cells, Elements, head_sentinel, tail_sentinel
  <2>3. next \in [Cells -> Pointers]
    <3>1. \A c \in Cells : c < n => c + 1 \in 0..n
      BY <2>2
    <3>2. \A c \in Cells : (CASE c < n -> c + 1 [] c = n -> tail_sentinel [] OTHER -> NULL) \in Pointers
      BY <2>2, <3>1 DEF Pointers
    <3> QED
      BY <3>2, Zenon
  <2>4. prev \in [Cells -> Pointers]
    <3>1. \A c \in Cells : c \in 1..n => c - 1 \in 0..n
      BY <2>2
    <3>2. \A c \in Cells : (CASE c \in 1..n -> c - 1 [] c = tail_sentinel -> n [] OTHER -> NULL) \in Pointers
      BY <2>2, <3>1 DEF Pointers
    <3> QED
      BY <3>2, Zenon
  <2>5. data \in [Cells -> Data \cup {NULL}]
    BY <1>4
  <2>6. /\ \A k \in 0..(n - 1) : next[k] = k + 1
        /\ next[n] = tail_sentinel /\ next[tail_sentinel] = NULL
        /\ \A k \in 1..n : prev[k] = k - 1 /\ data[k] = d[k]
        /\ prev[tail_sentinel] = n /\ prev[0] = NULL
    <3>1. \A k \in 0..(n - 1) : k \in Cells /\ k < n /\ k # n
      BY <2>2
    <3>2. \A k \in 1..n : k \in Cells
      BY <2>2
    <3>3. n \in Cells /\ 0 \in Cells /\ tail_sentinel \notin 1..n /\ ~(tail_sentinel < n) /\ tail_sentinel # n
          /\ 0 \notin 1..n /\ tail_sentinel # 0
      BY <2>2
    <3>4. tail_sentinel \in Cells
      BY <2>2
    <3>5. /\ \A k \in 0..(n - 1) : next[k] = k + 1
          /\ next[n] = tail_sentinel /\ next[tail_sentinel] = NULL
      BY <3>1, <3>3, <3>4
    <3>6. ASSUME NEW k \in 1..n
          PROVE  prev[k] = k - 1 /\ data[k] = d[k]
      <4>1. k \in Cells /\ k # tail_sentinel
        BY <3>2, <3>3
      <4>2. prev[k] = CASE k \in 1..n -> k - 1 [] k = tail_sentinel -> n [] OTHER -> NULL
        BY <4>1, Zenon
      <4>3. prev[k] = k - 1
        BY <4>1, <4>2
      <4>4. data[k] = d[k]
        BY <4>1, Zenon
      <4> QED
        BY <4>3, <4>4
    <3>7. prev[tail_sentinel] = n /\ prev[0] = NULL
      BY <3>3, <3>4
    <3> QED
      BY <3>5, <3>6, <3>7
  <2> HIDE DEF next, prev, data
  <2>7. /\ s \in Lists /\ s.next = next /\ s.prev = prev /\ s.data = data /\ s.numels = n
        /\ s.allocated = 1..n /\ s.spareels = <<>> /\ s.iter_active = FALSE
    <3>1. 1..n \in SUBSET Elements /\ n \in 0..MaxLen
      BY <1>2 DEF Elements
    <3>2. Empty \in Lists /\ Empty.spareels = <<>> /\ Empty.iter_active = FALSE
      BY EmptyIs DEF WellFormed, Empty
    <3> QED
      BY <2>1, <2>3, <2>4, <2>5, <3>1, <3>2 DEF Lists
  <2>8. /\ \A k \in 0..n : q[k] = k
        /\ q[n + 1] = tail_sentinel /\ q \in [0..(n + 1) -> Cells]
    <3>1. \A k \in 0..n : k \in 0..(n + 1) /\ k # n + 1
      OBVIOUS
    <3>2. \A k \in 0..(n + 1) : k # n + 1 => k \in 0..n
      OBVIOUS
    <3>3. n + 1 \in 0..(n + 1)
      OBVIOUS
    <3> QED
      BY <2>2, <3>1, <3>2, <3>3
  <2> HIDE DEF q
  <2>9. Path(q, n)
    <3>1. \A k \in 0..(n + 1) : k \in 0..n \/ k = n + 1
      OBVIOUS
    <3>2. \A i, j \in 0..(n + 1) : q[i] = q[j] => i = j
      BY <2>2, <2>8, <3>1
    <3>3. 0 \in 0..n
      OBVIOUS
    <3> QED
      BY <2>2, <2>8, <3>2, <3>3 DEF Path
  <2>10. Chained(s, q)
    <3>1. ASSUME NEW k \in 0..n
          PROVE  s.next[q[k]] = q[k + 1] /\ s.prev[q[k + 1]] = q[k]
      <4>1. CASE k = n
        BY <2>6, <2>7, <2>8, <4>1
      <4>2. CASE k # n
        <5>1. k \in 0..(n - 1) /\ k + 1 \in 0..n /\ k + 1 \in 1..n /\ (k + 1) - 1 = k
          BY <4>2
        <5> QED
          BY <2>6, <2>7, <2>8, <5>1
      <4> QED
        BY <4>1, <4>2
    <3>2. s.prev[head_sentinel] = NULL /\ s.next[tail_sentinel] = NULL
      BY <2>2, <2>6, <2>7
    <3> QED
      BY <2>7, <2>9, <3>1, <3>2 DEF Chained
  <2>11. ConcatMid(s, n1, n2) = Centre(q, n)
    <3>1. n1 \in 0..(s.numels + 1) /\ n1 \in 0..n
      BY <1>2, <2>7
    <3>2. q[n1] = n1
      BY <2>8, <3>1
    <3>3. PICK err \in Int : err = n2 - n1
      OBVIOUS
    <3>4. Centre(q, n) = q[(n - 1) \div 2 + 1]
      BY <1>6 DEF Centre
    <3>5. CASE err >= 1
      <4>1. /\ (err + 1) \div 2 \in Nat /\ n1 + (err + 1) \div 2 <= n + 1
            /\ n1 + (err + 1) \div 2 = (n - 1) \div 2 + 1
        <5>1. PICK h \in Int : h = (err + 1) \div 2 /\ 2 * h <= err + 1 /\ err + 1 <= 2 * h + 1
          BY <3>3
        <5>2. PICK g \in Int : g = (n - 1) \div 2 /\ 2 * g <= n - 1 /\ n - 1 <= 2 * g + 1
          BY <1>2
        <5>3. n = 2 * n1 + err /\ err <= n /\ n1 \in Nat
          BY <1>1, <1>2, <3>3
        <5>4. h \in Nat /\ n1 + h <= n + 1 /\ n1 + h = g + 1
          <6>1. /\ n1 \in Int /\ n \in Int /\ err \in Int /\ h \in Int /\ g \in Int
                /\ n = 2 * n1 + err /\ err <= n /\ err >= 1
                /\ 2 * h <= err + 1 /\ err + 1 <= 2 * h + 1 /\ 2 * g <= n - 1 /\ n - 1 <= 2 * g + 1
            BY <1>1, <1>2, <3>3, <3>5, <5>1, <5>2, <5>3
          <6> QED
            BY ONLY <6>1
        <5> QED
          BY <5>1, <5>2, <5>4, Zenon
      <4>h. PICK h : h = (err + 1) \div 2
        OBVIOUS
      <4>2. Walk(s.next, q[n1], h) = q[n1 + h]
        <5>1. h \in Nat /\ n1 + h <= s.numels + 1
          BY <2>7, <4>1, <4>h
        <5>2. s \in Lists /\ n1 \in 0..(s.numels + 1)
          BY <2>7, <3>1
        <5> QED
          BY <2>10, <5>1, <5>2, WalkNext
      <4>3. ConcatMid(s, n1, n2) = Walk(s.next, n1, (err + 1) \div 2)
        BY <3>3, <3>5 DEF ConcatMid
      <4> QED
        BY <3>2, <3>4, <4>1, <4>2, <4>3, <4>h
    <3>6. CASE ~(err >= 1)
      <4>1. (-err) \div 2 \in 0..n1 /\ n1 - (-err) \div 2 = (n - 1) \div 2 + 1
        <5>1. PICK h \in Int : h = (-err) \div 2 /\ 2 * h <= -err /\ -err <= 2 * h + 1
          BY <3>3
        <5>2. PICK g \in Int : g = (n - 1) \div 2 /\ 2 * g <= n - 1 /\ n - 1 <= 2 * g + 1
          BY <1>2
        <5>3. n = 2 * n1 + err /\ n1 \in Nat /\ n >= 1 /\ -err <= n1
          BY <1>1, <1>2, <1>6, <3>3
        <5>4. h \in 0..n1 /\ n1 - h = g + 1
          <6>1. /\ n1 \in Int /\ n \in Int /\ err \in Int /\ h \in Int /\ g \in Int
                /\ n = 2 * n1 + err /\ -err <= n1 /\ n >= 1 /\ err < 1
                /\ 2 * h <= -err /\ -err <= 2 * h + 1 /\ 2 * g <= n - 1 /\ n - 1 <= 2 * g + 1
            BY <1>1, <1>2, <3>3, <3>6, <5>1, <5>2, <5>3
          <6> QED
            BY ONLY <6>1
        <5> QED
          BY <5>1, <5>2, <5>4, Zenon
      <4>h. PICK h : h = (-err) \div 2
        OBVIOUS
      <4>2. Walk(s.prev, q[n1], h) = q[n1 - h]
        <5>1. h \in 0..n1
          BY <2>7, <4>1, <4>h
        <5>2. s \in Lists /\ n1 \in 0..(s.numels + 1)
          BY <2>7, <3>1
        <5> QED
          BY <2>10, <5>1, <5>2, WalkPrev, Zenon
      <4>3. ConcatMid(s, n1, n2) = Walk(s.prev, n1, (-err) \div 2)
        BY <3>3, <3>6 DEF ConcatMid
      <4> QED
        BY <3>2, <3>4, <4>1, <4>2, <4>3, <4>h
    <3> QED
      BY <3>5, <3>6
  <2>12. PICK t : t = [s EXCEPT !.mid = Centre(q, n)]
    OBVIOUS
  <2>13. Centre(q, n) \in Pointers
    BY <2>9, CentreType
  <2>14. /\ t \in Lists /\ SameLinks(s, t) /\ SameMemory(s, t) /\ t.numels = n /\ t.mid = Centre(q, n)
         /\ t.iter_active = FALSE
    BY <2>7, <2>12, <2>13 DEF Lists, SameLinks, SameMemory
  <2>15. list_concat(d1, d2) = t
    <3>1. list_concat(d1, d2) = [s EXCEPT !.mid = ConcatMid(s, n1, n2)]
      <4> DEFINE C(e, m, m1, m2) ==
                   LET chained == [Empty EXCEPT
                         !.next = [c \in Cells |-> CASE c < m -> c + 1 [] c = m -> tail_sentinel
                                                      [] OTHER -> NULL],
                         !.prev = [c \in Cells |-> CASE c \in 1..m -> c - 1
                                                      [] c = tail_sentinel -> m [] OTHER -> NULL],
                         !.data = [c \in Cells |-> IF c \in 1..m THEN e[c] ELSE NULL],
                         !.numels = m, !.allocated = 1..m]
                   IN IF m = 0 THEN Empty ELSE [chained EXCEPT !.mid = ConcatMid(chained, m1, m2)]
      <4>1. list_concat(d1, d2) = C(d1 \o d2, Len(d1 \o d2), Len(d1), Len(d2))
        BY Zenon DEF list_concat
      <4>2. C(d, n, n1, n2) = [s EXCEPT !.mid = ConcatMid(s, n1, n2)]
        BY <1>6, <2>1, Zenon DEF next, prev, data
      <4>3. Len(d1) = n1 /\ Len(d2) = n2 /\ Len(d1 \o d2) = n /\ d = d1 \o d2
        BY <1>1, <1>3, <1>4
      <4> HIDE DEF C
      <4> QED
        BY <4>1, <4>2, <4>3, Zenon
    <3> QED
      BY <2>11, <2>12, <3>1
  <2>16. Chained(t, q)
    BY <2>7, <2>10, <2>14 DEF Chained, SameLinks
  <2>17. \A k \in 1..n : t.data[q[k]] = d[k]
    <3>1. \A k \in 1..n : k \in 0..n
      OBVIOUS
    <3> QED
      BY <2>6, <2>7, <2>8, <2>14, <3>1 DEF SameLinks
  <2>18. Holds(t, q)
    BY <1>4, <2>14, <2>17 DEF Holds
  <2>19. Memory(t, Inside(q, n))
    <3>1. Inside(q, n) = 1..n
      <4>1. \A k \in 1..n : k \in 0..n
        OBVIOUS
      <4>2. \A k \in 1..n : q[k] = k
        BY <2>8, <4>1
      <4> QED
        BY <4>2 DEF Inside
    <3>2. Len(<<>>) = 0 /\ 1..0 = {} /\ 0 <= SIMCLIST_MAX_SPARE_ELEMS
      OBVIOUS
    <3> QED
      BY <2>7, <2>14, <3>1, <3>2 DEF Memory, SameMemory
  <2>20. ListOf(t, q, d)
    BY <1>4, <2>14, <2>16, <2>17, <2>18, <2>19 DEF ListOf, WellFormed
  <2> QED
    BY <1>3, <2>15, <2>20
<1> QED
  BY <1>5, <1>6

-----------------------------------------------------------------------------
(* Sorting: data that change places                                        *)

\* b has at every place what a had at the place f gives for it, and differs
\* from a only at the places i..j.
Moves(f, a, b, n, i, j) ==
  /\ f \in [1..n -> 1..n]
  /\ \A x, y \in 1..n : f[x] = f[y] => x = y
  /\ \A x \in 1..n : x \notin i..j => f[x] = x
  /\ \A x \in 1..n : b[x] = a[f[x]]

Shuffled(a, b, n, i, j) == \E f : Moves(f, a, b, n, i, j)

LEMMA ShuffledSame ==
  ASSUME NEW a, NEW n, NEW i, NEW j
  PROVE  Shuffled(a, a, n, i, j)
<1>1. Moves([x \in 1..n |-> x], a, a, n, i, j)
  BY DEF Moves
<1> QED
  BY <1>1 DEF Shuffled

LEMMA ShuffledWider ==
  ASSUME NEW a, NEW b, NEW n \in Nat, NEW i \in Int, NEW j \in Int, Shuffled(a, b, n, i, j),
         NEW g \in Int, NEW h \in Int, g <= i, j <= h
  PROVE  Shuffled(a, b, n, g, h)
<1>1. PICK f : Moves(f, a, b, n, i, j)
  BY DEF Shuffled
<1>2. \A x \in 1..n : x \notin g..h => x \notin i..j
  OBVIOUS
<1>3. Moves(f, a, b, n, g, h)
  BY <1>1, <1>2 DEF Moves
<1> QED
  BY <1>3 DEF Shuffled

LEMMA ShuffledTwice ==
  ASSUME NEW a, NEW b, NEW c, NEW n, NEW i, NEW j,
         Shuffled(a, b, n, i, j), Shuffled(b, c, n, i, j)
  PROVE  Shuffled(a, c, n, i, j)
<1>1. PICK f : Moves(f, a, b, n, i, j)
  BY DEF Shuffled
<1>2. PICK g : Moves(g, b, c, n, i, j)
  BY DEF Shuffled
<1> DEFINE h == [x \in 1..n |-> f[g[x]]]
<1>3. \A x \in 1..n : g[x] \in 1..n /\ h[x] = f[g[x]]
  BY <1>2 DEF Moves
<1>4. h \in [1..n -> 1..n]
  BY <1>1, <1>3 DEF Moves
<1> HIDE DEF h
<1>5. \A x, y \in 1..n : h[x] = h[y] => x = y
  BY <1>1, <1>2, <1>3 DEF Moves
<1>6. \A x \in 1..n : x \notin i..j => h[x] = x
  BY <1>1, <1>2, <1>3 DEF Moves
<1>7. \A x \in 1..n : c[x] = a[h[x]]
  <2>1. /\ \A x \in 1..n : b[x] = a[f[x]]
        /\ \A x \in 1..n : c[x] = b[g[x]]
    BY <1>1, <1>2 DEF Moves
  <2> QED
    BY <1>3, <2>1
<1>8. Moves(h, a, c, n, i, j)
  BY <1>4, <1>5, <1>6, <1>7 DEF Moves
<1> QED
  BY <1>8 DEF Shuffled

\* What was between i and j stays there, and the rest stays where it is.
Within(a, b, n, i, j) ==
  \A x \in 1..n : IF x \in i..j THEN \E y \in i..j : y \in 1..n /\ b[x] = a[y] ELSE b[x] = a[x]

LEMMA ShuffledWithin ==
  ASSUME NEW a, NEW b, NEW n, NEW i, NEW j, Shuffled(a, b, n, i, j)
  PROVE  Within(a, b, n, i, j)
<1>1. PICK f : Moves(f, a, b, n, i, j)
  BY DEF Shuffled
<1>2. ASSUME NEW x \in 1..n, x \in i..j
      PROVE  \E y \in i..j : y \in 1..n /\ b[x] = a[y]
  <2>1. f[x] \in 1..n /\ b[x] = a[f[x]]
    BY <1>1 DEF Moves
  <2>2. ASSUME f[x] \notin i..j
        PROVE  FALSE
    <3>1. f[f[x]] = f[x]
      BY <1>1, <2>1, <2>2 DEF Moves
    <3>2. f[x] = x
      BY <1>1, <2>1, <3>1 DEF Moves
    <3> QED
      BY <1>2, <2>2, <3>2
  <2> QED
    BY <2>1, <2>2
<1>3. ASSUME NEW x \in 1..n, x \notin i..j
      PROVE  b[x] = a[x]
  BY <1>1, <1>3 DEF Moves
<1> QED
  BY <1>2, <1>3 DEF Within

\* b is a with what is at i and j swapped, both between g and h.
SwappedAs(a, b, n, R, g, h, i, j) ==
  /\ b \in [1..n -> R] /\ Shuffled(a, b, n, g, h)
  /\ b[i] = a[j] /\ b[j] = a[i]
  /\ \A x \in 1..n : x # i /\ x # j => b[x] = a[x]

LEMMA SwapIs ==
  ASSUME NEW n \in Nat, NEW R, NEW a \in [1..n -> R], NEW g \in 1..n, NEW h \in g..n,
         NEW i \in g..h, NEW j \in g..h
  PROVE  SwappedAs(a, Swap(a, i, j), n, R, g, h, i, j)
<1>1. i \in 1..n /\ j \in 1..n
  OBVIOUS
<1>2. PICK b : b = Swap(a, i, j)
  OBVIOUS
<1>3. /\ b \in [1..n -> R] /\ b[i] = a[j] /\ b[j] = a[i]
      /\ \A x \in 1..n : x # i /\ x # j => b[x] = a[x]
  BY <1>1, <1>2 DEF Swap
<1> DEFINE f == [x \in 1..n |-> IF x = i THEN j ELSE IF x = j THEN i ELSE x]
<1>4. /\ f \in [1..n -> 1..n] /\ f[i] = j /\ f[j] = i
      /\ \A x \in 1..n : x # i /\ x # j => f[x] = x
  BY <1>1
<1> HIDE DEF f
<1>5. \A x, y \in 1..n : f[x] = f[y] => x = y
  BY <1>1, <1>4
<1>6. Moves(f, a, b, n, g, h)
  <2>1. \A x \in 1..n : x \notin g..h => f[x] = x
    BY <1>4
  <2>2. \A x \in 1..n : b[x] = a[f[x]]
    BY <1>3, <1>4
  <2> QED
    BY <1>4, <1>5, <2>1, <2>2 DEF Moves
<1> QED
  BY <1>2, <1>3, <1>6 DEF Shuffled, SwappedAs

PassedAs(a, b, n, R, g, h, at, near, pivot) ==
  /\ b \in [1..n -> R] /\ Shuffled(a, b, n, g, h)
  /\ b[near] = a[pivot] /\ b[pivot] = a[at]
  /\ at # near => b[at] = a[near]
  /\ \A x \in 1..n : x \notin {at, near, pivot} => b[x] = a[x]

LEMMA PastIs ==
  ASSUME NEW n \in Nat, NEW R, NEW a \in [1..n -> R], NEW g \in 1..n, NEW h \in g..n,
         NEW at \in g..h, NEW near \in g..h, NEW pivot \in g..h, at # pivot, near # pivot
  PROVE  PassedAs(a, Past(a, at, near, pivot), n, R, g, h, at, near, pivot)
<1>1. at \in 1..n /\ near \in 1..n /\ pivot \in 1..n
  OBVIOUS
<1>2. PICK b : b = Past(a, at, near, pivot)
  OBVIOUS
<1>3. /\ b \in [1..n -> R] /\ b[near] = a[pivot] /\ b[pivot] = a[at]
      /\ at # near => b[at] = a[near]
      /\ \A x \in 1..n : x \notin {at, near, pivot} => b[x] = a[x]
  BY <1>1, <1>2 DEF Past
<1> DEFINE f == [x \in 1..n |-> IF x = pivot THEN at ELSE IF x = near THEN pivot
                                ELSE IF x = at THEN near ELSE x]
<1>4. /\ f \in [1..n -> 1..n] /\ f[pivot] = at /\ f[near] = pivot
      /\ at # near => f[at] = near
      /\ \A x \in 1..n : x \notin {at, near, pivot} => f[x] = x
  BY <1>1
<1> HIDE DEF f
<1>5. \A x, y \in 1..n : f[x] = f[y] => x = y
  BY <1>1, <1>4
<1>6. Moves(f, a, b, n, g, h)
  <2>1. \A x \in 1..n : x \notin g..h => f[x] = x
    BY <1>4
  <2>2. \A x \in 1..n : b[x] = a[f[x]]
    BY <1>3, <1>4
  <2> QED
    BY <1>4, <1>5, <2>1, <2>2 DEF Moves
<1> QED
  BY <1>2, <1>3, <1>6 DEF Shuffled, PassedAs

-----------------------------------------------------------------------------
(* Sorting: parting a stretch around its pivot                             *)

LEMMA MinIs ==
  ASSUME NEW n \in Nat, NEW S \in SUBSET (1..n), S # {}
  PROVE  Min(S) \in S /\ \A y \in S : Min(S) <= y
<1>1. \E x \in S : \A y \in S : x <= y
  BY SmallestOf
<1> QED
  BY <1>1 DEF Min

LEMMA MaxIs ==
  ASSUME NEW n \in Nat, NEW S \in SUBSET (1..n), S # {}
  PROVE  Max(S) \in S /\ \A y \in S : y <= Max(S)
<1>1. \E x \in S : \A y \in S : y <= x
  BY LargestOf
<1>2. \E x \in S : \A y \in S : x >= y
  BY <1>1
<1> QED
  BY <1>2 DEF Max

\* Left of m.left nothing must follow the datum pv, right of m.right nothing precede it.
LeftOf(m, i, pv, versus) == \A x \in i..(m.left - 1) : ~After(m.a[x], pv, versus)
RightOf(m, j, pv, versus) == \A x \in (m.right + 1)..j : ~After(pv, m.a[x], versus)

Meeting(n, R, i, j, pivot) == [a : [1..n -> R], left : i..pivot, right : pivot..j]

Met(m, a, n, i, j, pivot, versus) ==
  /\ Shuffled(a, m.a, n, i, j) /\ m.a[pivot] = a[pivot]
  /\ LeftOf(m, i, a[pivot], versus) /\ RightOf(m, j, a[pivot], versus)

HasMet(m, pivot) == m.left = pivot \/ m.right = pivot

LEMMA MeetTurnIs ==
  ASSUME NEW n \in Nat, NEW R \in SUBSET Nat, NEW versus \in {-1, 1}, NEW i \in 1..n, NEW j \in i..n,
         NEW pivot \in i..j, NEW m \in Meeting(n, R, i, j, pivot)
  PROVE  /\ MeetTurn(m, pivot, versus) \in Meeting(n, R, i, j, pivot)
         /\ \/ HasMet(MeetTurn(m, pivot, versus), pivot)
            \/ MeetTurn(m, pivot, versus).right - MeetTurn(m, pivot, versus).left < m.right - m.left
         /\ HasMet(m, pivot) => HasMet(MeetTurn(m, pivot, versus), pivot)
         /\ \A a \in [1..n -> R] : Met(m, a, n, i, j, pivot, versus)
                                   => Met(MeetTurn(m, pivot, versus), a, n, i, j, pivot, versus)
<1>1. PICK t : t = MeetTurn(m, pivot, versus)
  OBVIOUS
<1>2. /\ m.a \in [1..n -> R] /\ m.left \in i..pivot /\ m.right \in pivot..j
      /\ i \in 1..n /\ j \in 1..n /\ pivot \in 1..n
  BY DEF Meeting
<1> DEFINE pv == m.a[pivot]
           Ls == {x \in m.left..pivot : x = pivot \/ After(m.a[x], pv, versus)}
           Rs == {x \in pivot..m.right : x = pivot \/ After(pv, m.a[x], versus)}
<1>3. PICK left : left = Min(Ls)
  OBVIOUS
<1>4. PICK right : right = Max(Rs)
  OBVIOUS
<1>5. left \in Ls /\ \A y \in Ls : left <= y
  <2>1. Ls \in SUBSET (1..n) /\ pivot \in Ls
    BY <1>2
  <2> HIDE DEF Ls
  <2> QED
    BY <1>3, <2>1, MinIs
<1>6. right \in Rs /\ \A y \in Rs : y <= right
  <2>1. Rs \in SUBSET (1..n) /\ pivot \in Rs
    BY <1>2
  <2> HIDE DEF Rs
  <2> QED
    BY <1>4, <2>1, MaxIs
<1>7. t = CASE m.left = pivot \/ m.right = pivot -> m
            [] m.left # pivot /\ m.right # pivot /\ (left = pivot \/ right = pivot) ->
                 [m EXCEPT !.left = left, !.right = right]
            [] OTHER -> [a |-> Swap(m.a, left, right), left |-> left + 1, right |-> right - 1]
  BY <1>1, <1>3, <1>4, Zenon DEF MeetTurn
<1>8. left \in m.left..pivot /\ right \in pivot..m.right
  BY <1>5, <1>6
<1>9. \A x \in m.left..(left - 1) : ~After(m.a[x], pv, versus)
  <2> SUFFICES ASSUME NEW x \in m.left..(left - 1), After(m.a[x], pv, versus)
               PROVE  FALSE
    OBVIOUS
  <2>1. x \in m.left..pivot /\ x < left
    BY <1>2, <1>8
  <2>2. x \in Ls
    BY <2>1
  <2> QED
    BY <1>5, <1>8, <2>1, <2>2
<1>10. \A x \in (right + 1)..m.right : ~After(pv, m.a[x], versus)
  <2> SUFFICES ASSUME NEW x \in (right + 1)..m.right, After(pv, m.a[x], versus)
               PROVE  FALSE
    OBVIOUS
  <2>1. x \in pivot..m.right /\ right < x
    BY <1>2, <1>8
  <2>2. x \in Rs
    BY <2>1
  <2> QED
    BY <1>6, <1>8, <2>1, <2>2
<1>11. left # pivot => After(m.a[left], pv, versus)
  BY <1>5
<1>12. right # pivot => After(pv, m.a[right], versus)
  BY <1>6
<1> HIDE DEF Ls, Rs
<1>13. CASE m.left = pivot \/ m.right = pivot
  <2>1. t = m
    BY <1>7, <1>13, Zenon
  <2> QED
    BY <1>1, <1>13, <2>1 DEF HasMet
<1>14. CASE ~(m.left = pivot \/ m.right = pivot) /\ (left = pivot \/ right = pivot)
  <2>1. t = [m EXCEPT !.left = left, !.right = right]
    BY <1>7, <1>14, Zenon
  <2>2. t.a = m.a /\ t.left = left /\ t.right = right /\ t \in Meeting(n, R, i, j, pivot)
    <3>1. left \in i..pivot /\ right \in pivot..j
      BY <1>2, <1>8
    <3> QED
      BY <1>2, <2>1, <3>1 DEF Meeting
  <2>3. ASSUME NEW a \in [1..n -> R], Met(m, a, n, i, j, pivot, versus)
        PROVE  Met(t, a, n, i, j, pivot, versus)
    <3>1. /\ Shuffled(a, m.a, n, i, j) /\ m.a[pivot] = a[pivot]
          /\ \A x \in i..(m.left - 1) : ~After(m.a[x], pv, versus)
          /\ \A x \in (m.right + 1)..j : ~After(pv, m.a[x], versus)
      BY <2>3 DEF Met, LeftOf, RightOf
    <3>2. \A x \in i..(left - 1) : x \in i..(m.left - 1) \/ x \in m.left..(left - 1)
      BY <1>2, <1>8
    <3>3. \A x \in (right + 1)..j : x \in (m.right + 1)..j \/ x \in (right + 1)..m.right
      BY <1>2, <1>8
    <3>4. LeftOf(t, i, pv, versus)
      BY <1>9, <2>2, <3>1, <3>2, Zenon DEF LeftOf
    <3>5. RightOf(t, j, pv, versus)
      BY <1>10, <2>2, <3>1, <3>3, Zenon DEF RightOf
    <3> QED
      BY <2>2, <3>1, <3>4, <3>5 DEF Met
  <2> QED
    BY <1>1, <1>14, <2>2, <2>3 DEF HasMet
<1>15. CASE ~(m.left = pivot \/ m.right = pivot) /\ ~(left = pivot \/ right = pivot)
  <2>1. t = [a |-> Swap(m.a, left, right), left |-> left + 1, right |-> right - 1]
    BY <1>7, <1>15, Zenon
  <2>2. left \in i..j /\ right \in i..j /\ left < pivot /\ pivot < right /\ left # right
    BY <1>2, <1>8, <1>15
  <2>3. /\ t.a = Swap(m.a, left, right) /\ t.left = left + 1 /\ t.right = right - 1
        /\ t.a \in [1..n -> R] /\ Shuffled(m.a, t.a, n, i, j)
        /\ t.a[left] = m.a[right] /\ t.a[right] = m.a[left]
        /\ \A x \in 1..n : x # left /\ x # right => t.a[x] = m.a[x]
    <3>1. i \in 1..n /\ j \in i..n
      OBVIOUS
    <3>2. SwappedAs(m.a, Swap(m.a, left, right), n, R, i, j, left, right)
      <4>1. PICK b \in [1..n -> R] : b = m.a
        BY <1>2
      <4>2. left \in i..j /\ right \in i..j
        BY <2>2
      <4>3. SwappedAs(b, Swap(b, left, right), n, R, i, j, left, right)
        BY <3>1, <4>1, <4>2, SwapIs
      <4> QED
        BY <4>1, <4>3, Zenon
    <3> QED
      BY <2>1, <3>2 DEF SwappedAs
  <2>4. t \in Meeting(n, R, i, j, pivot)
    <3>1. left + 1 \in i..pivot /\ right - 1 \in pivot..j
      BY <1>2, <1>8, <2>2
    <3> QED
      BY <2>1, <2>3, <3>1 DEF Meeting
  <2>5. t.right - t.left < m.right - m.left
    <3>1. left \in Int /\ right \in Int /\ m.left \in Int /\ m.right \in Int
          /\ m.left <= left /\ right <= m.right
      BY <1>2, <1>8
    <3> QED
      BY <2>3, <3>1
  <2>6. ASSUME NEW a \in [1..n -> R], Met(m, a, n, i, j, pivot, versus)
        PROVE  Met(t, a, n, i, j, pivot, versus)
    <3>1. /\ Shuffled(a, m.a, n, i, j) /\ m.a[pivot] = a[pivot]
          /\ \A x \in i..(m.left - 1) : ~After(m.a[x], pv, versus)
          /\ \A x \in (m.right + 1)..j : ~After(pv, m.a[x], versus)
      BY <2>6 DEF Met, LeftOf, RightOf
    <3>2. Shuffled(a, t.a, n, i, j)
      BY <2>3, <3>1, ShuffledTwice
    <3>3. t.a[pivot] = a[pivot]
      <4>1. pivot # left /\ pivot # right
        BY <1>2, <2>2
      <4> QED
        BY <1>2, <2>3, <3>1, <4>1, Zenon
    <3>4. pv \in Nat /\ m.a[left] \in Nat /\ m.a[right] \in Nat
      <4>1. left \in 1..n /\ right \in 1..n
        BY <1>2, <2>2
      <4> QED
        BY <1>2, <4>1
    <3>5. ~After(m.a[right], pv, versus) /\ ~After(pv, m.a[left], versus)
      BY <1>11, <1>12, <1>15, <3>4, AfterOrders
    <3>6. ASSUME NEW x \in i..(t.left - 1)
          PROVE  ~After(t.a[x], pv, versus)
      <4>1. x \in 1..n /\ x # right /\ (x \in i..(m.left - 1) \/ x \in m.left..(left - 1) \/ x = left)
        BY <1>2, <1>8, <2>2, <2>3
      <4>2. CASE x = left
        BY <2>3, <3>5, <4>2
      <4>3. CASE x # left
        BY <1>9, <2>3, <3>1, <4>1, <4>3
      <4> QED
        BY <4>2, <4>3
    <3>7. ASSUME NEW x \in (t.right + 1)..j
          PROVE  ~After(pv, t.a[x], versus)
      <4>1. x \in 1..n /\ x # left /\ (x \in (m.right + 1)..j \/ x \in (right + 1)..m.right \/ x = right)
        BY <1>2, <1>8, <2>2, <2>3
      <4>2. CASE x = right
        BY <2>3, <3>5, <4>2
      <4>3. CASE x # right
        BY <1>10, <2>3, <3>1, <4>1, <4>3
      <4> QED
        BY <4>2, <4>3
    <3>8. LeftOf(t, i, a[pivot], versus) /\ RightOf(t, j, a[pivot], versus)
      BY <3>1, <3>6, <3>7 DEF LeftOf, RightOf
    <3> QED
      BY <3>2, <3>3, <3>8 DEF Met
  <2> QED
    BY <1>1, <1>15, <2>4, <2>5, <2>6 DEF HasMet
<1> QED
  BY <1>13, <1>14, <1>15

\* Doing one thing over and over.
Turns(g, n, S, b, H) == g \in [0..n -> S] /\ g[0] = b /\ \A k \in 1..n : g[k] = H[g[k - 1]]

LEMMA Turning ==
  ASSUME NEW n \in Nat, NEW S, NEW b \in S, NEW H \in [S -> S]
  PROVE  \E g : Turns(g, n, S, b, H)
<1>1. [k \in 1..n |-> H] \in [1..n -> [S -> S]]
  OBVIOUS
<1>2. PICK g : Solves(g, n, S, b, [k \in 1..n |-> H])
  BY <1>1, Recursion
<1>3. \A k \in 1..n : g[k] = H[g[k - 1]]
  BY <1>2 DEF Solves, Follows
<1> QED
  BY <1>2, <1>3 DEF Solves, Turns

LEMMA MeetIs ==
  ASSUME NEW n \in Nat, NEW R \in SUBSET Nat, NEW versus \in {-1, 1}, NEW i \in 1..n, NEW j \in i..n,
         NEW pivot \in i..j, NEW a \in [1..n -> R]
  PROVE  /\ Meet(a, i, j, pivot, versus) \in Meeting(n, R, i, j, pivot)
         /\ Met(Meet(a, i, j, pivot, versus), a, n, i, j, pivot, versus)
         /\ HasMet(Meet(a, i, j, pivot, versus), pivot)
<1> DEFINE first == [a |-> a, left |-> i, right |-> j]
           turn[k \in 0..(j - i)] == IF k = 0 THEN first ELSE MeetTurn(turn[k - 1], pivot, versus)
           S == Meeting(n, R, i, j, pivot)
           H == [m \in S |-> MeetTurn(m, pivot, versus)]
<1>1. j - i \in Nat /\ first \in S
  BY DEF Meeting
<1>2. H \in [S -> S]
  <2>1. \A m \in S : MeetTurn(m, pivot, versus) \in S
    BY MeetTurnIs
  <2> HIDE DEF S
  <2> QED
    BY <2>1
<1>3. PICK g : g \in [0..(j - i) -> S] /\ g[0] = first /\ \A k \in 1..(j - i) : g[k] = H[g[k - 1]]
  <2>1. \E g : Turns(g, j - i, S, first, H)
    <3> HIDE DEF S, H, first
    <3> QED
      BY <1>1, <1>2, Turning, Zenon
  <2> QED
    BY <2>1, Zenon DEF Turns
<1>4. \A k \in 1..(j - i) : k \in 0..(j - i) /\ k - 1 \in 0..(j - i) /\ k # 0
  BY <1>1
<1>5. turn = [k \in 0..(j - i) |-> IF k = 0 THEN first ELSE MeetTurn(turn[k - 1], pivot, versus)]
  <2>1. g = [k \in 0..(j - i) |-> IF k = 0 THEN first ELSE MeetTurn(g[k - 1], pivot, versus)]
    <3>1. \A k \in 1..(j - i) : g[k] = MeetTurn(g[k - 1], pivot, versus)
      <4> HIDE DEF S
      <4> QED
        BY <1>3, <1>4
    <3>2. \A k \in 0..(j - i) : k = 0 \/ k \in 1..(j - i)
      BY <1>1
    <3> HIDE DEF S, H, first
    <3> QED
      BY <1>3, <1>4, <3>1, <3>2
  <2> QED
    BY <2>1, Zenon
<1>6. Meet(a, i, j, pivot, versus) = turn[j - i]
  BY Zenon DEF Meet
<1> HIDE DEF turn, S, H
<1> DEFINE Good == {k \in 0..(j - i) :
                     /\ turn[k] \in S
                     /\ Met(turn[k], a, n, i, j, pivot, versus)
                     /\ HasMet(turn[k], pivot) \/ turn[k].right - turn[k].left <= (j - i) - k}
<1>7. 0 \in Good
  <2>1. turn[0] = first
    BY <1>1, <1>5
  <2>2. LeftOf(first, i, a[pivot], versus) /\ RightOf(first, j, a[pivot], versus)
    <3>1. i..(i - 1) = {} /\ (j + 1)..j = {}
      OBVIOUS
    <3> QED
      BY <3>1 DEF LeftOf, RightOf
  <2>3. Met(first, a, n, i, j, pivot, versus)
    BY <2>2, ShuffledSame DEF Met
  <2>4. first.right - first.left <= (j - i) - 0
    OBVIOUS
  <2> QED
    BY <1>1, <2>1, <2>3, <2>4
<1>8. ASSUME NEW k \in 0..((j - i) - 1), k \in Good
      PROVE  k + 1 \in Good
  <2>1. PICK m \in S : m = turn[k]
    BY <1>8
  <2>2. /\ Met(m, a, n, i, j, pivot, versus)
        /\ HasMet(m, pivot) \/ m.right - m.left <= (j - i) - k
    BY <1>8, <2>1
  <2>3. PICK t : t = MeetTurn(m, pivot, versus)
    OBVIOUS
  <2>4. turn[k + 1] = t
    <3>1. k + 1 \in 0..(j - i) /\ k + 1 # 0 /\ (k + 1) - 1 = k
      BY <1>1
    <3> QED
      BY <1>5, <2>1, <2>3, <3>1
  <2>5. m \in Meeting(n, R, i, j, pivot)
    BY <2>1 DEF S
  <2>6. /\ t \in Meeting(n, R, i, j, pivot)
        /\ HasMet(t, pivot) \/ t.right - t.left < m.right - m.left
        /\ HasMet(m, pivot) => HasMet(t, pivot)
        /\ Met(t, a, n, i, j, pivot, versus)
    BY <2>2, <2>3, <2>5, MeetTurnIs
  <2>7. HasMet(t, pivot) \/ t.right - t.left <= (j - i) - (k + 1)
    <3>1. m.left \in Int /\ m.right \in Int /\ t.left \in Int /\ t.right \in Int
      BY <2>5, <2>6 DEF Meeting
    <3> QED
      BY <1>1, <2>2, <2>6, <3>1
  <2>8. k + 1 \in 0..(j - i)
    BY <1>1
  <2> QED
    BY <2>4, <2>6, <2>7, <2>8 DEF S
<1>9. j - i \in Good
  <2>1. 0..(j - i) \subseteq Good
    <3> HIDE DEF Good
    <3> QED
      BY <1>1, <1>7, <1>8, Induction, Zenon
  <2> QED
    BY <1>1, <2>1
<1>10. PICK m : m = turn[j - i]
  OBVIOUS
<1>11. /\ m \in Meeting(n, R, i, j, pivot) /\ Met(m, a, n, i, j, pivot, versus)
       /\ HasMet(m, pivot) \/ m.right - m.left <= (j - i) - (j - i)
  BY <1>9, <1>10 DEF S
<1>12. HasMet(m, pivot)
  <2>1. m.left \in i..pivot /\ m.right \in pivot..j
    BY <1>11 DEF Meeting
  <2> QED
    BY <1>11, <2>1 DEF HasMet
<1> QED
  BY <1>6, <1>10, <1>11, <1>12

\* b is in two parts around the place p.
Parts(b, i, j, p, versus) == /\ \A x \in i..(p - 1) : ~After(b[x], b[p], versus)
                             /\ \A x \in (p + 1)..j : ~After(b[p], b[x], versus)

\* p is a, in two parts between i and j.
PartedAs(a, p, n, R, i, j, versus) ==
  /\ p.a \in [1..n -> R] /\ p.pivot \in i..j
  /\ Shuffled(a, p.a, n, i, j) /\ Parts(p.a, i, j, p.pivot, versus)

EmptyingLeft(n, R, i, j) ==
  {m \in [a : [1..n -> R], left : i..j, pivot : i..j] : m.left <= m.pivot}

\* Right of the pivot is what belongs there, and so far left of it.
EmptiedLeft(m, a, n, i, j, versus) ==
  /\ Shuffled(a, m.a, n, i, j)
  /\ LeftOf(m, i, m.a[m.pivot], versus)
  /\ \A x \in (m.pivot + 1)..j : ~After(m.a[m.pivot], m.a[x], versus)

LEMMA EmptyLeftTurnIs ==
  ASSUME NEW n \in Nat, NEW R \in SUBSET Nat, NEW versus \in {-1, 1}, NEW i \in 1..n, NEW j \in i..n,
         NEW m \in EmptyingLeft(n, R, i, j)
  PROVE  /\ EmptyLeftTurn(m, versus) \in EmptyingLeft(n, R, i, j)
         /\ \/ m.left = m.pivot /\ EmptyLeftTurn(m, versus) = m
            \/ EmptyLeftTurn(m, versus).pivot - EmptyLeftTurn(m, versus).left < m.pivot - m.left
         /\ \A a \in [1..n -> R] : EmptiedLeft(m, a, n, i, j, versus)
                                   => EmptiedLeft(EmptyLeftTurn(m, versus), a, n, i, j, versus)
<1>1. PICK t : t = EmptyLeftTurn(m, versus)
  OBVIOUS
<1>2. PICK b \in [1..n -> R], left \in i..j, pivot \in i..j :
        m = [a |-> b, left |-> left, pivot |-> pivot] /\ left <= pivot
  BY DEF EmptyingLeft
<1>3. /\ m.a = b /\ m.left = left /\ m.pivot = pivot
      /\ b \in [1..n -> R] /\ left \in 1..n /\ pivot \in 1..n /\ left \in i..j /\ pivot \in i..j
      /\ b[left] \in Nat /\ b[pivot] \in Nat
  <2>1. left \in 1..n /\ pivot \in 1..n
    OBVIOUS
  <2> QED
    BY <1>2, <2>1
<1>4. CASE left = pivot
  <2>1. t = m
    BY <1>1, <1>3, <1>4, Zenon DEF EmptyLeftTurn
  <2> QED
    BY <1>1, <1>3, <1>4, <2>1
<1>5. CASE left # pivot /\ After(b[left], b[pivot], versus)
  <2>1. t = [m EXCEPT !.a = Past(b, left, pivot - 1, pivot), !.pivot = pivot - 1]
    BY <1>1, <1>3, <1>5, Zenon DEF EmptyLeftTurn
  <2>2. /\ pivot - 1 \in i..j /\ pivot - 1 # pivot /\ left <= pivot - 1 /\ pivot - 1 \in 1..n
        /\ left < pivot
    BY <1>2, <1>3, <1>5
  <2>3. PICK c : c = Past(b, left, pivot - 1, pivot)
    OBVIOUS
  <2>4. PassedAs(b, c, n, R, i, j, left, pivot - 1, pivot)
    BY <1>3, <1>5, <2>2, <2>3, PastIs
  <2>5. /\ c \in [1..n -> R] /\ Shuffled(b, c, n, i, j)
        /\ c[pivot - 1] = b[pivot] /\ c[pivot] = b[left]
        /\ \A x \in 1..n : x \notin {left, pivot - 1, pivot} => c[x] = b[x]
    BY <2>4 DEF PassedAs
  <2>6. t = [a |-> c, left |-> left, pivot |-> pivot - 1]
    BY <1>2, <2>1, <2>3
  <2>7. t \in EmptyingLeft(n, R, i, j)
    BY <1>3, <2>2, <2>5, <2>6 DEF EmptyingLeft
  <2>8. t.pivot - t.left < m.pivot - m.left
    BY <1>3, <2>6
  <2>9. ASSUME NEW a \in [1..n -> R], EmptiedLeft(m, a, n, i, j, versus)
        PROVE  EmptiedLeft(t, a, n, i, j, versus)
    <3>1. /\ Shuffled(a, b, n, i, j)
          /\ \A x \in i..(left - 1) : ~After(b[x], b[pivot], versus)
          /\ \A x \in (pivot + 1)..j : ~After(b[pivot], b[x], versus)
      BY <1>3, <2>9 DEF EmptiedLeft, LeftOf
    <3>2. Shuffled(a, c, n, i, j)
      BY <2>5, <3>1, ShuffledTwice
    <3>3. ASSUME NEW x \in i..(left - 1)
          PROVE  ~After(c[x], b[pivot], versus)
      <4>1. x \in 1..n /\ x \notin {left, pivot - 1, pivot}
        BY <1>3, <2>2
      <4> QED
        BY <2>5, <3>1, <4>1
    <3>4. ASSUME NEW x \in ((pivot - 1) + 1)..j
          PROVE  ~After(b[pivot], c[x], versus)
      <4>1. CASE x = pivot
        BY <1>3, <1>5, <2>5, <4>1, AfterOrders
      <4>2. CASE x # pivot
        <5>1. x \in 1..n /\ x \notin {left, pivot - 1, pivot} /\ x \in (pivot + 1)..j
          BY <1>3, <2>2, <4>2
        <5> QED
          BY <2>5, <3>1, <5>1
      <4> QED
        BY <4>1, <4>2
    <3> QED
      BY <2>5, <2>6, <3>2, <3>3, <3>4 DEF EmptiedLeft, LeftOf
  <2> QED
    BY <1>1, <2>7, <2>8, <2>9
<1>6. CASE left # pivot /\ ~After(b[left], b[pivot], versus)
  <2>1. t = [m EXCEPT !.left = left + 1]
    BY <1>1, <1>3, <1>6, Zenon DEF EmptyLeftTurn
  <2>2. t = [a |-> b, left |-> left + 1, pivot |-> pivot] /\ left + 1 \in i..j /\ left + 1 <= pivot
    BY <1>2, <1>3, <1>6, <2>1
  <2>3. t \in EmptyingLeft(n, R, i, j)
    BY <1>3, <2>2 DEF EmptyingLeft
  <2>4. t.pivot - t.left < m.pivot - m.left
    BY <1>3, <2>2
  <2>5. ASSUME NEW a \in [1..n -> R], EmptiedLeft(m, a, n, i, j, versus)
        PROVE  EmptiedLeft(t, a, n, i, j, versus)
    <3>1. /\ Shuffled(a, b, n, i, j)
          /\ \A x \in i..(left - 1) : ~After(b[x], b[pivot], versus)
          /\ \A x \in (pivot + 1)..j : ~After(b[pivot], b[x], versus)
      BY <1>3, <2>5 DEF EmptiedLeft, LeftOf
    <3>2. ASSUME NEW x \in i..((left + 1) - 1)
          PROVE  ~After(b[x], b[pivot], versus)
      <4>1. x = left \/ x \in i..(left - 1)
        BY <1>3
      <4> QED
        BY <1>6, <3>1, <4>1
    <3> QED
      BY <2>2, <3>1, <3>2 DEF EmptiedLeft, LeftOf
  <2> QED
    BY <1>1, <2>3, <2>4, <2>5
<1> QED
  BY <1>4, <1>5, <1>6

LEMMA EmptyLeftIs ==
  ASSUME NEW n \in Nat, NEW R \in SUBSET Nat, NEW versus \in {-1, 1}, NEW i \in 1..n, NEW j \in i..n,
         NEW a \in [1..n -> R], NEW b \in [1..n -> R], NEW left \in i..j, NEW pivot \in left..j,
         EmptiedLeft([a |-> b, left |-> left, pivot |-> pivot], a, n, i, j, versus)
  PROVE  PartedAs(a, EmptyLeft(b, left, pivot, versus), n, R, i, j, versus)
<1> DEFINE first == [a |-> b, left |-> left, pivot |-> pivot]
           K == pivot - left
           turn[k \in 0..(pivot - left)] == IF k = 0 THEN first ELSE EmptyLeftTurn(turn[k - 1], versus)
           S == EmptyingLeft(n, R, i, j)
           H == [m \in S |-> EmptyLeftTurn(m, versus)]
<1>1. K \in Nat /\ first \in S
  BY DEF EmptyingLeft
<1>2. H \in [S -> S]
  <2>1. \A m \in S : EmptyLeftTurn(m, versus) \in S
    BY EmptyLeftTurnIs
  <2> HIDE DEF S
  <2> QED
    BY <2>1
<1>3. PICK g : g \in [0..K -> S] /\ g[0] = first /\ \A k \in 1..K : g[k] = H[g[k - 1]]
  <2>1. \E g : Turns(g, K, S, first, H)
    <3> HIDE DEF S, H, first, K
    <3> QED
      BY <1>1, <1>2, Turning, Zenon
  <2> QED
    BY <2>1, Zenon DEF Turns
<1>4. \A k \in 1..K : k \in 0..K /\ k - 1 \in 0..K /\ k # 0
  BY <1>1
<1>5. turn = [k \in 0..K |-> IF k = 0 THEN first ELSE EmptyLeftTurn(turn[k - 1], versus)]
  <2>1. g = [k \in 0..K |-> IF k = 0 THEN first ELSE EmptyLeftTurn(g[k - 1], versus)]
    <3>1. \A k \in 1..K : g[k] = EmptyLeftTurn(g[k - 1], versus)
      <4> HIDE DEF S
      <4> QED
        BY <1>3, <1>4
    <3>2. \A k \in 0..K : k = 0 \/ k \in 1..K
      BY <1>1
    <3> HIDE DEF S, H, first
    <3> QED
      BY <1>3, <1>4, <3>1, <3>2
  <2> QED
    BY <2>1, Zenon
<1>6. EmptyLeft(b, left, pivot, versus) = turn[K]
  BY Zenon DEF EmptyLeft
<1> HIDE DEF turn, S, H
<1> DEFINE Good == {k \in 0..K : /\ turn[k] \in S
                                 /\ EmptiedLeft(turn[k], a, n, i, j, versus)
                                 /\ turn[k].pivot - turn[k].left <= K - k}
<1>7. 0 \in Good
  <2>1. turn[0] = first
    BY <1>1, <1>5
  <2>2. first.pivot - first.left <= K - 0
    OBVIOUS
  <2> QED
    BY <1>1, <2>1, <2>2
<1> HIDE DEF first
<1>8. ASSUME NEW k \in 0..(K - 1), k \in Good
      PROVE  k + 1 \in Good
  <2>1. PICK m \in S : m = turn[k]
    BY <1>8
  <2>2. EmptiedLeft(m, a, n, i, j, versus) /\ m.pivot - m.left <= K - k
    BY <1>8, <2>1
  <2>3. PICK t : t = EmptyLeftTurn(m, versus)
    OBVIOUS
  <2>4. turn[k + 1] = t
    <3>1. k + 1 \in 0..K /\ k + 1 # 0 /\ (k + 1) - 1 = k
      BY <1>1
    <3> QED
      BY <1>5, <2>1, <2>3, <3>1
  <2>5. m \in EmptyingLeft(n, R, i, j)
    BY <2>1 DEF S
  <2>6. /\ t \in EmptyingLeft(n, R, i, j)
        /\ (m.left = m.pivot /\ t = m) \/ t.pivot - t.left < m.pivot - m.left
        /\ EmptiedLeft(t, a, n, i, j, versus)
    BY <2>2, <2>3, <2>5, EmptyLeftTurnIs
  <2>7. k + 1 \in 0..K
    BY <1>1
  <2>8. t.pivot - t.left <= K - (k + 1)
    <3>1. m.left \in Int /\ m.pivot \in Int /\ t.left \in Int /\ t.pivot \in Int /\ K \in Int
      BY <2>5, <2>6 DEF EmptyingLeft
    <3>2. K - (k + 1) >= 0
      BY <1>1
    <3> HIDE DEF K
    <3> QED
      BY <2>2, <2>6, <3>1, <3>2
  <2> QED
    BY <2>4, <2>6, <2>7, <2>8 DEF S
<1>9. K \in Good
  <2>1. 0..K \subseteq Good
    <3> HIDE DEF Good, K
    <3> QED
      BY <1>1, <1>7, <1>8, Induction, Zenon
  <2> QED
    BY <1>1, <2>1
<1>10. PICK m : m = turn[K]
  OBVIOUS
<1>11. /\ m \in EmptyingLeft(n, R, i, j) /\ EmptiedLeft(m, a, n, i, j, versus)
       /\ m.pivot - m.left <= K - K
  BY <1>9, <1>10 DEF S
<1>12. m.a \in [1..n -> R] /\ m.pivot \in i..j /\ m.left \in i..j /\ m.left = m.pivot
  BY <1>11 DEF EmptyingLeft
<1>13. Shuffled(a, m.a, n, i, j) /\ Parts(m.a, i, j, m.pivot, versus)
  BY <1>11, <1>12 DEF EmptiedLeft, LeftOf, Parts
<1> QED
  BY <1>6, <1>10, <1>12, <1>13 DEF PartedAs

EmptyingRight(n, R, i, j) ==
  {m \in [a : [1..n -> R], right : i..j, pivot : i..j] : m.pivot <= m.right}

\* Left of the pivot is what belongs there, and so far right of it.
EmptiedRight(m, a, n, i, j, versus) ==
  /\ Shuffled(a, m.a, n, i, j)
  /\ RightOf(m, j, m.a[m.pivot], versus)
  /\ \A x \in i..(m.pivot - 1) : ~After(m.a[x], m.a[m.pivot], versus)

LEMMA EmptyRightTurnIs ==
  ASSUME NEW n \in Nat, NEW R \in SUBSET Nat, NEW versus \in {-1, 1}, NEW i \in 1..n, NEW j \in i..n,
         NEW m \in EmptyingRight(n, R, i, j)
  PROVE  /\ EmptyRightTurn(m, versus) \in EmptyingRight(n, R, i, j)
         /\ \/ m.right = m.pivot /\ EmptyRightTurn(m, versus) = m
            \/ EmptyRightTurn(m, versus).right - EmptyRightTurn(m, versus).pivot < m.right - m.pivot
         /\ \A a \in [1..n -> R] : EmptiedRight(m, a, n, i, j, versus)
                                   => EmptiedRight(EmptyRightTurn(m, versus), a, n, i, j, versus)
<1>1. PICK t : t = EmptyRightTurn(m, versus)
  OBVIOUS
<1>2. PICK b \in [1..n -> R], right \in i..j, pivot \in i..j :
        m = [a |-> b, right |-> right, pivot |-> pivot] /\ pivot <= right
  BY DEF EmptyingRight
<1>3. /\ m.a = b /\ m.right = right /\ m.pivot = pivot
      /\ b \in [1..n -> R] /\ right \in 1..n /\ pivot \in 1..n /\ right \in i..j /\ pivot \in i..j
      /\ b[right] \in Nat /\ b[pivot] \in Nat
  <2>1. right \in 1..n /\ pivot \in 1..n
    OBVIOUS
  <2> QED
    BY <1>2, <2>1
<1>4. CASE right = pivot
  <2>1. t = m
    BY <1>1, <1>3, <1>4, Zenon DEF EmptyRightTurn
  <2> QED
    BY <1>1, <1>3, <1>4, <2>1
<1>5. CASE right # pivot /\ After(b[pivot], b[right], versus)
  <2>1. t = [m EXCEPT !.a = Past(b, right, pivot + 1, pivot), !.pivot = pivot + 1]
    BY <1>1, <1>3, <1>5, Zenon DEF EmptyRightTurn
  <2>2. /\ pivot + 1 \in i..j /\ pivot + 1 # pivot /\ pivot + 1 <= right /\ pivot + 1 \in 1..n
        /\ pivot < right
    BY <1>2, <1>3, <1>5
  <2>3. PICK c : c = Past(b, right, pivot + 1, pivot)
    OBVIOUS
  <2>4. PassedAs(b, c, n, R, i, j, right, pivot + 1, pivot)
    BY <1>3, <1>5, <2>2, <2>3, PastIs
  <2>5. /\ c \in [1..n -> R] /\ Shuffled(b, c, n, i, j)
        /\ c[pivot + 1] = b[pivot] /\ c[pivot] = b[right]
        /\ \A x \in 1..n : x \notin {right, pivot + 1, pivot} => c[x] = b[x]
    BY <2>4 DEF PassedAs
  <2>6. t = [a |-> c, right |-> right, pivot |-> pivot + 1]
    BY <1>2, <2>1, <2>3
  <2>7. t \in EmptyingRight(n, R, i, j)
    BY <1>3, <2>2, <2>5, <2>6 DEF EmptyingRight
  <2>8. t.right - t.pivot < m.right - m.pivot
    BY <1>3, <2>6
  <2>9. ASSUME NEW a \in [1..n -> R], EmptiedRight(m, a, n, i, j, versus)
        PROVE  EmptiedRight(t, a, n, i, j, versus)
    <3>1. /\ Shuffled(a, b, n, i, j)
          /\ \A x \in (right + 1)..j : ~After(b[pivot], b[x], versus)
          /\ \A x \in i..(pivot - 1) : ~After(b[x], b[pivot], versus)
      BY <1>3, <2>9 DEF EmptiedRight, RightOf
    <3>2. Shuffled(a, c, n, i, j)
      BY <2>5, <3>1, ShuffledTwice
    <3>3. ASSUME NEW x \in (right + 1)..j
          PROVE  ~After(b[pivot], c[x], versus)
      <4>1. x \in 1..n /\ x \notin {right, pivot + 1, pivot}
        BY <1>3, <2>2
      <4> QED
        BY <2>5, <3>1, <4>1
    <3>4. ASSUME NEW x \in i..((pivot + 1) - 1)
          PROVE  ~After(c[x], b[pivot], versus)
      <4>1. CASE x = pivot
        BY <1>3, <1>5, <2>5, <4>1, AfterOrders
      <4>2. CASE x # pivot
        <5>1. x \in 1..n /\ x \notin {right, pivot + 1, pivot} /\ x \in i..(pivot - 1)
          BY <1>3, <2>2, <4>2
        <5> QED
          BY <2>5, <3>1, <5>1
      <4> QED
        BY <4>1, <4>2
    <3> QED
      BY <2>5, <2>6, <3>2, <3>3, <3>4 DEF EmptiedRight, RightOf
  <2> QED
    BY <1>1, <2>7, <2>8, <2>9
<1>6. CASE right # pivot /\ ~After(b[pivot], b[right], versus)
  <2>1. t = [m EXCEPT !.right = right - 1]
    BY <1>1, <1>3, <1>6, Zenon DEF EmptyRightTurn
  <2>2. t = [a |-> b, right |-> right - 1, pivot |-> pivot] /\ right - 1 \in i..j /\ pivot <= right - 1
    BY <1>2, <1>3, <1>6, <2>1
  <2>3. t \in EmptyingRight(n, R, i, j)
    BY <1>3, <2>2 DEF EmptyingRight
  <2>4. t.right - t.pivot < m.right - m.pivot
    BY <1>3, <2>2
  <2>5. ASSUME NEW a \in [1..n -> R], EmptiedRight(m, a, n, i, j, versus)
        PROVE  EmptiedRight(t, a, n, i, j, versus)
    <3>1. /\ Shuffled(a, b, n, i, j)
          /\ \A x \in (right + 1)..j : ~After(b[pivot], b[x], versus)
          /\ \A x \in i..(pivot - 1) : ~After(b[x], b[pivot], versus)
      BY <1>3, <2>5 DEF EmptiedRight, RightOf
    <3>2. ASSUME NEW x \in ((right - 1) + 1)..j
          PROVE  ~After(b[pivot], b[x], versus)
      <4>1. x = right \/ x \in (right + 1)..j
        BY <1>3
      <4> QED
        BY <1>6, <3>1, <4>1
    <3> QED
      BY <2>2, <3>1, <3>2 DEF EmptiedRight, RightOf
  <2> QED
    BY <1>1, <2>3, <2>4, <2>5
<1> QED
  BY <1>4, <1>5, <1>6

LEMMA EmptyRightIs ==
  ASSUME NEW n \in Nat, NEW R \in SUBSET Nat, NEW versus \in {-1, 1}, NEW i \in 1..n, NEW j \in i..n,
         NEW a \in [1..n -> R], NEW b \in [1..n -> R], NEW right \in i..j, NEW pivot \in i..right,
         EmptiedRight([a |-> b, right |-> right, pivot |-> pivot], a, n, i, j, versus)
  PROVE  PartedAs(a, EmptyRight(b, right, pivot, versus), n, R, i, j, versus)
<1> DEFINE first == [a |-> b, right |-> right, pivot |-> pivot]
           K == right - pivot
           turn[k \in 0..(right - pivot)] == IF k = 0 THEN first ELSE EmptyRightTurn(turn[k - 1], versus)
           S == EmptyingRight(n, R, i, j)
           H == [m \in S |-> EmptyRightTurn(m, versus)]
<1>1. K \in Nat /\ first \in S
  BY DEF EmptyingRight
<1>2. H \in [S -> S]
  <2>1. \A m \in S : EmptyRightTurn(m, versus) \in S
    BY EmptyRightTurnIs
  <2> HIDE DEF S
  <2> QED
    BY <2>1
<1>3. PICK g : g \in [0..K -> S] /\ g[0] = first /\ \A k \in 1..K : g[k] = H[g[k - 1]]
  <2>1. \E g : Turns(g, K, S, first, H)
    <3> HIDE DEF S, H, first, K
    <3> QED
      BY <1>1, <1>2, Turning, Zenon
  <2> QED
    BY <2>1, Zenon DEF Turns
<1>4. \A k \in 1..K : k \in 0..K /\ k - 1 \in 0..K /\ k # 0
  BY <1>1
<1>5. turn = [k \in 0..K |-> IF k = 0 THEN first ELSE EmptyRightTurn(turn[k - 1], versus)]
  <2>1. g = [k \in 0..K |-> IF k = 0 THEN first ELSE EmptyRightTurn(g[k - 1], versus)]
    <3>1. \A k \in 1..K : g[k] = EmptyRightTurn(g[k - 1], versus)
      <4> HIDE DEF S
      <4> QED
        BY <1>3, <1>4
    <3>2. \A k \in 0..K : k = 0 \/ k \in 1..K
      BY <1>1
    <3> HIDE DEF S, H, first
    <3> QED
      BY <1>3, <1>4, <3>1, <3>2
  <2> QED
    BY <2>1, Zenon
<1>6. EmptyRight(b, right, pivot, versus) = turn[K]
  BY Zenon DEF EmptyRight
<1> HIDE DEF turn, S, H
<1> DEFINE Good == {k \in 0..K : /\ turn[k] \in S
                                 /\ EmptiedRight(turn[k], a, n, i, j, versus)
                                 /\ turn[k].right - turn[k].pivot <= K - k}
<1>7. 0 \in Good
  <2>1. turn[0] = first
    BY <1>1, <1>5
  <2>2. first.right - first.pivot <= K - 0
    OBVIOUS
  <2> QED
    BY <1>1, <2>1, <2>2
<1> HIDE DEF first
<1>8. ASSUME NEW k \in 0..(K - 1), k \in Good
      PROVE  k + 1 \in Good
  <2>1. PICK m \in S : m = turn[k]
    BY <1>8
  <2>2. EmptiedRight(m, a, n, i, j, versus) /\ m.right - m.pivot <= K - k
    BY <1>8, <2>1
  <2>3. PICK t : t = EmptyRightTurn(m, versus)
    OBVIOUS
  <2>4. turn[k + 1] = t
    <3>1. k + 1 \in 0..K /\ k + 1 # 0 /\ (k + 1) - 1 = k
      BY <1>1
    <3> QED
      BY <1>5, <2>1, <2>3, <3>1
  <2>5. m \in EmptyingRight(n, R, i, j)
    BY <2>1 DEF S
  <2>6. /\ t \in EmptyingRight(n, R, i, j)
        /\ (m.right = m.pivot /\ t = m) \/ t.right - t.pivot < m.right - m.pivot
        /\ EmptiedRight(t, a, n, i, j, versus)
    BY <2>2, <2>3, <2>5, EmptyRightTurnIs
  <2>7. k + 1 \in 0..K
    BY <1>1
  <2>8. t.right - t.pivot <= K - (k + 1)
    <3>1. m.right \in Int /\ m.pivot \in Int /\ t.right \in Int /\ t.pivot \in Int /\ K \in Int
      BY <2>5, <2>6 DEF EmptyingRight
    <3>2. K - (k + 1) >= 0
      BY <1>1
    <3> HIDE DEF K
    <3> QED
      BY <2>2, <2>6, <3>1, <3>2
  <2> QED
    BY <2>4, <2>6, <2>7, <2>8 DEF S
<1>9. K \in Good
  <2>1. 0..K \subseteq Good
    <3> HIDE DEF Good, K
    <3> QED
      BY <1>1, <1>7, <1>8, Induction, Zenon
  <2> QED
    BY <1>1, <2>1
<1>10. PICK m : m = turn[K]
  OBVIOUS
<1>11. /\ m \in EmptyingRight(n, R, i, j) /\ EmptiedRight(m, a, n, i, j, versus)
       /\ m.right - m.pivot <= K - K
  BY <1>9, <1>10 DEF S
<1>12. m.a \in [1..n -> R] /\ m.pivot \in i..j /\ m.right \in i..j /\ m.right = m.pivot
  BY <1>11 DEF EmptyingRight
<1>13. Shuffled(a, m.a, n, i, j) /\ Parts(m.a, i, j, m.pivot, versus)
  BY <1>11, <1>12 DEF EmptiedRight, RightOf, Parts
<1> QED
  BY <1>6, <1>10, <1>12, <1>13 DEF PartedAs

LEMMA PartedIs ==
  ASSUME NEW n \in Nat, NEW R \in SUBSET Nat, NEW versus \in {-1, 1}, NEW i \in 1..n, NEW j \in i..n,
         NEW pivot \in i..j, NEW a \in [1..n -> R]
  PROVE  PartedAs(a, Parted(a, i, j, pivot, versus), n, R, i, j, versus)
<1>1. PICK m : m = Meet(a, i, j, pivot, versus)
  OBVIOUS
<1>2. m \in Meeting(n, R, i, j, pivot) /\ Met(m, a, n, i, j, pivot, versus) /\ HasMet(m, pivot)
  BY <1>1, MeetIs
<1>3. /\ m.a \in [1..n -> R] /\ m.left \in i..pivot /\ m.right \in pivot..j
      /\ Shuffled(a, m.a, n, i, j) /\ m.a[pivot] = a[pivot]
      /\ \A x \in i..(m.left - 1) : ~After(m.a[x], m.a[pivot], versus)
      /\ \A x \in (m.right + 1)..j : ~After(m.a[pivot], m.a[x], versus)
  BY <1>2 DEF Meeting, Met, LeftOf, RightOf
<1>4. CASE m.right = pivot
  <2>1. PICK t : t = EmptyLeft(m.a, m.left, pivot, versus)
    OBVIOUS
  <2>2. Parted(a, i, j, pivot, versus) = [a |-> t.a, pivot |-> t.pivot]
    BY <1>1, <1>4, <2>1 DEF Parted
  <2>3. EmptiedLeft([a |-> m.a, left |-> m.left, pivot |-> pivot], a, n, i, j, versus)
    BY <1>3, <1>4 DEF EmptiedLeft, LeftOf
  <2>4. PICK b \in [1..n -> R], left \in i..j : b = m.a /\ left = m.left /\ pivot \in left..j
    BY <1>3
  <2>5. EmptiedLeft([a |-> b, left |-> left, pivot |-> pivot], a, n, i, j, versus)
    BY <2>3, <2>4
  <2>6. PartedAs(a, EmptyLeft(b, left, pivot, versus), n, R, i, j, versus)
    BY <2>4, <2>5, EmptyLeftIs
  <2> QED
    BY <2>1, <2>2, <2>4, <2>6 DEF PartedAs
<1>5. CASE m.right # pivot
  <2>1. PICK t : t = EmptyRight(m.a, m.right, pivot, versus)
    OBVIOUS
  <2>2. Parted(a, i, j, pivot, versus) = [a |-> t.a, pivot |-> t.pivot]
    BY <1>1, <1>5, <2>1 DEF Parted
  <2>3. m.left = pivot
    BY <1>2, <1>5 DEF HasMet
  <2>4. EmptiedRight([a |-> m.a, right |-> m.right, pivot |-> pivot], a, n, i, j, versus)
    BY <1>3, <2>3 DEF EmptiedRight, RightOf
  <2>5. PICK b \in [1..n -> R], right \in i..j : b = m.a /\ right = m.right /\ pivot \in i..right
    BY <1>3
  <2>6. EmptiedRight([a |-> b, right |-> right, pivot |-> pivot], a, n, i, j, versus)
    BY <2>4, <2>5
  <2>7. PartedAs(a, EmptyRight(b, right, pivot, versus), n, R, i, j, versus)
    BY <2>5, <2>6, EmptyRightIs
  <2> QED
    BY <2>1, <2>2, <2>5, <2>7 DEF PartedAs
<1> QED
  BY <1>4, <1>5

-----------------------------------------------------------------------------
(* Sorting: a short stretch                                                *)

InOrder(b, i, j, versus) == \A x, y \in i..j : x < y => ~After(b[x], b[y], versus)

\* c is what a is once i..j is sorted.
SortedAs(a, c, n, R, i, j, versus) ==
  c \in [1..n -> R] /\ Shuffled(a, c, n, i, j) /\ InOrder(c, i, j, versus)

LEMMA ExtremeIs ==
  ASSUME NEW n \in Nat, NEW R \in SUBSET Nat, NEW versus \in {-1, 1}, NEW i \in 1..n, NEW j \in i..n,
         NEW b \in [1..n -> R]
  PROVE  /\ Extreme(b, i, j, versus) \in i..j
         /\ \A x \in i..j : ~After(b[Extreme(b, i, j, versus)], b[x], versus)
<1> DEFINE K == j - i
           Has == {k \in 0..K : \E y \in i..(i + k) : \A x \in i..(i + k) : ~After(b[y], b[x], versus)}
           Least == {y \in i..j : \A x \in i..j : ~After(b[y], b[x], versus)}
<1>1. K \in Nat /\ \A x \in i..j : x \in 1..n /\ b[x] \in Nat
  <2>1. \A x \in i..j : x \in 1..n
    OBVIOUS
  <2>2. \A x \in 1..n : b[x] \in R
    OBVIOUS
  <2>3. K \in Nat
    OBVIOUS
  <2> HIDE DEF K
  <2> QED
    BY <2>1, <2>2, <2>3
<1>2. 0 \in Has
  <2>1. \A x \in i..(i + 0) : x = i
    OBVIOUS
  <2>2. ~After(b[i], b[i], versus)
    BY <1>1, AfterOrders
  <2> QED
    BY <1>1, <2>1, <2>2
<1>3. ASSUME NEW k \in 0..(K - 1), k \in Has
      PROVE  k + 1 \in Has
  <2>1. PICK y \in i..(i + k) : \A x \in i..(i + k) : ~After(b[y], b[x], versus)
    BY <1>3
  <2>2. PICK z : z = i + (k + 1)
    OBVIOUS
  <2>3. /\ z \in i..j /\ y \in i..j /\ k + 1 \in 0..K /\ z \in i..z /\ y \in i..z
        /\ \A x \in i..z : x \in i..j /\ (x = z \/ x \in i..(i + k))
    BY <1>1, <2>1, <2>2
  <2>4. b[y] \in Nat /\ b[z] \in Nat
    BY <1>1, <2>3
  <2>5. CASE After(b[y], b[z], versus)
    <3>1. ASSUME NEW x \in i..z
          PROVE  ~After(b[z], b[x], versus)
      <4>1. b[x] \in Nat /\ ~After(b[z], b[y], versus) /\ ~After(b[z], b[z], versus)
        BY <1>1, <2>3, <2>4, <2>5, AfterOrders
      <4>2. CASE x = z
        BY <4>1, <4>2
      <4>3. CASE x # z
        <5>1. ~After(b[y], b[x], versus)
          BY <2>1, <2>3, <4>3
        <5> QED
          BY <2>4, <4>1, <5>1, AfterOrders
      <4> QED
        BY <4>2, <4>3
    <3> QED
      BY <2>2, <2>3, <3>1
  <2>6. CASE ~After(b[y], b[z], versus)
    <3>1. \A x \in i..z : ~After(b[y], b[x], versus)
      BY <2>1, <2>3, <2>6
    <3> QED
      BY <2>2, <2>3, <3>1
  <2> QED
    BY <2>5, <2>6
<1>4. K \in Has
  <2>1. 0..K \subseteq Has
    <3> HIDE DEF Has, K
    <3> QED
      BY <1>1, <1>2, <1>3, Induction, Zenon
  <2>2. K \in 0..K
    BY <1>1
  <2> HIDE DEF Has, K
  <2> QED
    BY <2>1, <2>2, Zenon
<1>5. Least # {}
  <2>1. i + K = j
    OBVIOUS
  <2> QED
    BY <1>4, <2>1
<1>6. Least \in SUBSET (1..n)
  BY <1>1
<1>7. Extreme(b, i, j, versus) = Min(Least)
  BY DEF Extreme
<1>8. Min(Least) \in Least
  <2> HIDE DEF Least
  <2> QED
    BY <1>5, <1>6, MinIs
<1> QED
  BY <1>7, <1>8

LEMMA SelectionSortIs ==
  ASSUME NEW n \in Nat, NEW R \in SUBSET Nat, NEW versus \in {-1, 1}, NEW i \in 1..n, NEW j \in i..n,
         NEW a \in [1..n -> R]
  PROVE  SortedAs(a, SelectionSort(a, i, j, versus), n, R, i, j, versus)
<1> DEFINE K == j - i
           A == [1..n -> R]
           One(b, k) == Swap(b, i + k - 1, Extreme(b, i + k - 1, j, versus))
           turn[k \in 0..(j - i)] == IF k = 0 THEN a
             ELSE Swap(turn[k - 1], i + k - 1, Extreme(turn[k - 1], i + k - 1, j, versus))
           G == [k \in 1..K |-> [b \in A |-> One(b, k)]]
<1>1. K \in Nat
  OBVIOUS
<1>2. ASSUME NEW k \in 1..K, NEW b \in A
      PROVE  \E e \in (i + k - 1)..j : /\ \A x \in (i + k - 1)..j : ~After(b[e], b[x], versus)
                                       /\ SwappedAs(b, One(b, k), n, R, i, j, i + k - 1, e)
  <2>1. PICK g : g = i + k - 1 /\ g \in 1..n /\ g \in i..j /\ j \in g..n
    BY <1>1
  <2>2. PICK e : e = Extreme(b, g, j, versus)
    OBVIOUS
  <2>3. e \in g..j /\ \A x \in g..j : ~After(b[e], b[x], versus)
    BY <2>1, <2>2, ExtremeIs
  <2>4. e \in i..j
    BY <2>1, <2>3
  <2>5. SwappedAs(b, Swap(b, g, e), n, R, i, j, g, e)
    BY <2>1, <2>4, SwapIs
  <2>6. One(b, k) = Swap(b, g, e)
    BY <2>1, <2>2
  <2> HIDE DEF One
  <2> QED
    BY <2>1, <2>3, <2>5, <2>6
<1>3. G \in [1..K -> [A -> A]]
  <2>1. \A k \in 1..K, b \in A : One(b, k) \in A
    BY <1>2 DEF SwappedAs
  <2> HIDE DEF One, A
  <2> QED
    BY <2>1
<1>4. PICK g : Solves(g, K, A, a, G)
  <2> HIDE DEF G, K
  <2> QED
    BY <1>1, <1>3, Recursion, Zenon
<1>5. \A k \in 1..K : k \in 0..K /\ k - 1 \in 0..K /\ k # 0
  BY <1>1
<1>6. turn = [k \in 0..K |-> IF k = 0 THEN a ELSE One(turn[k - 1], k)]
  <2>1. g = [k \in 0..K |-> IF k = 0 THEN a ELSE One(g[k - 1], k)]
    <3>1. g \in [0..K -> A] /\ g[0] = a
      BY <1>4 DEF Solves
    <3>2. \A k \in 1..K : g[k] = One(g[k - 1], k)
      <4>1. \A k \in 1..K : g[k] = G[k][g[k - 1]] /\ g[k - 1] \in A
        BY <1>4, <1>5, <3>1 DEF Solves, Follows
      <4> HIDE DEF One, A
      <4> QED
        BY <4>1
    <3>3. \A k \in 0..K : k = 0 \/ k \in 1..K
      BY <1>1
    <3> HIDE DEF One, G
    <3> QED
      BY <3>1, <3>2, <3>3
  <2> QED
    BY <2>1, Zenon
<1>7. SelectionSort(a, i, j, versus) = turn[K]
  BY Zenon DEF SelectionSort
<1> HIDE DEF turn, G, One
<1> DEFINE Good == {k \in 0..K : /\ turn[k] \in A /\ Shuffled(a, turn[k], n, i, j)
                                 /\ \A x \in i..(i + k - 1) : \A y \in x..j :
                                      ~After(turn[k][x], turn[k][y], versus)}
<1>8. 0 \in Good
  <2>1. turn[0] = a
    BY <1>1, <1>6
  <2>2. i..(i + 0 - 1) = {}
    OBVIOUS
  <2> QED
    BY <1>1, <2>1, <2>2, ShuffledSame
<1>9. ASSUME NEW k \in 0..(K - 1), k \in Good
      PROVE  k + 1 \in Good
  <2>1. PICK b \in A : /\ b = turn[k] /\ Shuffled(a, b, n, i, j)
                       /\ \A x \in i..(i + k - 1) : \A y \in x..j : ~After(b[x], b[y], versus)
    BY <1>9
  <2>2. PICK c : c = One(b, k + 1)
    OBVIOUS
  <2>3. turn[k + 1] = c
    <3>1. k + 1 \in 0..K /\ k + 1 # 0 /\ (k + 1) - 1 = k
      BY <1>1
    <3> QED
      BY <1>6, <2>1, <2>2, <3>1
  <2>4. PICK u : u = i + k
    OBVIOUS
  <2>5. /\ k + 1 \in 1..K /\ i + (k + 1) - 1 = u /\ u \in i..j /\ k + 1 \in 0..K
        /\ i + k - 1 = u - 1
    BY <1>1, <2>4
  <2>6. PICK e \in u..j : /\ \A x \in u..j : ~After(b[e], b[x], versus)
                          /\ SwappedAs(b, c, n, R, i, j, u, e)
    BY <1>2, <2>2, <2>5
  <2>7. /\ c \in A /\ Shuffled(b, c, n, i, j) /\ c[u] = b[e] /\ c[e] = b[u]
        /\ \A x \in 1..n : x # u /\ x # e => c[x] = b[x]
    BY <2>6 DEF SwappedAs
  <2>8. Shuffled(a, c, n, i, j)
    BY <2>1, <2>7, ShuffledTwice
  <2>9. ASSUME NEW x \in i..u, NEW y \in x..j
        PROVE  ~After(c[x], c[y], versus)
    <3>1. e \in u..j /\ u \in u..j /\ y \in 1..n /\ x \in 1..n /\ x <= u /\ x <= e
      BY <2>5, <2>6
    <3>2. PICK z : z = (IF y = u THEN e ELSE IF y = e THEN u ELSE y)
      OBVIOUS
    <3>3. c[y] = b[z] /\ z \in x..j
      BY <2>7, <3>1, <3>2
    <3>4. CASE x = u
      BY <2>6, <2>7, <3>3, <3>4
    <3>5. CASE x # u
      <4>1. x \in i..(i + k - 1) /\ x # e
        BY <2>5, <3>1, <3>5
      <4>2. c[x] = b[x]
        BY <2>7, <3>1, <3>5, <4>1
      <4> QED
        BY <2>1, <3>3, <4>1, <4>2
    <3> QED
      BY <3>4, <3>5
  <2> QED
    BY <2>3, <2>5, <2>7, <2>8, <2>9
<1>10. K \in Good
  <2>1. 0..K \subseteq Good
    <3> HIDE DEF Good, K
    <3> QED
      BY <1>1, <1>8, <1>9, Induction, Zenon
  <2> QED
    BY <1>1, <2>1
<1>11. PICK c : c = turn[K]
  OBVIOUS
<1>12. /\ c \in A /\ Shuffled(a, c, n, i, j)
       /\ \A x \in i..(i + K - 1) : \A y \in x..j : ~After(c[x], c[y], versus)
  BY <1>10, <1>11
<1>13. InOrder(c, i, j, versus)
  <2>1. \A x, y \in i..j : x < y => x \in i..(i + K - 1) /\ y \in x..j
    OBVIOUS
  <2> QED
    BY <1>12, <2>1 DEF InOrder
<1> QED
  BY <1>7, <1>11, <1>12, <1>13 DEF SortedAs

-----------------------------------------------------------------------------
(* Sorting: the whole list                                                 *)

\* Once both parts are in order, the whole is.
LEMMA PartsJoined ==
  ASSUME NEW n \in Nat, NEW R \in SUBSET Nat, NEW versus \in {-1, 1}, NEW i \in 1..n, NEW j \in i..n,
         NEW a, NEW p, NEW b, NEW c, PartedAs(a, p, n, R, i, j, versus),
         SortedAs(p.a, b, n, R, i, p.pivot - 1, versus), SortedAs(b, c, n, R, p.pivot + 1, j, versus)
  PROVE  SortedAs(a, c, n, R, i, j, versus)
<1>1. PICK d \in [1..n -> R], q \in i..j : d = p.a /\ q = p.pivot
  BY DEF PartedAs
<1>2. /\ Shuffled(a, d, n, i, j)
      /\ \A x \in i..(q - 1) : ~After(d[x], d[q], versus)
      /\ \A x \in (q + 1)..j : ~After(d[q], d[x], versus)
  BY <1>1 DEF PartedAs, Parts
<1>3. /\ b \in [1..n -> R] /\ Shuffled(d, b, n, i, q - 1)
      /\ \A x, y \in i..(q - 1) : x < y => ~After(b[x], b[y], versus)
  BY <1>1 DEF SortedAs, InOrder
<1>4. /\ c \in [1..n -> R] /\ Shuffled(b, c, n, q + 1, j)
      /\ \A x, y \in (q + 1)..j : x < y => ~After(c[x], c[y], versus)
  BY <1>1 DEF SortedAs, InOrder
<1>5. Shuffled(a, c, n, i, j)
  <2>1. i \in Int /\ j \in Int /\ q - 1 \in Int /\ q + 1 \in Int /\ i <= i /\ j <= j /\ q - 1 <= j /\ i <= q + 1
    BY <1>1
  <2>2. Shuffled(d, b, n, i, j)
    BY <1>3, <2>1, ShuffledWider
  <2>3. Shuffled(b, c, n, i, j)
    BY <1>4, <2>1, ShuffledWider
  <2> QED
    BY <1>2, <2>2, <2>3, ShuffledTwice
<1>6. /\ q \in 1..n /\ \A x \in i..j : x \in 1..n
      /\ \A x \in 1..n : d[x] \in Nat /\ b[x] \in Nat /\ c[x] \in Nat
  <2>1. q \in 1..n /\ \A x \in i..j : x \in 1..n
    BY <1>1
  <2>2. \A x \in 1..n : d[x] \in R /\ b[x] \in R /\ c[x] \in R
    BY <1>1, <1>3, <1>4
  <2> QED
    BY <2>1, <2>2
<1>w. Within(d, b, n, i, q - 1) /\ Within(b, c, n, q + 1, j)
  BY <1>3, <1>4, ShuffledWithin, Zenon
<1>7. c[q] = d[q]
  <2>1. q \notin i..(q - 1) /\ q \notin (q + 1)..j
    BY <1>6
  <2> QED
    BY <1>6, <1>w, <2>1 DEF Within
<1>8. ASSUME NEW x \in i..j, x < q
      PROVE  c[x] = b[x] /\ ~After(c[x], d[q], versus)
  <2>1. x \in i..(q - 1) /\ x \notin (q + 1)..j
    BY <1>1, <1>8
  <2>2. c[x] = b[x]
    BY <1>6, <1>w, <2>1 DEF Within
  <2>3. PICK y \in i..(q - 1) : b[x] = d[y]
    BY <1>6, <1>w, <2>1 DEF Within
  <2> QED
    BY <1>2, <2>2, <2>3
<1>9. ASSUME NEW x \in i..j, q < x
      PROVE  ~After(d[q], c[x], versus)
  <2>1. x \in (q + 1)..j
    BY <1>1, <1>9
  <2>2. PICK y \in (q + 1)..j : y \in 1..n /\ c[x] = b[y]
    BY <1>6, <1>w, <2>1 DEF Within
  <2>3. y \notin i..(q - 1)
    BY <1>1, <2>2
  <2>4. b[y] = d[y]
    BY <1>w, <2>2, <2>3 DEF Within
  <2> QED
    BY <1>2, <2>2, <2>4
<1>10. ASSUME NEW x \in i..j, NEW y \in i..j, x < y
       PROVE  ~After(c[x], c[y], versus)
  <2>1. CASE y < q
    <3>1. x \in i..(q - 1) /\ y \in i..(q - 1) /\ x < q
      BY <1>1, <1>10, <2>1
    <3> QED
      BY <1>3, <1>8, <1>10, <2>1, <3>1
  <2>2. CASE y = q
    <3>1. x < q
      BY <1>10, <2>2
    <3> QED
      BY <1>7, <1>8, <2>2, <3>1
  <2>3. CASE q < y /\ x < q
    <3>1. /\ ~After(c[x], d[q], versus) /\ ~After(d[q], c[y], versus)
          /\ c[x] \in Nat /\ c[y] \in Nat /\ d[q] \in Nat
      BY <1>6, <1>8, <1>9, <2>3
    <3> QED
      BY <3>1, AfterOrders
  <2>4. CASE q < y /\ x = q
    BY <1>7, <1>9, <2>4
  <2>5. CASE q < y /\ q < x
    <3>1. x \in (q + 1)..j /\ y \in (q + 1)..j
      BY <1>1, <2>5
    <3> QED
      BY <1>4, <1>10, <3>1
  <2>6. x < q \/ x = q \/ q < x
    BY <1>1
  <2>7. y < q \/ y = q \/ q < y
    BY <1>1
  <2> QED
    BY <2>1, <2>2, <2>3, <2>4, <2>5, <2>6, <2>7
<1> QED
  BY <1>4, <1>5, <1>10 DEF SortedAs, InOrder

\* The stretches between the places f and g of a list.
Stretches(n, R, f, g) == [1..n -> R] \X (f..(g + 1)) \X ((f - 1)..g)

\* sorts is right for the stretches that are shorter than k.
SortsShorter(sorts, n, R, f, g, k, versus) ==
  \A x \in Stretches(n, R, f, g) : x[3] - x[2] + 1 < k =>
    \A c \in sorts[x] : SortedAs(x[1], c, n, R, x[2], x[3], versus)

\* c is what the stretch i..j of a becomes if sorts is right for shorter ones.
SortedBy(a, c, sorts, n, R, f, g, i, j, versus) ==
  /\ c \in [1..n -> R]
  /\ SortsShorter(sorts, n, R, f, g, j - i + 1, versus) => SortedAs(a, c, n, R, i, j, versus)

LEMMA QuickSortOneIs ==
  ASSUME NEW n \in Nat, NEW R \in SUBSET Nat, NEW versus \in {-1, 1},
         NEW f \in 1..(n + 1), NEW g \in (f - 1)..n,
         NEW a \in [1..n -> R], NEW i \in f..(g + 1), NEW j \in (f - 1)..g,
         NEW sorts \in [Stretches(n, R, f, g) -> SUBSET [1..n -> R]],
         NEW c \in QuickSortOne(a, i, j, versus, sorts)
  PROVE  SortedBy(a, c, sorts, n, R, f, g, i, j, versus)
<1>1. CASE j <= i
  <2>1. c = a
    BY <1>1 DEF QuickSortOne
  <2>2. InOrder(a, i, j, versus)
    BY <1>1 DEF InOrder
  <2> QED
    BY <2>1, <2>2, ShuffledSame DEF SortedAs, SortedBy
<1>2. CASE j > i /\ j - i + 1 <= SIMCLIST_MINQUICKSORTELS
  <2>1. c = SelectionSort(a, i, j, versus)
    <3>1. ~(j <= i)
      BY <1>2
    <3>2. QuickSortOne(a, i, j, versus, sorts) = {SelectionSort(a, i, j, versus)}
      BY <1>2, <3>1, Zenon DEF QuickSortOne
    <3> QED
      BY <3>2
  <2>2. i \in 1..n /\ j \in i..n
    BY <1>2
  <2>3. SortedAs(a, c, n, R, i, j, versus)
    BY <2>1, <2>2, SelectionSortIs
  <2> QED
    BY <2>3 DEF SortedAs, SortedBy
<1>3. CASE j > i /\ ~(j - i + 1 <= SIMCLIST_MINQUICKSORTELS)
  <2>1. c \in UNION {UNION {sorts[<<b, p.pivot + 1, j>>] : b \in sorts[<<p.a, i, p.pivot - 1>>]}
                       : p \in {Parted(a, i, j, pivot, versus) : pivot \in i..j}}
    <3>1. ~(j <= i)
      BY <1>3
    <3> QED
      BY <1>3, <3>1, Zenon DEF QuickSortOne
  <2>2. PICK pivot, p, b : /\ pivot \in i..j /\ p = Parted(a, i, j, pivot, versus)
                           /\ b \in sorts[<<p.a, i, p.pivot - 1>>]
                           /\ c \in sorts[<<b, p.pivot + 1, j>>]
    <3>1. PICK p \in {Parted(a, i, j, pivot, versus) : pivot \in i..j} :
            c \in UNION {sorts[<<b, p.pivot + 1, j>>] : b \in sorts[<<p.a, i, p.pivot - 1>>]}
      BY <2>1
    <3>2. PICK pivot \in i..j : p = Parted(a, i, j, pivot, versus)
      BY <3>1
    <3>3. PICK b \in sorts[<<p.a, i, p.pivot - 1>>] : c \in sorts[<<b, p.pivot + 1, j>>]
      BY <3>1
    <3> QED
      BY <3>2, <3>3
  <2>3. i \in 1..n /\ j \in i..n /\ i \in f..g
    BY <1>3
  <2>4. PartedAs(a, p, n, R, i, j, versus)
    BY <2>2, <2>3, PartedIs
  <2>5. PICK q \in i..j : q = p.pivot
    BY <2>4 DEF PartedAs
  <2>6. PICK x : x = <<p.a, i, q - 1>>
    OBVIOUS
  <2>7. x \in Stretches(n, R, f, g) /\ x[1] = p.a /\ x[2] = i /\ x[3] = q - 1
    <3>1. p.a \in [1..n -> R]
      BY <2>4 DEF PartedAs
    <3>2. i \in f..(g + 1) /\ q - 1 \in (f - 1)..g
      BY <2>3, <2>5
    <3> QED
      BY <2>6, <3>1, <3>2 DEF Stretches
  <2>8. b \in [1..n -> R] /\ b \in sorts[x]
    <3>1. sorts[x] \subseteq [1..n -> R]
      BY <2>7
    <3>2. b \in sorts[x]
      BY <2>2, <2>5, <2>6
    <3> QED
      BY <3>1, <3>2, Zenon
  <2>9. PICK y : y = <<b, q + 1, j>>
    OBVIOUS
  <2>10. y \in Stretches(n, R, f, g) /\ y[1] = b /\ y[2] = q + 1 /\ y[3] = j
    <3>1. q + 1 \in f..(g + 1) /\ j \in (f - 1)..g
      BY <2>3, <2>5
    <3> QED
      BY <2>8, <2>9, <3>1 DEF Stretches
  <2>11. c \in [1..n -> R] /\ c \in sorts[y]
    <3>1. sorts[y] \subseteq [1..n -> R]
      BY <2>10
    <3>2. c \in sorts[y]
      BY <2>2, <2>5, <2>9
    <3> QED
      BY <3>1, <3>2, Zenon
  <2>12. ASSUME SortsShorter(sorts, n, R, f, g, j - i + 1, versus)
         PROVE  SortedAs(a, c, n, R, i, j, versus)
    <3>1. x[3] - x[2] + 1 < j - i + 1 /\ y[3] - y[2] + 1 < j - i + 1
      <4>1. (q - 1) - i + 1 < j - i + 1 /\ j - (q + 1) + 1 < j - i + 1
        BY <2>3, <2>5
      <4> QED
        BY <2>7, <2>10, <4>1, Zenon
    <3>2. SortedAs(p.a, b, n, R, i, q - 1, versus)
      BY <2>7, <2>8, <2>12, <3>1 DEF SortsShorter
    <3>3. SortedAs(b, c, n, R, q + 1, j, versus)
      BY <2>10, <2>11, <2>12, <3>1 DEF SortsShorter
    <3> QED
      BY <2>3, <2>4, <2>5, <3>2, <3>3, PartsJoined
  <2> QED
    BY <2>11, <2>12 DEF SortedBy
<1> QED
  BY <1>1, <1>2, <1>3

\* Whatever pivots list_sort() draws, what it leaves between two places of a list
\* is what was there, in order, and the rest is as it was.
THEOREM QuickSortSorts ==
  ASSUME NEW n \in Nat, NEW a \in [1..n -> Nat], NEW versus \in {-1, 1},
         NEW f \in 1..(n + 1), NEW g \in (f - 1)..n, NEW c \in QuickSorts(a, f, g, versus)
  PROVE  SortedAs(a, c, n, Range(a), f, g, versus)
<1> DEFINE R == Range(a)
           A == [1..n -> R]
           X == [DOMAIN a -> Range(a)] \X (f..(g + 1)) \X ((f - 1)..g)
           K == g - f + 1
           T == [X -> SUBSET A]
           none == [x \in X |-> {x[1]}]
           More(sorts) == [x \in X |-> QuickSortOne(x[1], x[2], x[3], versus, sorts)]
           turn[k \in 0..(g - f + 1)] == IF k = 0 THEN none ELSE More(turn[k - 1])
           H == [sorts \in T |-> More(sorts)]
<1>1. K \in Nat /\ R \in SUBSET Nat /\ DOMAIN a = 1..n /\ a \in A
  BY DEF Range
<1>2. X = Stretches(n, R, f, g)
  BY <1>1 DEF Stretches
<1>3. \A x \in X : x[1] \in A /\ x[2] \in f..(g + 1) /\ x[3] \in (f - 1)..g
  BY <1>1
<1> HIDE DEF X
<1>4. none \in T
  BY <1>3
<1>m. \A sorts \in T : More(sorts) \in T
  <2>1. ASSUME NEW sorts \in T, NEW x \in X
        PROVE  QuickSortOne(x[1], x[2], x[3], versus, sorts) \in SUBSET A
    <3> SUFFICES ASSUME NEW d \in QuickSortOne(x[1], x[2], x[3], versus, sorts)
                 PROVE  d \in A
      OBVIOUS
    <3>1. sorts \in [Stretches(n, R, f, g) -> SUBSET [1..n -> R]]
      BY <1>2
    <3>2. PICK b \in [1..n -> R], i \in f..(g + 1), j \in (f - 1)..g : b = x[1] /\ i = x[2] /\ j = x[3]
      BY <1>3
    <3>3. d \in QuickSortOne(b, i, j, versus, sorts)
      BY <3>2
    <3> QED
      BY <1>1, <3>1, <3>3, QuickSortOneIs DEF SortedBy
  <2> QED
    BY <2>1
<1>5. H \in [T -> T]
  <2> HIDE DEF T, More
  <2> QED
    BY <1>m
<1>6. PICK h : h \in [0..K -> T] /\ h[0] = none /\ \A k \in 1..K : h[k] = H[h[k - 1]]
  <2>1. \E h : Turns(h, K, T, none, H)
    <3> HIDE DEF T, H, none, K
    <3> QED
      BY <1>1, <1>4, <1>5, Turning, Zenon
  <2> QED
    BY <2>1, Zenon DEF Turns
<1>7. \A k \in 1..K : k \in 0..K /\ k - 1 \in 0..K /\ k # 0
  BY <1>1
<1>8. turn = [k \in 0..K |-> IF k = 0 THEN none ELSE More(turn[k - 1])]
  <2>1. h = [k \in 0..K |-> IF k = 0 THEN none ELSE More(h[k - 1])]
    <3>1. \A k \in 1..K : h[k] = More(h[k - 1])
      <4> HIDE DEF T, More
      <4> QED
        BY <1>6, <1>7
    <3>2. \A k \in 0..K : k = 0 \/ k \in 1..K
      BY <1>1
    <3> HIDE DEF T, H, none, More
    <3> QED
      BY <1>6, <1>7, <3>1, <3>2
  <2> QED
    BY <2>1, Zenon
<1>9. QuickSorts(a, f, g, versus) = turn[K][<<a, f, g>>]
  BY Zenon DEF QuickSorts, X
<1> HIDE DEF turn, H
<1> DEFINE Good == {k \in 0..K : turn[k] \in T /\ SortsShorter(turn[k], n, R, f, g, k + 1, versus)}
<1>10. 0 \in Good
  <2>1. turn[0] = none
    BY <1>1, <1>8
  <2>2. ASSUME NEW x \in X, x[3] - x[2] + 1 < 0 + 1
        PROVE  SortedAs(x[1], x[1], n, R, x[2], x[3], versus)
    <3>1. InOrder(x[1], x[2], x[3], versus)
      BY <1>3, <2>2 DEF InOrder
    <3> QED
      BY <1>3, <3>1, ShuffledSame DEF SortedAs
  <2>3. SortsShorter(none, n, R, f, g, 0 + 1, versus)
    BY <1>2, <2>2 DEF SortsShorter
  <2> QED
    BY <1>1, <1>4, <2>1, <2>3
<1>11. ASSUME NEW k \in 0..(K - 1), k \in Good
       PROVE  k + 1 \in Good
  <2>1. PICK sorts \in T : sorts = turn[k] /\ SortsShorter(sorts, n, R, f, g, k + 1, versus)
    BY <1>11
  <2>2. turn[k + 1] = More(sorts) /\ k + 1 \in 0..K
    <3>1. k + 1 \in 0..K /\ k + 1 # 0 /\ (k + 1) - 1 = k
      BY <1>1
    <3> HIDE DEF More
    <3> QED
      BY <1>8, <2>1, <3>1
  <2>3. More(sorts) \in T
    BY <1>m, <2>1
  <2>4. ASSUME NEW x \in X, x[3] - x[2] + 1 < (k + 1) + 1,
               NEW d \in QuickSortOne(x[1], x[2], x[3], versus, sorts)
        PROVE  SortedAs(x[1], d, n, R, x[2], x[3], versus)
    <3>1. sorts \in [Stretches(n, R, f, g) -> SUBSET [1..n -> R]]
      BY <1>2, <2>1
    <3>2. PICK b \in [1..n -> R], i \in f..(g + 1), j \in (f - 1)..g : b = x[1] /\ i = x[2] /\ j = x[3]
      BY <1>3
    <3>3. d \in QuickSortOne(b, i, j, versus, sorts)
      BY <2>4, <3>2
    <3>4. SortsShorter(sorts, n, R, f, g, j - i + 1, versus)
      <4>1. \A y \in X : y[3] - y[2] + 1 < j - i + 1 => y[3] - y[2] + 1 < k + 1
        <5> SUFFICES ASSUME NEW y \in X, y[3] - y[2] + 1 < j - i + 1
                     PROVE  y[3] - y[2] + 1 < k + 1
          OBVIOUS
        <5>1. y[3] \in Int /\ y[2] \in Int
          BY <1>3
        <5>2. j - i + 1 < (k + 1) + 1
          BY <2>4, <3>2
        <5> QED
          BY <5>1, <5>2
      <4> QED
        BY <1>2, <2>1, <4>1 DEF SortsShorter
    <3>5. SortedAs(b, d, n, R, i, j, versus)
      <4>1. SortedBy(b, d, sorts, n, R, f, g, i, j, versus)
        BY <1>1, <3>1, <3>3, QuickSortOneIs
      <4> QED
        BY <3>4, <4>1 DEF SortedBy
    <3> QED
      BY <3>2, <3>5
  <2>5. SortsShorter(More(sorts), n, R, f, g, (k + 1) + 1, versus)
    BY <1>2, <2>4 DEF SortsShorter
  <2> QED
    BY <2>2, <2>3, <2>5
<1>12. K \in Good
  <2>1. 0..K \subseteq Good
    <3> HIDE DEF Good, K
    <3> QED
      BY <1>1, <1>10, <1>11, Induction, Zenon
  <2>2. K \in 0..K
    BY <1>1
  <2> HIDE DEF Good, K
  <2> QED
    BY <2>1, <2>2, Zenon
<1>13. PICK x : x = <<a, f, g>>
  OBVIOUS
<1>14. x \in Stretches(n, R, f, g) /\ x[1] = a /\ x[2] = f /\ x[3] = g
  BY <1>1, <1>13 DEF Stretches
<1>15. x[3] - x[2] + 1 < K + 1
  BY <1>14
<1>16. c \in turn[K][x]
  BY <1>9, <1>13
<1> QED
  <2>1. SortsShorter(turn[K], n, R, f, g, K + 1, versus)
    BY <1>12
  <2> HIDE DEF K, R
  <2>2. SortedAs(x[1], c, n, R, x[2], x[3], versus)
    BY <1>14, <1>15, <1>16, <2>1 DEF SortsShorter
  <2>3. SortedAs(a, c, n, R, f, g, versus)
    BY <1>14, <2>2
  <2> QED
    BY <2>3 DEF R

-----------------------------------------------------------------------------
(* Calls of the user                                                       *)

\* The data of a list, in their order.
LEMMA ItemsType ==
  ASSUME NEW s, NEW p, WellFormed(s, p)
  PROVE  /\ s.numels \in Nat /\ s.numels <= MaxLen
         /\ Items(s) \in [1..s.numels -> Data] /\ Items(s) \in Seq(Data) /\ Len(Items(s)) = s.numels
         /\ \A k \in 1..s.numels : Items(s)[k] = s.data[p[k]]
<1>1. s \in Lists /\ Chained(s, p) /\ Holds(s, p)
  BY DEF WellFormed
<1>2. s.numels \in Nat /\ s.numels <= MaxLen
  BY <1>1 DEF Lists
<1>3. Items(s) = [k \in 1..s.numels |-> s.data[p[k]]]
  BY <1>1, ItemsIs
<1>4. Items(s) \in [1..s.numels -> Data]
  BY <1>1, <1>3 DEF Holds
<1>5. Items(s) \in Seq(Data) /\ Len(Items(s)) = s.numels
  BY <1>2, <1>4, SeqDef, LenProperties
<1> QED
  BY <1>2, <1>3, <1>4, <1>5

\* t is s with the data d.
PlacedAs(s, p, t, d) ==
  /\ WellFormed(t, p) /\ SameIter(s, t) /\ t.numels = s.numels
  /\ \A k \in 1..s.numels : t.data[p[k]] = d[k]

\* list_sort()
LEMMA SortIs ==
  ASSUME NEW s, NEW p, WellFormed(s, p), NEW versus \in {-1, 1}, NEW t \in Sorted(s, versus)
  PROVE  \E d : /\ SortedAs(Items(s), d, s.numels, Range(Items(s)), 1, s.numels, versus)
                /\ PlacedAs(s, p, t, d)
<1>1. /\ s \in Lists /\ Chained(s, p) /\ s.mid = Centre(p, s.numels)
      /\ Holds(s, p) /\ Memory(s, Inside(p, s.numels))
  BY DEF WellFormed
<1>2. PICK n \in Nat : n = s.numels
  BY <1>1 DEF Lists
<1>3. PICK items \in [1..n -> Data] : items = Items(s)
  BY <1>2, ItemsType
<1>4. /\ p \in [0..(n + 1) -> Cells]
      /\ \A i, j \in 0..(n + 1) : p[i] = p[j] => i = j
  BY <1>1, <1>2 DEF Chained, Path
<1>5. \A k \in 1..n : k \in 0..(n + 1)
  OBVIOUS
<1> DEFINE at == [k \in 1..n |-> p[k]]
           place == [c \in Range(at) |-> CHOOSE k \in DOMAIN at : at[k] = c]
           after(d) == [c \in Cells |-> IF c \in DOMAIN place THEN d[place[c]] ELSE NULL]
<1>6. Linked(s) = at
  BY <1>1, <1>2, LinkedIs
<1>7. PICK d \in QuickSorts(items, 1, n, versus) : t = [s EXCEPT !.data = after(d)]
  <2> DEFINE S(where, all, m) ==
               LET to == [c \in Range(where) |-> CHOOSE k \in DOMAIN where : where[k] = c]
               IN {[s EXCEPT !.data = [c \in Cells |-> IF c \in DOMAIN to THEN e[to[c]] ELSE NULL]]
                     : e \in QuickSorts(all, 1, m, versus)}
  <2>1. t \in S(Linked(s), Items(s), s.numels)
    BY Zenon DEF Sorted
  <2>2. t \in S(at, items, n)
    <3> HIDE DEF S, at
    <3> QED
      BY <1>2, <1>3, <1>6, <2>1, Zenon
  <2>3. PICK d \in QuickSorts(items, 1, n, versus) :
          t = [s EXCEPT !.data = [c \in Cells |-> IF c \in DOMAIN place THEN d[place[c]] ELSE NULL]]
    <3> HIDE DEF at
    <3> QED
      BY <2>2, Zenon
  <2> QED
    BY <2>3, Zenon
<1>8. SortedAs(items, d, n, Range(items), 1, n, versus)
  <2>1. items \in [1..n -> Nat]
    <3>1. \A k \in 1..n : items[k] \in Data
      OBVIOUS
    <3>2. \A k \in 1..n : items[k] \in Nat
      BY <3>1
    <3> QED
      BY <3>2
  <2>2. 1 \in 1..(n + 1) /\ n \in (1 - 1)..n
    OBVIOUS
  <2> QED
    BY <1>7, <2>1, <2>2, QuickSortSorts
<1>9. \A k \in 1..n : d[k] \in Data
  <2>1. d \in [1..n -> Range(items)]
    BY <1>8 DEF SortedAs
  <2>2. Range(items) \subseteq Data
    BY DEF Range
  <2> QED
    BY <2>1, <2>2
<1>10. ASSUME NEW k \in 1..n
       PROVE  p[k] \in Cells /\ after(d)[p[k]] = d[k]
  <2>1. p[k] \in Cells
    BY <1>4, <1>5
  <2>2. p[k] \in DOMAIN place
    BY DEF Range
  <2>3. place[p[k]] \in DOMAIN at /\ at[place[p[k]]] = p[k]
    BY <2>2 DEF Range
  <2>4. place[p[k]] \in 1..n /\ p[place[p[k]]] = p[k]
    BY <2>3
  <2>5. place[p[k]] = k
    <3> HIDE DEF place
    <3> QED
      BY <1>4, <1>5, <2>4
  <2> HIDE DEF place
  <2> QED
    BY <2>1, <2>2, <2>5
<1>11. after(d) \in [Cells -> Data \cup {NULL}]
  <2>1. ASSUME NEW c \in Cells, c \in DOMAIN place
        PROVE  d[place[c]] \in Data
    <3>1. place[c] \in 1..n
      BY <2>1 DEF Range
    <3> QED
      BY <1>9, <3>1
  <2> HIDE DEF place
  <2> QED
    BY <2>1
<1> HIDE DEF after, place, at
<1>12. /\ t \in Lists /\ t.next = s.next /\ t.prev = s.prev /\ t.mid = s.mid /\ t.numels = n
       /\ SameMemory(s, t) /\ SameIter(s, t) /\ t.data = after(d)
  BY <1>1, <1>2, <1>7, <1>11 DEF Lists, SameMemory, SameIter
<1>13. \A k \in 1..n : t.data[p[k]] = d[k]
  BY <1>10, <1>12
<1>14. WellFormed(t, p)
  <2>1. Chained(t, p)
    BY <1>1, <1>2, <1>12 DEF Chained
  <2>2. Memory(t, Inside(p, n))
    BY <1>1, <1>2, <1>12 DEF Memory, SameMemory
  <2>3. Holds(t, p)
    BY <1>9, <1>12, <1>13 DEF Holds
  <2> QED
    BY <1>1, <1>2, <1>12, <2>1, <2>2, <2>3 DEF WellFormed
<1> QED
  BY <1>2, <1>3, <1>8, <1>12, <1>13, <1>14 DEF PlacedAs

\* The place list_locate() finds holds what was asked for.
LEMMA LocateIs ==
  ASSUME NEW s, NEW p, WellFormed(s, p), NEW d, list_locate(s, d) >= 0
  PROVE  list_locate(s, d) \in 0..(s.numels - 1)
<1> DEFINE hits == {k \in 1..s.numels : Items(s)[k] = d}
<1>1. s.numels \in Nat
  BY ItemsType
<1>2. list_locate(s, d) = IF hits = {} THEN -1 ELSE Min(hits) - 1
  BY DEF list_locate
<1>3. hits # {}
  BY <1>2
<1>4. Min(hits) \in hits
  <2>1. hits \in SUBSET (1..s.numels)
    OBVIOUS
  <2> HIDE DEF hits
  <2> QED
    BY <1>1, <1>3, <2>1, MinIs
<1> QED
  BY <1>1, <1>2, <1>3, <1>4

\* A step of an iteration changes nothing of the list.
LEMMA IterationIs ==
  ASSUME NEW s, NEW p, WellFormed(s, p), NEW t \in Lists, SameLinks(s, t), SameMemory(s, t),
         t.mid = s.mid, t.numels = s.numels
  PROVE  WellFormed(t, p) /\ Items(t) = Items(s)
<1>1. /\ s \in Lists /\ Chained(s, p) /\ s.mid = Centre(p, s.numels)
      /\ Holds(s, p) /\ Memory(s, Inside(p, s.numels))
  BY DEF WellFormed
<1>2. Chained(t, p)
  BY <1>1 DEF Chained, SameLinks
<1>3. Holds(t, p) /\ Memory(t, Inside(p, s.numels))
  BY <1>1 DEF Holds, Memory, SameLinks, SameMemory
<1>4. Items(s) = [k \in 1..s.numels |-> s.data[p[k]]]
  BY <1>1, ItemsIs
<1>5. Items(t) = [k \in 1..t.numels |-> t.data[p[k]]]
  BY <1>2, ItemsIs
<1> QED
  BY <1>1, <1>2, <1>3, <1>4, <1>5 DEF WellFormed, SameLinks

-----------------------------------------------------------------------------
(* The invariant holds                                                     *)

LEMMA Begins == Init => Inv
<1> SUFFICES ASSUME Init
             PROVE  Inv
  OBVIOUS
<1>1. l = Empty /\ returned = <<>>
  BY DEF Init
<1> DEFINE p == [k \in 0..1 |-> IF k = 0 THEN head_sentinel ELSE tail_sentinel]
<1>2. WellFormed(l, p) /\ ~l.iter_active
  BY <1>1, EmptyIs
<1>3. Iterates(l, p)
  BY <1>1, <1>2 DEF Iterates
<1>4. returned \in Seq(Data)
  BY <1>1
<1> QED
  BY <1>2, <1>3, <1>4 DEF Inv

\* A change nobody iterates during.
LEMMA ChangeKeeps ==
  ASSUME Inv, NEW t, Changed(t), NEW q, WellFormed(t, q), SameIter(l, t)
  PROVE  Inv'
<1>1. ~l.iter_active /\ l' = t /\ returned' = returned
  BY DEF Changed
<1>2. returned = <<>>
  BY <1>1 DEF Inv, Iterates
<1>3. ~t.iter_active
  BY <1>1 DEF SameIter
<1>4. WellFormed(l', q)
  BY <1>1
<1>5. Iterates(l, q)'
  BY <1>1, <1>2, <1>3 DEF Iterates
<1>6. returned' \in Seq(Data)
  BY <1>1, <1>2
<1> QED
  BY <1>4, <1>5, <1>6 DEF Inv

LEMMA InsertKeeps == Inv /\ Insert => Inv'
<1> SUFFICES ASSUME Inv, Insert
             PROVE  Inv'
  OBVIOUS
<1>1. PICK p : WellFormed(l, p)
  BY DEF Inv
<1>2. PICK pos \in 0..l.numels, d \in Data : l.numels < MaxLen /\ Changed(list_insert_at(l, d, pos))
  BY DEF Insert
<1>3. PICK q : InsertedAs(l, p, list_insert_at(l, d, pos), q, d, pos)
  BY <1>1, <1>2, InsertIs
<1> QED
  BY <1>2, <1>3, ChangeKeeps DEF InsertedAs

LEMMA DeleteAtKeeps == Inv /\ DeleteAt => Inv'
<1> SUFFICES ASSUME Inv, DeleteAt
             PROVE  Inv'
  OBVIOUS
<1>1. PICK p : WellFormed(l, p)
  BY DEF Inv
<1>2. PICK pos \in 0..(l.numels - 1) : Changed(list_delete_at(l, pos))
  BY DEF DeleteAt
<1>3. CutAs(l, p, list_delete_at(l, pos), Without(p, l.numels, pos + 1, pos + 1), pos + 1, pos + 1)
  BY <1>1, <1>2, DeleteAtIs
<1> QED
  BY <1>2, <1>3, ChangeKeeps DEF CutAs

LEMMA DeleteKeeps == Inv /\ Delete => Inv'
<1> SUFFICES ASSUME Inv, Delete
             PROVE  Inv'
  OBVIOUS
<1>1. PICK p : WellFormed(l, p)
  BY DEF Inv
<1>2. PICK d \in Data : list_locate(l, d) >= 0 /\ Changed(list_delete_at(l, list_locate(l, d)))
  BY DEF Delete
<1>3. PICK pos \in 0..(l.numels - 1) : pos = list_locate(l, d)
  BY <1>1, <1>2, LocateIs
<1>4. CutAs(l, p, list_delete_at(l, pos), Without(p, l.numels, pos + 1, pos + 1), pos + 1, pos + 1)
  BY <1>1, <1>3, DeleteAtIs
<1> QED
  BY <1>2, <1>3, <1>4, ChangeKeeps DEF CutAs

LEMMA DeleteRangeKeeps == Inv /\ DeleteRange => Inv'
<1> SUFFICES ASSUME Inv, DeleteRange
             PROVE  Inv'
  OBVIOUS
<1>1. PICK p : WellFormed(l, p)
  BY DEF Inv
<1>2. PICK posend \in 0..(l.numels - 1) : \E posstart \in 0..posend :
        Changed(list_delete_range(l, posstart, posend))
  BY DEF DeleteRange
<1>3. PICK posstart \in 0..posend : Changed(list_delete_range(l, posstart, posend))
  BY <1>2
<1>4. CutAs(l, p, list_delete_range(l, posstart, posend),
            Without(p, l.numels, posstart + 1, posend + 1), posstart + 1, posend + 1)
  BY <1>1, <1>2, <1>3, RangeIs
<1> QED
  BY <1>3, <1>4, ChangeKeeps DEF CutAs

LEMMA ClearKeeps == Inv /\ Clear => Inv'
<1> SUFFICES ASSUME Inv, Clear
             PROVE  Inv'
  OBVIOUS
<1>1. PICK p : WellFormed(l, p)
  BY DEF Inv
<1>2. CutAs(l, p, list_clear(l), Without(p, l.numels, 1, l.numels), 1, l.numels)
  BY <1>1, ClearIs
<1> QED
  BY <1>2, ChangeKeeps DEF CutAs, Clear

LEMMA SortKeeps == Inv /\ Sort => Inv'
<1> SUFFICES ASSUME Inv, Sort
             PROVE  Inv'
  OBVIOUS
<1>1. PICK p : WellFormed(l, p)
  BY DEF Inv
<1>2. PICK versus \in {-1, 1} : \E t \in Sorted(l, versus) : Changed(t)
  BY DEF Sort
<1>3. PICK t \in Sorted(l, versus) : Changed(t)
  BY <1>2
<1>4. PICK d : PlacedAs(l, p, t, d)
  BY <1>1, <1>2, <1>3, SortIs
<1> QED
  BY <1>3, <1>4, ChangeKeeps DEF PlacedAs

\* The result of list_concat(), whichever list comes first.
LEMMA ConcatStep ==
  ASSUME Inv, NEW other, other \in UNION {[1..n -> Data] : n \in 0..(MaxLen - l.numels)},
         NEW t \in {list_concat(Items(l), other), list_concat(other, Items(l))}
  PROVE  \E d, q : /\ d \in {Items(l) \o other, other \o Items(l)}
                   /\ other \in Seq(Data) /\ d \in Seq(Data) /\ ListOf(t, q, d)
<1>1. PICK p : WellFormed(l, p)
  BY DEF Inv
<1>2. PICK items \in Seq(Data), m \in Nat : items = Items(l) /\ m = l.numels /\ Len(items) = m /\ m <= MaxLen
  BY <1>1, ItemsType
<1>3. PICK n \in 0..(MaxLen - m) : other \in [1..n -> Data]
  BY <1>2
<1>4. n \in Nat /\ m + n <= MaxLen /\ n + m <= MaxLen
  BY <1>2, <1>3
<1>5. other \in Seq(Data) /\ Len(other) = n
  BY <1>3, <1>4, SeqDef, LenProperties
<1>6. CASE t = list_concat(items, other)
  <2>1. PICK q : ListOf(t, q, items \o other)
    BY <1>2, <1>4, <1>5, <1>6, ConcatIs
  <2>2. PICK d : d = items \o other
    OBVIOUS
  <2>3. d \in Seq(Data) /\ d = Items(l) \o other /\ ListOf(t, q, d)
    BY <1>2, <1>5, <2>1, <2>2
  <2>4. d \in {Items(l) \o other, other \o Items(l)}
    BY <2>3, Zenon
  <2> WITNESS d, q
  <2> QED
    BY <1>5, <2>3, <2>4
<1>7. CASE t = list_concat(other, items)
  <2>1. PICK q : ListOf(t, q, other \o items)
    BY <1>2, <1>4, <1>5, <1>7, ConcatIs
  <2>2. PICK d : d = other \o items
    OBVIOUS
  <2>3. d \in Seq(Data) /\ d = other \o Items(l) /\ ListOf(t, q, d)
    BY <1>2, <1>5, <2>1, <2>2
  <2>4. d \in {Items(l) \o other, other \o Items(l)}
    BY <2>3, Zenon
  <2> WITNESS d, q
  <2> QED
    BY <1>5, <2>3, <2>4
<1> QED
  BY <1>2, <1>6, <1>7

LEMMA ConcatKeeps == Inv /\ Concat => Inv'
<1> SUFFICES ASSUME Inv, Concat
             PROVE  Inv'
  OBVIOUS
<1>1. PICK other \in UNION {[1..n -> Data] : n \in 0..(MaxLen - l.numels)} :
        /\ l' \in {list_concat(Items(l), other), list_concat(other, Items(l))}
        /\ returned' = <<>>
  BY DEF Concat
<1>2. PICK d, q : ListOf(l', q, d)
  BY <1>1, ConcatStep
<1>3. WellFormed(l', q) /\ ~l'.iter_active
  BY <1>2 DEF ListOf
<1>4. Iterates(l, q)'
  BY <1>1, <1>3 DEF Iterates
<1>5. returned' \in Seq(Data)
  BY <1>1
<1> QED
  BY <1>3, <1>4, <1>5 DEF Inv

\* What a step of an iteration does to the list, and where it is then.
LEMMA StartKeeps ==
  ASSUME Inv, list_iterator_start
  PROVE  Inv' /\ Items(l)' = Items(l) /\ l'.iter_active = TRUE
<1>1. PICK p : WellFormed(l, p)
  BY DEF Inv
<1>2. PICK t : t = [l EXCEPT !.iter_active = TRUE, !.iter_pos = 0, !.iter_curentry = l.next[head_sentinel]]
  OBVIOUS
<1>3. l' = t /\ returned' = <<>>
  BY <1>2 DEF list_iterator_start
<1>4. /\ l \in Lists /\ Chained(l, p) /\ Path(p, l.numels) /\ l.numels \in Nat
  BY <1>1 DEF WellFormed, Chained, Lists
<1>5. l.next[head_sentinel] = p[1] /\ p[1] \in Cells
  <2>1. 0 \in 0..l.numels /\ 1 \in 0..(l.numels + 1) /\ 0 + 1 = 1
    BY <1>4
  <2> QED
    BY <1>4, <2>1 DEF Chained, Path
<1>6. /\ t \in Lists /\ SameLinks(l, t) /\ SameMemory(l, t) /\ t.mid = l.mid /\ t.numels = l.numels
      /\ t.iter_active = TRUE /\ t.iter_pos = 0 /\ t.iter_curentry = p[1]
  BY <1>2, <1>4, <1>5 DEF Lists, Pointers, SameLinks, SameMemory
<1>7. WellFormed(t, p) /\ Items(t) = Items(l)
  BY <1>1, <1>6, IterationIs
<1>8. Iterates(l, p)'
  <2>1. Len(<<>>) = 0 /\ 0 + 1 = 1 /\ 0 <= l.numels
    BY <1>4
  <2> QED
    BY <1>3, <1>6, <2>1 DEF Iterates
<1>9. returned' \in Seq(Data)
  BY <1>3
<1>10. Inv'
  BY <1>3, <1>7, <1>8, <1>9 DEF Inv
<1> QED
  BY <1>3, <1>6, <1>7, <1>10

LEMMA NextKeeps ==
  ASSUME Inv, list_iterator_next
  PROVE  /\ Inv' /\ Items(l)' = Items(l) /\ l'.iter_active = l.iter_active
         /\ Len(returned) < Len(Items(l)) /\ returned' = Append(returned, Items(l)[Len(returned) + 1])
<1>1. PICK p : WellFormed(l, p) /\ Iterates(l, p)
  BY DEF Inv
<1>2. PICK t : t = [l EXCEPT !.iter_curentry = Follow(l.next, @), !.iter_pos = @ + 1]
  OBVIOUS
<1>3. /\ l.iter_active /\ l.iter_pos < l.numels /\ l' = t
      /\ returned' = Append(returned, Follow(l.data, l.iter_curentry))
  BY <1>2 DEF list_iterator_next
<1>4. PICK n \in Nat, k \in Nat : n = l.numels /\ k = l.iter_pos /\ k < n
  BY <1>1, <1>3 DEF WellFormed, Lists
<1>5. l \in Lists /\ Chained(l, p) /\ Path(p, n)
  BY <1>1, <1>4 DEF WellFormed, Chained
<1>6. l.iter_curentry = p[k + 1] /\ Len(returned) = k
  BY <1>1, <1>3, <1>4 DEF Iterates
<1>7. /\ k + 1 \in 1..n /\ k + 1 \in 0..n /\ (k + 1) + 1 \in 0..(n + 1) /\ k + 1 \in 0..(n + 1) /\ k + 1 <= n
  BY <1>4
<1>8. p[k + 1] \in Cells /\ p[k + 1] # NULL /\ p[(k + 1) + 1] \in Cells
  BY <1>5, <1>7, NullIsNoCell DEF Path
<1>9. Follow(l.next, l.iter_curentry) = p[(k + 1) + 1]
  BY <1>4, <1>5, <1>6, <1>7, <1>8 DEF Follow, Chained
<1>10. Follow(l.data, l.iter_curentry) = Items(l)[k + 1] /\ Items(l)[k + 1] \in Data
  <2>1. Items(l)[k + 1] = l.data[p[k + 1]] /\ Items(l)[k + 1] \in Data
    BY <1>1, <1>4, <1>7, ItemsType
  <2> QED
    BY <1>6, <1>8, <2>1 DEF Follow
<1>11. /\ t \in Lists /\ SameLinks(l, t) /\ SameMemory(l, t) /\ t.mid = l.mid /\ t.numels = l.numels
       /\ t.iter_active = l.iter_active /\ t.iter_pos = k + 1 /\ t.iter_curentry = p[(k + 1) + 1]
  <2>1. l.iter_pos + 1 = k + 1 /\ k + 1 \in Nat /\ p[(k + 1) + 1] \in Pointers
    BY <1>4, <1>8 DEF Pointers
  <2>2. t = [l EXCEPT !.iter_curentry = p[(k + 1) + 1], !.iter_pos = k + 1]
    BY <1>2, <1>9, <2>1
  <2> QED
    BY <1>5, <2>1, <2>2 DEF Lists, SameLinks, SameMemory
<1>12. WellFormed(t, p) /\ Items(t) = Items(l)
  BY <1>1, <1>11, IterationIs
<1>13. returned' \in Seq(Data) /\ Len(returned') = k + 1
  <2>1. returned \in Seq(Data)
    BY DEF Inv
  <2> QED
    BY <1>3, <1>6, <1>10, <2>1, Appended
<1>14. Iterates(l, p)'
  BY <1>3, <1>4, <1>7, <1>11, <1>13 DEF Iterates
<1>15. Inv'
  BY <1>3, <1>12, <1>13, <1>14 DEF Inv
<1>16. Len(Items(l)) = n
  BY <1>1, <1>4, ItemsType
<1> QED
  BY <1>3, <1>4, <1>6, <1>10, <1>11, <1>12, <1>15, <1>16

LEMMA StopKeeps ==
  ASSUME Inv, list_iterator_stop
  PROVE  Inv' /\ Items(l)' = Items(l) /\ l'.iter_active = FALSE
<1>1. PICK p : WellFormed(l, p)
  BY DEF Inv
<1>2. PICK t : t = [l EXCEPT !.iter_active = FALSE, !.iter_pos = 0, !.iter_curentry = NULL]
  OBVIOUS
<1>3. l' = t /\ returned' = <<>>
  BY <1>2 DEF list_iterator_stop
<1>4. l \in Lists
  BY <1>1 DEF WellFormed
<1>5. /\ t \in Lists /\ SameLinks(l, t) /\ SameMemory(l, t) /\ t.mid = l.mid /\ t.numels = l.numels
      /\ t.iter_active = FALSE
  BY <1>2, <1>4 DEF Lists, Pointers, SameLinks, SameMemory
<1>6. WellFormed(t, p) /\ Items(t) = Items(l)
  BY <1>1, <1>5, IterationIs
<1>7. Iterates(l, p)'
  BY <1>3, <1>5 DEF Iterates
<1>8. returned' \in Seq(Data)
  BY <1>3
<1>9. Inv'
  BY <1>3, <1>6, <1>7, <1>8 DEF Inv
<1> QED
  BY <1>3, <1>5, <1>6, <1>9

\* The invariant is inductive: every call of the user keeps it.
THEOREM ListInvariant == Spec => []Inv
<1>1. Init => Inv
  BY Begins
<1>2. Inv /\ [Next]_listVars => Inv'
  <2> SUFFICES ASSUME Inv, [Next]_listVars
               PROVE  Inv'
    OBVIOUS
  <2>1. CASE UNCHANGED listVars
    <3>1. l' = l /\ returned' = returned
      BY <2>1 DEF listVars
    <3> QED
      BY <3>1 DEF Inv, Iterates
  <2>2. CASE Next
    <3>1. CASE Insert \/ DeleteAt \/ Delete \/ DeleteRange
      BY <3>1, InsertKeeps, DeleteAtKeeps, DeleteKeeps, DeleteRangeKeeps, Zenon
    <3>2. CASE Clear \/ Sort \/ Concat
      BY <3>2, ClearKeeps, SortKeeps, ConcatKeeps, Zenon
    <3>3. CASE list_iterator_start
      BY <3>3, StartKeeps, Zenon
    <3>4. CASE list_iterator_next
      BY <3>4, NextKeeps, Zenon
    <3>5. CASE list_iterator_stop
      BY <3>5, StopKeeps, Zenon
    <3> QED
      BY <2>2, <3>1, <3>2, <3>3, <3>4, <3>5 DEF Next
  <2> QED
    BY <2>1, <2>2
<1> QED
  BY <1>1, <1>2, PTL DEF Spec

-----------------------------------------------------------------------------
(* What follows from the invariant                                         *)

LEMMA InvRepOk == Inv => RepOk
<1> SUFFICES ASSUME Inv
             PROVE  RepOk
  OBVIOUS
<1>1. PICK p : WellFormed(l, p)
  BY DEF Inv
<1>2. l \in Lists /\ Chained(l, p) /\ l.mid = Centre(p, l.numels) /\ Memory(l, Inside(p, l.numels))
  BY <1>1 DEF WellFormed
<1>3. PICK n \in Nat : n = l.numels
  BY <1>2 DEF Lists
<1>4. /\ \A k \in 0..n : l.next[p[k]] = p[k + 1] /\ l.prev[p[k + 1]] = p[k]
      /\ \A k \in 0..(n + 1) : p[k] # NULL
      /\ p[n + 1] = tail_sentinel
  BY <1>2, <1>3, NullIsNoCell DEF Chained, Path
<1>5. \A k \in 0..(n + 1) : Walk(l.next, head_sentinel, k) = p[k]
  BY <1>2, <1>3, WalkHead
<1>6. ASSUME NEW k \in 0..n
      PROVE  Follow(l.prev, Follow(l.next, Walk(l.next, head_sentinel, k))) = Walk(l.next, head_sentinel, k)
  <2>1. k \in 0..(n + 1) /\ k + 1 \in 0..(n + 1)
    OBVIOUS
  <2>2. Walk(l.next, head_sentinel, k) = p[k] /\ Follow(l.next, p[k]) = p[k + 1]
    BY <1>4, <1>5, <2>1 DEF Follow
  <2>3. Follow(l.prev, p[k + 1]) = p[k]
    BY <1>4, <2>1 DEF Follow
  <2> QED
    BY <2>2, <2>3
<1>7. Walk(l.next, head_sentinel, n + 1) = tail_sentinel
  BY <1>4, <1>5
<1>8. l.mid = IF n = 0 THEN NULL ELSE Walk(l.next, head_sentinel, (n - 1) \div 2 + 1)
  <2>1. CASE n = 0
    BY <1>2, <1>3, <2>1 DEF Centre
  <2>2. CASE n # 0
    <3>1. (n - 1) \div 2 + 1 \in 0..(n + 1)
      BY <2>2
    <3> QED
      BY <1>2, <1>3, <1>5, <2>2, <3>1 DEF Centre
  <2> QED
    BY <2>1, <2>2
<1>9. /\ l.prev[head_sentinel] = NULL /\ l.next[tail_sentinel] = NULL
      /\ Len(l.spareels) <= SIMCLIST_MAX_SPARE_ELEMS
  BY <1>2 DEF Chained, Memory
<1> QED
  BY <1>3, <1>6, <1>7, <1>8, <1>9 DEF RepOk

LEMMA InvMemory == Inv => MemoryAccounted
<1> SUFFICES ASSUME Inv
             PROVE  MemoryAccounted
  OBVIOUS
<1>1. PICK p : WellFormed(l, p)
  BY DEF Inv
<1>2. l \in Lists /\ Chained(l, p) /\ Memory(l, Inside(p, l.numels))
  BY <1>1 DEF WellFormed
<1>3. PICK n \in Nat, m \in Nat : n = l.numels /\ m = Len(l.spareels)
  BY <1>2, LenProperties DEF Lists
<1>4. Path(p, n) /\ l.spareels \in Seq(Elements)
  BY <1>2, <1>3 DEF Chained, Lists
<1> DEFINE Used == Inside(p, n)
           Spare == {l.spareels[i] : i \in 1..m}
<1>5. /\ \A i, j \in 1..m : l.spareels[i] = l.spareels[j] => i = j
      /\ \A i \in 1..m : l.spareels[i] \notin Used
      /\ l.allocated = Used \cup Spare
  BY <1>2, <1>3 DEF Memory
<1>6. Range(Linked(l)) = Used
  <2>1. Linked(l) = [k \in 1..n |-> p[k]]
    BY <1>2, <1>3, LinkedIs
  <2> QED
    BY <2>1 DEF Range, Inside
<1>7. Range(l.spareels) = Spare
  <2>1. DOMAIN l.spareels = 1..m
    BY <1>3, <1>4
  <2>2. Range(l.spareels) = {l.spareels[i] : i \in DOMAIN l.spareels}
    BY Zenon DEF Range
  <2> QED
    BY <2>1, <2>2, Zenon
<1>8. IsFiniteSet(Used) /\ Cardinality(Used) = n
  BY <1>4, InsideCount
<1>9. IsFiniteSet(Spare) /\ Cardinality(Spare) = m
  <2>1. PICK f : f = l.spareels
    OBVIOUS
  <2>2. \A i, j \in 1..m : f[i] = f[j] => i = j
    BY <1>5, <2>1, Zenon
  <2>3. IsFiniteSet({f[k] : k \in 1..m}) /\ Cardinality({f[k] : k \in 1..m}) = m
    BY <2>2, CountDistinct, Zenon
  <2> QED
    BY <2>1, <2>3, Zenon
<1>10. Used \cap Spare = {}
  BY <1>5
<1>11. Cardinality(Used \cup Spare) = n + m
  <2> HIDE DEF Used, Spare
  <2>1. Cardinality(Used \cup Spare) = Cardinality(Used) + Cardinality(Spare) - Cardinality(Used \cap Spare)
    BY <1>8, <1>9, FS_Union
  <2>2. Cardinality(Used \cap Spare) = 0
    BY <1>10, FS_EmptySet
  <2> QED
    BY <1>8, <1>9, <2>1, <2>2
<1> HIDE DEF Used, Spare
<1> QED
  BY <1>3, <1>5, <1>6, <1>7, <1>11 DEF MemoryAccounted

LEMMA InvReads == Inv => ReadsRight
<1> SUFFICES ASSUME Inv
             PROVE  ReadsRight
  OBVIOUS
<1>1. PICK p : WellFormed(l, p)
  BY DEF Inv
<1>2. l \in Lists /\ Chained(l, p) /\ l.mid = Centre(p, l.numels) /\ l.numels \in Nat
  BY <1>1 DEF WellFormed, Lists
<1>3. ASSUME NEW pos \in -1..l.numels
      PROVE  list_findpos(l, pos) = Walk(l.next, head_sentinel, pos + 1)
  <2>1. pos + 1 \in 0..(l.numels + 1)
    BY <1>2
  <2> QED
    BY <1>2, <2>1, FindPos, WalkHead
<1>4. PICK items \in [1..l.numels -> Data] : items = Items(l)
  BY <1>1, ItemsType
<1>5. ASSUME l.numels > 0, NEW versus \in {-1, 1}
      PROVE  /\ list_get_minmax(l, versus) \in Range(items)
             /\ \A d \in Range(items) : ~After(d, list_get_minmax(l, versus), versus)
  BY <1>2, <1>4, <1>5, MinMaxIs
<1> QED
  BY <1>3, <1>4, <1>5 DEF ReadsRight

\* The list is well formed after every call, as list_repOk() of simclist.c
\* demands: links of neighbours agree, mid is the middle, whatever was inserted,
\* deleted, cleared, sorted or concatenated.
THEOREM RepOkAlways == Spec => []RepOk
BY ListInvariant, InvRepOk, PTL

\* No element is lost, handed out while in use or freed twice, however many
\* spare ones list_drop_elem() and list_clear() keep.
THEOREM MemoryAccountedAlways == Spec => []MemoryAccounted
BY ListInvariant, InvMemory, PTL

\* list_findpos() gets to the right element from the head, the middle or the
\* tail, and list_get_minmax() to an extreme one.
THEOREM ReadsRightAlways == Spec => []ReadsRight
BY ListInvariant, InvReads, PTL

-----------------------------------------------------------------------------
(* The user sees a sequence                                                *)

\* Everything is where InsertAt() puts it.
Widened(s, t, n, pos, x) ==
  \A k \in 1..(n + 1) : t[k] = IF k <= pos THEN s[k] ELSE IF k = pos + 1 THEN x ELSE s[k - 1]

LEMMA InsertedIs ==
  ASSUME NEW S, NEW s \in Seq(S), NEW n \in Nat, n = Len(s), NEW pos \in 0..n, NEW x \in S,
         NEW t \in Seq(S), Len(t) = n + 1, Widened(s, t, n, pos, x)
  PROVE  t = InsertAt(s, pos + 1, x)
<1>1. PICK a \in Seq(S) : a = SubSeq(s, 1, pos) /\ Len(a) = pos /\ \A k \in 1..pos : a[k] = s[k]
  <2>1. /\ SubSeq(s, 1, pos) \in Seq(S) /\ Len(SubSeq(s, 1, pos)) = pos
        /\ \A k \in 1..pos : SubSeq(s, 1, pos)[k] = s[k]
    BY FirstPart, Zenon
  <2> QED
    BY <2>1, Zenon
<1>2. PICK b \in Seq(S) : /\ b = SubSeq(s, pos + 1, n) /\ Len(b) = n - pos
                          /\ \A k \in 1..(n - pos) : b[k] = s[pos + k]
  <2>1. /\ SubSeq(s, pos + 1, n) \in Seq(S) /\ Len(SubSeq(s, pos + 1, n)) = n - pos
        /\ \A k \in 1..(n - pos) : SubSeq(s, pos + 1, n)[k] = s[pos + k]
    BY LastPart, Zenon
  <2> QED
    BY <2>1, Zenon
<1>3. PICK c \in Seq(S) : /\ c = a \o <<x>> /\ Len(c) = pos + 1 /\ c[pos + 1] = x
                          /\ \A k \in 1..pos : c[k] = s[k]
  <2>1. Append(a, x) = a \o <<x>>
    BY AppendIsConcat
  <2>2. /\ Append(a, x) \in Seq(S) /\ Len(Append(a, x)) = pos + 1 /\ Append(a, x)[pos + 1] = x
        /\ \A k \in 1..pos : Append(a, x)[k] = a[k]
    BY <1>1, Appended
  <2> QED
    BY <1>1, <2>1, <2>2
<1>4. PICK d \in Seq(S) : d = c \o b
  <2>1. c \o b \in Seq(S)
    BY <1>2, <1>3, ConcatProperties, Zenon
  <2> QED
    BY <2>1, Zenon
<1>5. InsertAt(s, pos + 1, x) = d
  <2>1. (pos + 1) - 1 = pos
    OBVIOUS
  <2> QED
    BY <1>1, <1>2, <1>3, <1>4, <2>1 DEF InsertAt
<1>6. PICK m \in Nat, h \in Nat : m = pos + 1 /\ h = n - pos /\ m + h = n + 1
  <2>1. pos + 1 \in Nat /\ n - pos \in Nat /\ (pos + 1) + (n - pos) = n + 1
    OBVIOUS
  <2> QED
    BY <2>1, Zenon
<1>7. /\ Len(d) = m + h
      /\ \A k \in 1..m : d[k] = c[k]
      /\ \A k \in (m + 1)..(m + h) : d[k] = b[k - m]
  <2>1. m = Len(c) /\ h = Len(b)
    BY <1>2, <1>3, <1>6
  <2> QED
    BY <1>4, <2>1, Joined
<1>8. ASSUME NEW k \in 1..(n + 1)
      PROVE  t[k] = d[k]
  <2>1. CASE k <= pos
    <3>1. k \in 1..m /\ k \in 1..pos
      BY <1>6, <2>1
    <3> QED
      BY <1>3, <1>7, <2>1, <3>1 DEF Widened
  <2>2. CASE k = pos + 1
    <3>1. k \in 1..m /\ ~(k <= pos)
      BY <1>6, <2>2
    <3> QED
      BY <1>3, <1>7, <2>2, <3>1 DEF Widened
  <2>3. CASE k > pos + 1
    <3>1. k \in (m + 1)..(m + h) /\ k - m \in 1..(n - pos) /\ pos + (k - m) = k - 1
      BY <1>6, <2>3
    <3>2. d[k] = s[k - 1]
      BY <1>2, <1>7, <3>1
    <3> QED
      BY <2>3, <3>2 DEF Widened
  <2> QED
    BY <2>1, <2>2, <2>3
<1>9. Len(d) = n + 1
  BY <1>6, <1>7
<1> QED
  BY <1>5, <1>8, <1>9, SeqEqual

\* t has what is left of s without i..j.
Narrowed(s, t, i, j) ==
  \A k \in 1..Len(t) : t[k] = IF k < i THEN s[k] ELSE s[k + (j - i + 1)]

LEMMA CutSeqIs ==
  ASSUME NEW S, NEW s \in Seq(S), NEW n \in Nat, n = Len(s), NEW i \in 1..n, NEW j \in i..n,
         NEW t \in Seq(S), Len(t) = n - (j - i + 1), Narrowed(s, t, i, j)
  PROVE  t = SubSeq(s, 1, i - 1) \o SubSeq(s, j + 1, Len(s))
<1>1. PICK m \in 0..n : m = i - 1
  <2>1. i - 1 \in 0..n
    OBVIOUS
  <2> QED
    BY <2>1, Zenon
<1>2. PICK h \in Nat : h = n - j
  <2>1. n - j \in Nat
    OBVIOUS
  <2> QED
    BY <2>1, Zenon
<1>3. PICK a \in Seq(S) : a = SubSeq(s, 1, i - 1) /\ Len(a) = m /\ \A k \in 1..m : a[k] = s[k]
  <2>1. /\ SubSeq(s, 1, m) \in Seq(S) /\ Len(SubSeq(s, 1, m)) = m
        /\ \A k \in 1..m : SubSeq(s, 1, m)[k] = s[k]
    BY <1>1, FirstPart, Zenon
  <2> QED
    BY <1>1, <2>1, Zenon
<1>4. PICK b \in Seq(S) : /\ b = SubSeq(s, j + 1, Len(s)) /\ Len(b) = h
                          /\ \A k \in 1..h : b[k] = s[j + k]
  <2>1. j \in 0..Len(s)
    OBVIOUS
  <2>2. /\ SubSeq(s, j + 1, Len(s)) \in Seq(S) /\ Len(SubSeq(s, j + 1, Len(s))) = Len(s) - j
        /\ \A k \in 1..(Len(s) - j) : SubSeq(s, j + 1, Len(s))[k] = s[j + k]
    BY <2>1, LastPart, Zenon
  <2> QED
    BY <1>2, <2>2
<1>5. PICK d \in Seq(S) : d = a \o b
  <2>1. a \o b \in Seq(S)
    BY <1>3, <1>4, ConcatProperties, Zenon
  <2> QED
    BY <2>1, Zenon
<1>6. /\ Len(d) = m + h
      /\ \A k \in 1..m : d[k] = a[k]
      /\ \A k \in (m + 1)..(m + h) : d[k] = b[k - m]
  <2>1. m = Len(a) /\ h = Len(b)
    BY <1>3, <1>4
  <2> QED
    BY <1>5, <2>1, Joined
<1>7. Len(t) = m + h /\ m \in Int
  BY <1>1, <1>2
<1>8. ASSUME NEW k \in 1..Len(t)
      PROVE  t[k] = d[k]
  <2>1. CASE k < i
    <3>1. k \in 1..m
      BY <1>1, <2>1
    <3> QED
      BY <1>3, <1>6, <2>1, <3>1 DEF Narrowed
  <2>2. CASE ~(k < i)
    <3>1. k \in (m + 1)..(m + h) /\ k - m \in 1..h /\ j + (k - m) = k + (j - i + 1)
      BY <1>1, <1>2, <1>7, <2>2
    <3> QED
      BY <1>4, <1>6, <2>2, <3>1 DEF Narrowed
  <2> QED
    BY <2>1, <2>2
<1> QED
  BY <1>3, <1>4, <1>5, <1>6, <1>7, <1>8, SeqEqual

\* Shuffling neither adds nor loses a datum.
LEMMA CopiesKept ==
  ASSUME NEW n \in Nat, NEW a \in [1..n -> Data], NEW b \in [1..n -> Data], NEW i, NEW j,
         Shuffled(a, b, n, i, j), NEW d
  PROVE  Sequence!Copies(b, d) = Sequence!Copies(a, d)
<1>1. PICK f : Moves(f, a, b, n, i, j)
  BY DEF Shuffled
<1>2. /\ f \in [1..n -> 1..n] /\ \A x, y \in 1..n : f[x] = f[y] => x = y
      /\ \A x \in 1..n : b[x] = a[f[x]]
  BY <1>1 DEF Moves
<1>3. IsFiniteSet(1..n)
  BY FS_Interval
<1>4. \A y \in 1..n : \E x \in 1..n : f[x] = y
  <2>1. f \in Injection(1..n, 1..n)
    BY <1>2 DEF Injection, IsInjective
  <2>2. f \in Surjection(1..n, 1..n)
    BY <1>3, <2>1, FS_Injection
  <2> QED
    BY <2>2 DEF Surjection
<1> DEFINE B == {x \in 1..n : b[x] = d}
           A == {x \in 1..n : a[x] = d}
           g == [x \in B |-> f[x]]
<1>5. g \in Bijection(B, A)
  <2>1. g \in [B -> A]
    BY <1>2
  <2>2. \A x, y \in B : g[x] = g[y] => x = y
    BY <1>2
  <2>3. ASSUME NEW y \in A
        PROVE  \E x \in B : g[x] = y
    <3>1. PICK x \in 1..n : f[x] = y
      BY <1>4
    <3>2. x \in B /\ g[x] = y
      BY <1>2, <3>1
    <3> QED
      BY <3>2, Zenon
  <2> HIDE DEF g, A, B
  <2>4. g \in Injection(B, A)
    BY <2>1, <2>2 DEF Injection, IsInjective
  <2>5. g \in Surjection(B, A)
    BY <2>1, <2>3 DEF Surjection
  <2> QED
    BY <2>4, <2>5 DEF Bijection
<1>6. IsFiniteSet(B)
  BY <1>3, FS_Subset
<1>7. Cardinality(A) = Cardinality(B)
  <2> HIDE DEF g, A, B
  <2>1. ExistsBijection(B, A)
    BY <1>5 DEF ExistsBijection
  <2> QED
    BY <1>6, <2>1, FS_Bijection
<1>8. Sequence!Copies(b, d) = Cardinality(B) /\ Sequence!Copies(a, d) = Cardinality(A)
  <2>1. B = {x \in DOMAIN b : b[x] = d} /\ A = {x \in DOMAIN a : a[x] = d}
    OBVIOUS
  <2> HIDE DEF A, B
  <2> QED
    BY <2>1, Zenon DEF Sequence!Copies, Sequence!Cardinality, Cardinality
<1> HIDE DEF A, B
<1> QED
  BY <1>7, <1>8

LEMMA InsertStep == Inv /\ Insert => Sequence!Insert
<1> SUFFICES ASSUME Inv, Insert
             PROVE  Sequence!Insert
  OBVIOUS
<1>1. PICK p : WellFormed(l, p)
  BY DEF Inv
<1>2. PICK pos \in 0..l.numels, d \in Data : l.numels < MaxLen /\ Changed(list_insert_at(l, d, pos))
  BY DEF Insert
<1>3. PICK q : InsertedAs(l, p, list_insert_at(l, d, pos), q, d, pos)
  BY <1>1, <1>2, InsertIs
<1>4. PICK t : t = list_insert_at(l, d, pos)
  OBVIOUS
<1>5. ~l.iter_active /\ l' = t /\ returned' = returned /\ t.iter_active = l.iter_active
  BY <1>2, <1>3, <1>4 DEF Changed, InsertedAs, SameIter
<1>6. PICK n \in Nat : n = l.numels /\ t.numels = n + 1 /\ pos \in 0..n
  <2>1. l.numels \in Nat
    BY <1>1, ItemsType
  <2> QED
    BY <1>2, <1>3, <1>4, <2>1 DEF InsertedAs
<1>7. PICK a \in Seq(Data) : a = Items(l) /\ Len(a) = n /\ \A k \in 1..n : a[k] = l.data[p[k]]
  <2>1. /\ Items(l) \in Seq(Data) /\ Len(Items(l)) = n
        /\ \A k \in 1..n : Items(l)[k] = l.data[p[k]]
    BY <1>1, <1>6, ItemsType
  <2> QED
    BY <2>1, Zenon
<1>8. PICK b \in Seq(Data) : b = Items(t) /\ Len(b) = n + 1 /\ \A k \in 1..(n + 1) : b[k] = t.data[q[k]]
  <2>1. WellFormed(t, q)
    BY <1>3, <1>4 DEF InsertedAs
  <2>2. /\ Items(t) \in Seq(Data) /\ Len(Items(t)) = n + 1
        /\ \A k \in 1..(n + 1) : Items(t)[k] = t.data[q[k]]
    BY <1>6, <2>1, ItemsType
  <2> QED
    BY <2>2, Zenon
<1>9. ASSUME NEW k \in 1..(n + 1)
      PROVE  b[k] = IF k <= pos THEN a[k] ELSE IF k = pos + 1 THEN d ELSE a[k - 1]
  <2>1. t.data[q[k]] = IF k <= pos THEN l.data[p[k]] ELSE IF k = pos + 1 THEN d ELSE l.data[p[k - 1]]
    BY <1>3, <1>4, <1>6 DEF InsertedAs
  <2>2. (k <= pos => k \in 1..n) /\ (~(k <= pos) /\ k # pos + 1 => k - 1 \in 1..n)
    BY <1>6
  <2> QED
    BY <1>7, <1>8, <2>1, <2>2
<1>10. b = InsertAt(a, pos + 1, d)
  <2>1. n = Len(a) /\ pos \in 0..n /\ Len(b) = n + 1
    BY <1>6, <1>7, <1>8
  <2>2. Widened(a, b, n, pos, d)
    BY <1>9 DEF Widened
  <2> QED
    BY <2>1, <2>2, InsertedIs, Zenon
<1>11. b \in Sequence!Insertions(a)
  <2>1. pos + 1 \in 1..(Len(a) + 1)
    BY <1>6, <1>7
  <2>2. b = Sequence!InsertAt(a, pos + 1, d)
    BY <1>10, Zenon DEF InsertAt, Sequence!InsertAt
  <2> QED
    BY <2>1, <2>2 DEF Sequence!Insertions
<1> QED
  BY <1>5, <1>7, <1>8, <1>11 DEF Sequence!Insert

\* What is left without some of the elements.
LEMMA CutStep ==
  ASSUME NEW s, NEW p, WellFormed(s, p), NEW i \in 1..s.numels, NEW j \in i..s.numels,
         NEW t, NEW q, CutAs(s, p, t, q, i, j)
  PROVE  Items(t) \in Sequence!Deletions(Items(s))
<1>1. PICK n \in Nat : n = s.numels /\ i \in 1..n /\ j \in i..n
  BY ItemsType
<1>2. PICK m \in Nat : m = t.numels /\ m = n - (j - i + 1)
  BY <1>1 DEF CutAs
<1>3. PICK a \in Seq(Data) : a = Items(s) /\ Len(a) = n /\ \A k \in 1..n : a[k] = s.data[p[k]]
  <2>1. /\ Items(s) \in Seq(Data) /\ Len(Items(s)) = n
        /\ \A k \in 1..n : Items(s)[k] = s.data[p[k]]
    BY <1>1, ItemsType
  <2> QED
    BY <2>1, Zenon
<1>4. PICK b \in Seq(Data) : b = Items(t) /\ Len(b) = m /\ \A k \in 1..m : b[k] = t.data[q[k]]
  <2>1. WellFormed(t, q)
    BY DEF CutAs
  <2>2. /\ Items(t) \in Seq(Data) /\ Len(Items(t)) = t.numels
        /\ \A k \in 1..t.numels : Items(t)[k] = t.data[q[k]]
    BY <2>1, ItemsType
  <2>3. m = t.numels
    BY <1>2
  <2> QED
    BY <2>2, <2>3, Zenon
<1>5. ASSUME NEW k \in 1..m
      PROVE  b[k] = IF k < i THEN a[k] ELSE a[k + (j - i + 1)]
  <2>1. t.data[q[k]] = IF k < i THEN s.data[p[k]] ELSE s.data[p[k + (j - i + 1)]]
    BY <1>2 DEF CutAs
  <2>2. k \in 1..n /\ k + (j - i + 1) \in 1..n
    BY <1>1, <1>2
  <2> QED
    BY <1>3, <1>4, <2>1, <2>2
<1>6. b = SubSeq(a, 1, i - 1) \o SubSeq(a, j + 1, Len(a))
  <2>1. n = Len(a) /\ Len(b) = n - (j - i + 1) /\ m = Len(b)
    BY <1>2, <1>3, <1>4
  <2>2. Narrowed(a, b, i, j)
    BY <1>5, <2>1 DEF Narrowed
  <2> QED
    BY <1>1, <2>1, <2>2, CutSeqIs, Zenon
<1>7. i \in 1..Len(a) /\ j \in i..Len(a)
  BY <1>1, <1>3
<1>8. b \in Sequence!Deletions(a)
  <2> DEFINE D(k) == {SubSeq(a, 1, k - 1) \o SubSeq(a, h + 1, Len(a)) : h \in k..Len(a)}
  <2>1. b \in D(i)
    BY <1>6, <1>7, Zenon
  <2>2. Sequence!Deletions(a) = UNION {D(k) : k \in 1..Len(a)}
    BY Zenon DEF Sequence!Deletions
  <2> HIDE DEF D
  <2> QED
    BY <1>7, <2>1, <2>2, Zenon
<1> QED
  BY <1>3, <1>4, <1>8

LEMMA CutChange ==
  ASSUME NEW p, WellFormed(l, p), NEW i \in 1..l.numels, NEW j \in i..l.numels,
         NEW t, NEW q, CutAs(l, p, t, q, i, j), Changed(t)
  PROVE  Sequence!Delete
<1>1. Items(t) \in Sequence!Deletions(Items(l))
  BY CutStep
<1>2. ~l.iter_active /\ l' = t /\ returned' = returned /\ t.iter_active = l.iter_active
  BY DEF Changed, CutAs, SameIter
<1> QED
  BY <1>1, <1>2 DEF Sequence!Delete

LEMMA DeleteAtStep == Inv /\ DeleteAt => Sequence!Delete
<1> SUFFICES ASSUME Inv, DeleteAt
             PROVE  Sequence!Delete
  OBVIOUS
<1>1. PICK p : WellFormed(l, p)
  BY DEF Inv
<1>2. PICK pos \in 0..(l.numels - 1) : Changed(list_delete_at(l, pos))
  BY DEF DeleteAt
<1>3. CutAs(l, p, list_delete_at(l, pos), Without(p, l.numels, pos + 1, pos + 1), pos + 1, pos + 1)
  BY <1>1, <1>2, DeleteAtIs
<1>4. pos + 1 \in 1..l.numels /\ pos + 1 \in (pos + 1)..l.numels
  <2>1. l.numels \in Nat
    BY <1>1, ItemsType
  <2> QED
    BY <1>2, <2>1
<1> QED
  BY <1>1, <1>2, <1>3, <1>4, CutChange, Zenon

LEMMA DeleteStep == Inv /\ Delete => Sequence!Delete
<1> SUFFICES ASSUME Inv, Delete
             PROVE  Sequence!Delete
  OBVIOUS
<1>1. PICK p : WellFormed(l, p)
  BY DEF Inv
<1>2. PICK d \in Data : list_locate(l, d) >= 0 /\ Changed(list_delete_at(l, list_locate(l, d)))
  BY DEF Delete
<1>3. PICK pos \in 0..(l.numels - 1) : pos = list_locate(l, d)
  BY <1>1, <1>2, LocateIs
<1>4. CutAs(l, p, list_delete_at(l, pos), Without(p, l.numels, pos + 1, pos + 1), pos + 1, pos + 1)
  BY <1>1, <1>3, DeleteAtIs
<1>5. pos + 1 \in 1..l.numels /\ pos + 1 \in (pos + 1)..l.numels
  <2>1. l.numels \in Nat
    BY <1>1, ItemsType
  <2> QED
    BY <1>3, <2>1
<1> QED
  BY <1>1, <1>2, <1>3, <1>4, <1>5, CutChange, Zenon

LEMMA DeleteRangeStep == Inv /\ DeleteRange => Sequence!Delete
<1> SUFFICES ASSUME Inv, DeleteRange
             PROVE  Sequence!Delete
  OBVIOUS
<1>1. PICK p : WellFormed(l, p)
  BY DEF Inv
<1>2. PICK posend \in 0..(l.numels - 1) : \E posstart \in 0..posend :
        Changed(list_delete_range(l, posstart, posend))
  BY DEF DeleteRange
<1>3. PICK posstart \in 0..posend : Changed(list_delete_range(l, posstart, posend))
  BY <1>2
<1>4. CutAs(l, p, list_delete_range(l, posstart, posend),
            Without(p, l.numels, posstart + 1, posend + 1), posstart + 1, posend + 1)
  BY <1>1, <1>2, <1>3, RangeIs
<1>5. posstart + 1 \in 1..l.numels /\ posend + 1 \in (posstart + 1)..l.numels
  <2>1. l.numels \in Nat
    BY <1>1, ItemsType
  <2> QED
    BY <1>2, <1>3, <2>1
<1> QED
  BY <1>1, <1>3, <1>4, <1>5, CutChange, Zenon

\* Clearing an empty list leaves it as it is.
LEMMA ClearStep == Inv /\ Clear => Sequence!Delete \/ UNCHANGED Sequence!vars
<1> SUFFICES ASSUME Inv, Clear
             PROVE  Sequence!Delete \/ UNCHANGED Sequence!vars
  OBVIOUS
<1>1. PICK p : WellFormed(l, p)
  BY DEF Inv
<1>2. CutAs(l, p, list_clear(l), Without(p, l.numels, 1, l.numels), 1, l.numels)
  BY <1>1, ClearIs
<1>3. Changed(list_clear(l))
  BY DEF Clear
<1>4. l.numels \in Nat
  BY <1>1, ItemsType
<1>5. CASE l.numels = 0
  <2>1. PICK t, q : t = list_clear(l) /\ q = Without(p, l.numels, 1, l.numels)
    OBVIOUS
  <2>2. WellFormed(t, q) /\ SameIter(l, t) /\ t.numels = l.numels - (l.numels - 1 + 1)
    BY <1>2, <2>1 DEF CutAs
  <2>3. t.numels = 0
    BY <1>5, <2>2
  <2>4. Items(t) = <<>> /\ Items(l) = <<>>
    <3>1. Items(t) \in Seq(Data) /\ Len(Items(t)) = 0
      BY <2>2, <2>3, ItemsType
    <3>2. Items(l) \in Seq(Data) /\ Len(Items(l)) = 0
      BY <1>1, <1>5, ItemsType
    <3> QED
      BY <3>1, <3>2, EmptySeq
  <2>5. l' = t /\ returned' = returned
    BY <1>3, <2>1 DEF Changed
  <2>6. Items(l)' = Items(l) /\ l'.iter_active = l.iter_active
    BY <2>2, <2>4, <2>5 DEF SameIter
  <2> QED
    BY <2>5, <2>6 DEF Sequence!vars
<1>6. CASE l.numels # 0
  <2>1. 1 \in 1..l.numels /\ l.numels \in 1..l.numels
    BY <1>4, <1>6
  <2> QED
    BY <1>1, <1>2, <1>3, <2>1, CutChange
<1> QED
  BY <1>5, <1>6

LEMMA SortStep == Inv /\ Sort => Sequence!Sort
<1> SUFFICES ASSUME Inv, Sort
             PROVE  Sequence!Sort
  OBVIOUS
<1>1. PICK p : WellFormed(l, p)
  BY DEF Inv
<1>2. PICK versus \in {-1, 1} : \E t \in Sorted(l, versus) : Changed(t)
  BY DEF Sort
<1>3. PICK t \in Sorted(l, versus) : Changed(t)
  BY <1>2
<1>4. PICK d : /\ SortedAs(Items(l), d, l.numels, Range(Items(l)), 1, l.numels, versus)
               /\ PlacedAs(l, p, t, d)
  BY <1>1, <1>2, <1>3, SortIs
<1>5. PICK n \in Nat : n = l.numels /\ t.numels = n
  <2>1. l.numels \in Nat /\ t.numels = l.numels
    BY <1>1, <1>4, ItemsType DEF PlacedAs
  <2> QED
    BY <2>1, Zenon
<1>6. PICK a \in [1..n -> Data] : a = Items(l) /\ a \in Seq(Data) /\ Len(a) = n
  <2>1. Items(l) \in [1..n -> Data] /\ Items(l) \in Seq(Data) /\ Len(Items(l)) = n
    BY <1>1, <1>5, ItemsType
  <2> QED
    BY <2>1, Zenon
<1>7. PICK b \in [1..n -> Data] : /\ b = Items(t) /\ b \in Seq(Data) /\ Len(b) = n
                                  /\ \A k \in 1..n : b[k] = t.data[p[k]]
  <2>1. WellFormed(t, p)
    BY <1>4 DEF PlacedAs
  <2>2. /\ Items(t) \in [1..n -> Data] /\ Items(t) \in Seq(Data) /\ Len(Items(t)) = n
        /\ \A k \in 1..n : Items(t)[k] = t.data[p[k]]
    BY <1>5, <2>1, ItemsType
  <2> QED
    BY <2>2, Zenon
<1>8. b = d
  <2>1. \A k \in 1..n : b[k] = d[k]
    BY <1>4, <1>5, <1>7 DEF PlacedAs
  <2>2. d \in [1..n -> Range(Items(l))]
    BY <1>4, <1>5 DEF SortedAs
  <2> QED
    BY <2>1, <2>2
<1>9. Shuffled(a, b, n, 1, n) /\ InOrder(b, 1, n, versus)
  BY <1>4, <1>5, <1>6, <1>8 DEF SortedAs
<1>10. \A e \in Data : Sequence!Copies(b, e) = Sequence!Copies(a, e)
  BY <1>9, CopiesKept
<1>11. DOMAIN b = 1..n
  OBVIOUS
<1>12. \/ \A x, y \in DOMAIN b : x < y => b[x] <= b[y]
       \/ \A x, y \in DOMAIN b : x < y => b[x] >= b[y]
  <2>1. \A x \in 1..n : b[x] \in Nat
    BY SimcListAssumption DEF SimcListAssumption
  <2>2. \A x, y \in 1..n : x < y => ~((b[x] - b[y]) * versus > 0)
    BY <1>9 DEF InOrder, After
  <2>3. CASE versus = 1
    BY <1>11, <2>1, <2>2, <2>3
  <2>4. CASE versus = -1
    BY <1>11, <2>1, <2>2, <2>4
  <2> QED
    BY <2>3, <2>4
<1>13. Sequence!IsSorting(b, a)
  BY <1>6, <1>7, <1>10, <1>12 DEF Sequence!IsSorting
<1>14. ~l.iter_active /\ l' = t /\ returned' = returned /\ t.iter_active = l.iter_active
  BY <1>3, <1>4 DEF Changed, PlacedAs, SameIter
<1> QED
  BY <1>6, <1>7, <1>13, <1>14 DEF Sequence!Sort

\* u comes first in v.
LEMMA PrefixIs ==
  ASSUME NEW S, NEW u \in Seq(S), NEW v \in Seq(S), Len(u) <= Len(v),
         \A k \in 1..Len(u) : u[k] = v[k]
  PROVE  Sequence!IsPrefix(u, v)
<1>1. PICK n \in Nat : n = Len(u) /\ n \in 0..Len(u) /\ n \in 0..Len(v)
  <2>1. Len(u) \in Nat /\ Len(u) \in 0..Len(u) /\ Len(u) \in 0..Len(v)
    OBVIOUS
  <2> QED
    BY <2>1, Zenon
<1>2. /\ SubSeq(u, 1, n) \in Seq(S) /\ Len(SubSeq(u, 1, n)) = n
      /\ \A k \in 1..n : SubSeq(u, 1, n)[k] = u[k]
  BY <1>1, FirstPart, Zenon
<1>3. /\ SubSeq(v, 1, n) \in Seq(S) /\ Len(SubSeq(v, 1, n)) = n
      /\ \A k \in 1..n : SubSeq(v, 1, n)[k] = v[k]
  BY <1>1, FirstPart, Zenon
<1>4. PICK a \in Seq(S), b \in Seq(S) : a = SubSeq(u, 1, n) /\ b = SubSeq(v, 1, n)
  BY <1>2, <1>3, Zenon
<1>5. a = b
  <2>1. Len(a) = n /\ Len(b) = n /\ \A k \in 1..n : a[k] = b[k]
    BY <1>1, <1>2, <1>3, <1>4
  <2> QED
    BY <2>1, SeqEqual
<1> QED
  BY <1>1, <1>4, <1>5 DEF Sequence!IsPrefix

\* A list and another one behind it, or before it.
LEMMA BesideIs ==
  ASSUME NEW S, NEW a \in Seq(S), NEW b \in Seq(S)
  PROVE  Sequence!IsPrefix(a, a \o b) /\ Sequence!IsSuffix(a, b \o a)
<1>1. PICK n \in Nat, m \in Nat : n = Len(a) /\ m = Len(b)
  BY LenProperties
<1>2. Sequence!IsPrefix(a, a \o b)
  <2>1. PICK c \in Seq(S) : c = a \o b /\ Len(c) = n + m /\ \A k \in 1..n : c[k] = a[k]
    <3>1. /\ a \o b \in Seq(S) /\ Len(a \o b) = n + m /\ \A k \in 1..n : (a \o b)[k] = a[k]
      BY <1>1, Joined
    <3> QED
      BY <3>1, Zenon
  <2>2. Len(a) <= Len(c) /\ \A k \in 1..Len(a) : a[k] = c[k]
    BY <1>1, <2>1
  <2> QED
    BY <2>1, <2>2, PrefixIs
<1>3. Sequence!IsSuffix(a, b \o a)
  <2>1. PICK c \in Seq(S) : c = b \o a /\ Len(c) = m + n /\ \A k \in (m + 1)..(m + n) : c[k] = a[k - m]
    <3>1. /\ b \o a \in Seq(S) /\ Len(b \o a) = m + n
          /\ \A k \in (m + 1)..(m + n) : (b \o a)[k] = a[k - m]
      BY <1>1, Joined
    <3> QED
      BY <3>1, Zenon
  <2>2. PICK u : /\ u = Sequence!Reverse(a) /\ u \in Seq(S) /\ Len(u) = n
                 /\ \A k \in 1..n : u[k] = a[(n - k) + 1]
    <3> DEFINE r == [k \in 1..n |-> a[(n - k) + 1]]
    <3>1. Sequence!Reverse(a) = r
      BY <1>1 DEF Sequence!Reverse
    <3>2. \A k \in 1..n : (n - k) + 1 \in 1..n
      OBVIOUS
    <3>3. r \in [1..n -> S]
      BY <1>1, <3>2
    <3>4. \A k \in 1..n : r[k] = a[(n - k) + 1]
      OBVIOUS
    <3> HIDE DEF r
    <3>5. r \in Seq(S) /\ Len(r) = n
      BY <3>3, SeqDef, LenProperties
    <3> QED
      BY <3>1, <3>4, <3>5
  <2>3. PICK v : /\ v = Sequence!Reverse(c) /\ v \in Seq(S) /\ Len(v) = m + n
                 /\ \A k \in 1..(m + n) : v[k] = c[((m + n) - k) + 1]
    <3>h. PICK h \in Nat : h = m + n
      OBVIOUS
    <3> DEFINE r == [k \in 1..h |-> c[(h - k) + 1]]
    <3>1. Sequence!Reverse(c) = r
      BY <2>1, <3>h DEF Sequence!Reverse
    <3>2. \A k \in 1..h : (h - k) + 1 \in 1..h
      OBVIOUS
    <3>3. r \in [1..h -> S]
      BY <2>1, <3>2, <3>h
    <3>4. \A k \in 1..h : r[k] = c[(h - k) + 1]
      OBVIOUS
    <3> HIDE DEF r
    <3>5. r \in Seq(S) /\ Len(r) = h
      BY <3>3, SeqDef, LenProperties
    <3> QED
      BY <3>1, <3>4, <3>5, <3>h
  <2>4. ASSUME NEW k \in 1..n
        PROVE  u[k] = v[k]
    <3>1. /\ k \in 1..(m + n) /\ ((m + n) - k) + 1 \in (m + 1)..(m + n)
          /\ (((m + n) - k) + 1) - m = (n - k) + 1
      OBVIOUS
    <3>2. v[k] = c[((m + n) - k) + 1] /\ c[((m + n) - k) + 1] = a[(((m + n) - k) + 1) - m]
      BY <2>1, <2>3, <3>1
    <3> QED
      BY <2>2, <3>1, <3>2
  <2>5. Sequence!IsPrefix(u, v)
    <3>1. Len(u) <= Len(v) /\ \A k \in 1..Len(u) : u[k] = v[k]
      BY <2>2, <2>3, <2>4
    <3> QED
      BY <2>2, <2>3, <3>1, PrefixIs
  <2> QED
    BY <2>1, <2>2, <2>3, <2>5 DEF Sequence!IsSuffix
<1> QED
  BY <1>2, <1>3

LEMMA ConcatenationStep == Inv /\ Concat => Sequence!Concat
<1> SUFFICES ASSUME Inv, Concat
             PROVE  Sequence!Concat
  OBVIOUS
<1>1. PICK other \in UNION {[1..n -> Data] : n \in 0..(MaxLen - l.numels)} :
        /\ l' \in {list_concat(Items(l), other), list_concat(other, Items(l))}
        /\ returned' = <<>>
  BY DEF Concat
<1>2. PICK d, q : /\ d \in {Items(l) \o other, other \o Items(l)}
                  /\ other \in Seq(Data) /\ d \in Seq(Data) /\ ListOf(l', q, d)
  BY <1>1, ConcatStep
<1>3. WellFormed(l', q) /\ ~l'.iter_active
  BY <1>2 DEF ListOf
<1>4. Items(l') = d
  <2>1. PICK t : t = l'
    OBVIOUS
  <2>2. /\ WellFormed(t, q) /\ t.numels = Len(d) /\ \A k \in 1..Len(d) : t.data[q[k]] = d[k]
    BY <1>2, <2>1 DEF ListOf
  <2>3. /\ Items(t) \in Seq(Data) /\ Len(Items(t)) = t.numels
        /\ \A k \in 1..t.numels : Items(t)[k] = t.data[q[k]]
    BY <2>2, ItemsType
  <2>4. Len(Items(t)) = Len(d) /\ \A k \in 1..Len(d) : Items(t)[k] = d[k]
    BY <2>2, <2>3
  <2> QED
    BY <1>2, <2>1, <2>3, <2>4, SeqEqual
<1>5. Items(l) \in Seq(Data)
  <2>1. PICK p : WellFormed(l, p)
    BY DEF Inv
  <2> QED
    BY <2>1, ItemsType
<1>6. Sequence!IsPrefix(Items(l), d) \/ Sequence!IsSuffix(Items(l), d)
  <2>1. /\ Sequence!IsPrefix(Items(l), Items(l) \o other)
        /\ Sequence!IsSuffix(Items(l), other \o Items(l))
    BY ONLY <1>2, <1>5, BesideIs
  <2>2. d = Items(l) \o other \/ d = other \o Items(l)
    BY <1>2, Zenon
  <2> QED
    BY <2>1, <2>2, Zenon
<1>7. l'.iter_active = FALSE
  <2>1. l'.iter_active \in BOOLEAN
    BY <1>3 DEF WellFormed, Lists
  <2> QED
    BY <1>3, <2>1
<1> QED
  BY <1>1, <1>4, <1>6, <1>7 DEF Sequence!Concat

\* Every call of the user is a step of the sequence, or leaves it as it is.
LEMMA StepsAreSteps == Inv /\ [Next]_listVars => [Sequence!Next]_(Sequence!vars)
<1> SUFFICES ASSUME Inv, [Next]_listVars
             PROVE  [Sequence!Next]_(Sequence!vars)
  OBVIOUS
<1>1. CASE UNCHANGED listVars
  BY <1>1 DEF listVars, Sequence!vars
<1>2. CASE Insert \/ DeleteAt \/ Delete \/ DeleteRange
  BY <1>2, InsertStep, DeleteAtStep, DeleteStep, DeleteRangeStep DEF Sequence!Next
<1>3. CASE Clear \/ Sort \/ Concat
  BY <1>3, ClearStep, SortStep, ConcatenationStep DEF Sequence!Next
<1>4. CASE list_iterator_start
  <2>1. Items(l)' = Items(l) /\ l'.iter_active = TRUE
    BY <1>4, StartKeeps
  <2>2. ~l.iter_active /\ returned' = <<>>
    BY <1>4 DEF list_iterator_start
  <2>3. returned = <<>>
    BY <2>2 DEF Inv, Iterates
  <2> QED
    BY <2>1, <2>2, <2>3 DEF Sequence!Start, Sequence!Next
<1>5. CASE list_iterator_next
  <2>1. /\ Items(l)' = Items(l) /\ l'.iter_active = l.iter_active
        /\ Len(returned) < Len(Items(l)) /\ returned' = Append(returned, Items(l)[Len(returned) + 1])
    BY <1>5, NextKeeps
  <2>2. l.iter_active
    BY <1>5 DEF list_iterator_next
  <2> QED
    BY <2>1, <2>2 DEF Sequence!Take, Sequence!Next
<1>6. CASE list_iterator_stop
  <2>1. Items(l)' = Items(l) /\ l'.iter_active = FALSE
    BY <1>6, StopKeeps
  <2>2. l.iter_active /\ returned' = <<>>
    BY <1>6 DEF list_iterator_stop
  <2> QED
    BY <2>1, <2>2 DEF Sequence!Stop, Sequence!Next
<1> QED
  BY <1>1, <1>2, <1>3, <1>4, <1>5, <1>6 DEF Next

\* The list implements the sequence of SimcSequence: whatever calls the user makes
\* of it, its elements change as those of a sequence do, none while it is iterated
\* over, and an iteration returns them all once, in order.
THEOREM ListImplementsSequence == Spec => ImplementsSequence
<1>1. Init => Sequence!Init
  <2> SUFFICES ASSUME Init
               PROVE  Sequence!Init
    OBVIOUS
  <2>1. l = Empty /\ returned = <<>>
    BY DEF Init
  <2>2. Empty.numels = 0 /\ Empty.iter_active = FALSE
    BY DEF Empty
  <2>3. Items(l) \in Seq(Data) /\ Len(Items(l)) = 0
    <3>1. PICK p : WellFormed(l, p)
      BY Begins DEF Inv
    <3> QED
      BY <2>1, <2>2, <3>1, ItemsType
  <2>4. Items(l) = <<>>
    BY <2>3, EmptySeq
  <2> QED
    BY <2>1, <2>2, <2>4 DEF Sequence!Init
<1>2. Spec => []Inv
  BY ListInvariant
<1>3. Inv /\ [Next]_listVars => [Sequence!Next]_(Sequence!vars)
  BY StepsAreSteps
<1> QED
  BY <1>1, <1>2, <1>3, PTL DEF Spec, ImplementsSequence, Sequence!Spec
=============================================================================
