-------------------------- MODULE ChircLocksProofs --------------------------
(***************************************************************************)
(* What the order of the mutexes is good for, for any number of threads,   *)
(* channels and commands: as long as every command follows the discipline, *)
(* the mutexes exclude and the threads never wait in a circle.             *)
(***************************************************************************)
EXTENDS ChircLocks, SequenceTheorems, TLAPS

\* What a step leaves of the mutexes h of its thread.
After(h, s) == IF s.op = "lock" THEN h \cup {s.lock} ELSE h \ {s.lock}

\* Looking one step further into p is looking as far into the rest of p.
LEMMA HeldTail ==
  ASSUME NEW h \in SUBSET Locks, NEW p \in Seq(Step), p # <<>>,
         NEW k \in Nat, k < Len(p)
  PROVE  HeldAfter(After(h, Head(p)), Tail(p), k) = HeldAfter(h, p, k + 1)
<1> DEFINE q == Tail(p)
<1>1. /\ Len(p) \in Nat /\ Len(q) = Len(p) - 1
      /\ \A i \in 1..Len(q) : q[i] = p[i + 1]
      /\ Head(p) = p[1]
      /\ \A i \in 1..Len(p) : p[i] \in Step
  BY HeadTailProperties, LenProperties, ElementOfSeq
<1>2. ASSUME NEW m \in Locks
      PROVE  m \in HeldAfter(After(h, Head(p)), q, k) <=> m \in HeldAfter(h, p, k + 1)
  <2> DEFINE Untouched(i) == \A j \in i..(k + 1) : p[j].lock # m
  <2>1. ASSUME NEW i \in 1..(k + 1)
        PROVE  (\A j \in i..k : q[j].lock # m) <=> Untouched(i + 1)
    <3>1. \A j \in i..k : q[j] = p[j + 1]
      BY <1>1
    <3>2. ASSUME \A j \in i..k : q[j].lock # m, NEW j \in (i + 1)..(k + 1)
          PROVE  p[j].lock # m
      <4>1. j - 1 \in i..k /\ (j - 1) + 1 = j
        OBVIOUS
      <4> QED BY <4>1, <3>1, <3>2
    <3>3. ASSUME Untouched(i + 1), NEW j \in i..k
          PROVE  q[j].lock # m
      <4>1. j + 1 \in (i + 1)..(k + 1)
        OBVIOUS
      <4> QED BY <4>1, <3>1, <3>3
    <3> QED BY <3>2, <3>3
  <2>2. m \in HeldAfter(After(h, Head(p)), q, k)
          <=> \/ m \in After(h, Head(p)) /\ Untouched(2)
              \/ \E j \in 1..k : p[j + 1] = Lock(m) /\ Untouched(j + 2)
    <3>1. \A j \in 1..k : q[j] = p[j + 1] /\ j + 1 \in 1..(k + 1)
      BY <1>1
    <3>2. (\A i \in 1..k : q[i].lock # m) <=> Untouched(2)
      BY <2>1
    <3>3. \A j \in 1..k : (\A i \in (j + 1)..k : q[i].lock # m) <=> Untouched(j + 2)
      <4> TAKE j \in 1..k
      <4>1. j + 1 \in 1..(k + 1) /\ (j + 1) + 1 = j + 2
        OBVIOUS
      <4> QED BY <4>1, <2>1
    <3> HIDE DEF Untouched, q
    <3> QED BY <3>1, <3>2, <3>3 DEF HeldAfter
  <2>3. m \in HeldAfter(h, p, k + 1)
          <=> \/ m \in h /\ Untouched(1)
              \/ \E j \in 1..(k + 1) : p[j] = Lock(m) /\ Untouched(j + 1)
    BY DEF HeldAfter
  <2>4. Untouched(1) <=> p[1].lock # m /\ Untouched(2)
    <3>1. \A j : j \in 1..(k + 1) <=> j = 1 \/ j \in 2..(k + 1)
      OBVIOUS
    <3> QED BY <3>1
  <2>5. (\E j \in 1..(k + 1) : p[j] = Lock(m) /\ Untouched(j + 1))
          <=> \/ p[1] = Lock(m) /\ Untouched(2)
              \/ \E j \in 1..k : p[j + 1] = Lock(m) /\ Untouched(j + 2)
    <3>1. ASSUME NEW j \in 1..(k + 1), p[j] = Lock(m), Untouched(j + 1), j # 1
          PROVE  \E i \in 1..k : p[i + 1] = Lock(m) /\ Untouched(i + 2)
      <4>1. j - 1 \in 1..k /\ (j - 1) + 1 = j /\ (j - 1) + 2 = j + 1
        BY <3>1
      <4> HIDE DEF Untouched
      <4>2. p[(j - 1) + 1] = Lock(m) /\ Untouched((j - 1) + 2)
        BY <4>1, <3>1
      <4> QED BY <4>1, <4>2
    <3>2. ASSUME NEW i \in 1..k, p[i + 1] = Lock(m), Untouched(i + 2)
          PROVE  \E j \in 1..(k + 1) : p[j] = Lock(m) /\ Untouched(j + 1)
      <4>1. i + 1 \in 1..(k + 1) /\ (i + 1) + 1 = i + 2
        OBVIOUS
      <4> HIDE DEF Untouched
      <4>2. p[i + 1] = Lock(m) /\ Untouched((i + 1) + 1)
        BY <4>1, <3>2
      <4> QED BY <4>1, <4>2
    <3>3. 1 \in 1..(k + 1) /\ 1 + 1 = 2
      OBVIOUS
    <3> HIDE DEF Untouched
    <3> QED BY <3>1, <3>2, <3>3
  <2>6. /\ p[1] \in Step
        /\ p[1].op = "lock" /\ p[1].lock = m <=> p[1] = Lock(m)
    BY <1>1 DEF Step, Lock
  <2>7. m \in After(h, Head(p))
          <=> \/ m \in h /\ p[1].lock # m
              \/ p[1] = Lock(m)
    BY <1>1, <2>6 DEF After, Step
  <2> HIDE DEF Untouched, q
  <2> QED BY <2>2, <2>3, <2>4, <2>5, <2>7, <2>6
<1> QED BY <1>2 DEF HeldAfter

\* The discipline is handed down from a command to what is left of it.
LEMMA OrderedTail ==
  ASSUME NEW h \in SUBSET Locks, NEW p \in Seq(Step), p # <<>>, Ordered(h, p)
  PROVE  Ordered(After(h, Head(p)), Tail(p))
<1> DEFINE g == After(h, Head(p))
           q == Tail(p)
<1>1. /\ Len(p) \in Nat /\ Len(q) = Len(p) - 1 /\ Len(p) > 0
      /\ q \in Seq(Step)
      /\ \A i \in 1..Len(q) : q[i] = p[i + 1]
      /\ DOMAIN p = 1..Len(p) /\ DOMAIN q = 1..Len(q)
  BY HeadTailProperties, LenProperties, EmptySeq
<1>2. \A k \in 0..Len(q) : HeldAfter(g, q, k) = HeldAfter(h, p, k + 1)
  BY <1>1, HeldTail
<1> HIDE DEF g, q
<1>3. ASSUME NEW k \in DOMAIN q
      PROVE  /\ q[k].op = "lock" => \A m \in HeldAfter(g, q, k - 1) : Rank[m] < Rank[q[k].lock]
             /\ q[k].op = "unlock" => q[k].lock \in HeldAfter(g, q, k - 1)
  <2>1. /\ k + 1 \in DOMAIN p /\ q[k] = p[k + 1]
        /\ k - 1 \in 0..Len(q) /\ (k - 1) + 1 = k /\ (k + 1) - 1 = k
    BY <1>1
  <2>2. HeldAfter(g, q, k - 1) = HeldAfter(h, p, (k + 1) - 1)
    BY <1>2, <2>1
  <2> QED BY <2>1, <2>2 DEF Ordered
<1>4. HeldAfter(g, q, Len(q)) = {}
  <2>1. Len(q) \in 0..Len(q) /\ Len(q) + 1 = Len(p)
    BY <1>1
  <2> QED BY <1>2, <2>1 DEF Ordered
<1> QED BY <1>3, <1>4 DEF Ordered, g, q

\* What the first step of a disciplined command needs.
LEMMA OrderedHead ==
  ASSUME NEW h \in SUBSET Locks, NEW p \in Seq(Step), p # <<>>, Ordered(h, p)
  PROVE  /\ Head(p) \in Step
         /\ Head(p).op = "lock" => \A m \in h : Rank[m] < Rank[Head(p).lock]
         /\ Head(p).op = "unlock" => Head(p).lock \in h
<1>1. /\ 1 \in DOMAIN p /\ Head(p) = p[1] /\ Head(p) \in Step
  BY HeadTailProperties, LenProperties, EmptySeq
<1>2. HeldAfter(h, p, 1 - 1) = h
  BY DEF HeldAfter
<1> QED BY <1>1, <1>2 DEF Ordered

\* A thread whose command is over has no mutex.
LEMMA OrderedEmpty ==
  ASSUME NEW h \in SUBSET Locks, Ordered(h, <<>>)
  PROVE  h = {}
<1>1. HeldAfter(h, <<>>, 0) = h
  BY DEF HeldAfter
<1> QED BY <1>1 DEF Ordered

-----------------------------------------------------------------------------
\* The inductive invariant: every thread has ahead of it a disciplined rest of
\* a command, a mutex is taken exactly when some thread has it, and no two have
\* the same.
Inv == /\ TypeOK
       /\ InOrder
       /\ \A m : m \in taken <=> \E t \in Threads : m \in holds[t]
       /\ MutualExclusion

LEMMA InvInit ==
  ASSUME Init
  PROVE  Inv
<1>1. Ordered({}, <<>>)
  BY DEF Ordered, HeldAfter
<1>2. <<>> \in Seq(Step)
  BY EmptySeq, Zenon
<1> QED BY <1>1, <1>2 DEF Init, Inv, InOrder, TypeOK, MutualExclusion

\* One step of a thread's command.
LEMMA InvRun ==
  ASSUME Inv, NEW t \in Threads, Run(t)
  PROVE  Inv'
<1> DEFINE s == Head(todo[t])
<1>1. /\ todo[t] \in Seq(Step) /\ todo[t] # <<>> /\ holds[t] \in SUBSET Locks
      /\ Ordered(holds[t], todo[t])
  BY DEF Inv, InOrder, TypeOK, Run, Acquire, Release, NextIs
<1>2. /\ s \in Step
      /\ s.op = "lock" => \A m \in holds[t] : Rank[m] < Rank[s.lock]
      /\ s.op = "unlock" => s.lock \in holds[t]
  BY <1>1, OrderedHead
<1>3. Ordered(After(holds[t], s), Tail(todo[t])) /\ Tail(todo[t]) \in Seq(Step)
  BY <1>1, OrderedTail, HeadTailProperties
<1>4. /\ todo' = [todo EXCEPT ![t] = Tail(todo[t])]
      /\ holds' = [holds EXCEPT ![t] = After(holds[t], s)]
      /\ quiet' = quiet
  BY DEF Run, Acquire, Release, NextIs, After
<1>5. \/ s.op = "lock" /\ s.lock \notin taken /\ taken' = taken \cup {s.lock}
      \/ s.op = "unlock" /\ taken' = taken \ {s.lock}
  BY DEF Run, Acquire, Release, NextIs
<1> HIDE DEF s
<1>6. TypeOK'
  BY <1>2, <1>3, <1>4, <1>5 DEF Inv, TypeOK, After, Step
<1>7. InOrder'
  BY <1>3, <1>4 DEF Inv, InOrder, TypeOK
<1>8. \A u \in Threads : holds'[u] = IF u = t THEN After(holds[t], s) ELSE holds[u]
  BY <1>4 DEF Inv, TypeOK
<1>9. CASE s.op = "lock"
  <2>1. s.lock \notin taken /\ taken' = taken \cup {s.lock}
    BY <1>5, <1>9
  <2>2. After(holds[t], s) = holds[t] \cup {s.lock}
    BY <1>9 DEF After
  <2>3. \A u \in Threads : s.lock \notin holds[u]
    BY <2>1 DEF Inv
  <2>4. (\A m : m \in taken <=> \E u \in Threads : m \in holds[u])'
    BY <1>8, <2>1, <2>2 DEF Inv
  <2>5. MutualExclusion'
    BY <1>8, <2>2, <2>3 DEF Inv, MutualExclusion
  <2> QED BY <1>6, <1>7, <2>4, <2>5 DEF Inv
<1>10. CASE s.op = "unlock"
  <2>1. s.lock \in holds[t] /\ taken' = taken \ {s.lock}
    BY <1>2, <1>5, <1>10
  <2>2. After(holds[t], s) = holds[t] \ {s.lock}
    BY <1>10 DEF After
  <2>3. \A u \in Threads : u # t => s.lock \notin holds[u]
    BY <2>1 DEF Inv, MutualExclusion
  <2>4. (\A m : m \in taken <=> \E u \in Threads : m \in holds[u])'
    BY <1>8, <2>1, <2>2, <2>3 DEF Inv
  <2>5. MutualExclusion'
    BY <1>8, <2>2 DEF Inv, MutualExclusion
  <2> QED BY <1>6, <1>7, <2>4, <2>5 DEF Inv
<1> QED BY <1>5, <1>9, <1>10

LEMMA InvNext ==
  ASSUME Disciplined, Programs \subseteq Seq(Step), Inv, [Next]_vars
  PROVE  Inv'
<1>1. ASSUME NEW t \in Threads, Begin(t)
      PROVE  Inv'
  <2>1. PICK p \in Programs : todo' = [todo EXCEPT ![t] = p]
    BY <1>1 DEF Begin
  <2>2. holds[t] = {}
    BY <1>1, OrderedEmpty DEF Begin, Inv, InOrder, TypeOK
  <2>3. Ordered({}, p) /\ p \in Seq(Step)
    BY DEF Disciplined
  <2>4. holds' = holds /\ taken' = taken /\ quiet' = quiet
    BY <1>1 DEF Begin
  <2>5. TypeOK'
    BY <2>1, <2>3, <2>4 DEF Inv, TypeOK
  <2>6. InOrder'
    BY <2>1, <2>2, <2>3, <2>4 DEF Inv, InOrder, TypeOK
  <2> QED BY <2>4, <2>5, <2>6 DEF Inv, MutualExclusion
<1>2. CASE FallQuiet
  BY <1>2 DEF FallQuiet, Inv, InOrder, TypeOK, MutualExclusion
<1>3. CASE UNCHANGED vars
  BY <1>3 DEF vars, Inv, InOrder, TypeOK, MutualExclusion
<1> QED BY <1>1, <1>2, <1>3, InvRun DEF Next

LEMMA Invariance ==
  ASSUME Disciplined, Programs \subseteq Seq(Step)
  PROVE  Spec => []Inv
<1>1. Init => Inv
  BY InvInit
<1>2. Inv /\ [Next]_vars => Inv'
  BY InvNext
<1> QED BY <1>1, <1>2, PTL DEF Spec

\* Type correctness, when the programs are sequences of steps.
THEOREM LocksType ==
  ASSUME Disciplined, Programs \subseteq Seq(Step)
  PROVE  Spec => []TypeOK
<1>1. Inv => TypeOK
  BY DEF Inv
<1> QED BY <1>1, Invariance, PTL

\* Disciplined commands exclude each other from their critical sections.
THEOREM LocksExclude ==
  ASSUME Disciplined, Programs \subseteq Seq(Step)
  PROVE  Spec => []MutualExclusion
<1>1. Inv => MutualExclusion
  BY DEF Inv
<1> QED BY <1>1, Invariance, PTL

\* Disciplined commands stay disciplined, whatever of them is still to come.
THEOREM LocksInOrder ==
  ASSUME Disciplined, Programs \subseteq Seq(Step)
  PROVE  Spec => []InOrder
<1>1. Inv => InOrder
  BY DEF Inv
<1> QED BY <1>1, Invariance, PTL

\* A thread that waits for another wants a mutex that ranks below the one the
\* other wants, if that one waits too.
LEMMA WaitersRise ==
  ASSUME Inv, Rank \in [Locks -> 0..2],
         NEW t \in Threads, NEW u \in Threads, WaitsFor(t, u), NextIs(u, "lock")
  PROVE  /\ Rank[Head(todo[t]).lock] \in 0..2 /\ Rank[Head(todo[u]).lock] \in 0..2
         /\ Rank[Head(todo[t]).lock] < Rank[Head(todo[u]).lock]
<1>1. ASSUME NEW v \in Threads, NextIs(v, "lock")
      PROVE  /\ Head(todo[v]) \in Step /\ Head(todo[v]).op = "lock"
             /\ \A m \in holds[v] : Rank[m] < Rank[Head(todo[v]).lock]
  BY <1>1, OrderedHead DEF Inv, InOrder, TypeOK, NextIs
<1>2. NextIs(t, "lock") /\ Head(todo[t]).lock \in holds[u]
  BY DEF WaitsFor
<1> QED BY <1>1, <1>2 DEF Step

\* Disciplined commands never wait for one another in a circle.  Among threads
\* that do, the mutexes they want would have no highest rank.
THEOREM LocksNoDeadlock ==
  ASSUME Disciplined, Programs \subseteq Seq(Step), Rank \in [Locks -> 0..2]
  PROVE  Spec => []NoDeadlock
<1>1. Inv => NoDeadlock
  <2> SUFFICES ASSUME Inv, NEW S \in SUBSET Threads, S # {},
                      \A t \in S : \E u \in S : WaitsFor(t, u)
               PROVE  FALSE
    BY DEF NoDeadlock
  <2> DEFINE Wants(t) == Rank[Head(todo[t]).lock]
  <2>1. \A t \in S : NextIs(t, "lock")
    BY DEF WaitsFor
  <2>2. \A t \in S : \E u \in S : Wants(t) \in 0..2 /\ Wants(u) \in 0..2 /\ Wants(t) < Wants(u)
    BY <2>1, WaitersRise
  <2> HIDE DEF Wants
  <2>3. \A t \in S : Wants(t) # 2
    BY <2>2
  <2>4. \A t \in S : Wants(t) # 1
    BY <2>2, <2>3
  <2>5. \A t \in S : Wants(t) # 0
    BY <2>2, <2>3, <2>4
  <2> QED BY <2>2, <2>3, <2>4, <2>5
<1> QED BY <1>1, Invariance, PTL
=============================================================================
