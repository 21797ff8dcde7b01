------------------------------- MODULE SimcList -------------------------------
(***************************************************************************)
(* simclist.c, the list both chirc and the STCP layer keep their state in:  *)
(* a doubly linked list between two sentinels, with a pointer to its middle *)
(* from which elements are found, a stack of spare elements, and one        *)
(* iteration at a time during which the list must not change.              *)
(*                                                                         *)
(* l is the list_t of the source and next, prev and data are its elements'.  *)
(* Elements are numbers; the ones that are neither in the list nor spare     *)
(* are free memory.  The data of an element is a number too, as all that    *)
(* is asked of data is how two compare.                                    *)
(***************************************************************************)
EXTENDS SimcSort

CONSTANTS MaxLen,                    \* bound: the longest list
          SIMCLIST_MAX_SPARE_ELEMS,
          Data                       \* what elements hold

ASSUME SimcListAssumption == /\ MaxLen \in Nat \ {0}
                             /\ SIMCLIST_MAX_SPARE_ELEMS \in Nat
                             /\ Data \subseteq Nat

VARIABLES l,          \* the list
          returned    \* what list_iterator_next() returned since list_iterator_start()

listVars == <<l, returned>>

NULL == -1
head_sentinel == 0
tail_sentinel == MaxLen + 1
Elements == 1..MaxLen

\* Following a NULL pointer, which ends the program, leads nowhere here.
Follow(link, p) == IF p = NULL THEN NULL ELSE link[p]

\* The element n links away from p.
Walk(link, p, n) == LET at[k \in 0..n] == IF k = 0 THEN p ELSE Follow(link, at[k - 1])
                    IN at[n]

(***************************************************************************)
(* Finding elements.                                                       *)
(***************************************************************************)
\* The position of mid in a list that has one.
MidIndexUp(s) == s.numels \div 2
MidIndex(s) == (s.numels - 1) \div 2

\* list_findpos(): x is compared with the quarters; of an empty list it is
\* infinite or not a number, which is the last branch.
list_findpos(s, pos) ==
  LET middle == MidIndex(s)
      upTo(n) == 4 * (pos + 1) <= n * s.numels
  IN CASE pos < -1 \/ pos > s.numels -> NULL
       [] s.numels > 0 /\ upTo(1) -> Walk(s.next, head_sentinel, pos + 1)
       [] s.numels > 0 /\ ~upTo(1) /\ 2 * (pos + 1) < s.numels ->
            Walk(s.prev, s.mid, IF middle > pos THEN middle - pos ELSE 0)
       [] s.numels > 0 /\ 2 * (pos + 1) >= s.numels /\ upTo(3) ->
            Walk(s.next, s.mid, IF pos > middle THEN pos - middle ELSE 0)
       [] OTHER -> Walk(s.prev, tail_sentinel, s.numels - pos)

list_get_at(s, pos) ==
  LET tmp == list_findpos(s, pos) IN IF tmp = NULL THEN NULL ELSE s.data[tmp]

\* The elements from the head sentinel on, as many as there should be.
Linked(s) == [k \in 1..s.numels |-> Walk(s.next, head_sentinel, k)]
Items(s) == LET at == Linked(s) IN [k \in 1..s.numels |-> Follow(s.data, at[k])]

\* list_locate(): the position of the first element that holds d, or -1.
list_locate(s, d) ==
  LET items == Items(s)
      hits == {k \in 1..s.numels : items[k] = d}
  IN IF hits = {} THEN -1 ELSE Min(hits) - 1

\* list_get_minmax()
list_get_minmax(s, versus) ==
  LET items == Items(s)
      cur[k \in 0..(s.numels - 1)] ==
        IF k = 0 THEN items[1]
        ELSE IF After(items[k + 1], cur[k - 1], versus) THEN items[k + 1] ELSE cur[k - 1]
  IN IF s.numels = 0 THEN NULL ELSE cur[s.numels - 1]

(***************************************************************************)
(* Elements and their memory.                                              *)
(***************************************************************************)
Cells == {head_sentinel, tail_sentinel} \cup Elements

\* list_init()
Empty == [next |-> [c \in Cells |-> IF c = head_sentinel THEN tail_sentinel ELSE NULL],
          prev |-> [c \in Cells |-> IF c = tail_sentinel THEN head_sentinel ELSE NULL],
          data |-> [c \in Cells |-> NULL],
          mid |-> NULL, numels |-> 0, spareels |-> <<>>, allocated |-> {},
          iter_active |-> FALSE, iter_pos |-> 0, iter_curentry |-> NULL]

\* A version that leaves the spare it takes on the stack.
FreshKept(s) ==
  IF s.spareels # <<>>
  THEN [s |-> s, e |-> Last(s.spareels)]
  ELSE LET e == Min(Elements \ s.allocated)
       IN [s |-> [s EXCEPT !.allocated = @ \cup {e}], e |-> e]

\* An element for a new entry: the spare put away last, or new memory.
Fresh(s) ==
  IF s.spareels # <<>>
  THEN [s |-> [s EXCEPT !.spareels = Front(@)], e |-> Last(s.spareels)]
  ELSE LET e == Min(Elements \ s.allocated)
       IN [s |-> [s EXCEPT !.allocated = @ \cup {e}], e |-> e]

\* An element taken out becomes a spare while there is room for one, or is freed.
\* What it links to and holds is not read again.
Release(s, e) ==
  LET s1 == [s EXCEPT !.next[e] = NULL, !.prev[e] = NULL, !.data[e] = NULL]
  IN IF Len(s.spareels) < SIMCLIST_MAX_SPARE_ELEMS
     THEN [s1 EXCEPT !.spareels = Append(@, e)]
     ELSE [s1 EXCEPT !.allocated = @ \ {e}]

\* One after the other, as list_clear() and list_delete_range() do.
ReleaseAll(s, gone) ==
  LET released[k \in 0..Len(gone)] == IF k = 0 THEN s ELSE Release(released[k - 1], gone[k])
  IN released[Len(gone)]

\* a->next = b; b->prev = a
Join(s, a, b) == [s EXCEPT !.next[a] = b, !.prev[b] = a]

(***************************************************************************)
(* Changing the list.                                                      *)
(***************************************************************************)
\* A version whose comparison is one place off for an even length.
MidAfterInsertStrict(s, e, pos) ==
  LET odd == s.numels % 2 = 1
      middle == (s.numels - 1) \div 2
  IN CASE s.numels = 1 -> e
       [] s.numels > 1 /\ odd /\ pos >= middle -> Follow(s.next, s.mid)
       [] s.numels > 1 /\ ~odd /\ pos < middle -> Follow(s.prev, s.mid)
       [] OTHER -> s.mid

\* The middle of a list e was inserted into at pos.
MidAfterInsert(s, e, pos) ==
  LET odd == s.numels % 2 = 1
      middle == (s.numels - 1) \div 2
  IN CASE s.numels = 1 -> e
       [] s.numels > 1 /\ odd /\ pos >= middle -> Follow(s.next, s.mid)
       [] s.numels > 1 /\ ~odd /\ pos <= middle -> Follow(s.prev, s.mid)
       [] OTHER -> s.mid

list_insert_at(s, d, pos) ==
  LET f == Fresh(s)
      prec == list_findpos(f.s, pos - 1)
      succ == Follow(f.s.next, prec)
      linked == [Join(Join(f.s, prec, f.e), f.e, succ)
                   EXCEPT !.data[f.e] = d, !.numels = @ + 1]
  IN [linked EXCEPT !.mid = MidAfterInsert(linked, f.e, pos)]

\* The middle is moved with respect to the list before the element leaves it.
MidAfterDrop(s, pos) ==
  LET odd == s.numels % 2 = 1
      half == s.numels \div 2
  IN CASE s.numels = 1 -> NULL
       [] s.numels > 1 /\ odd /\ pos >= half -> Follow(s.prev, s.mid)
       [] ~odd /\ pos < half -> Follow(s.next, s.mid)
       [] OTHER -> s.mid

\* list_drop_elem(), and the count its callers take down
list_drop_elem(s, e, pos) ==
  LET s1 == [s EXCEPT !.mid = MidAfterDrop(s, pos), !.numels = @ - 1]
  IN Release(Join(s1, s.prev[e], s.next[e]), e)

\* list_delete_at(); list_extract_at() does the same and returns the data
list_delete_at(s, pos) == list_drop_elem(s, list_findpos(s, pos), pos)

list_clear(s) ==
  LET emptied == [s EXCEPT !.numels = 0, !.mid = NULL]
  IN Join(ReleaseAll(emptied, Linked(s)), head_sentinel, tail_sentinel)

\* Where list_delete_range() moves the middle to, before it unlinks the elements.
MidAfterRange(s, posstart, numdel) ==
  LET after == (s.numels - 1 - numdel) \div 2
      target == IF after < posstart THEN after ELSE after + numdel
      movedx == target - MidIndex(s)
  IN IF movedx > 0 THEN Walk(s.next, s.mid, movedx) ELSE Walk(s.prev, s.mid, -movedx)

list_delete_range(s, posstart, posend) ==
  LET numdel == posend - posstart + 1
      first == list_findpos(s, posstart)
      gone == [k \in 1..numdel |-> Walk(s.next, first, k - 1)]
      s1 == [s EXCEPT !.mid = MidAfterRange(s, posstart, numdel), !.numels = @ - numdel]
  IN IF numdel = s.numels THEN list_clear(s)
     ELSE Join(ReleaseAll(s1, gone), s.prev[first], Walk(s.next, first, numdel))

\* list_sort(): one of the results the pivots lead to, put into the elements in
\* their order.  Lists of one element or none are left alone.
Sorted(s, versus) ==
  LET at == Linked(s)
      place == [c \in Range(at) |-> CHOOSE k \in DOMAIN at : at[k] = c]
  IN {[s EXCEPT !.data = [c \in Cells |-> IF c \in DOMAIN place THEN d[place[c]] ELSE NULL]]
        : d \in QuickSorts(Items(s), 1, s.numels, versus)}

\* The middle of a concatenation, which was left at the end of the first list:
\* divisions cut off towards zero.
ConcatMid(s, n1, n2) ==
  LET err == n2 - n1
  IN IF err >= 1 THEN Walk(s.next, n1, (err + 1) \div 2)
     ELSE Walk(s.prev, n1, (-err) \div 2)

\* list_concat(): a list of new elements, the first n1 with the data of the one
\* list and the rest with that of the other.
list_concat(d1, d2) ==
  LET d == d1 \o d2
      n == Len(d)
      chained == [Empty EXCEPT
        !.next = [c \in Cells |-> CASE c < n -> c + 1 [] c = n -> tail_sentinel [] OTHER -> NULL],
        !.prev = [c \in Cells |-> CASE c \in 1..n -> c - 1 [] c = tail_sentinel -> n [] OTHER -> NULL],
        !.data = [c \in Cells |-> IF c \in 1..n THEN d[c] ELSE NULL],
        !.numels = n, !.allocated = 1..n]
  IN IF n = 0 THEN Empty ELSE [chained EXCEPT !.mid = ConcatMid(chained, Len(d1), Len(d2))]

(***************************************************************************)
(* The calls of a user.  A call that is refused changes nothing.           *)
(***************************************************************************)
Init == l = Empty /\ returned = <<>>

\* A version that does not ask for an iteration.
ChangedAnyway(s) == l' = s /\ UNCHANGED returned

\* Every function that changes the list refuses while somebody iterates over it.
Changed(s) == ~l.iter_active /\ l' = s /\ UNCHANGED returned

\* list_insert_at(), list_append() and list_prepend()
Insert == \E pos \in 0..l.numels, d \in Data :
            l.numels < MaxLen /\ Changed(list_insert_at(l, d, pos))

\* list_delete_at(), list_extract_at() and list_fetch()
DeleteAt == \E pos \in 0..(l.numels - 1) : Changed(list_delete_at(l, pos))

\* list_delete()
Delete == \E d \in Data : /\ list_locate(l, d) >= 0
                          /\ Changed(list_delete_at(l, list_locate(l, d)))

DeleteRange == \E posend \in 0..(l.numels - 1) : \E posstart \in 0..posend :
                 Changed(list_delete_range(l, posstart, posend))

Clear == Changed(list_clear(l))

Sort == \E versus \in {-1, 1} : \E s \in Sorted(l, versus) : Changed(s)

\* The user sets up the result of list_concat() and goes on with it; reading the
\* list needs no end of the iteration over it.
Concat == \E other \in UNION {[1..n -> Data] : n \in 0..(MaxLen - l.numels)} :
            /\ l' \in {list_concat(Items(l), other), list_concat(other, Items(l))}
            /\ returned' = <<>>

list_iterator_start ==
  /\ ~l.iter_active
  /\ l' = [l EXCEPT !.iter_active = TRUE, !.iter_pos = 0,
                    !.iter_curentry = l.next[head_sentinel]]
  /\ returned' = <<>>

\* Users ask list_iterator_hasnext() first.
list_iterator_next ==
  /\ l.iter_active
  /\ l.iter_pos < l.numels
  /\ l' = [l EXCEPT !.iter_curentry = Follow(l.next, @), !.iter_pos = @ + 1]
  /\ returned' = Append(returned, Follow(l.data, l.iter_curentry))

list_iterator_stop ==
  /\ l.iter_active
  /\ l' = [l EXCEPT !.iter_active = FALSE, !.iter_pos = 0, !.iter_curentry = NULL]
  /\ returned' = <<>>

Next == \/ Insert \/ DeleteAt \/ Delete \/ DeleteRange \/ Clear \/ Sort \/ Concat
        \/ list_iterator_start \/ list_iterator_next \/ list_iterator_stop

Spec == Init /\ [][Next]_listVars

(***************************************************************************)
(* Properties.                                                             *)
(***************************************************************************)
\* list_repOk(), which the source asserts after every change: the links of
\* neighbours agree, the list ends after numels elements, mid is the element in
\* its middle and an empty list has none.
RepOk ==
  /\ l.prev[head_sentinel] = NULL /\ l.next[tail_sentinel] = NULL
  /\ Len(l.spareels) <= SIMCLIST_MAX_SPARE_ELEMS
  /\ \A k \in 0..l.numels :
       LET c == Walk(l.next, head_sentinel, k)
       IN Follow(l.prev, Follow(l.next, c)) = c
  /\ Walk(l.next, head_sentinel, l.numels + 1) = tail_sentinel
  /\ l.mid = IF l.numels = 0 THEN NULL
             ELSE Walk(l.next, head_sentinel, (l.numels - 1) \div 2 + 1)

\* Every element that was allocated is either in the list or spare, and only one
\* of them: none is lost, none is handed out while it is in use, none freed twice.
MemoryAccounted ==
  /\ l.allocated = Range(Linked(l)) \cup Range(l.spareels)
  /\ Cardinality(l.allocated) = l.numels + Len(l.spareels)

\* Whichever of its four ways list_findpos() takes, it gets to the element that
\* walking from the head leads to, sentinels included; and list_get_minmax()
\* returns a datum no other exceeds.
ReadsRight ==
  /\ \A pos \in -1..l.numels : list_findpos(l, pos) = Walk(l.next, head_sentinel, pos + 1)
  /\ l.numels > 0 => \A versus \in {-1, 1} :
       /\ list_get_minmax(l, versus) \in Range(Items(l))
       /\ \A d \in Range(Items(l)) : ~After(d, list_get_minmax(l, versus), versus)

\* Whatever happens to the links, the user sees a sequence: see SimcSequence.
Sequence == INSTANCE SimcSequence WITH
  items <- Items(l), iterating <- l.iter_active, passed <- returned

ImplementsSequence == Sequence!Spec
=============================================================================
