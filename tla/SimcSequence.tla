----------------------------- MODULE SimcSequence -----------------------------
(***************************************************************************)
(* What simclist.h promises the user of one list: a sequence of elements    *)
(* that can be changed only while nobody iterates over it, and an iteration *)
(* that passes over every element once, in order.                          *)
(***************************************************************************)
EXTENDS Integers, Sequences, SequencesExt, FiniteSets

CONSTANT Data

VARIABLES items,       \* the elements
          iterating,   \* whether an iteration runs
          passed       \* the elements it has returned

vars == <<items, iterating, passed>>

Init == items = <<>> /\ iterating = FALSE /\ passed = <<>>

(***************************************************************************)
(* What a change makes of the elements.                                    *)
(***************************************************************************)
\* list_insert_at(), list_append(), list_prepend()
Insertions(s) == {InsertAt(s, i, d) : i \in 1..(Len(s) + 1), d \in Data}

\* list_delete(), list_delete_at(), list_extract_at(), list_delete_range(), list_clear()
Deletions(s) == UNION {{SubSeq(s, 1, i - 1) \o SubSeq(s, j + 1, Len(s)) : j \in i..Len(s)}
                         : i \in 1..Len(s)}

Copies(s, d) == Cardinality({i \in DOMAIN s : s[i] = d})

\* list_sort(), from small to big or from big to small
IsSorting(t, s) == /\ Len(t) = Len(s)
                   /\ \A d \in Data : Copies(t, d) = Copies(s, d)
                   /\ \/ \A i, j \in DOMAIN t : i < j => t[i] <= t[j]
                      \/ \A i, j \in DOMAIN t : i < j => t[i] >= t[j]

(***************************************************************************)
(* Nothing changes the list while somebody iterates over it.               *)
(***************************************************************************)
Insert == ~iterating /\ items' \in Insertions(items) /\ UNCHANGED <<iterating, passed>>

Delete == ~iterating /\ items' \in Deletions(items) /\ UNCHANGED <<iterating, passed>>

Sort == ~iterating /\ IsSorting(items', items) /\ UNCHANGED <<iterating, passed>>

\* list_concat(), with another list before or behind: the user goes on with the
\* result, over which nobody iterates yet.
Concat == /\ IsPrefix(items, items') \/ IsSuffix(items, items')
          /\ iterating' = FALSE /\ passed' = <<>>

\* list_iterator_start(), list_iterator_next(), list_iterator_stop()
Start == ~iterating /\ iterating' = TRUE /\ UNCHANGED <<items, passed>>

Take == /\ iterating /\ UNCHANGED <<items, iterating>>
        /\ Len(passed) < Len(items)
        /\ passed' = Append(passed, items[Len(passed) + 1])

Stop == iterating /\ iterating' = FALSE /\ passed' = <<>> /\ UNCHANGED items

Next == Insert \/ Delete \/ Sort \/ Concat \/ Start \/ Take \/ Stop

Spec == Init /\ [][Next]_vars
=============================================================================
