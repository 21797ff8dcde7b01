------------------------------- MODULE SimcSort -------------------------------
(***************************************************************************)
(* list_sort() of simclist.c: a quicksort with a random pivot that falls    *)
(* back to a selection sort for short stretches.  It swaps the data of      *)
(* elements and never their links, so it works here on the sequence of the  *)
(* data, and a pointer to an element is its position.                      *)
(***************************************************************************)
EXTENDS Integers, SequencesExt, FiniteSetsExt

CONSTANT SIMCLIST_MINQUICKSORTELS   \* the longest stretch sorted by selection

ASSUME MinQuickAssumption == SIMCLIST_MINQUICKSORTELS \in Nat

\* comparator(x, y) * -versus > 0: x must come after y.  versus is 1 for small
\* to big and -1 for big to small.
After(x, y, versus) == (x - y) * versus > 0

Swap(a, i, j) == [a EXCEPT ![i] = a[j], ![j] = a[i]]

\* The first element of i..last that none of the others comes before.
Extreme(a, i, last, versus) ==
  Min({k \in i..last : \A j \in i..last : ~After(a[k], a[j], versus)})

\* list_sort_selectionsort(): after k turns the first k places have what they keep.
SelectionSort(a, first, last, versus) ==
  LET turn[k \in 0..(last - first)] ==
        IF k = 0 THEN a
        ELSE Swap(turn[k - 1], first + k - 1,
                  Extreme(turn[k - 1], first + k - 1, last, versus))
  IN turn[last - first]

(***************************************************************************)
(* The three loops that part a stretch around its pivot, each as many turns *)
(* as there are elements on its way; a loop that has ended stays as it is.  *)
(***************************************************************************)
\* Both iterators run towards the pivot, until one of them has reached it, and
\* what they stop at is on the wrong side and swapped.
MeetTurn(m, pivot, versus) ==
  LET left  == Min({i \in m.left..pivot : i = pivot \/ After(m.a[i], m.a[pivot], versus)})
      right == Max({i \in pivot..m.right : i = pivot \/ After(m.a[pivot], m.a[i], versus)})
  IN CASE m.left = pivot \/ m.right = pivot -> m
       [] m.left # pivot /\ m.right # pivot /\ (left = pivot \/ right = pivot) ->
            [m EXCEPT !.left = left, !.right = right]
       [] OTHER -> [a |-> Swap(m.a, left, right), left |-> left + 1, right |-> right - 1]

Meet(a, left, right, pivot, versus) ==
  LET turn[k \in 0..(right - left)] ==
        IF k = 0 THEN [a |-> a, left |-> left, right |-> right]
        ELSE MeetTurn(turn[k - 1], pivot, versus)
  IN turn[right - left]

\* The pivot moves one place towards the iterator and past the element there,
\* which goes behind it; what was in its new place goes to the iterator's.
Past(a, at, near, pivot) ==
  [a EXCEPT ![at] = a[near], ![near] = a[pivot], ![pivot] = a[at]]

\* What must follow the pivot is moved behind it.
EmptyLeftTurn(m, versus) ==
  CASE m.left = m.pivot -> m
    [] m.left # m.pivot /\ After(m.a[m.left], m.a[m.pivot], versus) ->
         [m EXCEPT !.a = Past(m.a, m.left, m.pivot - 1, m.pivot), !.pivot = m.pivot - 1]
    [] OTHER -> [m EXCEPT !.left = m.left + 1]

EmptyLeft(a, left, pivot, versus) ==
  LET turn[k \in 0..(pivot - left)] ==
        IF k = 0 THEN [a |-> a, left |-> left, pivot |-> pivot]
        ELSE EmptyLeftTurn(turn[k - 1], versus)
  IN turn[pivot - left]

\* What must come before the pivot is moved there.
EmptyRightTurn(m, versus) ==
  CASE m.right = m.pivot -> m
    [] m.right # m.pivot /\ After(m.a[m.pivot], m.a[m.right], versus) ->
         [m EXCEPT !.a = Past(m.a, m.right, m.pivot + 1, m.pivot), !.pivot = m.pivot + 1]
    [] OTHER -> [m EXCEPT !.right = m.right - 1]

EmptyRight(a, right, pivot, versus) ==
  LET turn[k \in 0..(right - pivot)] ==
        IF k = 0 THEN [a |-> a, right |-> right, pivot |-> pivot]
        ELSE EmptyRightTurn(turn[k - 1], versus)
  IN turn[right - pivot]

Parted(a, first, last, pivot, versus) ==
  LET m == Meet(a, first, last, pivot, versus)
      p == IF m.right = pivot THEN EmptyLeft(m.a, m.left, pivot, versus)
           ELSE EmptyRight(m.a, m.right, pivot, versus)
  IN [a |-> p.a, pivot |-> p.pivot]

\* list_sort_quicksort() for one stretch: sorts gives the results for shorter ones.
QuickSortOne(a, first, last, versus, sorts) ==
  CASE last <= first -> {a}
    [] last > first /\ last - first + 1 <= SIMCLIST_MINQUICKSORTELS ->
         {SelectionSort(a, first, last, versus)}
    [] OTHER ->
         UNION {UNION {sorts[<<b, p.pivot + 1, last>>] : b \in sorts[<<p.a, first, p.pivot - 1>>]}
                  : p \in {Parted(a, first, last, pivot, versus) : pivot \in first..last}}

\* Every result some choice of pivots leads to; sorts[n] is for stretches of up
\* to n elements: an array, the first and the last place.
QuickSorts(a, first, last, versus) ==
  LET stretches == [DOMAIN a -> Range(a)] \X (first..(last + 1)) \X ((first - 1)..last)
      sorts[n \in 0..(last - first + 1)] ==
        IF n = 0 THEN [x \in stretches |-> {x[1]}]
        ELSE [x \in stretches |-> QuickSortOne(x[1], x[2], x[3], versus, sorts[n - 1])]
  IN sorts[last - first + 1][<<a, first, last>>]
=============================================================================
