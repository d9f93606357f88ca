-------------------------------- MODULE Heap --------------------------------
(***************************************************************************)
(* The binary heap of src/src/heap.c, which holds the timer queue and the  *)
(* expiry queues of G-lines and shuns.  The array is a sequence of entries *)
(* (index 0 of the code is 1 here); the comparator returns an int, so the  *)
(* difference of two keys is cut to Width bits.  That the array grows by   *)
(* realloc is left out.                                                    *)
(***************************************************************************)
EXTENDS Integers, Sequences, TLC

CONSTANTS
    Keys,       \* the keys: times
    Data,       \* what is queued under a key
    Width,      \* bits of an int
    NONE

ASSUME HeapAssumption == Keys \subseteq Nat /\ Width \in Nat \ {0}

VARIABLES
    heap,       \* heap->data[0 .. data_used - 1]
    removedTop  \* what heap_remove_pred returned last

vars == <<heap, removedTop>>

Entries == [key : Keys, data : Data]

\* ulong_comparator, gline_comparator and shun_comparator: the difference of two
\* longs returned as an int.
Comparator(a, b) ==
    LET d == (a - b) % (2 ^ Width)
    IN  IF d >= 2 ^ (Width - 1) THEN d - 2 ^ Width ELSE d

Parent(i) == i \div 2
Swap(h, i, j) == [h EXCEPT ![i] = h[j], ![j] = h[i]]

\* Mutant: the entry is compared with its left neighbour.
RECURSIVE heapify_up_wrong_parent(_, _)
heapify_up_wrong_parent(h, i) ==
    IF i = 1 \/ Comparator(h[i].key, h[i - 1].key) > 0 THEN h
    ELSE heapify_up_wrong_parent(Swap(h, i, i - 1), i - 1)

\* heap_heapify_up: an entry moves up past every parent that is not smaller.
RECURSIVE heap_heapify_up(_, _)
heap_heapify_up(h, i) ==
    IF i = 1 \/ Comparator(h[i].key, h[Parent(i)].key) > 0 THEN h
    ELSE heap_heapify_up(Swap(h, i, Parent(i)), Parent(i))

\* heap_heapify_down: an entry moves down past the smaller child, the left one on a tie.
RECURSIVE heap_heapify_down(_, _)
heap_heapify_down(h, i) ==
    LET left  == 2 * i
        child == IF left + 1 <= Len(h) /\ Comparator(h[left + 1].key, h[left].key) < 0
                 THEN left + 1 ELSE left
    IN  IF left > Len(h) \/ Comparator(h[i].key, h[child].key) <= 0 THEN h
        ELSE heap_heapify_down(Swap(h, i, child), child)

\* Mutant: the last entry takes the place of the removed one and only sinks.
heap_remove_down_only(h, i) ==
    LET n == Len(h) - 1
        s == SubSeq([h EXCEPT ![i] = h[Len(h)]], 1, n)
    IN  IF n >= 2 * i THEN heap_heapify_down(s, i) ELSE s

\* heap_remove: the last entry takes the place of the removed one, sinks, and then
\* whatever is at that place rises.
heap_remove(h, i) ==
    LET n == Len(h) - 1
        s == SubSeq([h EXCEPT ![i] = h[Len(h)]], 1, n)
        t == IF n >= 2 * i THEN heap_heapify_down(s, i) ELSE s
    IN  IF i > 1 /\ i <= n THEN heap_heapify_up(t, i) ELSE t

\* Mutant: the scan goes on behind the removed entry instead of starting over.
RECURSIVE remove_from_no_restart(_, _, _)
remove_from_no_restart(h, S, i) ==
    IF i > Len(h) THEN h
    ELSE IF h[i] \in S THEN remove_from_no_restart(heap_remove(h, i), S, i + 1)
    ELSE remove_from_no_restart(h, S, i + 1)

\* The loop of heap_remove_pred: each removal starts the scan over.
RECURSIVE RemoveFrom(_, _, _)
RemoveFrom(h, S, i) ==
    IF i > Len(h) THEN h
    ELSE IF h[i] \in S THEN RemoveFrom(heap_remove(h, i), S, 1)
    ELSE RemoveFrom(h, S, i + 1)

-----------------------------------------------------------------------------
Init == heap = <<>> /\ removedTop = FALSE

heap_insert(e) ==
    /\ \A i \in 1..Len(heap) : heap[i].data # e.data
    /\ heap' = heap_heapify_up(Append(heap, e), Len(heap) + 1)
    /\ UNCHANGED removedTop

heap_pop ==
    /\ heap # <<>>
    /\ heap' = heap_remove(heap, 1)
    /\ UNCHANGED removedTop

\* S: the entries the predicate holds of.
heap_remove_pred(S) ==
    /\ heap' = RemoveFrom(heap, S, 1)
    /\ removedTop' = (heap # <<>> /\ heap[1] \in S)

Held == {heap[i] : i \in 1..Len(heap)}

Next == heap_pop \/ (\E e \in Entries : heap_insert(e)) \/ (\E S \in SUBSET Held : heap_remove_pred(S))

Spec == Init /\ [][Next]_vars

-----------------------------------------------------------------------------
\* No entry is smaller than its parent, "preserving the heap ordering" (heap.c:135):
\* the array is a heap after every mix of insertions and removals in its middle.
HeapOrdered == \A i \in 2..Len(heap) : heap[Parent(i)].key <= heap[i].key

\* heap.c does what heap.h promises: entries are neither lost nor duplicated, and peek
\* shows one with the least key after any mix of operations.
PQ == INSTANCE PriorityQueue WITH queued <- Held, first <- IF heap = <<>> THEN NONE ELSE heap[1]
Implements == PQ!Spec

\* heap_remove_pred removes exactly the entries its predicate holds of, though each
\* removal moves others around under the scan, and it reports every removal after which
\* the earliest key may have changed: gline_remove re-arms its timer on nothing else
\* (heap.c:165, gline.c:115).
RemovePredExact ==
    [][\A S \in SUBSET Held : heap_remove_pred(S) =>
          /\ Held' = Held \ S
          /\ heap # <<>> /\ ~removedTop' => heap' # <<>> /\ heap'[1].key = heap[1].key]_vars

-----------------------------------------------------------------------------
\* For model checking: what is queued is told apart and nothing more.
Symmetry == Permutations(Data)
=============================================================================
