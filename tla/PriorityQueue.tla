--------------------------- MODULE PriorityQueue ---------------------------
(***************************************************************************)
(* What heap.h promises: a set of entries of which peek shows one with the *)
(* least key.  timeq.c, gline.c and shun.c rely on nothing else.           *)
(***************************************************************************)
EXTENDS Naturals

CONSTANTS
    Entries,    \* pairs [key, data] that may be queued
    NONE        \* what peek shows of an empty queue

VARIABLES
    queued,     \* the entries in the queue
    first       \* the one peek shows

\* peek of the entries S.
Least(S) == IF S = {} THEN {NONE} ELSE {e \in S : \A f \in S : e.key <= f.key}

Init == queued = {} /\ first = NONE

Insert(e) ==
    /\ e \notin queued
    /\ queued' = queued \union {e}
    /\ first' \in Least(queued')

Pop ==
    /\ first # NONE
    /\ queued' = queued \ {first}
    /\ first' \in Least(queued')

RemovePred(S) ==
    /\ queued' = queued \ S
    /\ first' \in Least(queued')

Next == Pop \/ (\E e \in Entries : Insert(e)) \/ (\E S \in SUBSET Entries : RemovePred(S))

Spec == Init /\ [][Next]_<<queued, first>>
=============================================================================
