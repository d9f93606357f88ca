------------------------------ MODULE SplayDict ------------------------------
(***************************************************************************)
(* The dictionary of dict-splay.c, on which every table of the services is *)
(* built: a splay tree for searching, threaded by a doubly linked list for *)
(* the iterators.  A node is named by its key, and a key by its rank in    *)
(* the order of irccasecmp, so two spellings that differ in case are one   *)
(* key.  NULL is 0; the header node N of dict_splay is MaxKey + 1.         *)
(***************************************************************************)
EXTENDS Naturals, Sequences

CONSTANT MaxKey

Keys == 1..MaxKey
NULL == 0
N == MaxKey + 1

VARIABLES tree,         \* the children of every node: fields l and r
          root, first, last, count,
          links,        \* the list: fields prev and next
          contents      \* history: the keys inserted and not removed

vars == <<tree, root, first, last, count, links, contents>>

Init ==
    /\ tree = [l |-> [n \in 1..N |-> NULL], r |-> [n \in 1..N |-> NULL]]
    /\ links = [prev |-> [k \in Keys |-> NULL], next |-> [k \in Keys |-> NULL]]
    /\ root = NULL /\ first = NULL /\ last = NULL
    /\ count = 0
    /\ contents = {}

(***************************************************************************)
(* dict_splay.  lt and rt are the ends of the left and the right tree that *)
(* the descent builds below the header: every node passed on the way is    *)
(* hung on one of them, and at the end they become the children of the     *)
(* node the search stopped at.                                             *)
(***************************************************************************)
Assembled(t, node, lt, rt) ==
    LET a == [t EXCEPT !.r[lt] = t.l[node]]
        b == [a EXCEPT !.l[rt] = a.r[node]]
    IN [tree |-> [b EXCEPT !.l[node] = b.r[N], !.r[node] = b.l[N]], root |-> node]

RECURSIVE Descend(_, _, _, _, _)
Descend(t, node, key, lt, rt) ==
    LET left == t.l[node]
        right == t.r[node]
        zigzig == IF key < node THEN key < left ELSE key > right
        top == IF ~zigzig THEN node ELSE IF key < node THEN left ELSE right
        u == IF ~zigzig THEN t
             ELSE IF key < node THEN [t EXCEPT !.l[node] = t.r[left], !.r[left] = node]
             ELSE [t EXCEPT !.r[node] = t.l[right], !.l[right] = node]
        below == IF key < node THEN u.l[top] ELSE u.r[top]
    IN IF key = node \/ (IF key < node THEN left ELSE right) = NULL THEN Assembled(t, node, lt, rt)
       ELSE IF below = NULL THEN Assembled(u, top, lt, rt)
       ELSE IF key < node THEN Descend([u EXCEPT !.l[rt] = top], below, key, lt, top)
       ELSE Descend([u EXCEPT !.r[lt] = top], below, key, top, rt)

dict_splay(t, node, key) ==
    IF node = NULL THEN [tree |-> t, root |-> NULL]
    ELSE Descend([t EXCEPT !.l[N] = NULL, !.r[N] = NULL], node, key, N, N)

(* The header is a local variable: what it held is gone when dict_splay returns. *)
Local(t) == [t EXCEPT !.l[N] = NULL, !.r[N] = NULL]

Set(f, n, v) == IF n = NULL THEN f ELSE [f EXCEPT ![n] = v]

dict_insert(key) ==
    LET s == dict_splay(tree, root, key)
        top == s.root
        before == links.prev[top]
        after == links.next[top]
    IN /\ contents' = contents \union {key}
       /\ root' = key
       /\ IF root = NULL
          THEN /\ tree' = [tree EXCEPT !.l[key] = NULL, !.r[key] = NULL]
               /\ links' = [links EXCEPT !.prev[key] = NULL, !.next[key] = NULL]
               /\ first' = key /\ last' = key
               /\ count' = count + 1
          ELSE IF key < top
          THEN /\ tree' = Local([s.tree EXCEPT !.l[key] = s.tree.l[top], !.r[key] = top, !.l[top] = NULL])
               /\ links' = [prev |-> [links.prev EXCEPT ![key] = before, ![top] = key],
                            next |-> [Set(links.next, before, key) EXCEPT ![key] = top]]
               /\ first' = IF before = NULL THEN key ELSE first
               /\ count' = count + 1
               /\ UNCHANGED last
          ELSE IF key > top
          THEN /\ tree' = Local([s.tree EXCEPT !.r[key] = s.tree.r[top], !.l[key] = top, !.r[top] = NULL])
               /\ links' = [prev |-> [Set(links.prev, after, key) EXCEPT ![key] = top],
                            next |-> [links.next EXCEPT ![key] = after, ![top] = key]]
               /\ last' = IF after = NULL THEN key ELSE last
               /\ count' = count + 1
               /\ UNCHANGED first
          ELSE /\ tree' = Local(s.tree)      \* the entry is overwritten in its node
               /\ UNCHANGED <<links, first, last, count>>

(* As a mutant: the right subtree is dropped when there is a left one. *)
RightLost(s, key) ==
    IF s.tree.l[key] = NULL THEN [tree |-> s.tree, root |-> s.tree.r[key]]
    ELSE dict_splay(s.tree, s.tree.l[key], key)

(* The tree without its root: the largest of the left subtree takes the right one. *)
Beheaded(s, key) ==
    LET t == dict_splay(s.tree, s.tree.l[key], key)
    IN IF s.tree.l[key] = NULL THEN [tree |-> s.tree, root |-> s.tree.r[key]]
       ELSE [tree |-> [t.tree EXCEPT !.r[t.root] = s.tree.r[key]], root |-> t.root]

dict_remove2(key) ==
    LET s == dict_splay(tree, root, key)
        b == Beheaded(s, key)
        before == links.prev[key]
        after == links.next[key]
    IN /\ root # NULL
       /\ contents' = contents \ {key}
       /\ IF s.root # key
          THEN /\ tree' = Local(s.tree) /\ root' = s.root
               /\ UNCHANGED <<links, first, last, count>>
          ELSE /\ tree' = Local([b.tree EXCEPT !.l[key] = NULL, !.r[key] = NULL])
               /\ root' = b.root
               /\ links' = [prev |-> [Set(links.prev, after, before) EXCEPT ![key] = NULL],
                            next |-> [Set(links.next, before, after) EXCEPT ![key] = NULL]]
               /\ first' = IF first = key THEN after ELSE first
               /\ last' = IF last = key THEN before ELSE last
               /\ count' = count - 1

(* A search changes the tree too. *)
dict_find(key) ==
    LET s == dict_splay(tree, root, key)
    IN /\ root # NULL
       /\ tree' = Local(s.tree) /\ root' = s.root
       /\ UNCHANGED <<first, last, count, links, contents>>

Next == \E k \in Keys : dict_insert(k) \/ dict_remove2(k) \/ dict_find(k)

Spec == Init /\ [][Next]_vars

RECURSIVE Inorder(_), NodesBelow(_, _), Forward(_, _)
Inorder(n) == IF n = NULL THEN <<>> ELSE Inorder(tree.l[n]) \o <<n>> \o Inorder(tree.r[n])
NodesBelow(n, depth) ==
    IF n = NULL \/ depth = 0 THEN IF n = NULL THEN 0 ELSE N
    ELSE 1 + NodesBelow(tree.l[n], depth - 1) + NodesBelow(tree.r[n], depth - 1)
Forward(n, limit) == IF n = NULL \/ limit = 0 THEN <<>> ELSE <<n>> \o Forward(links.next[n], limit - 1)

(***************************************************************************)
(* What dict-splay.c promises its callers: the tree is a tree over exactly *)
(* the keys inserted and not removed, in order, so a search that stops     *)
(* elsewhere means the key is not there; the iterators visit the same      *)
(* nodes in the same order and can be walked backwards; dict_size tells    *)
(* how many there are.                                                     *)
(***************************************************************************)
DictSound ==
    /\ NodesBelow(root, N) <= MaxKey          \* no cycle
    /\ LET s == Inorder(root)
       IN /\ {s[i] : i \in 1..Len(s)} = contents
          /\ \A i \in 1..Len(s) - 1 : s[i] < s[i + 1]
          /\ Forward(first, N) = s
          /\ \A i \in 1..Len(s) : links.prev[s[i]] = IF i = 1 THEN NULL ELSE s[i - 1]
          /\ last = IF s = <<>> THEN NULL ELSE s[Len(s)]
          /\ count = Len(s)
=============================================================================
