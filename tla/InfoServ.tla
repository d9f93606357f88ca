------------------------------- MODULE InfoServ -------------------------------
(***************************************************************************)
(* Network announcements (mod-infoserv.c): numbered posts in a table, and  *)
(* the counter that numbers them, which is not saved but found again from  *)
(* the posts.                                                              *)
(***************************************************************************)
EXTENDS Naturals, SequencesExt

CONSTANTS MAX_POSTS,
          MaxId        \* bound on the numbers given, below ten

VARIABLES posts,       \* the table: [id, oper]
          next_id,
          saved        \* the posts in the database, a set

vars == <<posts, next_id, saved>>

Init == posts = <<>> /\ saved = {} /\ next_id = 1

Post(oper) ==
    /\ Len(posts) < MAX_POSTS /\ next_id <= MaxId
    /\ posts' = Append(posts, [id |-> next_id, oper |-> oper])
    /\ next_id' = next_id + 1
    /\ UNCHANGED saved

cmd_ipost == Post(FALSE)
cmd_ioperpost == Post(TRUE)

(* The first post with the number leaves and the ones behind it move up. *)
cmd_idel(id) ==
    /\ \E i \in DOMAIN posts : posts[i].id = id
    /\ posts' = RemoveAt(posts, SelectInSeq(posts, LAMBDA p : p.id = id))
    /\ UNCHANGED <<next_id, saved>>

infoserv_saxdb_write ==
    /\ saved' = ToSet(posts)
    /\ UNCHANGED <<posts, next_id>>

(* As a mutant: a post with the counter's number does not move it. *)
RaisedPast(id, next) == IF id > next THEN id + 1 ELSE next

Raised(id, next) == IF id >= next THEN id + 1 ELSE next

(* A start: the posts come in the order of their keys, the numbers as text. *)
infoserv_saxdb_read ==
    LET read == SetToSortSeq(saved, LAMBDA p, q : p.id < q.id)
        next[i \in 0..Len(read)] == IF i = 0 THEN 1 ELSE Raised(read[i].id, next[i - 1])
    IN /\ posts' = read
       /\ next_id' = next[Len(read)]
       /\ UNCHANGED saved

Next ==
    \/ cmd_ipost \/ cmd_ioperpost
    \/ \E id \in 1..MaxId : cmd_idel(id)
    \/ infoserv_saxdb_write
    \/ infoserv_saxdb_read

Spec == Init /\ [][Next]_vars

(***************************************************************************)
(* No two announcements have one number, and the next number is above all  *)
(* of them, through deletions and restarts: DEL by number can only mean    *)
(* one post.  (A number that only a lost post had is given again.)         *)
(***************************************************************************)
NumbersDistinct ==
    /\ \A i, j \in DOMAIN posts : posts[i].id = posts[j].id => i = j
    /\ \A i \in DOMAIN posts : posts[i].id < next_id
=============================================================================
