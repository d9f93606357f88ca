------------------------------- MODULE Gline -------------------------------
(***************************************************************************)
(* The G-line list of src/src/gline.c, its expiry timer in src/src/timeq.c *)
(* and the event loop of src/src/ioset.c that runs the timer.              *)
(*                                                                         *)
(* A G-line is kept twice: in gline_dict (by target) and in gline_heap (by *)
(* expiry).  One gline_expire entry of the timer queue must fire no later  *)
(* than the earliest expiry; three functions re-arm it, each in its own    *)
(* way.  The heap is abstracted to the set of entries it holds: heap_peek  *)
(* returns one with the least expiry (module Heap checks that it does, for *)
(* keys whose difference fits in an int).                                  *)
(* An expiry is an absolute time: the callers compute `duration' from what *)
(* the network sent, and now + duration may lie in the past.               *)
(***************************************************************************)
EXTENDS Naturals, WellFoundedInduction, TLAPS

CONSTANTS
    Targets,    \* the masks a G-line may be set on
    Times       \* the values time_t takes: the clock and the expiry times

ASSUME TimesAssumption == Times \subseteq Nat

VARIABLES
    now,            \* the global clock, set when the poll returns
    gline_dict,     \* targets with an entry in gline_dict
    gline_heap,     \* targets whose entry is in gline_heap
    expires,        \* ent->expires of the entries
    timers,         \* times of the gline_expire entries of the timer queue
    phase,          \* where the event loop is
    saved,          \* targets in the database file
    savedExpires,   \* their KEY_EXPIRES
    toLoad          \* records gline_saxdb_read has still to visit

vars == <<now, gline_dict, gline_heap, expires, timers, phase, saved, savedExpires, toLoad>>

list == <<gline_dict, gline_heap, expires, timers>>
disk == <<saved, savedExpires>>

Phases == {"load", "events", "timers", "ran", "interrupted"}

\* The state of the list, of the loop and of the file is well formed (gline.c:46).
TypeOK ==
    /\ now \in Times
    /\ gline_dict \subseteq Targets
    /\ gline_heap \subseteq Targets
    /\ expires \in [Targets -> Times]
    /\ timers \subseteq Times
    /\ phase \in Phases
    /\ saved \subseteq Targets
    /\ savedExpires \in [Targets -> Times]
    /\ toLoad \subseteq Targets

Init ==
    /\ now \in Times
    /\ gline_dict = {} /\ gline_heap = {} /\ timers = {}
    /\ saved = {} /\ toLoad = {}
    /\ expires \in [Targets -> {now}] /\ savedExpires = expires
    /\ phase = "load"

-----------------------------------------------------------------------------
\* heap_peek on the entries h: t has the least expiry (any of them, on a tie).
IsFirst(t, h) == t \in h /\ \A s \in h : expires[t] <= expires[s]

\* What re-arming for the first entry of h leaves in the timer queue.
ArmedFor(h) == {expires[t] : t \in {f \in h : IsFirst(f, h)}}

-----------------------------------------------------------------------------
\* Mutant: an existing entry takes the new expiry even when that is earlier.
AddOverwriting(t, e) ==
    /\ gline_dict' = gline_dict \union {t}
    /\ gline_heap' = gline_heap \union {t}
    /\ expires' = [expires EXCEPT ![t] = e]
    /\ timers' = IF \A f \in gline_heap : IsFirst(f, gline_heap) => e < expires'[f]
                 THEN {e} ELSE timers

\* Mutant: the timer is armed for the first entry only.
AddArmingOnce(t, e) ==
    LET ends == IF t \in gline_dict /\ expires[t] >= e THEN expires[t] ELSE e
    IN  /\ gline_dict' = gline_dict \union {t}
        /\ gline_heap' = gline_heap \union {t}
        /\ expires' = [expires EXCEPT ![t] = ends]
        /\ timers' = IF gline_heap = {} THEN {ends} ELSE timers

\* gline_add for target t and now + duration = e.  An entry that exists keeps the
\* later of the two expiries.  prev_first is read before the update and compared
\* after it, when it may be the updated entry itself.
Add(t, e) ==
    LET ends == IF t \in gline_dict /\ expires[t] >= e THEN expires[t] ELSE e
    IN  /\ gline_dict' = gline_dict \union {t}
        /\ gline_heap' = gline_heap \union {t}
        /\ expires' = [expires EXCEPT ![t] = ends]
        /\ timers' = IF \A f \in gline_heap : IsFirst(f, gline_heap) => ends < expires'[f]
                     THEN {ends} ELSE timers

\* Requests (commands, messages of the network) are handled while the poll's
\* events are dispatched, and by the callbacks of other modules' timers.
gline_add(t, e) ==
    /\ phase \in {"events", "timers"}
    /\ Add(t, e)
    /\ UNCHANGED <<now, phase, disk, toLoad>>

\* gline_remove: delete_gline_for_p frees the entry from the dictionary as
\* heap_remove_pred drops it from the heap; the timer moves only when the top of
\* the heap went and something is left.
gline_remove(t) ==
    /\ phase \in {"events", "timers"}
    /\ gline_heap' = gline_heap \ {t}
    /\ gline_dict' = gline_dict \ (gline_heap \intersect {t})
    /\ \/ /\ IsFirst(t, gline_heap) /\ gline_heap' # {}
          /\ timers' = ArmedFor(gline_heap')
       \/ /\ \/ gline_heap' = {}
             \/ \E f \in gline_heap : IsFirst(f, gline_heap) /\ f # t
          /\ timers' = timers
    /\ UNCHANGED <<now, expires, phase, disk, toLoad>>

-----------------------------------------------------------------------------
\* Mutant: the callback forgets to re-arm itself for what is left.
gline_expire_no_rearm(w) ==
    LET left == {t \in gline_heap : expires[t] > now}
    IN  /\ gline_heap' = left
        /\ gline_dict' = gline_dict \ (gline_heap \ left)
        /\ timers' = timers \ {w}
        /\ UNCHANGED expires

\* gline_expire, popped at time w: every entry whose expiry has passed goes, and
\* the timer is set again for the first one left.
gline_expire(w) ==
    LET left == {t \in gline_heap : expires[t] > now}
    IN  /\ gline_heap' = left
        /\ gline_dict' = gline_dict \ (gline_heap \ left)
        /\ timers' = (timers \ {w}) \union ArmedFor(left)
        /\ UNCHANGED expires

\* timeq_run: pop and call the earliest entry, while it is due.
RunTimer ==
    /\ phase = "timers"
    /\ \E w \in timers :
          /\ w <= now
          /\ \A v \in timers : w <= v
          /\ gline_expire(w)
    /\ UNCHANGED <<now, phase, disk, toLoad>>

\* Mutant: an entry that is due exactly now is left for the next round.
TimersDoneEarly ==
    /\ phase = "timers"
    /\ \A w \in timers : w >= now
    /\ phase' = "ran"
    /\ UNCHANGED <<now, list, disk, toLoad>>

\* timeq_run returns when nothing in the queue is due.
TimersDone ==
    /\ phase = "timers"
    /\ \A w \in timers : w > now
    /\ phase' = "ran"
    /\ UNCHANGED <<now, list, disk, toLoad>>

-----------------------------------------------------------------------------
\* engine->loop: the poll returns and the clock is read; the clock of the host
\* may have moved either way.
Poll(n) ==
    /\ phase \in {"ran", "interrupted"}
    /\ now' = n
    /\ phase' = "events"
    /\ UNCHANGED <<list, disk, toLoad>>

\* engine->loop fails (a signal): the clock is read and the loop starts over
\* without running the timers.
PollInterrupted(n) ==
    /\ phase \in {"ran", "interrupted"}
    /\ now' = n
    /\ phase' = "interrupted"
    /\ UNCHANGED <<list, disk, toLoad>>

\* ioset_set_time: SETTIME and the burst of a server move the clock.
ioset_set_time(n) ==
    /\ phase = "events"
    /\ now' = n
    /\ UNCHANGED <<list, phase, disk, toLoad>>

EventsDone ==
    /\ phase = "events"
    /\ phase' = "timers"
    /\ UNCHANGED <<now, list, disk, toLoad>>

-----------------------------------------------------------------------------
\* gline_saxdb_write: heap_remove_pred walks the heap and writes each entry.
gline_saxdb_write ==
    /\ phase \in {"events", "timers", "ran"}
    /\ saved' = gline_heap
    /\ savedExpires' = [t \in Targets |-> IF t \in gline_heap THEN expires[t] ELSE savedExpires[t]]
    /\ UNCHANGED <<now, list, phase, toLoad>>

\* The process ends, with or without a last write, and a new one starts
\* (gline_init): the list is empty and the file is to be read.
Restart(n) ==
    /\ phase # "load"
    /\ now' = n
    /\ phase' = "load"
    /\ gline_dict' = {} /\ gline_heap' = {} /\ timers' = {}
    /\ toLoad' = saved
    /\ UNCHANGED <<expires, disk>>

\* gline_add_record: a record still in force is added, an expired one skipped.
gline_add_record(t) ==
    /\ phase = "load" /\ t \in toLoad
    /\ toLoad' = toLoad \ {t}
    /\ IF savedExpires[t] > now THEN Add(t, savedExpires[t]) ELSE UNCHANGED list
    /\ UNCHANGED <<now, phase, disk>>

LoadDone ==
    /\ phase = "load" /\ toLoad = {}
    /\ phase' = "ran"
    /\ UNCHANGED <<now, list, disk, toLoad>>

-----------------------------------------------------------------------------
Next ==
    \/ \E t \in Targets, e \in Times : gline_add(t, e)
    \/ \E t \in Targets : gline_remove(t) \/ gline_add_record(t)
    \/ RunTimer \/ TimersDone \/ EventsDone \/ LoadDone
    \/ \E n \in Times : Poll(n) \/ PollInterrupted(n) \/ ioset_set_time(n) \/ Restart(n)
    \/ gline_saxdb_write

Spec == Init /\ [][Next]_vars

\* The loop goes on: a poll that keeps failing is retried until it succeeds, the
\* events of a poll are finite, timeq_run keeps popping, and the file is read.
Fairness ==
    /\ WF_vars(\E n \in Times : Poll(n))
    /\ WF_vars(EventsDone)
    /\ WF_vars(RunTimer)
    /\ WF_vars(TimersDone)
    /\ WF_vars(\E t \in Targets : gline_add_record(t))
    /\ WF_vars(LoadDone)

LiveSpec == Spec /\ Fairness

-----------------------------------------------------------------------------
\* The two indexes of gline.c:46-47 hold the same entries.
HeapDictAgree == gline_heap = gline_dict

\* While there are entries, one gline_expire is queued for no later than the
\* earliest expiry, whatever mix of add, extend, remove and reload led here
\* (gline.c:92-161).
TimerArmed ==
    gline_heap # {} => \E w \in timers : \A t \in gline_heap : w <= expires[t]

\* The expiry callback is never queued twice: each re-arming first clears the old
\* entry (timeq_del) or runs after it was popped.
OneTimer == \A v, w \in timers : v = w

\* Whenever timeq_run or the database load has returned, no expired G-line is left
\* for gline_find to report, for any clock, also one that went backwards.
NoneExpiredAfterRun ==
    phase = "ran" => \A t \in gline_dict : expires[t] > now

\* The loader only adds entries that are in force (gline.c:266).
LoadedInForce == phase = "load" => \A t \in gline_dict : expires[t] > now

\* The bookkeeping of gline.c: both indexes agree and the single expiry timer
\* covers them.  Inductive: each handler relies on all of it.
Inv == TypeOK /\ HeapDictAgree /\ TimerArmed /\ OneTimer /\ LoadedInForce

\* Adding an existing G-line never brings its expiry forward (gline.c:142).
NeverShortened ==
    [][\A t \in Targets : t \in gline_dict /\ t \in gline_dict' => expires'[t] >= expires[t]]_vars

\* A G-line whose time has come is dropped.
ExpiredIsDropped ==
    \A t \in Targets :
        (t \in gline_dict /\ expires[t] <= now) ~> (t \notin gline_dict \/ expires[t] > now)

-----------------------------------------------------------------------------
(***************************************************************************)
(* Proofs.  The bookkeeping holds for every set of targets and every set   *)
(* of times: the expiry timer always covers the heap, so that no expired   *)
(* G-line survives a run of the timer queue, and an expiry is never        *)
(* brought forward.                                                        *)
(***************************************************************************)

\* < on Nat as a set of pairs, the form the library's least-element theorem needs.
LEMMA LessThanRelation ==
    \E R : IsWellFoundedOn(R, Nat) /\ \A x, y \in Nat : x < y => <<x, y>> \in R
  <1>1. \A x, y \in Nat : x < y => <<x, y>> \in OpToRel(<, Nat)
    BY DEF OpToRel
  <1> QED BY <1>1, NatLessThanWellFounded

\* A nonempty set of times has a least element: heap_peek always finds a top.
LEMMA LeastTime ==
    ASSUME NEW S \in SUBSET Nat, S # {}
    PROVE  \E x \in S : \A y \in S : x <= y
  <1>1. PICK R : IsWellFoundedOn(R, Nat) /\ \A x, y \in Nat : x < y => <<x, y>> \in R
    BY LessThanRelation
  <1>2. IsWellFoundedOn(R, Nat)
    BY <1>1
  <1>3. S \subseteq Nat
    OBVIOUS
  <1>4. \E x \in S : \A y \in S : ~ (<<y, x>> \in R)
    BY <1>2, <1>3, WFMin
  <1>5. PICK x \in S : \A y \in S : ~ (<<y, x>> \in R)
    BY <1>4
  <1>6. ASSUME NEW y \in S PROVE x <= y
    <2>1. ~ (y < x) BY <1>1, <1>5
    <2> QED BY <2>1
  <1> QED BY <1>6

\* Arming for the first entry of h sets exactly one timer when h has an entry,
\* no later than any expiry in h.
LEMMA ArmedForBounds ==
    ASSUME TypeOK, NEW h \in SUBSET Targets
    PROVE  /\ ArmedFor(h) \subseteq Times
           /\ \A w \in ArmedFor(h), t \in h : w <= expires[t]
           /\ \A v, w \in ArmedFor(h) : v = w
           /\ h # {} => ArmedFor(h) # {}
  <1>1. ArmedFor(h) \subseteq Times
    BY DEF ArmedFor, IsFirst, TypeOK
  <1>2. \A w \in ArmedFor(h), t \in h : w <= expires[t]
    BY DEF ArmedFor, IsFirst, TypeOK
  <1>3. ASSUME NEW v \in ArmedFor(h), NEW w \in ArmedFor(h) PROVE v = w
    <2>1. PICK a \in h : v = expires[a] /\ IsFirst(a, h)
      BY DEF ArmedFor, IsFirst
    <2>2. PICK b \in h : w = expires[b] /\ IsFirst(b, h)
      BY DEF ArmedFor, IsFirst
    <2>3. v <= w /\ w <= v
      BY <2>1, <2>2 DEF IsFirst
    <2>4. v \in Nat /\ w \in Nat
      BY <1>1, TimesAssumption
    <2> QED BY <2>3, <2>4
  <1>4. ASSUME h # {} PROVE ArmedFor(h) # {}
    <2> DEFINE E == {expires[t] : t \in h}
    <2>1. E \in SUBSET Nat /\ E # {}
      BY <1>4, TimesAssumption DEF TypeOK
    <2> HIDE DEF E
    <2>2. PICK x \in E : \A y \in E : x <= y
      BY <2>1, LeastTime
    <2>3. PICK t \in h : x = expires[t]
      BY DEF E
    <2>4. IsFirst(t, h)
      BY <2>2, <2>3 DEF E, IsFirst
    <2> QED BY <2>4 DEF ArmedFor, IsFirst
  <1> QED BY <1>1, <1>2, <1>3, <1>4

-----------------------------------------------------------------------------
\* The bookkeeping without the clause about the loader.
Core == TypeOK /\ HeapDictAgree /\ TimerArmed /\ OneTimer

\* gline_add keeps the bookkeeping and never brings an expiry forward.
LEMMA AddKeeps ==
    ASSUME Core, NEW t \in Targets, NEW e \in Times, Add(t, e)
    PROVE  /\ gline_dict' \subseteq Targets /\ expires' \in [Targets -> Times]
           /\ timers' \subseteq Times
           /\ HeapDictAgree' /\ TimerArmed' /\ OneTimer'
           /\ \A s \in gline_dict : expires'[s] >= expires[s]
           /\ \A s \in gline_dict' : s \in gline_dict \/ expires'[s] = e
  <1> DEFINE ends == IF t \in gline_dict /\ expires[t] >= e THEN expires[t] ELSE e
  <1> USE TimesAssumption
  <1>0. \A s \in Targets : expires[s] \in Nat
    BY DEF Core, TypeOK
  <1>1. ends \in Times /\ ends \in Nat
    BY DEF Core, TypeOK
  <1>2. /\ gline_dict' = gline_dict \union {t}
        /\ gline_heap' = gline_heap \union {t}
        /\ expires' = [expires EXCEPT ![t] = ends]
        /\ timers' = IF \A f \in gline_heap : IsFirst(f, gline_heap) => ends < expires'[f]
                     THEN {ends} ELSE timers
    BY DEF Add
  <1>3. t \in gline_dict => ends >= expires[t]
    <2>1. e \in Nat /\ expires[t] \in Nat
      BY <1>0
    <2> QED BY <2>1
  <1> HIDE DEF ends
  <1>4. gline_dict' \subseteq Targets /\ expires' \in [Targets -> Times] /\ timers' \subseteq Times
    BY <1>1, <1>2 DEF Core, TypeOK
  <1>5. HeapDictAgree' /\ OneTimer'
    BY <1>2 DEF Core, HeapDictAgree, OneTimer
  <1>6. \A s \in gline_dict : expires'[s] >= expires[s]
    <2> SUFFICES ASSUME NEW s \in gline_dict PROVE expires'[s] >= expires[s]
      OBVIOUS
    <2>1. s \in Targets /\ expires \in [Targets -> Times]
      BY DEF Core, TypeOK
    <2>2. CASE s = t
      BY <1>2, <1>3, <2>1, <2>2
    <2>3. CASE s # t
      BY <1>0, <1>2, <2>1, <2>3
    <2> QED BY <2>2, <2>3
  <1>7. \A s \in gline_dict' : s \in gline_dict \/ expires'[s] = e
    BY <1>2 DEF Core, TypeOK, ends
  <1>8. TimerArmed'
    <2>1. CASE \A f \in gline_heap : IsFirst(f, gline_heap) => ends < expires'[f]
      <3>1. timers' = {ends}
        BY <1>2, <2>1
      <3>2. ASSUME NEW s \in gline_heap' PROVE ends <= expires'[s]
        <4>1. CASE s = t
          BY <1>1, <1>2, <4>1 DEF Core, TypeOK
        <4>2. CASE s # t
          <5>1. s \in gline_heap /\ expires'[s] = expires[s] /\ expires[s] \in Nat
            BY <1>2, <4>2 DEF Core, TypeOK
          <5>2. PICK f \in gline_heap : IsFirst(f, gline_heap)
            <6>1. ArmedFor(gline_heap) # {}
              BY <5>1, ArmedForBounds DEF Core, TypeOK
            <6> QED BY <6>1 DEF ArmedFor
          <5>3. ends < expires'[f]
            BY <2>1, <5>2
          <5>4. f # t
            BY <1>1, <1>2, <5>3 DEF Core, TypeOK
          <5>5. expires'[f] = expires[f] /\ expires[f] \in Nat /\ expires[f] <= expires[s]
            BY <1>2, <5>1, <5>2, <5>4 DEF Core, TypeOK, IsFirst
          <5> QED BY <1>1, <5>1, <5>3, <5>5
        <4> QED BY <4>1, <4>2
      <3> QED BY <3>1, <3>2 DEF TimerArmed
    <2>2. CASE ~ \A f \in gline_heap : IsFirst(f, gline_heap) => ends < expires'[f]
      <3>1. timers' = timers
        BY <1>2, <2>2
      <3>2. PICK f \in gline_heap : IsFirst(f, gline_heap) /\ ~ (ends < expires'[f])
        BY <2>2
      <3>3. PICK w \in timers : \A s \in gline_heap : w <= expires[s]
        BY <3>2 DEF Core, TimerArmed
      <3>4. w \in Nat /\ expires[f] \in Nat /\ expires'[f] \in Nat /\ w <= expires[f]
        BY <1>4, <3>2, <3>3 DEF Core, TypeOK
      <3>5. expires'[f] >= expires[f]
        BY <1>6, <3>2 DEF Core, HeapDictAgree
      <3>6. w <= ends
        BY <1>1, <3>2, <3>4, <3>5
      <3>7. ASSUME NEW s \in gline_heap' PROVE w <= expires'[s]
        BY <1>1, <1>2, <3>3, <3>6 DEF Core, TypeOK
      <3> QED BY <3>1, <3>3, <3>7 DEF TimerArmed
    <2> QED BY <2>1, <2>2
  <1> QED BY <1>4, <1>5, <1>6, <1>7, <1>8

\* Dropping entries from both indexes and arming for the first one left keeps the
\* bookkeeping: the shared end of gline_remove and gline_expire.
LEMMA RearmKeeps ==
    ASSUME Core, NEW left \in SUBSET gline_heap,
           gline_heap' = left, gline_dict' = left, expires' = expires,
           \/ timers' = ArmedFor(left)
           \/ timers' \subseteq timers /\ (left = {} \/ timers' = timers)
    PROVE  /\ gline_dict' \subseteq Targets /\ timers' \subseteq Times
           /\ HeapDictAgree' /\ TimerArmed' /\ OneTimer'
  <1> USE TimesAssumption
  <1>1. left \in SUBSET Targets
    BY DEF Core, TypeOK
  <1>2. HeapDictAgree' /\ gline_dict' \subseteq Targets
    BY <1>1 DEF HeapDictAgree
  <1>3. CASE timers' = ArmedFor(left)
    <2>1. /\ ArmedFor(left) \subseteq Times
          /\ \A w \in ArmedFor(left), t \in left : w <= expires[t]
          /\ \A v, w \in ArmedFor(left) : v = w
          /\ left # {} => ArmedFor(left) # {}
      BY <1>1, ArmedForBounds DEF Core
    <2> QED BY <1>2, <1>3, <2>1 DEF TimerArmed, OneTimer
  <1>4. CASE timers' \subseteq timers /\ (left = {} \/ timers' = timers)
    <2>1. timers' \subseteq Times /\ OneTimer'
      BY <1>4 DEF Core, TypeOK, OneTimer
    <2>2. TimerArmed'
      BY <1>4 DEF Core, TimerArmed
    <2> QED BY <1>2, <2>1, <2>2
  <1> QED BY <1>3, <1>4

\* The invariant and what it gives after timeq_run, strengthened together.
IndInv == Inv /\ NoneExpiredAfterRun

LEMMA InitIndInv == Init => IndInv
  BY TimesAssumption DEF Init, IndInv, Inv, TypeOK, Phases, HeapDictAgree, TimerArmed,
                         OneTimer, LoadedInForce, NoneExpiredAfterRun

\* Every step keeps the invariant, one case per action.
LEMMA NextIndInv == IndInv /\ [Next]_vars => IndInv'
  <1> USE TimesAssumption
  <1> SUFFICES ASSUME IndInv, [Next]_vars PROVE IndInv'
    OBVIOUS
  <1>0. Core /\ TypeOK /\ HeapDictAgree /\ TimerArmed /\ OneTimer
    BY DEF IndInv, Inv, Core
  <1>1. ASSUME NEW t \in Targets, NEW e \in Times, gline_add(t, e) PROVE IndInv'
    <2>1. Add(t, e) /\ phase \in {"events", "timers"} /\ UNCHANGED <<now, phase, saved, savedExpires, toLoad>>
      BY <1>1 DEF gline_add, disk
    <2>2. TypeOK' /\ HeapDictAgree' /\ TimerArmed' /\ OneTimer'
      <3>1. /\ gline_dict' \subseteq Targets /\ expires' \in [Targets -> Times]
            /\ timers' \subseteq Times
            /\ HeapDictAgree' /\ TimerArmed' /\ OneTimer'
        BY <1>0, <2>1, AddKeeps
      <3> QED BY <1>0, <2>1, <3>1 DEF TypeOK, HeapDictAgree
    <2> QED BY <2>1, <2>2 DEF IndInv, Inv, LoadedInForce, NoneExpiredAfterRun
  <1>2. ASSUME NEW t \in Targets, gline_remove(t) PROVE IndInv'
    <2> DEFINE left == gline_heap \ {t}
    <2>1. /\ phase \in {"events", "timers"}
          /\ UNCHANGED <<now, expires, phase, saved, savedExpires, toLoad>>
          /\ gline_heap' = left /\ gline_dict' = left
          /\ timers' = ArmedFor(left) \/ timers' = timers
      BY <1>0, <1>2 DEF gline_remove, disk, HeapDictAgree
    <2> HIDE DEF left
    <2>2. left \in SUBSET gline_heap
      BY DEF left
    <2>3. /\ gline_dict' \subseteq Targets /\ timers' \subseteq Times
          /\ HeapDictAgree' /\ TimerArmed' /\ OneTimer'
      BY <1>0, <2>1, <2>2, RearmKeeps
    <2> QED BY <1>0, <2>1, <2>3
            DEF IndInv, Inv, TypeOK, HeapDictAgree, LoadedInForce, NoneExpiredAfterRun
  <1>3. CASE RunTimer
    <2> DEFINE left == {t \in gline_heap : expires[t] > now}
    <2>1. PICK w \in timers : gline_expire(w)
      BY <1>3 DEF RunTimer
    <2>2. phase = "timers" /\ UNCHANGED <<now, phase, saved, savedExpires, toLoad, expires>>
      BY <1>3 DEF RunTimer, disk, gline_expire
    <2>3. gline_heap' = left /\ gline_dict' = left
      BY <1>0, <2>1 DEF gline_expire, HeapDictAgree
    <2>4. timers' = ArmedFor(left)
      <3>1. timers \ {w} = {}
        BY <1>0 DEF OneTimer
      <3> QED BY <2>1, <3>1 DEF gline_expire
    <2>5. left \in SUBSET gline_heap
      OBVIOUS
    <2> HIDE DEF left
    <2>6. /\ gline_dict' \subseteq Targets /\ timers' \subseteq Times
          /\ HeapDictAgree' /\ TimerArmed' /\ OneTimer'
      BY <1>0, <2>2, <2>3, <2>4, <2>5, RearmKeeps
    <2> QED BY <1>0, <2>2, <2>6
            DEF IndInv, Inv, TypeOK, HeapDictAgree, LoadedInForce, NoneExpiredAfterRun
  <1>4. CASE TimersDone
    <2>1. phase' = "ran" /\ (\A w \in timers : w > now)
          /\ UNCHANGED <<now, gline_dict, gline_heap, expires, timers, saved, savedExpires, toLoad>>
      BY <1>4 DEF TimersDone, list, disk
    <2>2. ASSUME NEW t \in gline_dict PROVE expires[t] > now
      <3>1. PICK w \in timers : \A s \in gline_heap : w <= expires[s]
        BY <1>0, <2>2 DEF TimerArmed, HeapDictAgree
      <3>2. w \in Nat /\ now \in Nat /\ expires[t] \in Nat /\ w > now /\ w <= expires[t]
        BY <1>0, <2>1, <2>2, <3>1 DEF TypeOK, HeapDictAgree
      <3> QED BY <3>2
    <2>3. NoneExpiredAfterRun'
      BY <2>1, <2>2 DEF NoneExpiredAfterRun
    <2> QED BY <1>0, <2>1, <2>3
            DEF IndInv, Inv, TypeOK, Phases, HeapDictAgree, TimerArmed, OneTimer, LoadedInForce
  <1>5. CASE EventsDone
    BY <1>0, <1>5 DEF EventsDone, list, disk, IndInv, Inv, TypeOK, Phases, HeapDictAgree,
                      TimerArmed, OneTimer, LoadedInForce, NoneExpiredAfterRun
  <1>6. CASE LoadDone
    BY <1>0, <1>6 DEF LoadDone, list, disk, IndInv, Inv, TypeOK, Phases, HeapDictAgree,
                      TimerArmed, OneTimer, LoadedInForce, NoneExpiredAfterRun
  <1>7. ASSUME NEW n \in Times, Poll(n) \/ PollInterrupted(n) \/ ioset_set_time(n)
        PROVE  IndInv'
    BY <1>0, <1>7 DEF Poll, PollInterrupted, ioset_set_time, list, disk, IndInv, Inv, TypeOK,
                      Phases, HeapDictAgree, TimerArmed, OneTimer, LoadedInForce,
                      NoneExpiredAfterRun
  <1>8. ASSUME NEW n \in Times, Restart(n) PROVE IndInv'
    BY <1>0, <1>8 DEF Restart, disk, IndInv, Inv, TypeOK, Phases, HeapDictAgree, TimerArmed,
                      OneTimer, LoadedInForce, NoneExpiredAfterRun
  <1>9. CASE gline_saxdb_write
    BY <1>0, <1>9 DEF gline_saxdb_write, list, IndInv, Inv, TypeOK, HeapDictAgree,
                      TimerArmed, OneTimer, LoadedInForce, NoneExpiredAfterRun
  <1>10. ASSUME NEW t \in Targets, gline_add_record(t) PROVE IndInv'
    <2>1. phase = "load" /\ toLoad' \subseteq toLoad /\ UNCHANGED <<now, phase, saved, savedExpires>>
      BY <1>10 DEF gline_add_record, disk
    <2>2. CASE ~ (savedExpires[t] > now)
      <3>1. UNCHANGED <<gline_dict, gline_heap, expires, timers>>
        BY <1>0, <1>10, <2>2 DEF gline_add_record, list, TypeOK
      <3> QED BY <1>0, <2>1, <3>1 DEF IndInv, Inv, TypeOK, HeapDictAgree, TimerArmed, OneTimer,
                                      LoadedInForce, NoneExpiredAfterRun
    <2>3. CASE savedExpires[t] > now
      <3>1. savedExpires[t] \in Times /\ Add(t, savedExpires[t])
        BY <1>0, <1>10, <2>3 DEF gline_add_record, TypeOK
      <3>2. /\ gline_dict' \subseteq Targets /\ expires' \in [Targets -> Times]
            /\ timers' \subseteq Times
            /\ HeapDictAgree' /\ TimerArmed' /\ OneTimer'
            /\ \A s \in gline_dict : expires'[s] >= expires[s]
            /\ \A s \in gline_dict' : s \in gline_dict \/ expires'[s] = savedExpires[t]
        BY <1>0, <3>1, AddKeeps
      <3>3. TypeOK'
        BY <1>0, <2>1, <3>2 DEF TypeOK, HeapDictAgree
      <3>4. ASSUME NEW s \in gline_dict' PROVE expires'[s] > now
        <4>1. now \in Nat /\ expires'[s] \in Nat /\ savedExpires[t] \in Nat
          BY <1>0, <3>1, <3>2 DEF TypeOK
        <4>2. CASE s \in gline_dict
          <5>1. expires[s] > now /\ expires[s] \in Nat /\ expires'[s] >= expires[s]
            BY <1>0, <2>1, <3>2, <4>2 DEF IndInv, Inv, LoadedInForce, TypeOK
          <5> QED BY <4>1, <5>1
        <4>3. CASE expires'[s] = savedExpires[t]
          BY <2>3, <4>1, <4>3
        <4> QED BY <3>2, <4>2, <4>3
      <3>5. LoadedInForce' /\ NoneExpiredAfterRun'
        BY <2>1, <3>4 DEF LoadedInForce, NoneExpiredAfterRun
      <3> QED BY <3>2, <3>3, <3>5 DEF IndInv, Inv
    <2> QED BY <2>2, <2>3
  <1>11. CASE UNCHANGED vars
    BY <1>0, <1>11 DEF vars, IndInv, Inv, TypeOK, HeapDictAgree, TimerArmed, OneTimer,
                       LoadedInForce, NoneExpiredAfterRun
  <1> QED BY <1>1, <1>2, <1>3, <1>4, <1>5, <1>6, <1>7, <1>8, <1>9, <1>10, <1>11 DEF Next

-----------------------------------------------------------------------------
\* For every mix of additions, extensions, removals, expiries, clock changes and
\* restarts the two indexes of gline.c agree and one timer covers the heap.
THEOREM BookkeepingHolds == Spec => []Inv
  <1>1. IndInv => Inv
    BY DEF IndInv
  <1> QED BY <1>1, InitIndInv, NextIndInv, PTL DEF Spec

\* When timeq_run or the load of the database returns, every G-line left is in
\* force, for any clock the host or SETTIME gives.
THEOREM NoExpiredGlineSurvives == Spec => []NoneExpiredAfterRun
  <1>1. IndInv => NoneExpiredAfterRun
    BY DEF IndInv
  <1> QED BY <1>1, InitIndInv, NextIndInv, PTL DEF Spec

\* No step brings the expiry of a G-line that stays on the list forward.
THEOREM ExpiryNeverShortened == Spec => NeverShortened
  <1> DEFINE Kept == \A t \in Targets :
                        t \in gline_dict /\ t \in gline_dict' => expires'[t] >= expires[t]
  <1>1. IndInv /\ [Next]_vars => [Kept]_vars
    <2> SUFFICES ASSUME IndInv, Next PROVE Kept
      BY DEF vars
    <2> USE TimesAssumption
    <2>1. Core /\ \A t \in Targets : expires[t] \in Nat
      BY DEF IndInv, Inv, Core, TypeOK
    <2>2. ASSUME NEW t \in Targets, NEW e \in Times, Add(t, e) PROVE Kept
      BY <2>1, <2>2, AddKeeps
    <2>3. CASE UNCHANGED expires
      BY <2>1, <2>3
    <2>4. ASSUME NEW t \in Targets, gline_add_record(t) PROVE Kept
      <3>1. savedExpires[t] \in Times
        BY <2>1 DEF Core, TypeOK
      <3> QED BY <2>2, <2>3, <2>4, <3>1 DEF gline_add_record, list
    <2> QED BY <2>2, <2>3, <2>4 DEF Next, gline_add, gline_remove, RunTimer, gline_expire,
              TimersDone, EventsDone, LoadDone, Poll, PollInterrupted, ioset_set_time,
              Restart, gline_saxdb_write, list
  <1>2. NeverShortened <=> [][Kept]_vars
    BY PTL DEF NeverShortened
  <1> QED BY <1>1, <1>2, InitIndInv, NextIndInv, PTL DEF Spec
=============================================================================
