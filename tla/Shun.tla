-------------------------------- MODULE Shun --------------------------------
(***************************************************************************)
(* The shun list (src/src/shun.c) and the commands of OpServ that search   *)
(* it.  Dictionary, heap and timer are those of gline.c under other names, *)
(* so the list is module Gline with its variables renamed; what is added   *)
(* is looking an entry up (shun_find), searching with criteria and the     *)
(* removal of all that was found (STRACE UNSHUN).                          *)
(***************************************************************************)
EXTENDS Naturals, FiniteSets

CONSTANTS
    Targets, Times,
    Wild,           \* targets with a wildcard
    Under           \* <<a, b>>: mask b matches what a says

\* time_t counts seconds.
ASSUME ShunTimes == Times \subseteq Nat

VARIABLES shunNow, shun_dict, shun_heap, expires, shunTimers, phase, shunSaved, savedExpires, toLoad,
          shuns     \* targets that STRACE UNSHUN has still to remove

G == INSTANCE Gline WITH
    now <- shunNow, timers <- shunTimers, saved <- shunSaved, gline_dict <- shun_dict, gline_heap <- shun_heap

shunListVars == <<shunNow, shun_dict, shun_heap, expires, shunTimers, phase, shunSaved, savedExpires, toLoad>>
shunVars == <<shunListVars, shuns>>

ShunInit == G!Init /\ shuns = {}

-----------------------------------------------------------------------------
\* SHUN, SBLOCK, the network and DEFCON add, UNSHUN and the network remove.
shun_add(t, e) == G!gline_add(t, e)
shun_remove(t) == G!gline_remove(t)
shun_expire == G!RunTimer
shun_saxdb_write == G!gline_saxdb_write
shun_add_record(t) == G!gline_add_record(t)
shun_init(n) == G!Restart(n)

\* The event loop and the clock, as for G-lines.
Loop ==
    \/ G!TimersDone \/ G!EventsDone \/ G!LoadDone
    \/ \E n \in Times : G!Poll(n) \/ G!PollInterrupted(n) \/ G!ioset_set_time(n)

\* shun_find: the target itself or, when it has a wildcard, an entry whose mask matches it.
shun_find(t) ==
    IF t \in shun_dict THEN {t}
    ELSE IF t \in Wild THEN {s \in shun_dict : <<t, s>> \in Under} ELSE {}

\* shun_discrim_match: for a mask, how it is meant and the least expiry ("any": no mask).
shun_discrim_match(s, mask, kind, min) ==
    /\ \/ mask = "any"
       \/ kind = "SUBSET" /\ <<mask, s>> \in Under
       \/ kind = "EXACT" /\ s = mask
       \/ kind = "SUPERSET" /\ <<s, mask>> \in Under
    /\ min <= expires[s]

\* cmd_strace UNSHUN: shun_discrim_search walks the heap and keeps the first "limit" matches.
cmd_strace(mask, kind, min, limit) ==
    LET matches == {s \in shun_heap : shun_discrim_match(s, mask, kind, min)}
    IN  /\ phase = "events"
        /\ \E found \in SUBSET matches :
              /\ Cardinality(found) = limit \/ (found = matches /\ Cardinality(found) < limit)
              /\ shuns' = found
        /\ UNCHANGED shunListVars

\* Mutant: what was found is freed and stays in the heap.
UnshunFreed(t) ==
    /\ shun_dict' = shun_dict \ {t}
    /\ UNCHANGED <<shunNow, shun_heap, expires, shunTimers, phase, shunSaved, savedExpires, toLoad>>

Unshun(t) ==
    shun_remove(t)

ShunNext ==
    \/ /\ shuns = {} /\ UNCHANGED shuns
       /\ \/ \E t \in Targets, e \in Times : shun_add(t, e)
          \/ \E t \in Targets : shun_remove(t) \/ shun_add_record(t)
          \/ shun_expire \/ shun_saxdb_write \/ Loop
          \/ \E n \in Times : shun_init(n)
    \/ /\ shuns = {}
       /\ \E m \in Targets \union {"any"}, k \in {"SUBSET", "EXACT", "SUPERSET"}, min \in {0, shunNow + 1}, l \in {1, 50} :
             cmd_strace(m, k, min, l)
    \/ \E t \in shuns : Unshun(t) /\ shuns' = shuns \ {t}

ShunSpec == ShunInit /\ [][ShunNext]_shunVars

-----------------------------------------------------------------------------
\* The timer covers the list whatever a search removes at once, and when the timers have
\* run no lookup finds a shun that is over (shun_expire, shun_remove, shun_find).
ShunsTimed ==
    /\ shun_heap = shun_dict
    /\ shun_heap # {} => \E w \in shunTimers : \A t \in shun_heap : w <= expires[t]
    /\ \A v, w \in shunTimers : v = w
    /\ phase = "ran" => \A t \in Targets : \A s \in shun_find(t) : expires[s] > shunNow
=============================================================================
