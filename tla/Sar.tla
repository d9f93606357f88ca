-------------------------------- MODULE Sar --------------------------------
(***************************************************************************)
(* The DNS resolver (src/src/sar.c) and its one client, the DNS blacklist  *)
(* (src/src/mod-blacklist.c).  A query is sent to all name servers and     *)
(* again after a timeout; the answers may be lost, late or repeated, and   *)
(* the identifier of a query is used again once the query is over.         *)
(* Building and decoding packets is left out: an answer is listed, clean,  *)
(* an error or scrambled.                                                  *)
(***************************************************************************)
EXTENDS Naturals, FiniteSetsExt

CONSTANTS
    SarIds,         \* identifiers of queries
    Addresses,      \* addresses of clients
    Zones,          \* DNSBL zones
    SarTimeout,     \* conf.sar_timeout
    SarRetries,     \* conf.sar_retries
    MaxQueries,     \* bound on the number of queries
    MaxTime         \* bound on the clock

VARIABLES
    now,
    sar_requests,       \* by identifier
    sarTimers,          \* times of the queued sar_timeout_cb
    next_sar_timeout,   \* 0: there was none yet
    asked,              \* identifiers that were on the wire: answers to them may come
    blacklist_zones,
    queries, hits       \* history: queries made, and those that found a client listed

sarVars == <<sar_requests, sarTimers, next_sar_timeout, asked, blacklist_zones, queries, hits>>
vars == <<now, sarVars>>

Query == [ip : Addresses, zone : Zones, expiry : Nat, retries : Nat]

\* The shape of sar.c's tables.
TypeOK ==
    /\ DOMAIN sar_requests \subseteq SarIds
    /\ \A i \in DOMAIN sar_requests : sar_requests[i] \in Query
    /\ sarTimers \subseteq Nat /\ next_sar_timeout \in Nat
    /\ asked \subseteq SarIds /\ blacklist_zones \subseteq Zones

Init ==
    /\ now = 0
    /\ sar_requests = [i \in {} |-> {}]
    /\ sarTimers = {} /\ next_sar_timeout = 0
    /\ asked = {}
    /\ blacklist_zones = Zones
    /\ queries = 0 /\ hits = 0

Without(I) == [i \in DOMAIN sar_requests \ I |-> sar_requests[i]]

\* Mutant: the queued callback is not taken out when an earlier one is needed.
CheckTimeoutAdding(W) ==
    LET when  == Min(W)
        early == next_sar_timeout = 0 \/ when < next_sar_timeout
    IN  [timers |-> IF early THEN sarTimers \union {when} ELSE sarTimers,
         next   |-> IF early THEN when ELSE next_sar_timeout]

\* sar_check_timeout, for the earliest of the times W.
CheckTimeout(W) ==
    LET when  == Min(W)
        early == next_sar_timeout = 0 \/ when < next_sar_timeout
    IN  [timers |-> IF early THEN {when} ELSE sarTimers,
         next   |-> IF early THEN when ELSE next_sar_timeout]

\* sar_request_send: the query goes out once more.
Sent(r) == [r EXCEPT !.retries = @ + 1, !.expiry = now + SarTimeout * 2 ^ (r.retries + 1)]

\* blacklist_check_user, sar_request_simple: a client connects and one zone is asked.
Ask(i, ip, zone) ==
    LET r == Sent([ip |-> ip, zone |-> zone, expiry |-> 0, retries |-> 0])
        c == CheckTimeout({r.expiry})
    IN  /\ queries < MaxQueries /\ queries' = queries + 1
        /\ zone \in blacklist_zones
        /\ i \notin DOMAIN sar_requests
        /\ sar_requests' = [j \in DOMAIN sar_requests \union {i} |->
                                IF j = i THEN r ELSE sar_requests[j]]
        /\ sarTimers' = c.timers /\ next_sar_timeout' = c.next
        /\ asked' = asked \union {i}
        /\ UNCHANGED <<now, blacklist_zones, hits>>

\* Mutant: the request stays in the table when its answer was used.
AnswerKept(i, listed) ==
    /\ i \in asked /\ i \in DOMAIN sar_requests
    /\ hits' = IF listed /\ sar_requests[i].zone \in blacklist_zones THEN hits + 1 ELSE hits
    /\ UNCHANGED <<now, sar_requests, sarTimers, next_sar_timeout, asked, blacklist_zones, queries>>

\* sar_fd_readable, sar_decode_answer, dnsbl_hit: an answer, maybe not to this query, maybe
\* not the first.  A zone that went away in a rehash is not looked at.
Answer(i, listed) ==
    /\ i \in asked /\ i \in DOMAIN sar_requests
    /\ sar_requests' = Without({i})
    /\ hits' = IF listed /\ sar_requests[i].zone \in blacklist_zones THEN hits + 1 ELSE hits
    /\ UNCHANGED <<now, sarTimers, next_sar_timeout, asked, blacklist_zones, queries>>

\* sar_fd_readable, sar_request_fail, sar_request_abort: an error or a scrambled answer.
AnswerError(i) ==
    /\ i \in asked /\ i \in DOMAIN sar_requests
    /\ sar_requests' = Without({i})
    /\ UNCHANGED <<now, sarTimers, next_sar_timeout, asked, blacklist_zones, queries, hits>>

\* sar_timeout_cb: what is due is sent again or given up; the next call is for what was not.
TimeoutCb(t) ==
    LET due    == {i \in DOMAIN sar_requests : sar_requests[i].expiry <= now}
        resent == {i \in due : sar_requests[i].retries < SarRetries}
        left   == {sar_requests[i].expiry : i \in DOMAIN sar_requests \ due}
        again  == {Sent(sar_requests[i]).expiry : i \in resent}
        early  == again # {} /\ (next_sar_timeout = 0 \/ Min(again) < next_sar_timeout)
        rest   == IF early THEN {Min(again)} ELSE sarTimers \ {t}
    IN  /\ t \in sarTimers /\ t <= now
        /\ sar_requests' = [i \in (DOMAIN sar_requests \ due) \union resent |->
                                IF i \in resent THEN Sent(sar_requests[i]) ELSE sar_requests[i]]
        /\ sarTimers' = rest \union (IF left = {} THEN {} ELSE {Min(left)})
        /\ next_sar_timeout' = IF left # {} THEN Min(left)
                               ELSE IF early THEN Min(again) ELSE next_sar_timeout
        /\ UNCHANGED <<now, asked, blacklist_zones, queries, hits>>

\* blacklist_conf_read: a rehash reads another set of zones.
Rehash(zones) ==
    /\ zones # blacklist_zones /\ blacklist_zones' = zones
    /\ UNCHANGED <<now, sar_requests, sarTimers, next_sar_timeout, asked, queries, hits>>

\* An answer that is still on its way is lost.
Lose(i) ==
    /\ i \in asked /\ asked' = asked \ {i}
    /\ UNCHANGED <<now, sar_requests, sarTimers, next_sar_timeout, blacklist_zones, queries, hits>>

Tick ==
    /\ now < MaxTime /\ now' = now + 1
    /\ UNCHANGED sarVars

Next ==
    \/ \E i \in SarIds :
        \/ \E ip \in Addresses, zone \in Zones : Ask(i, ip, zone)
        \/ \E listed \in BOOLEAN : Answer(i, listed)
        \/ AnswerError(i)
        \/ Lose(i)
    \/ \E t \in sarTimers : TimeoutCb(t)
    \/ \E zones \in SUBSET Zones : Rehash(zones)
    \/ Tick

Spec == Init /\ [][Next]_vars

-----------------------------------------------------------------------------
\* However answers are repeated, delayed or credited to a query that has taken over the
\* identifier, a query finds a client listed at most once: no client is G-lined for more
\* answers than were asked for (sar_decode_answer, dnsbl_hit).
OneHitPerQuery == hits + Cardinality(DOMAIN sar_requests) <= queries

\* sar_timeout_cb is queued at most once, and sar_check_timeout knows for when: it could
\* not take out another.
OneTimeout == sarTimers \subseteq {next_sar_timeout}

\* "Check that query timeout is soon enough" (sar.c:923): a query that is waiting has a
\* callback queued no later than its expiry.
TimeoutSoonEnough ==
    \A i \in DOMAIN sar_requests : \E t \in sarTimers : t <= sar_requests[i].expiry

=============================================================================
