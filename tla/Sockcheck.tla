----------------------------- MODULE Sockcheck -----------------------------
(* The proxy scanner (mod-sockcheck.c): a cache of addresses, a queue of the  *)
(* ones to look at, and up to max_clients connections that each run the list  *)
(* of tests against an address.  What a host answers, and so which response   *)
(* of a state is followed, is free.  A callback that starts the next check    *)
(* runs to its end before anything else: such a check is in phase "begin" and *)
(* is the only one to move.                                                   *)
EXTENDS Integers, Sequences, FiniteSets, Functions

CONSTANTS
    ScanAddresses,
    Tests,          \* tests read at the start, a sequence of names
    NewTests,       \* tests DEFPROXY may add
    reps,           \* how often a test is run
    Allocated,      \* slots of client_list: max_clients at the start
    Timeouts,       \* timeouts a state may have; a nested state's is never set
    gline_duration, max_cache_age,
    MaxSci,         \* bound: records at a time
    MaxScanTime     \* bound: the clock

\* There are tests, each with a state of its own (sockcheck_read_tests); without any,
\* sockcheck_start_client counts checks that it does not make.
ASSUME TestsNamed == Tests \in Seq(Range(Tests)) /\ IsInjective(Tests) /\ Tests # <<>>
ASSUME RecordsBounded == MaxSci \in Nat

VARIABLES
    sci,            \* cache records that are allocated: number -> [addr, decision, touched]
    checked_ip_dict,\* address -> number of its record
    pending_sci_list,
    clients,        \* number of a record -> the connection that checks it
    client_list,    \* slot -> number of a record, or 0
    sockcheck_num_clients, max_clients,
    timers,         \* set of [client, when]
    tests, glines, cleanAt, scanNow

scanVars == <<sci, checked_ip_dict, pending_sci_list, clients, client_list, sockcheck_num_clients,
          max_clients, timers, tests, glines, cleanAt, scanNow>>

ScanInit ==
    /\ sci = <<>> /\ checked_ip_dict = <<>> /\ pending_sci_list = <<>> /\ clients = <<>>
    /\ client_list = [i \in 0 .. Allocated - 1 |-> 0]
    /\ sockcheck_num_clients = 0 /\ max_clients = Allocated
    /\ timers = {} /\ tests = Tests /\ glines = {} /\ cleanAt = max_cache_age /\ scanNow = 0

SetKey(f, x, y) == [z \in DOMAIN f \cup {x} |-> IF z = x THEN y ELSE f[z]]
WithoutIds(f, S) == [z \in DOMAIN f \ S |-> f[z]]

\* No callback is half way.
Quiet == \A c \in DOMAIN clients : clients[c].phase # "begin"

-----------------------------------------------------------------------------
\* The next address of the queue is checked in slot idx, by the tests of now.
\* The address may have left the cache meanwhile; its record is used all the same.
sockcheck_start_client(pend, others, slots, num, idx) ==
    LET c == pend[1] IN
    /\ pending_sci_list' = Tail(pend)
    /\ sockcheck_num_clients' = num + 1
    /\ clients' = SetKey(others, c.id, [addr |-> c.addr, tests |-> tests', test_index |-> 1, test_rep |-> 0,
                                        phase |-> "begin", index |-> idx])
    /\ client_list' = [slots EXCEPT ![idx] = c.id]

sockcheck_queue_address(a) ==
    LET id == IF a \in DOMAIN checked_ip_dict THEN checked_ip_dict[a] ELSE 0
        free == (1 .. MaxSci) \ (DOMAIN sci \cup DOMAIN clients \cup {p.id : p \in Range(pending_sci_list)})
        fresh == CHOOSE n \in free : TRUE
        cached == id # 0 /\ ( \/ sci[id].decision = "CHECKING"
                              \/ sci[id].decision = "ACCEPT" /\ sci[id].touched + max_cache_age >= scanNow
                              \/ sci[id].decision = "REJECT" /\ sci[id].touched + gline_duration >= scanNow)
        queue == Append(pending_sci_list, [id |-> fresh, addr |-> a])
    IN
    /\ Quiet
    /\ IF cached
       THEN /\ glines' = IF sci[id].decision = "REJECT" THEN glines \cup {a} ELSE glines
            /\ UNCHANGED <<sci, checked_ip_dict, pending_sci_list, clients, client_list, sockcheck_num_clients, tests>>
       ELSE /\ free # {}
            /\ sci' = SetKey(WithoutIds(sci, {id}), fresh, [addr |-> a, decision |-> "CHECKING", touched |-> scanNow])
            /\ checked_ip_dict' = SetKey(checked_ip_dict, a, fresh)
            /\ tests' = tests
            /\ IF sockcheck_num_clients < max_clients
               THEN sockcheck_start_client(queue, clients, client_list, sockcheck_num_clients, sockcheck_num_clients)
               ELSE pending_sci_list' = queue /\ UNCHANGED <<clients, client_list, sockcheck_num_clients>>
            /\ UNCHANGED glines
    /\ UNCHANGED <<max_clients, timers, cleanAt, scanNow>>

\* Mutant: the tests before the one that found a proxy are not moved up.
Overwritten(list, test) == [list EXCEPT ![1] = test]

\* The test that found a proxy goes first; others may have reordered them already.
ToFront(list, test) ==
    LET n == CHOOSE i \in DOMAIN list : list[i] = test
    IN [i \in DOMAIN list |-> IF i = 1 THEN test ELSE IF i <= n THEN list[i - 1] ELSE list[i]]

\* A verdict is written to the record, or to freed memory if the record is
\* gone, the connection ends and its slot takes the next address.
sockcheck_decide(c, decision) ==
    LET k == clients[c]
        num == sockcheck_num_clients - 1
        others == WithoutIds(clients, {c})
    IN
    /\ sci' = IF c \in DOMAIN sci THEN [sci EXCEPT ![c].decision = decision, ![c].touched = scanNow] ELSE sci
    /\ glines' = IF decision = "REJECT" THEN glines \cup {k.addr} ELSE glines
    /\ tests' = IF decision = "REJECT" THEN ToFront(tests, k.tests[k.test_index]) ELSE tests
    /\ timers' = {t \in timers : t.client # c}
    /\ IF num < max_clients /\ pending_sci_list # <<>>
       THEN sockcheck_start_client(pending_sci_list, others, client_list, num, k.index)
       ELSE /\ sockcheck_num_clients' = num /\ clients' = others
            /\ client_list' = [client_list EXCEPT ![k.index] = 0]
            /\ UNCHANGED pending_sci_list

\* The connection is opened, or fails at once and the next test is tried.
sockcheck_begin_test(c) ==
    /\ clients[c].phase = "begin"
    /\ \/ /\ clients' = [clients EXCEPT ![c].phase = "connecting"]
          /\ \E d \in Timeouts : timers' = timers \cup {[client |-> c, when |-> scanNow + d]}
          /\ UNCHANGED <<sci, pending_sci_list, client_list, sockcheck_num_clients, tests, glines>>
       \/ /\ clients[c].test_index < Len(clients[c].tests)
          /\ clients' = [clients EXCEPT ![c].test_index = @ + 1]
          /\ UNCHANGED <<sci, pending_sci_list, client_list, sockcheck_num_clients, tests, glines, timers>>
       \/ /\ clients[c].test_index = Len(clients[c].tests)
          /\ sockcheck_decide(c, "ACCEPT")
    /\ UNCHANGED <<checked_ip_dict, max_clients, cleanAt, scanNow>>

\* A state sends what it has to send and waits; the timer of the connection runs on.
sockcheck_elaborate_state(c, running) ==
    /\ clients' = [clients EXCEPT ![c].phase = "reading"]
    /\ \E d \in Timeouts : timers' = running \cup {[client |-> c, when |-> scanNow + d]}
    /\ UNCHANGED <<sci, pending_sci_list, client_list, sockcheck_num_clients, tests, glines>>

\* A response is followed: the timers end, and its state waits, rejects or accepts.
sockcheck_advance(c) ==
    LET k == clients[c] IN
    \/ sockcheck_elaborate_state(c, {t \in timers : t.client # c})
    \/ sockcheck_decide(c, "REJECT")
    \/ /\ k.test_rep + 1 < reps \/ k.test_index < Len(k.tests)
       /\ clients' = [clients EXCEPT ![c] =
            IF k.test_rep + 1 < reps THEN [k EXCEPT !.phase = "begin", !.test_rep = @ + 1]
                                     ELSE [k EXCEPT !.phase = "begin", !.test_rep = 0, !.test_index = @ + 1]]
       /\ timers' = {t \in timers : t.client # c}
       /\ UNCHANGED <<sci, pending_sci_list, client_list, sockcheck_num_clients, tests, glines>>
    \/ k.test_rep + 1 >= reps /\ k.test_index = Len(k.tests) /\ sockcheck_decide(c, "ACCEPT")

sockcheck_connected(c) ==
    /\ Quiet /\ clients[c].phase = "connecting"
    /\ sockcheck_elaborate_state(c, timers) \/ sockcheck_advance(c)
    /\ UNCHANGED <<checked_ip_dict, max_clients, cleanAt, scanNow>>

\* An answer that matches, a closed connection or a full buffer.
sockcheck_readable(c) ==
    /\ Quiet /\ clients[c].phase = "reading"
    /\ sockcheck_advance(c)
    /\ UNCHANGED <<checked_ip_dict, max_clients, cleanAt, scanNow>>

sockcheck_timeout_client(t) ==
    /\ Quiet /\ t \in timers /\ t.when <= scanNow
    /\ sockcheck_advance(t.client)
    /\ UNCHANGED <<checked_ip_dict, max_clients, cleanAt, scanNow>>

-----------------------------------------------------------------------------
\* Old records are freed, but for those of the connections in client_list.
sockcheck_clean_cache ==
    LET curr == {clients[client_list[i]].addr : i \in {j \in DOMAIN client_list : client_list[j] # 0}}
        old == {a \in DOMAIN checked_ip_dict :
                  LET e == sci[checked_ip_dict[a]] IN
                  /\ e.touched + (IF e.decision = "REJECT" THEN gline_duration ELSE max_cache_age) < scanNow
                  /\ a \notin curr}
    IN
    /\ Quiet /\ cleanAt <= scanNow
    /\ checked_ip_dict' = WithoutIds(checked_ip_dict, old)
    /\ sci' = WithoutIds(sci, {checked_ip_dict[a] : a \in old})
    /\ cleanAt' = scanNow + max_cache_age
    /\ UNCHANGED <<pending_sci_list, clients, client_list, sockcheck_num_clients, max_clients, timers, tests, glines, scanNow>>

cmd_clearhost(a) ==
    /\ Quiet /\ a \in DOMAIN checked_ip_dict /\ sci[checked_ip_dict[a]].decision # "CHECKING"
    /\ sci' = WithoutIds(sci, {checked_ip_dict[a]})
    /\ checked_ip_dict' = WithoutIds(checked_ip_dict, {a})
    /\ UNCHANGED <<pending_sci_list, clients, client_list, sockcheck_num_clients, max_clients, timers, tests, glines, cleanAt, scanNow>>

sockcheck_add_test(t) ==
    /\ Quiet /\ t \notin Range(tests)
    /\ tests' = Append(tests, t)
    /\ UNCHANGED <<sci, checked_ip_dict, pending_sci_list, clients, client_list, sockcheck_num_clients, max_clients, timers, glines, cleanAt, scanNow>>

\* A rehash; a value above Allocated would leave client_list too short.
sockcheck_read_conf(n) ==
    /\ Quiet /\ n # max_clients
    /\ max_clients' = n
    /\ UNCHANGED <<sci, checked_ip_dict, pending_sci_list, clients, client_list, sockcheck_num_clients, timers, tests, glines, cleanAt, scanNow>>

ScanTick == Quiet /\ scanNow < MaxScanTime /\ scanNow' = scanNow + 1
        /\ UNCHANGED <<sci, checked_ip_dict, pending_sci_list, clients, client_list, sockcheck_num_clients, max_clients, timers, tests, glines, cleanAt>>

ScanNext ==
    \/ \E a \in ScanAddresses : sockcheck_queue_address(a) \/ cmd_clearhost(a)
    \/ \E c \in DOMAIN clients : sockcheck_begin_test(c) \/ sockcheck_connected(c) \/ sockcheck_readable(c)
    \/ \E t \in timers : sockcheck_timeout_client(t)
    \/ sockcheck_clean_cache \/ ScanTick
    \/ \E t \in NewTests : sockcheck_add_test(t)
    \/ \E n \in 1 .. Allocated : sockcheck_read_conf(n)

ScanSpec == ScanInit /\ [][ScanNext]_scanVars

-----------------------------------------------------------------------------
\* Between two callbacks every check waits under a timeout and no timeout waits
\* for a check that has ended (sockcheck_elaborate_state, sockcheck_advance);
\* the checks are counted exactly, so a slot is used again
\* (sockcheck_decide, sockcheck_start_client); and no test is lost or doubled
\* when tests are reordered under the connections that run them.
ChecksTimed ==
    /\ Quiet => {t.client : t \in timers} = DOMAIN clients
    /\ sockcheck_num_clients = Cardinality(DOMAIN clients)
    /\ IsInjective(tests) /\ Range(Tests) \subseteq Range(tests)

\* "Remember which clients we're still checking; we're not allowed to remove
\* them" (mod-sockcheck.c): the record of a check is in the cache until its end.
CheckedKept == \A c \in DOMAIN clients : c \in DOMAIN sci
=============================================================================
