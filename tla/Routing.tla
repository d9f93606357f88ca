------------------------------ MODULE Routing ------------------------------
(***************************************************************************)
(* Automatic routing of servers (src/src/opserv.c): a plan says which      *)
(* server links to which, the active map is that plan turned so that our   *)
(* own uplink is its centre, and lost servers are connected again, with a  *)
(* timeout for every attempt.  A C function that changes several of the    *)
(* globals is an operator from the record of the globals to a new one.     *)
(* Ports, replies and the drawing of the map are left out.  Timers may     *)
(* fire whenever they are queued.                                          *)
(***************************************************************************)
EXTENDS Integers, SequencesExt

CONSTANTS
    Servers,        \* servers of the network, ours excepted
    Services,       \* our own server
    Uplink,         \* the server we are linked to
    Offers,         \* what ROUTING ADDSERVER may be given: [server, uplink, second]
    Options,        \* what ROUTING SET may be given besides ACTIVE
    KARMA_MAX, KARMA_MIN, KARMA_PINGOUT, KARMA_READERROR,
    NONE            \* a null pointer

VARIABLES
    linked,     \* dict servers: the uplink of each server that is linked
    g           \* the globals of the routing code

\* The globals: opserv_routing_plans (one plan, or NONE), the options that are set,
\* opserv_route (NONE until it is allocated; servers with their uplinks),
\* opserv_waiting_connections (server to target), the servers whose entry has a timer,
\* those with a timer whose entry was freed under it, the queued reroute_timer, and whether a null pointer was followed.
NoServers == [s \in {} |-> NONE]
Globals ==
    [plan : {NONE} \union UNION {[D -> [uplink : Servers, second : Servers \union {NONE},
                                        karma : KARMA_MIN..KARMA_MAX, offline : BOOLEAN]] : D \in SUBSET Servers},
     options : SUBSET (Options \union {"ACTIVE"}),
     route : {NONE} \union UNION {[D -> Servers \union {Services}] : D \in SUBSET Servers},
     waiting : UNION {[D -> Servers] : D \in SUBSET Servers},
     timers : SUBSET Servers,
     stale : SUBSET Servers,
     rerouteTimer : BOOLEAN,
     crashed : BOOLEAN]

routingVars == <<linked, g>>
vars == routingVars

TypeOK == g \in Globals

Has(st, o) == o \in st.options
Empty(st) == st.route = NONE \/ st.route = NoServers
Without(f, S) == [x \in DOMAIN f \ S |-> f[x]]
With(f, x, y) == [z \in DOMAIN f \union {x} |-> IF z = x THEN y ELSE f[z]]

-----------------------------------------------------------------------------
\* activate_routing: the uplink the map takes for s, by the karma of its uplinks and its own.
Chosen(st, s) ==
    LET p     == st.plan[s]
        bad   == /\ Has(st, "KARMA") /\ p.second # NONE
                 /\ p.uplink \in DOMAIN st.plan /\ st.plan[p.uplink].karma < 0
        worse == /\ p.second \in DOMAIN st.plan
                 /\ st.plan[p.second].karma < st.plan[p.uplink].karma
        self  == Has(st, "KARMA") /\ p.second # NONE /\ (p.karma < 0 \/ p.offline)
    IN  IF self \/ (bad /\ ~worse) THEN p.second ELSE p.uplink

\* Mutant: only the first link is turned.
RecentreFirst(map) == [map EXCEPT ![Uplink] = Services]

\* change_route_uplinks: the links from our uplink to the top of the plan are turned round.
Recentre(map) ==
    LET walk[n \in Nat] ==
            IF n = 0 THEN [up |-> map, last |-> Services, cur |-> Uplink]
            ELSE LET w == walk[n - 1] IN
                 IF w.cur \notin DOMAIN map THEN w
                 ELSE [up |-> [w.up EXCEPT ![w.cur] = w.last], last |-> w.cur, cur |-> w.up[w.cur]]
    IN  walk[2 * Cardinality(Servers) + 1].up

\* The servers met from s upwards.
Above(map, s) ==
    LET up[n \in Nat] == IF n = 0 THEN map[s]
                         ELSE LET u == up[n - 1] IN IF u \in DOMAIN map THEN map[u] ELSE u
    IN  {up[n] : n \in 0..Cardinality(Servers)}

\* rank_outsideness fails when the recursion below our uplink does not end, which is when
\* the uplink is below itself.
Loops(map) == Uplink \in Above(map, Uplink)

\* change_route_uplinks: the map that is left, and whether it is in use.
Centred(map) ==
    LET turned == IF map[Uplink] = Services THEN map ELSE Recentre(map)
    IN  IF map = NoServers \/ Uplink \notin DOMAIN map THEN [map |-> map, ok |-> FALSE]
        ELSE IF Loops(turned) THEN [map |-> NoServers, ok |-> FALSE]
        ELSE [map |-> turned, ok |-> TRUE]

\* activate_routing "*": no plan is active.
Deactivate(st) ==
    [st EXCEPT !.options = @ \ {"ACTIVE"}, !.route = IF @ = NONE THEN NONE ELSE NoServers]

\* activate_routing for the plan: with a user who asked for it, failure turns routing off.
ActivatePlan(st, user) ==
    LET c == Centred([s \in DOMAIN st.plan |-> Chosen(st, s)])
    IN  IF st.plan = NONE THEN [st EXCEPT !.route = NoServers]
        ELSE IF user /\ ~c.ok THEN Deactivate([st EXCEPT !.route = NoServers])
        ELSE [st EXCEPT !.route = c.map]

\* activate_routing without a name: for the active plan, if there is one.
Activate(st, user) == IF Has(st, "ACTIVE") THEN ActivatePlan(st, user) ELSE Deactivate(st)

-----------------------------------------------------------------------------
\* Mutant: the entry goes, its timer stays.
DeleteEntryOnly(st, s) == [st EXCEPT !.waiting = Without(@, {s})]

\* routing_delete_connect_timer: the entry and its timer go.
DeleteConnectTimer(st, s) == [st EXCEPT !.waiting = Without(@, {s}), !.timers = @ \ {s}]

\* routing_connect_server, for all of S, each to its uplink on the map.
ConnectServers(st, S) ==
    [st EXCEPT !.waiting = [s \in DOMAIN @ \union S |-> IF s \in S THEN st.route[s] ELSE @[s]],
               !.timers = @ \union S]

\* routing_connect_one.
ConnectOne(st, s) ==
    IF st.route = NONE THEN [st EXCEPT !.crashed = TRUE]
    ELSE IF s \in DOMAIN st.route /\ s \notin DOMAIN linked' /\ st.route[s] \in DOMAIN linked'
    THEN ConnectServers(st, {s}) ELSE st

\* routing_connect_children.
ConnectChildren(st, s) ==
    LET missing == {c \in DOMAIN st.route \ DOMAIN linked' : st.route[c] = s /\ s \in DOMAIN linked'}
    IN  IF st.route = NONE THEN [st EXCEPT !.crashed = TRUE]
        ELSE ConnectServers(st, missing)

\* routing_change_karma: a change of sign builds the map anew.
ChangeKarma(st, s, change) ==
    LET old == st.plan[s].karma
        sum == old + change
        new == IF sum < KARMA_MIN THEN KARMA_MIN ELSE IF sum > KARMA_MAX THEN KARMA_MAX ELSE sum
        set == [st EXCEPT !.plan[s].karma = new]
    IN  IF (old > 0 /\ new < 0) \/ (old < 0 /\ new > 0) THEN Activate(set, FALSE) ELSE set

\* routing_handle_neg_karma: the one whose primary uplink the other is pays.
NegKarma(st, s, uplink, change) ==
    IF ~Has(st, "ACTIVE") \/ st.plan = NONE THEN st
    ELSE IF s \in DOMAIN st.plan /\ st.plan[s].uplink = uplink THEN ChangeKarma(st, s, change)
    ELSE IF uplink \in DOMAIN st.plan /\ st.plan[uplink].uplink = s THEN ChangeKarma(st, uplink, change)
    ELSE st

\* routing_handle_connect_failure: src could not connect s.
ConnectFailure(st, src, s) ==
    LET del == DeleteConnectTimer(st, s)
        off == [del EXCEPT !.plan[s].offline = TRUE]
    IN  IF /\ Has(del, "ACTIVE") /\ del.plan # NONE /\ s \in DOMAIN del.plan
           /\ del.plan[s].uplink = src /\ ~del.plan[s].offline
        THEN IF del.plan[s].second # NONE THEN ConnectOne(Activate(off, FALSE), s) ELSE off
        ELSE del

\* routing_handle_connect for s alone.
Connected(st, s) ==
    LET del  == DeleteConnectTimer(st, s)
        on   == [del EXCEPT !.plan[s].offline = FALSE]
        back == IF ~del.plan[s].offline THEN del
                ELSE IF del.plan[s].second # NONE THEN Activate(on, FALSE) ELSE on
    IN  IF Has(del, "ACTIVE") /\ del.plan # NONE /\ s \in DOMAIN del.plan
        THEN ConnectChildren(back, s) ELSE del

\* reroute: what "C" or "N" looks at. The map is walked from its edge inwards and our
\* uplink, the innermost, is left out; without anything below it nothing is.
Considered(st) ==
    IF \E c \in DOMAIN st.route : st.route[c] = Uplink THEN DOMAIN st.route \ {Uplink} ELSE {}

Reroute(st, all) ==
    LET todo == {s \in Considered(st) :
                    /\ st.route[s] \in DOMAIN linked
                    /\ s \notin DOMAIN linked \/ (all /\ linked[s] # st.route[s])}
    IN  ConnectServers(st, todo)

-----------------------------------------------------------------------------
\* What the database may hold is reached by the commands, so it starts out empty.
Init ==
    /\ linked = [s \in {Uplink} |-> Services]
    /\ g = [plan |-> NONE, options |-> {}, route |-> NONE, waiting |-> NoServers, timers |-> {}, stale |-> {},
            rerouteTimer |-> FALSE, crashed |-> FALSE]

\* Once a timer is left over, only its firing is followed.
Run == ~g.crashed /\ g.stale = {}

\* The order in which a dictionary is walked.
Orders(S) == SetToSeqs(S)

AddPlan == Run /\ g.plan = NONE /\ g' = [g EXCEPT !.plan = NoServers] /\ UNCHANGED linked

DelPlan ==
    /\ Run /\ g.plan # NONE
    /\ LET d == [g EXCEPT !.plan = NONE] IN g' = IF Has(g, "ACTIVE") THEN Deactivate(d) ELSE d
    /\ UNCHANGED linked

AddServer(o) ==
    LET p == [uplink |-> o.uplink, second |-> o.second, karma |-> KARMA_MAX, offline |-> FALSE]
        a == [g EXCEPT !.plan = With(@, o.server, p)]
    IN  /\ Run /\ g.plan # NONE
        /\ g' = IF Has(g, "ACTIVE") THEN Activate(a, TRUE) ELSE a
        /\ UNCHANGED linked

DelServer(s) ==
    LET d == [g EXCEPT !.plan = Without(@, {s})]
    IN  /\ Run /\ g.plan # NONE /\ s \in DOMAIN g.plan
        /\ g' = IF Has(g, "ACTIVE") THEN Activate(d, TRUE) ELSE d
        /\ UNCHANGED linked

\* cmd_routing_set ACTIVE: a plan that cannot be centred on us is not made active.
SetActive(on) ==
    LET a == ActivatePlan(g, TRUE)
    IN  /\ Run /\ (on => g.plan # NONE)
        /\ g' = IF ~on THEN Deactivate(g)
                ELSE IF Empty(a) THEN a ELSE [a EXCEPT !.options = @ \union {"ACTIVE"}]
        /\ UNCHANGED linked

\* cmd_routing_set, reroute_timer_reset: when the period is set to 0 the old one, which is
\* not replaced yet, starts the timer once more.
SetOption(o, on) ==
    /\ Run
    /\ g' = [g EXCEPT
            !.options = IF on THEN @ \union {o} ELSE @ \ {o},
            !.rerouteTimer = IF o # "RETRY_PERIOD" THEN @
                             ELSE on \/ (~Empty(g) /\ Has(g, "RETRY_PERIOD"))]
    /\ UNCHANGED linked

CmdReroute(all) ==
    /\ Run /\ ~Empty(g)
    /\ g' = Reroute(g, all)
    /\ UNCHANGED linked

\* reroute_timer.
RerouteTimer ==
    /\ Run /\ g.rerouteTimer
    /\ g' = IF Empty(g) \/ ~Has(g, "RETRY_PERIOD") THEN [g EXCEPT !.rerouteTimer = FALSE]
            ELSE Reroute(g, FALSE)
    /\ UNCHANGED linked

\* routing_karma_timer: one for everyone, one more for those linked long enough.
KarmaTimer(long, order) ==
    LET Step(st, s) == LET one == ChangeKarma(st, s, 1)
                       IN  IF s \in long THEN ChangeKarma(one, s, 1) ELSE one
    IN  /\ Run /\ ~Empty(g) /\ Has(g, "ACTIVE") /\ g.plan # NONE
        /\ long \subseteq DOMAIN linked
        /\ order \in Orders(DOMAIN g.plan)
        /\ g' = FoldLeft(Step, g, order)
        /\ UNCHANGED linked

\* cmd_eob of our uplink: routing_init.
RoutingInit ==
    LET a == Activate(g, FALSE)
    IN  /\ Run
        /\ g' = [a EXCEPT !.rerouteTimer = ~Empty(a) /\ Has(a, "RETRY_PERIOD")]
        /\ UNCHANGED linked

\* A server is announced; what it brings along comes before its own END_OF_BURST.
Link(s, to) ==
    /\ Run /\ s \notin DOMAIN linked /\ to \in DOMAIN linked
    /\ linked' = With(linked, s, to)
    /\ UNCHANGED g

\* cmd_eob, routing_handle_connect: for the server, then for each behind it.
EndOfBurst(s, order) ==
    LET behind == {c \in DOMAIN linked : s \in Above(linked, c)}
    IN  /\ Run /\ s \in DOMAIN linked \ {Uplink}
        /\ order \in Orders(behind)
        /\ \A i, j \in DOMAIN order : order[j] \in Above(linked, order[i]) => j < i
        /\ UNCHANGED linked
        /\ g' = FoldLeft(Connected, Connected(g, s), order)

\* cmd_squit, routing_handle_squit.
Squit(s, why) ==
    LET change == CASE why = "Ping timeout" -> KARMA_PINGOUT
                    [] why = "Read error"   -> KARMA_READERROR
        option == IF why = "Ping timeout" THEN "CONN_PINGOUT" ELSE "CONN_READERROR"
        neg    == NegKarma(g, s, linked[s], change)
    IN  /\ Run /\ s \in DOMAIN linked \ {Uplink}
        /\ linked' = Without(linked, {s} \union {c \in DOMAIN linked : s \in Above(linked, c)})
        /\ g' = IF why = "oper" THEN g
                ELSE IF Has(g, option) THEN ConnectOne(neg, s) ELSE neg

\* cmd_notice from a server: a link we asked for failed.
ConnectNotice(src, s) ==
    /\ Run /\ src \in DOMAIN linked
    /\ UNCHANGED linked
    /\ g' = ConnectFailure(g, src, s)

\* routing_connect_timeout. routing_handle_connect_failure frees the waitingConnection, and
\* with it the name that it and the caller go on using: the name is still there (intact),
\* or it is not and nothing is found under it. What was inserted under it meanwhile is
\* removed, and its timer stays.
ConnectTimeout(s, intact) ==
    LET target == g.waiting[s]
        fail   == ConnectFailure(g, target, s)
        lost   == DeleteConnectTimer(g, s)
    IN  /\ Run /\ s \in DOMAIN g.waiting
        /\ UNCHANGED linked
        /\ g' = IF target \notin DOMAIN linked \/ ~intact THEN lost
                ELSE [fail EXCEPT !.waiting = Without(@, {s}), !.timers = @ \ {s},
                                  !.stale = IF s \in DOMAIN fail.waiting THEN @ \union {s} ELSE @]

\* A timer whose waitingConnection was freed.
StaleTimeout(s) ==
    /\ s \in g.stale
    /\ g' = [g EXCEPT !.stale = @ \ {s}, !.crashed = TRUE]
    /\ UNCHANGED linked

Next ==
    \/ AddPlan \/ DelPlan \/ RerouteTimer \/ RoutingInit
    \/ \E o \in Offers : AddServer(o)
    \/ \E on \in BOOLEAN :
        \/ SetActive(on) \/ CmdReroute(on)
        \/ \E o \in Options : SetOption(o, on)
    \/ \E long \in SUBSET DOMAIN linked, order \in Orders(IF g.plan = NONE THEN {} ELSE DOMAIN g.plan) :
        KarmaTimer(long, order)
    \/ \E s \in Servers :
        \/ DelServer(s) \/ StaleTimeout(s)
        \/ \E to \in Servers : Link(s, to) \/ ConnectNotice(to, s)
        \/ \E order \in Orders({c \in DOMAIN linked : s \in Above(linked, c)}) : EndOfBurst(s, order)
        \/ \E why \in {"Ping timeout", "Read error", "oper"} : Squit(s, why)
        \/ \E intact \in BOOLEAN : ConnectTimeout(s, intact)

Spec == Init /\ [][Next]_vars

-----------------------------------------------------------------------------
\* However the commands and the karma of servers make a plan, turning it round keeps who
\* hangs together, and unless the plan runs in circles our uplink ends up hanging from us
\* (change_route_uplinks).
MapTurned ==
    g.plan # NONE =>
        LET map      == [s \in DOMAIN g.plan |-> Chosen(g, s)]
            c        == Centred(map)
            Inner(m) == {{s, m[s]} : s \in {t \in DOMAIN m : m[t] \in DOMAIN m}}
        IN  c.ok => /\ Inner(c.map) = Inner(map)
                    /\ (\A s \in DOMAIN c.map : s \notin Above(c.map, s)) => c.map[Uplink] = Services

\* A connection is waited for exactly while its timer is queued, however attempts are begun
\* twice, answered late, given up or overtaken by the server (routing_connect_server: "Just
\* to make sure there isn't one left hanging").
WaitTimed == DOMAIN g.waiting = g.timers

\* routing_connect_timeout says of its last line "the following invalidates server
\* variable!" (opserv.c:3506), as if nothing before it did: no timer is left whose
\* waitingConnection is gone.
NoStaleTimer == g.stale = {}
=============================================================================
