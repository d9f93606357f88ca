------------------------------ MODULE Uplinks -------------------------------
(***************************************************************************)
(* The connection to the network: the list of uplinks and the choice among *)
(* them (src/src/main-common.c, uplink_insert to uplink_connect), the one  *)
(* socket (src/src/proto-common.c) and the pings that watch it.  The event *)
(* loop calls uplink_connect as long as there is no socket, so that timers *)
(* run and messages arrive only while there is one.                        *)
(***************************************************************************)
EXTENDS Integers, Sequences, FiniteSets, Bags

CONSTANTS
    Order,          \* the uplinks in the order of cManager.uplinks
    MaxTries,       \* max_tries of each
    max_cycles,     \* server/max_cycles; 0: no limit
    ping_freq, ping_timeout,
    MaxPings, MaxUplinkTime

\* The list has an entry (uplink_compile gives up without one).
ASSUME OrderListed == Order \in Seq({Order[i] : i \in DOMAIN Order}) \ {<<>>}

VARIABLES
    enabled,        \* uplinks the configuration enables
    node,           \* uplink to [state, tries, unavailable]
    uplink,         \* cManager.uplink
    cycles,         \* cManager.cycles
    socket,         \* socket_io_fd is there
    pings,          \* bag of queued timed_send_ping and timed_ping_timeout
    exited, uplinkNow

uplinkVars == <<enabled, node, uplink, cycles, socket, pings, exited, uplinkNow>>

UplinkNames == {Order[i] : i \in DOMAIN Order}
Fresh(on) == [n \in UplinkNames |-> [state |-> "DISCONNECTED", tries |-> 0, unavailable |-> n \notin on]]

-----------------------------------------------------------------------------
\* What uplink_select reads and writes of cManager; exited stands for exit(1).
Manager == [uplink |-> uplink, cycles |-> cycles, exited |-> exited]
Manages(m) == uplink' = m.uplink /\ cycles' = m.cycles /\ exited' = m.exited

\* The list from the entry after the current one, once round.
Round(current) ==
    LET start == IF current = "none" THEN 1 ELSE ((CHOOSE i \in DOMAIN Order : Order[i] = current) % Len(Order)) + 1
    IN  [k \in 1 .. Len(Order) |-> Order[((start + k - 2) % Len(Order)) + 1]]

Usable(nodes, n, name) == ~nodes[n].unavailable /\ (name = "any" \/ n = name)

\* Mutant: the list is searched to its end and not from its beginning again.
ToTheEnd(current, nodes, name) ==
    {k \in 1 .. Len(Order) : Usable(nodes, Round(current)[k], name) /\ \A j \in 2 .. k : Round(current)[j] # Order[1]}

\* uplink_select: the entries of the round that could be taken.
Candidates(current, nodes, name) ==
    {k \in 1 .. Len(Order) : Usable(nodes, Round(current)[k], name)}

\* uplink_select, for the nodes as they are by then; a round to its last entry is a cycle.
uplink_select(m, nodes, name) ==
    LET found == Candidates(m.uplink, nodes, name)
        k     == CHOOSE i \in found : \A j \in found : i <= j
        whole == found = {} \/ k = Len(Order)
        turns == IF whole THEN m.cycles + 1 ELSE m.cycles
        over  == whole /\ max_cycles > 0 /\ turns >= max_cycles
        stuck == found = {} /\ (m.uplink = "none" \/ nodes[m.uplink].unavailable)
    IN  IF enabled = {} THEN [m EXCEPT !.exited = TRUE]
        ELSE [uplink |-> IF over \/ found = {} THEN m.uplink ELSE Round(m.uplink)[k],
              cycles |-> turns,
              exited |-> over \/ stuck]

\* uplink_compile at the start.
UplinkInit ==
    /\ enabled \in SUBSET UplinkNames /\ enabled # {}
    /\ node = Fresh(enabled)
    /\ uplink = Order[CHOOSE i \in DOMAIN Order : Order[i] \in enabled /\ \A j \in 1 .. i - 1 : Order[j] \notin enabled]
    /\ cycles = IF uplink = Order[Len(Order)] THEN 1 ELSE 0
    /\ socket = FALSE /\ pings = EmptyBag
    /\ exited = FALSE /\ uplinkNow = 0

-----------------------------------------------------------------------------
Ping(kind, delay) == SetToBag({[kind |-> kind, when |-> uplinkNow + delay]})

\* create_socket_client and irc_introduce: any ping that is queued stays.
Connected(nodes, n) ==
    /\ socket' = TRUE
    /\ node' = [nodes EXCEPT ![n].state = "AUTHENTICATING", ![n].tries = 0]
    /\ pings' = pings (+) Ping("timed_send_ping", ping_freq)

\* uplink_connect: an unavailable uplink first gives way to another.
Attempted == IF node[uplink].unavailable THEN uplink_select(Manager, node, "any") ELSE Manager

\* uplink_connect, when the connection comes up.
ConnectOk ==
    /\ ~socket /\ node[uplink].state = "DISCONNECTED"
    /\ BagCardinality(pings) < MaxPings
    /\ ~Attempted.exited
    /\ Manages(Attempted) /\ Connected(node, Attempted.uplink)
    /\ UNCHANGED <<enabled, uplinkNow>>

\* create_socket_client, when it fails; a wrong certificate is no try.
Failed(n, counted) ==
    [node EXCEPT ![n] = [state |-> "DISCONNECTED", tries |-> IF counted THEN @.tries + 1 ELSE @.tries,
                         unavailable |-> @.unavailable]]

\* uplink_connect, when it does not: the uplink that was tried, perhaps only just selected, may
\* have used up its tries, and another is selected. There may be none to try in the first place.
ConnectFails(counted) ==
    LET m     == Attempted
        tried == Failed(m.uplink, counted)
        bad   == MaxTries > 0 /\ tried[m.uplink].tries >= MaxTries
        after == IF bad THEN [tried EXCEPT ![m.uplink].unavailable = TRUE] ELSE tried
    IN  /\ ~socket /\ node[uplink].state = "DISCONNECTED"
        /\ UNCHANGED <<enabled, socket, pings, uplinkNow>>
        /\ IF m.exited THEN Manages(m) /\ UNCHANGED node
           ELSE node' = after /\ Manages(IF bad THEN uplink_select(m, after, "any") ELSE m)

-----------------------------------------------------------------------------
\* close_socket and socket_destroyed: it is the current uplink that is marked.
Closed(nodes, n) ==
    /\ socket' = FALSE
    /\ node' = [nodes EXCEPT ![n].state = "DISCONNECTED"]

UplinkKept == UNCHANGED <<enabled, uplink, cycles, exited, uplinkNow>>

State(s) == node' = [node EXCEPT ![uplink].state = s] /\ UNCHANGED <<socket, pings>> /\ UplinkKept

cmd_pass == socket /\ State("BURSTING")
cmd_eob == socket /\ State("CONNECTED")

\* irc_squit of ourselves, from cmd_pass, cmd_squit, timed_ping_timeout and DIE.
irc_squit ==
    /\ socket
    /\ Closed([node EXCEPT ![uplink].tries = 0], uplink)
    /\ UNCHANGED pings /\ UplinkKept

\* uplink_readable at the end of the connection.
ConnectionLost == socket /\ Closed(node, uplink) /\ UNCHANGED pings /\ UplinkKept

cmd_error ==
    /\ socket
    /\ Closed(IF node[uplink].state = "CONNECTED" THEN node ELSE [node EXCEPT ![uplink].unavailable = TRUE], uplink)
    /\ UNCHANGED pings /\ UplinkKept

\* cmd_ping, cmd_pong.
cmd_pong ==
    /\ socket
    /\ pings' = Ping("timed_send_ping", ping_freq)
    /\ cycles' = 0
    /\ UNCHANGED <<enabled, node, uplink, socket, exited, uplinkNow>>

timed_send_ping(p) ==
    /\ socket /\ BagIn(p, pings) /\ p.kind = "timed_send_ping" /\ p.when <= uplinkNow
    /\ pings' = (pings (-) SetToBag({p})) (+) Ping("timed_ping_timeout", ping_timeout)
    /\ UNCHANGED <<node, socket>> /\ UplinkKept

timed_ping_timeout(p) ==
    /\ socket /\ BagIn(p, pings) /\ p.kind = "timed_ping_timeout" /\ p.when <= uplinkNow
    /\ pings' = pings (-) SetToBag({p})
    /\ Closed([node EXCEPT ![uplink].tries = 0], uplink)
    /\ UplinkKept

\* cmd_jump of OpServ: the new uplink is selected first, so it is the one that is marked.
cmd_jump(n) ==
    /\ socket /\ node[uplink].state = "CONNECTED"
    /\ n # uplink /\ ~node[n].unavailable
    /\ UNCHANGED <<enabled, pings, uplinkNow>>
    /\ LET m == uplink_select(Manager, node, n)
       IN  /\ Manages(m)
           /\ IF m.exited THEN UNCHANGED <<node, socket>> ELSE Closed([node EXCEPT ![m.uplink].tries = 0], m.uplink)

\* uplink_compile at a rehash: the current uplink is carried over if it is still enabled;
\* otherwise the connection is closed through the node that was just freed.
uplink_compile(on) ==
    /\ socket
    /\ enabled' = on
    /\ UNCHANGED <<pings, uplinkNow>>
    /\ IF uplink \in on
       THEN /\ node' = [Fresh(on) EXCEPT ![uplink] = [node[uplink] EXCEPT !.unavailable = FALSE]]
            /\ UNCHANGED <<uplink, cycles, socket, exited>>
       ELSE /\ node' = Fresh(on) /\ socket' = FALSE
            /\ IF on = {} THEN exited' = TRUE /\ UNCHANGED <<uplink, cycles>>
               ELSE LET i == CHOOSE j \in DOMAIN Order : Order[j] \in on /\ \A k \in 1 .. j - 1 : Order[k] \notin on
                        turns == IF i = Len(Order) THEN cycles + 1 ELSE cycles
                    IN  /\ cycles' = turns
                        /\ exited' = (i = Len(Order) /\ max_cycles > 0 /\ turns >= max_cycles)
                        /\ uplink' = IF exited' THEN uplink ELSE Order[i]

UplinkTick ==
    /\ uplinkNow < MaxUplinkTime
    /\ socket => \A p \in BagToSet(pings) : p.when > uplinkNow
    /\ uplinkNow' = uplinkNow + 1
    /\ UNCHANGED <<enabled, node, uplink, cycles, socket, pings, exited>>

UplinkNext ==
    /\ ~exited
    /\ \/ ConnectOk
       \/ \E counted \in BOOLEAN : ConnectFails(counted)
       \/ cmd_pass \/ cmd_eob \/ irc_squit \/ ConnectionLost \/ cmd_error \/ cmd_pong
       \/ \E p \in BagToSet(pings) : timed_send_ping(p) \/ timed_ping_timeout(p)
       \/ \E n \in UplinkNames : cmd_jump(n)
       \/ \E on \in SUBSET UplinkNames : uplink_compile(on)
       \/ UplinkTick

UplinkSpec == UplinkInit /\ [][UplinkNext]_uplinkVars

-----------------------------------------------------------------------------
\* Services give up only when no enabled uplink is left to try or the list was gone round
\* too often without a ping (uplink_select), and while there is a socket the current uplink
\* does not pass for disconnected, so that putsock sends (uplink_connect, uplink_insert).
GivesUpLast ==
    /\ exited => \/ \A n \in enabled : node[n].unavailable
                 \/ max_cycles > 0 /\ cycles >= max_cycles
    /\ ~exited /\ socket => node[uplink].state # "DISCONNECTED"

\* "Ping state is kept in the timeq (only one of these two can be in the queue at any given
\* time)." (timed_send_ping, timed_ping_timeout.)
OnePing == BagCardinality(pings) <= 1

\* Without a socket the current uplink can be tried (uplink_connect tests its state).
CanReconnect == ~socket /\ ~exited => node[uplink].state = "DISCONNECTED"
=============================================================================
