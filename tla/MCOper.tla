------------------------------- MODULE MCOper --------------------------------
(* OpServ in three parts, its channels and automatic routing.  They share     *)
(* nothing here but the event loop, so every behaviour explores one of them,  *)
(* named by "part", while the other variables keep their first values.  The   *)
(* gags are module OpServ itself and the channels module OpChannels, the      *)
(* other parts are instances.                                                 *)
EXTENDS OpChannels, TLC

CONSTANT none

VARIABLE part
VARIABLES linked, g

routingVars == <<linked, g>>
MCvars == <<part, now, opVars, chVars, routingVars>>

-----------------------------------------------------------------------------
\* The constants of the gags that overlap, by mask and by TRACE.
Ips2 == {"i1", "i2"}
GagMasks == {[nicks |-> {"n1"}, ips |-> Ips2], [nicks |-> {"n1", "n2"}, ips |-> Ips2]}
GagDiscrims == {[nicks |-> {"n1"}, ips |-> Ips2, min_clones |-> 0, match_opers |-> FALSE, match_trusted |-> FALSE]}
Calm == [l \in {5} |-> {}]
Restricted == (5 :> {}) @@ (3 :> {"FORCE_CHAN_MODES", "REDUCE_SESSION"})
                        @@ (2 :> {"GLINE_NEW_CLIENTS"}) @@ (1 :> {"NO_NEW_CLIENTS", "FORCE_CHAN_MODES"})

Default == {[level |-> 5, timeout |-> 900]}

\* An alert on a nick, with and without an end.
OpAlerts == INSTANCE OpServ WITH
    Users <- {"u1"}, Opers <- {}, Nicks <- {"n1", "n2"}, Ips <- Ips2, Masks <- {},
    AlertNames <- {"a1"}, Limits <- {}, DefCon <- Calm, untrusted_max <- 1, DefConSessionLimit <- 1,
    Configs <- Default, MaxTimeouts <- 1, MaxTime <- 3,
    Discrims <- {[nicks |-> {"n1"}, ips |-> Ips2, min_clones |-> 0, match_opers |-> FALSE, match_trusted |-> FALSE]}
\* Clones, trusted hosts, an oper, and DEFCON.
OpTrust == INSTANCE OpServ WITH
    Users <- {"u1", "o1"}, Opers <- {"o1"}, Nicks <- {"n1", "n2"}, Ips <- {"i1"}, Masks <- {},
    AlertNames <- {}, Limits <- {0, 1}, DefCon <- Restricted, untrusted_max <- 1, DefConSessionLimit <- 1,
    Configs <- {[level |-> 5, timeout |-> 900], [level |-> 3, timeout |-> 0]}, MaxTimeouts <- 2, MaxTime <- 2,
    Discrims <- {[nicks |-> {"n1", "n2"}, ips |-> {"i1"}, min_clones |-> 2, match_opers |-> FALSE, match_trusted |-> FALSE]}

\* Our uplink u and two more servers, of which a has a second uplink.
Route == INSTANCE Routing WITH
    Servers <- {"a", "b", "u"}, Services <- "x", Uplink <- "u",
    Offers <- {[server |-> "u", uplink |-> "b", second |-> none], [server |-> "u", uplink |-> "a", second |-> none],
               [server |-> "a", uplink |-> "b", second |-> "u"]},
    Options <- {"KARMA", "CONN_PINGOUT", "RETRY_PERIOD"},
    KARMA_MAX <- 1, KARMA_MIN <- -1, KARMA_PINGOUT <- -2, KARMA_READERROR <- -1, NONE <- none

-----------------------------------------------------------------------------
MCInit ==
    /\ part \in {"gags", "alerts", "trust", "channels", "routing"}
    /\ Init /\ ChannelsInit /\ Route!Init

NextOper ==
    /\ \/ part = "gags" /\ Next
       \/ part = "alerts" /\ OpAlerts!Next
       \/ part = "trust" /\ OpTrust!Next
    /\ UNCHANGED <<part, chVars, routingVars>>

NextChannels == part = "channels" /\ ChannelsNext /\ UNCHANGED <<part, now, opVars, routingVars>>
NextRouting == part = "routing" /\ Route!Next /\ UNCHANGED <<part, now, opVars, chVars>>

MCNext == NextOper \/ NextChannels \/ NextRouting

MCSpec == MCInit /\ [][MCNext]_MCvars

-----------------------------------------------------------------------------
\* Every attempt to connect a server has its timeout, and the active map hangs together under our
\* uplink whatever was turned around (routing_connect_server, change_route_uplinks).
RoutesSound == Route!WaitTimed /\ Route!MapTurned
=============================================================================
