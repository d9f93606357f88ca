------------------------------- MODULE OpServ -------------------------------
(***************************************************************************)
(* What OpServ (src/src/opserv.c) does to users: alerts, gags, the count   *)
(* of clients per address with its trusted hosts, DEFCON, and TRACE.       *)
(* A mask is the nicks and addresses that match it; a discrim is a mask    *)
(* with the other criteria that matter (clones, opers, trusted hosts).     *)
(* G-lines and shuns go to the module Gline; here only the order to issue  *)
(* one is kept.  Bursts, flood warnings and replies are left out.          *)
(***************************************************************************)
EXTENDS Integers, FiniteSets

CONSTANTS
    Users, Opers, Nicks, Ips,
    Masks,              \* what GAG may be given: [nicks, ips]
    AlertNames,
    Discrims,           \* criteria: [nicks, ips, min_clones, match_opers, match_trusted]
    Limits,             \* what ADDTRUST may be given
    DefCon,             \* flags of each DEFCON level; level 5 has none
    untrusted_max, DefConSessionLimit,
    Configs,            \* what the configuration may say of DEFCON: [level, timeout]
    MaxTimeouts,        \* bound on the queued timeouts of DEFCON
    MaxTime             \* bound on the clock

VARIABLES
    now,
    clients,            \* the users that are online: [nick, ip]
    gagged,             \* those with FLAGS_GAGGED
    gagList,            \* mask to the time it expires, 0 for never
    alerts,             \* opserv_user_alerts: name to [discrim, reaction, expire]
    hosts,              \* opserv_hostinfo_dict: address to its clients
    trusted,            \* opserv_trusted_hosts: address to [limit, expires]
    gagTimers, alertTimers, trustTimers,    \* queued callbacks: <<when, for what>>
    DefConLevel, DefConModesSet, DefConTimeOut,
    defconTimers,       \* how often defcon_timeout is queued
    untimed,            \* history: the level was last put in force without any timeout
    blocked             \* addresses a G-line or shun was ordered for

opVars == <<clients, gagged, gagList, alerts, hosts, trusted, gagTimers, alertTimers, trustTimers,
            DefConLevel, DefConModesSet, DefConTimeOut, defconTimers, untimed, blocked>>
vars == <<now, opVars>>

Reactions == {"kill", "block", "notice"}    \* block: gline, shun, tempshun; notice: all that let matching go on
Nothing == [x \in {} |-> 0]
Put(f, x, y) == [z \in DOMAIN f \union {x} |-> IF z = x THEN y ELSE f[z]]
Drop(f, x) == [z \in DOMAIN f \ {x} |-> f[z]]

\* The shape of OpServ's tables.
TypeOK ==
    /\ DOMAIN clients \subseteq Users /\ gagged \subseteq Users
    /\ \A u \in DOMAIN clients : clients[u] \in [nick : Nicks, ip : Ips]
    /\ \A m \in DOMAIN gagList : gagList[m] \in Nat
    /\ \A a \in DOMAIN alerts : alerts[a] \in [discrim : Discrims, reaction : Reactions, expire : Nat]
    /\ \A i \in DOMAIN hosts : hosts[i] \subseteq Users /\ hosts[i] # {}
    /\ \A i \in DOMAIN trusted : trusted[i] \in [limit : Limits, expires : Nat]
    /\ DefConLevel \in DOMAIN DefCon /\ DefConModesSet \in BOOLEAN /\ untimed \in BOOLEAN
    /\ DefConTimeOut \in Nat /\ defconTimers \in Nat

Init ==
    /\ now = 1
    /\ clients = Nothing /\ gagged = {} /\ gagList = Nothing /\ alerts = Nothing
    /\ hosts = Nothing /\ trusted = Nothing
    /\ gagTimers = {} /\ alertTimers = {} /\ trustTimers = {}
    /\ \E conf \in Configs : DefConLevel = conf.level /\ DefConTimeOut = conf.timeout
    /\ DefConModesSet = FALSE /\ defconTimers = 0 /\ untimed = FALSE
    /\ blocked = {}

Matches(mask, c) == c.nick \in mask.nicks /\ c.ip \in mask.ips
Covers(m, n) == n.nicks \subseteq m.nicks /\ n.ips \subseteq m.ips
checkDefCon(flag) == flag \in DefCon[DefConLevel]

\* discrim_match.
discrim_match(d, c) ==
    /\ Matches(d, c)
    /\ d.min_clones > 1 => c.ip \in DOMAIN hosts /\ Cardinality(hosts[c.ip]) >= d.min_clones

\* is_oper_victim, by address when nobody asks for opers, and is_trust_victim.
is_oper_victim(d, u) ==
    \/ d.match_opers
    \/ u \notin Opers /\ \A o \in Opers \intersect DOMAIN clients : clients[o].ip # clients[u].ip
is_trust_victim(d, c) == d.match_trusted \/ c.ip \notin DOMAIN trusted

\* opserv_discrim_search: a search for one address looks among the clients counted for it.
Searched(m) ==
    {u \in DOMAIN clients :
        Cardinality(m.ips) = 1 /\ m.ips # Ips
            => clients[u].ip \in DOMAIN hosts /\ u \in hosts[clients[u].ip]}
Found(d) == {u \in Searched(d) : discrim_match(d, clients[u])}

\* gag_helper_func spares opers; foreach_matching_user finds whom a gag is for.
Gaggable(S) == S \ Opers
GagHits(m) == {u \in Searched(m) : Matches(m, clients[u])}

-----------------------------------------------------------------------------
\* Mutant: a client killed by an alert of ours stays in the count.
CleanupLazy(u) ==
    LET ip == clients[u].ip
    IN  IF ip \in DOMAIN hosts /\ hosts[ip] = {u} THEN Drop(hosts, ip) ELSE hosts

\* opserv_user_cleanup.
Cleanup(u) ==
    LET ip == clients[u].ip
    IN  IF ip \notin DOMAIN hosts THEN hosts
        ELSE IF hosts[ip] \subseteq {u} THEN Drop(hosts, ip)
        ELSE [hosts EXCEPT ![ip] = @ \ {u}]

\* DelUser.
Gone(u) ==
    /\ clients' = Drop(clients, u)
    /\ gagged' = gagged \ {u}
    /\ hosts' = Cleanup(u)

\* alert_check_user: the alerts of A that c sets off, in the dictionary's order (the order
\* of names, and a choice here), up to the first that ends the matching.
Triggered(A, u, c) ==
    {a \in A : /\ discrim_match(alerts[a].discrim, c)
               /\ \/ alerts[a].reaction = "notice"
                  \/ /\ u \notin Opers \/ alerts[a].discrim.match_opers
                     /\ is_trust_victim(alerts[a].discrim, c)}
Verdicts(A, u, c) ==
    LET halting == {alerts[a].reaction : a \in Triggered(A, u, c)} \ {"notice"}
    IN  IF halting = {} THEN {"none"} ELSE halting

\* opserv_new_user_check, once no alert has stopped it.
LetIn(u, c) ==
    LET counted == IF c.ip \in DOMAIN hosts THEN hosts[c.ip] \union {u} ELSE {u}
        limit   == IF c.ip \in DOMAIN trusted THEN trusted[c.ip].limit
                   ELSE IF checkDefCon("REDUCE_SESSION") THEN DefConSessionLimit ELSE untrusted_max
        clones  == untrusted_max # 0 /\ limit # 0 /\ Cardinality(counted) > limit
        defcon  == checkDefCon("GLINE_NEW_CLIENTS") /\ u \notin Opers
    IN  IF checkDefCon("NO_NEW_CLIENTS") THEN UNCHANGED <<clients, gagged, hosts, blocked>>
        ELSE /\ clients' = Put(clients, u, c)
             /\ gagged' = IF \E m \in DOMAIN gagList : Matches(m, c)
                          THEN gagged \union Gaggable({u}) ELSE gagged
             /\ hosts' = Put(hosts, c.ip, counted)
             /\ blocked' = IF defcon \/ clones THEN blocked \union {c.ip} ELSE blocked

UserState == <<clients, gagged, hosts, blocked>>
Lists == <<gagList, alerts, trusted, gagTimers, alertTimers, trustTimers>>
DefConState == <<DefConLevel, DefConModesSet, DefConTimeOut, defconTimers, untimed>>

\* A client connects: alerts first, and one that stops the matching stops the rest.
opserv_new_user_check(u, c) ==
    /\ u \notin DOMAIN clients
    /\ \A v \in DOMAIN clients : clients[v].nick # c.nick
    /\ \E verdict \in Verdicts(DOMAIN alerts, u, c) :
        CASE verdict = "kill"  -> UNCHANGED UserState
          [] verdict = "block" -> /\ clients' = Put(clients, u, c)
                                  /\ blocked' = blocked \union {c.ip}
                                  /\ UNCHANGED <<gagged, hosts>>
          [] verdict = "none"  -> LetIn(u, c)
    /\ UNCHANGED <<now, Lists, DefConState>>

opserv_user_cleanup(u) ==
    /\ u \in DOMAIN clients
    /\ Gone(u)
    /\ UNCHANGED <<now, Lists, DefConState, blocked>>

\* Mutant: the flag is only ever added.
Regag(u, c) ==
    IF \E m \in DOMAIN gagList : Matches(m, c) THEN gagged \union Gaggable({u}) ELSE gagged

\* The gags that hold for u under its new nick, "and only if".
GagAnew(u, c) ==
    IF \E m \in DOMAIN gagList : Matches(m, c) THEN gagged \union Gaggable({u}) ELSE gagged \ {u}

\* opserv_alert_check_nick: alerts on nicks, then the gags.
opserv_alert_check_nick(u, nick) ==
    LET c == [clients[u] EXCEPT !.nick = nick]
    IN  /\ u \in DOMAIN clients
        /\ \A v \in DOMAIN clients : clients[v].nick # nick
        /\ \E verdict \in Verdicts({a \in DOMAIN alerts : alerts[a].discrim.nicks # Nicks}, u, c) :
            IF verdict = "kill" THEN Gone(u) /\ UNCHANGED blocked
            ELSE /\ clients' = Put(clients, u, c)
                 /\ gagged' = GagAnew(u, c)
                 /\ blocked' = IF verdict = "block" THEN blocked \union {c.ip} ELSE blocked
                 /\ UNCHANGED hosts
        /\ UNCHANGED <<now, Lists, DefConState>>

-----------------------------------------------------------------------------
\* gag_create.
GagCreate(m, expires) ==
    /\ gagList' = Put(gagList, m, expires)
    /\ gagTimers' = IF expires = 0 THEN gagTimers ELSE gagTimers \union {<<expires, m>>}
    /\ gagged' = gagged \union Gaggable(GagHits(m))

\* gag_free: those it matches are free, whatever other gags say.
GagFree(m) ==
    /\ gagList' = Drop(gagList, m)
    /\ gagged' = gagged \ GagHits(m)

cmd_gag(m, duration) ==
    /\ \A g \in DOMAIN gagList : ~Covers(g, m)
    /\ GagCreate(m, IF duration = 0 THEN 0 ELSE now + duration)
    /\ UNCHANGED <<now, clients, alerts, hosts, trusted, alertTimers, trustTimers, DefConState, blocked>>

\* Mutant: the timer stays.
UngagLazy(m) ==
    /\ m \in DOMAIN gagList
    /\ GagFree(m)
    /\ UNCHANGED <<now, clients, alerts, hosts, trusted, gagTimers, alertTimers, trustTimers, DefConState, blocked>>

cmd_ungag(m) ==
    /\ m \in DOMAIN gagList
    /\ gagTimers' = gagTimers \ {<<gagList[m], m>>}
    /\ GagFree(m)
    /\ UNCHANGED <<now, clients, alerts, hosts, trusted, alertTimers, trustTimers, DefConState, blocked>>

gag_expire(t) ==
    /\ t \in gagTimers /\ t[1] <= now
    /\ gagTimers' = gagTimers \ {t}
    /\ GagFree(t[2])
    /\ UNCHANGED <<now, clients, alerts, hosts, trusted, alertTimers, trustTimers, DefConState, blocked>>

-----------------------------------------------------------------------------
\* cmd_addalert, opserv_add_user_alert.
cmd_addalert(a, d, reaction, duration) ==
    LET expire == IF duration = 0 THEN 0 ELSE now + duration
    IN  /\ a \notin DOMAIN alerts
        /\ alerts' = Put(alerts, a, [discrim |-> d, reaction |-> reaction, expire |-> expire])
        /\ alertTimers' = IF expire = 0 THEN alertTimers ELSE alertTimers \union {<<expire, a>>}
        /\ UNCHANGED <<now, UserState, gagList, trusted, gagTimers, trustTimers, DefConState>>

\* delete_alert for DELALERT: the timer is left, and the name it points to is freed.
cmd_delalert(a) ==
    /\ a \in DOMAIN alerts
    /\ alerts' = Drop(alerts, a)
    /\ UNCHANGED <<now, UserState, gagList, trusted, gagTimers, alertTimers, trustTimers, DefConState>>

\* Mutant: the alert of that name goes, whichever it is.
AlertExpireBlind(t, seen) ==
    /\ t \in alertTimers /\ t[1] <= now
    /\ alertTimers' = alertTimers \ {t}
    /\ alerts' = IF seen /\ t[2] \in DOMAIN alerts THEN Drop(alerts, t[2]) ELSE alerts
    /\ UNCHANGED <<now, UserState, gagList, trusted, gagTimers, trustTimers, DefConState>>

\* alert_expire: when the alert the timer was for is gone, the freed name may still read as
\* it did (seen) or not.
alert_expire(t, seen) ==
    LET a    == t[2]
        live == a \in DOMAIN alerts /\ alerts[a].expire = t[1]
    IN  /\ t \in alertTimers /\ t[1] <= now
        /\ live => seen
        /\ alertTimers' = alertTimers \ {t}
        /\ alerts' = IF /\ seen /\ a \in DOMAIN alerts
                        /\ alerts[a].expire > 0 /\ alerts[a].expire <= now
                     THEN Drop(alerts, a) ELSE alerts
        /\ UNCHANGED <<now, UserState, gagList, trusted, gagTimers, trustTimers, DefConState>>

-----------------------------------------------------------------------------
\* opserv_add_trusted_host.
AddTrusted(ip, limit, expires) ==
    /\ trusted' = Put(trusted, ip, [limit |-> limit, expires |-> expires])
    /\ trustTimers' = (IF ip \in DOMAIN trusted THEN trustTimers \ {<<trusted[ip].expires, ip>>} ELSE trustTimers)
                        \union (IF expires = 0 THEN {} ELSE {<<expires, ip>>})

OnlyTrust == UNCHANGED <<now, UserState, gagList, alerts, gagTimers, alertTimers, DefConState>>

cmd_addtrust(ip, limit, duration) ==
    /\ ip \notin DOMAIN trusted
    /\ AddTrusted(ip, limit, IF duration = 0 THEN 0 ELSE now + duration)
    /\ OnlyTrust

\* Mutant: the old timer stays.
EditTrustLazy(ip, limit, duration) ==
    /\ ip \in DOMAIN trusted
    /\ trusted' = [trusted EXCEPT ![ip] = [limit |-> limit, expires |-> IF duration = 0 THEN 0 ELSE now + duration]]
    /\ trustTimers' = IF duration = 0 THEN trustTimers ELSE trustTimers \union {<<now + duration, ip>>}
    /\ OnlyTrust

cmd_edittrust(ip, limit, duration) ==
    /\ ip \in DOMAIN trusted
    /\ AddTrusted(ip, limit, IF duration = 0 THEN 0 ELSE now + duration)
    /\ OnlyTrust

cmd_deltrust(ip) ==
    /\ ip \in DOMAIN trusted
    /\ trustTimers' = trustTimers \ {<<trusted[ip].expires, ip>>}
    /\ trusted' = Drop(trusted, ip)
    /\ OnlyTrust

opserv_expire_trusted_host(t) ==
    /\ t \in trustTimers /\ t[1] <= now
    /\ trustTimers' = trustTimers \ {t}
    /\ trusted' = Drop(trusted, t[2])
    /\ OnlyTrust

-----------------------------------------------------------------------------
\* cmd_block, opserv_block: not for trusted addresses nor for those an oper is on.
cmd_block(u) ==
    /\ u \in DOMAIN clients
    /\ clients[u].ip \notin DOMAIN trusted
    /\ \A o \in Opers \intersect DOMAIN clients : clients[o].ip # clients[u].ip
    /\ blocked' = blocked \union {clients[u].ip}
    /\ UNCHANGED <<now, clients, gagged, hosts, Lists, DefConState>>

\* cmd_ungline for an address.
cmd_ungline(ip) ==
    /\ ip \in blocked
    /\ blocked' = blocked \ {ip}
    /\ UNCHANGED <<now, clients, gagged, hosts, Lists, DefConState>>

Victims(d) == {u \in Found(d) : is_oper_victim(d, u)}

\* trace_gline_func, trace_shun_func, trace_tempshun_func.
TraceBlock(d) ==
    /\ blocked' = blocked \union {clients[u].ip : u \in {v \in Victims(d) : is_trust_victim(d, clients[v])}}
    /\ UNCHANGED <<now, clients, gagged, hosts, Lists, DefConState>>

\* trace_kill_func, for everyone found.
TraceKill(d) ==
    LET dead  == Victims(d)
        left  == [i \in DOMAIN hosts |-> hosts[i] \ dead]
    IN  /\ clients' = [u \in DOMAIN clients \ dead |-> clients[u]]
        /\ gagged' = gagged \ dead
        /\ hosts' = [i \in {j \in DOMAIN hosts : left[j] # {}} |-> left[i]]
        /\ UNCHANGED <<now, Lists, DefConState, blocked>>

\* trace_gag_func, for a victim found: its whole address, unless a gag covers that.
TraceGag(d, u, duration) ==
    LET m == [nicks |-> Nicks, ips |-> {clients[u].ip}]
    IN  /\ u \in Victims(d) /\ is_trust_victim(d, clients[u])
        /\ \A g \in DOMAIN gagList : ~Covers(g, m)
        /\ GagCreate(m, IF duration = 0 THEN 0 ELSE now + duration)
        /\ UNCHANGED <<now, clients, alerts, hosts, trusted, alertTimers, trustTimers, DefConState, blocked>>

-----------------------------------------------------------------------------
\* DefConProcess: channel modes are forced, or taken back, once.
DefConProcess(level) ==
    /\ DefConLevel' = level
    /\ DefConModesSet' = ("FORCE_CHAN_MODES" \in DefCon[level])

\* Mutant: the timer is only started by the first of two commands.
DefConOnce(level) ==
    /\ level # DefConLevel
    /\ defconTimers' = IF DefConTimeOut = 0 THEN defconTimers ELSE IF defconTimers = 0 THEN 1 ELSE 0
    /\ untimed' = (DefConTimeOut = 0 /\ defconTimers = 0)
    /\ DefConProcess(level)
    /\ UNCHANGED <<now, UserState, Lists, DefConTimeOut>>

\* Without a timeout the timers stay as they are.
cmd_defcon(level) ==
    /\ level # DefConLevel
    /\ defconTimers' = IF DefConTimeOut > 0 THEN 1 ELSE defconTimers
    /\ untimed' = (DefConTimeOut = 0 /\ defconTimers = 0)
    /\ DefConProcess(level)
    /\ UNCHANGED <<now, UserState, Lists, DefConTimeOut>>

defcon_timeout ==
    /\ defconTimers > 0
    /\ defconTimers' = defconTimers - 1 /\ untimed' = FALSE
    /\ DefConProcess(5)
    /\ UNCHANGED <<now, UserState, Lists, DefConTimeOut>>

\* irc_eob_ack: services have linked, the level is put in force again; one more timeout.
irc_eob_ack ==
    /\ DefConLevel < 5 /\ defconTimers < MaxTimeouts
    /\ defconTimers' = IF DefConTimeOut > 0 THEN defconTimers + 1 ELSE defconTimers
    /\ untimed' = (DefConTimeOut = 0 /\ defconTimers = 0)
    /\ DefConProcess(DefConLevel)
    /\ UNCHANGED <<now, UserState, Lists, DefConTimeOut>>

\* opserv_conf_read on REHASH: the level is the configured one again; modes stay as they are.
opserv_conf_read ==
    /\ \E conf \in Configs : DefConLevel' = conf.level /\ DefConTimeOut' = conf.timeout
    /\ UNCHANGED <<now, UserState, Lists, DefConModesSet, defconTimers, untimed>>

\* opserv_saxdb_write, then a new process and opserv_saxdb_read: users come anew, gags and
\* alerts with their times, trusted hosts that have not expired.
Restart ==
    LET kept == {i \in DOMAIN trusted : trusted[i].expires = 0 \/ trusted[i].expires >= now}
    IN  /\ clients' = Nothing /\ gagged' = {} /\ hosts' = Nothing
        /\ alertTimers' = {<<alerts[a].expire, a>> : a \in {b \in DOMAIN alerts : alerts[b].expire # 0}}
        /\ trusted' = [i \in kept |-> trusted[i]]
        /\ trustTimers' = {t \in trustTimers : t[2] \in kept}
        /\ \E conf \in Configs : DefConLevel' = conf.level /\ DefConTimeOut' = conf.timeout
        /\ DefConModesSet' = FALSE /\ defconTimers' = 0 /\ untimed' = FALSE
        /\ UNCHANGED <<now, gagList, alerts, gagTimers, blocked>>

Tick == now < MaxTime /\ now' = now + 1 /\ UNCHANGED opVars

Next ==
    \/ Tick \/ Restart \/ defcon_timeout \/ irc_eob_ack \/ opserv_conf_read
    \/ \E level \in DOMAIN DefCon : cmd_defcon(level)
    \/ \E u \in Users :
        \/ opserv_user_cleanup(u) \/ cmd_block(u)
        \/ \E n \in Nicks : \/ opserv_alert_check_nick(u, n)
                            \/ \E i \in Ips : opserv_new_user_check(u, [nick |-> n, ip |-> i])
        \/ \E d \in Discrims, t \in {0, 1} : TraceGag(d, u, t)
    \/ \E m \in Masks : cmd_ungag(m) \/ \E t \in {0, 1} : cmd_gag(m, t)
    \/ \E t \in gagTimers : gag_expire(t)
    \/ \E d \in Discrims : TraceBlock(d) \/ TraceKill(d)
    \/ \E a \in AlertNames :
        \/ cmd_delalert(a)
        \/ \E d \in Discrims, r \in Reactions, t \in {0, 1} : cmd_addalert(a, d, r, t)
    \/ \E t \in alertTimers, seen \in BOOLEAN : alert_expire(t, seen)
    \/ \E i \in Ips :
        \/ cmd_deltrust(i) \/ cmd_ungline(i)
        \/ \E limit \in Limits, t \in {0, 1} : cmd_addtrust(i, limit, t) \/ cmd_edittrust(i, limit, t)
    \/ \E t \in trustTimers : opserv_expire_trusted_host(t)

Spec == Init /\ [][Next]_vars

-----------------------------------------------------------------------------
\* The client lists per address hold users that are online, under their own address: however
\* a client went (an alert, TRACE KILL, DEFCON, a quit), no freed user is left to be warned
\* or matched (opserv_user_cleanup).
HostsOnline ==
    \A i \in DOMAIN hosts : \A u \in hosts[i] : u \in DOMAIN clients /\ clients[u].ip = i

\* Whatever ends by itself has its own timer and no other one, however it was made, edited,
\* removed or read back (gag_expire and opserv_expire_trusted_host free what they were queued
\* for), and channel modes that DEFCON forced are taken back in the end, a REHASH or a new
\* link in between included, unless they were forced without a timeout, none being queued
\* (cmd_defcon, irc_eob_ack, defcon_timeout).
ListsTimed ==
    /\ gagTimers = {<<gagList[m], m>> : m \in {n \in DOMAIN gagList : gagList[n] # 0}}
    /\ trustTimers = {<<trusted[i].expires, i>> : i \in {j \in DOMAIN trusted : trusted[j].expires # 0}}
    /\ DefConModesSet => defconTimers > 0 \/ untimed

\* Both: what OpServ keeps of users and of its own lists leads to what is there.
ListsHeld == HostsOnline /\ ListsTimed

\* Who is gagged, and counted, is matched by a gag that is still listed, through changes of
\* nick, of the list and of its overlapping masks (opserv_alert_check_nick, gag_free). A
\* client that an alert kept out of the count is not found when a gag of its address ends.
GaggedListed ==
    \A u \in gagged :
        /\ u \in DOMAIN clients
        /\ clients[u].ip \in DOMAIN hosts /\ u \in hosts[clients[u].ip]
            => \E m \in DOMAIN gagList : Matches(m, clients[u])

\* A timer left by a removed alert does not end a later alert of the same name before its
\* time (alert_expire).
AlertNotEarly ==
    [][alertTimers' # alertTimers /\ alertTimers' \subseteq alertTimers /\ clients' = clients =>
        \A a \in DOMAIN alerts \ DOMAIN alerts' : alerts[a].expire \in 1..now]_vars

\* opserv.help:106 says of GAG that "Gags a user — they can connect but services will not
\* respond to them": a client that a listed gag matches is gagged.
GagApplies ==
    \A u \in DOMAIN clients \ Opers :
        (\E m \in DOMAIN gagList : Matches(m, clients[u])) => u \in gagged
=============================================================================
