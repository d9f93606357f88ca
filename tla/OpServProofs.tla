---------------------------- MODULE OpServProofs ----------------------------
(***************************************************************************)
(* What OpServ keeps of clients, gags, alerts, trusted hosts and DEFCON    *)
(* agrees for every number of clients, masks, addresses and alerts.        *)
(*                                                                         *)
(* The inductive invariant has two parts that share no variable but        *)
(* gagList: who is online, counted and gagged (Online), and which timers   *)
(* are queued (Timed).  GaggedListed needs HostsOnline: a client that was  *)
(* counted under an address it does not have would escape gag_free.        *)
(***************************************************************************)
EXTENDS OpChannels, TLAPS

Client == [nick : Nicks, ip : Ips]

Online ==
    /\ DOMAIN clients \subseteq Users
    /\ \A u \in DOMAIN clients : clients[u] \in Client
    /\ \A i \in DOMAIN hosts : hosts[i] # {}
    /\ HostsOnline /\ GaggedListed

\* ListsTimed, timer by timer.
GagsTimed ==
    /\ \A m \in DOMAIN gagList : gagList[m] \in Nat
    /\ \A t : t \in gagTimers <=>
            \E m \in DOMAIN gagList : gagList[m] # 0 /\ t = <<gagList[m], m>>

TrustTimed ==
    /\ \A i \in DOMAIN trusted : trusted[i] \in [limit : Limits, expires : Nat]
    /\ \A t : t \in trustTimers <=>
            \E i \in DOMAIN trusted : trusted[i].expires # 0 /\ t = <<trusted[i].expires, i>>

DefConTimed ==
    /\ DefConLevel \in DOMAIN DefCon /\ DefConModesSet \in BOOLEAN /\ untimed \in BOOLEAN
    /\ DefConTimeOut \in Nat /\ defconTimers \in Nat
    /\ DefConModesSet => defconTimers > 0 \/ untimed

Timed == now \in Nat /\ GagsTimed /\ TrustTimed /\ DefConTimed

Alert == [discrim : Discrims, reaction : Reactions, expire : Nat]

AlertsOK == \A a \in DOMAIN alerts : alerts[a] \in Alert

IInv == Online /\ Timed /\ AlertsOK

\* Of the levels of DEFCON, the normal one does nothing, and the configured ones are known.
Normal ==
    /\ 5 \in DOMAIN DefCon /\ DefCon[5] = {}
    /\ \A conf \in Configs : conf.level \in DOMAIN DefCon /\ conf.timeout \in Nat

-----------------------------------------------------------------------------
(* Frames. *)

LEMMA SameOnline ==
    ASSUME Online, UNCHANGED <<clients, gagged, hosts>>, gagList' = gagList
    PROVE  Online'
  BY DEF Online, HostsOnline, GaggedListed

LEMMA SameTimed ==
    ASSUME Timed, UNCHANGED <<now, gagList, gagTimers, trusted, trustTimers>>, UNCHANGED DefConState
    PROVE  Timed'
  BY DEF Timed, GagsTimed, TrustTimed, DefConTimed, DefConState

LEMMA SameGags ==
    ASSUME GagsTimed, UNCHANGED <<gagList, gagTimers>>
    PROVE  GagsTimed'
  BY DEF GagsTimed

LEMMA SameTrust ==
    ASSUME TrustTimed, UNCHANGED <<trusted, trustTimers>>
    PROVE  TrustTimed'
  BY DEF TrustTimed

LEMMA SameDefCon ==
    ASSUME DefConTimed, UNCHANGED DefConState
    PROVE  DefConTimed'
  BY DEF DefConTimed, DefConState

LEMMA SameAlerts ==
    ASSUME AlertsOK, alerts' = alerts
    PROVE  AlertsOK'
  BY DEF AlertsOK

-----------------------------------------------------------------------------
(* Clients. *)

LEMMA DropIs ==
    ASSUME NEW f, NEW x
    PROVE  /\ DOMAIN Drop(f, x) = DOMAIN f \ {x}
           /\ \A z \in DOMAIN f \ {x} : Drop(f, x)[z] = f[z]
  BY DEF Drop

\* opserv_user_cleanup takes u out of the count, and nobody else.
LEMMA CleanupIs ==
    ASSUME Online, NEW u \in DOMAIN clients
    PROVE  /\ DOMAIN Cleanup(u) \subseteq DOMAIN hosts
           /\ \A i \in DOMAIN Cleanup(u) : Cleanup(u)[i] = hosts[i] \ {u} /\ Cleanup(u)[i] # {}
  <1> DEFINE ip == clients[u].ip
  <1>1. \A i \in DOMAIN hosts : i # ip => u \notin hosts[i]
    BY DEF Online, HostsOnline
  <1>2. CASE ip \notin DOMAIN hosts
    BY <1>1, <1>2 DEF Cleanup, Online
  <1>3. CASE ip \in DOMAIN hosts /\ hosts[ip] \subseteq {u}
    <2>1. Cleanup(u) = Drop(hosts, ip)
      BY <1>3 DEF Cleanup
    <2> QED BY <1>1, <2>1 DEF Drop, Online
  <1>4. CASE ip \in DOMAIN hosts /\ ~(hosts[ip] \subseteq {u})
    <2>1. Cleanup(u) = [hosts EXCEPT ![ip] = @ \ {u}]
      BY <1>4 DEF Cleanup
    <2>2. \A i \in DOMAIN hosts : i # ip => Cleanup(u)[i] = hosts[i]
      BY <2>1
    <2>3. DOMAIN Cleanup(u) = DOMAIN hosts /\ Cleanup(u)[ip] = hosts[ip] \ {u}
      BY <2>1, <1>4
    <2>4. hosts[ip] \ {u} # {}
      BY <1>4
    <2> QED BY <1>1, <2>2, <2>3, <2>4 DEF Online
  <1> QED BY <1>2, <1>3, <1>4

\* Some clients go, and with them their place in the count.
LEMMA GoneOnline ==
    ASSUME Online, NEW D, gagList' = gagList,
           DOMAIN clients' = DOMAIN clients \ D, \A u \in DOMAIN clients' : clients'[u] = clients[u],
           gagged' = gagged \ D, DOMAIN hosts' \subseteq DOMAIN hosts,
           \A i \in DOMAIN hosts' : hosts'[i] = hosts[i] \ D /\ hosts'[i] # {}
    PROVE  Online'
  <1>1. HostsOnline'
    BY DEF Online, HostsOnline
  <1>2. GaggedListed'
    BY DEF Online, GaggedListed
  <1> QED BY <1>1, <1>2 DEF Online

LEMMA GoneKeeps ==
    ASSUME Online, NEW u \in DOMAIN clients, Gone(u), gagList' = gagList
    PROVE  Online'
  <1>1. DOMAIN clients' = DOMAIN clients \ {u} /\ \A v \in DOMAIN clients' : clients'[v] = clients[v]
    BY DropIs DEF Gone
  <1>2. gagged' = gagged \ {u} /\ hosts' = Cleanup(u)
    BY DEF Gone
  <1> QED BY <1>1, <1>2, CleanupIs, GoneOnline

LEMMA TraceKillKeeps ==
    ASSUME Online, NEW d, TraceKill(d)
    PROVE  Online'
  <1> DEFINE dead == Victims(d)
  <1>1. DOMAIN clients' = DOMAIN clients \ dead /\ \A v \in DOMAIN clients' : clients'[v] = clients[v]
    BY DEF TraceKill
  <1>2. /\ DOMAIN hosts' \subseteq DOMAIN hosts
        /\ \A i \in DOMAIN hosts' : hosts'[i] = hosts[i] \ dead /\ hosts'[i] # {}
    BY DEF TraceKill
  <1>3. gagged' = gagged \ dead /\ gagList' = gagList
    BY DEF TraceKill, Lists
  <1> HIDE DEF dead
  <1> QED BY <1>1, <1>2, <1>3, GoneOnline

\* Someone new, gagged only if a gag matches, and counted or not.
LEMMA NewOnline ==
    ASSUME Online, NEW u \in Users \ DOMAIN clients, NEW c \in Client, gagList' = gagList,
           clients' = Put(clients, u, c),
           gagged' \subseteq gagged \union {u},
           u \in gagged' => \E m \in DOMAIN gagList : Matches(m, c),
           \/ hosts' = hosts
           \/ hosts' = Put(hosts, c.ip, (IF c.ip \in DOMAIN hosts THEN hosts[c.ip] ELSE {}) \union {u})
    PROVE  Online'
  <1> DEFINE was == IF c.ip \in DOMAIN hosts THEN hosts[c.ip] ELSE {}
  <1>1. /\ DOMAIN clients' = DOMAIN clients \union {u} /\ clients'[u] = c
        /\ \A v \in DOMAIN clients : clients'[v] = clients[v]
    BY DEF Put
  <1>2. \A i \in DOMAIN hosts : u \notin hosts[i]
    BY DEF Online, HostsOnline
  <1>3. u \notin gagged
    BY DEF Online, GaggedListed
  <1>4. \A i \in DOMAIN hosts' :
            /\ hosts'[i] # {}
            /\ \A v \in hosts'[i] : (v = u /\ i = c.ip) \/ (i \in DOMAIN hosts /\ v \in hosts[i])
    <2>1. CASE hosts' = hosts
      BY <2>1 DEF Online
    <2>2. CASE hosts' = Put(hosts, c.ip, was \union {u})
      <3>1. /\ DOMAIN hosts' = DOMAIN hosts \union {c.ip} /\ hosts'[c.ip] = was \union {u}
            /\ \A i \in DOMAIN hosts : i # c.ip => hosts'[i] = hosts[i]
        BY <2>2 DEF Put
      <3>2. was \union {u} # {}
        OBVIOUS
      <3>3. \A v \in was : c.ip \in DOMAIN hosts /\ v \in hosts[c.ip]
        OBVIOUS
      <3> HIDE DEF was
      <3> SUFFICES ASSUME NEW i \in DOMAIN hosts'
                   PROVE  /\ hosts'[i] # {}
                          /\ \A v \in hosts'[i] : (v = u /\ i = c.ip) \/ (i \in DOMAIN hosts /\ v \in hosts[i])
        OBVIOUS
      <3>4. CASE i = c.ip
        BY <3>1, <3>2, <3>3, <3>4
      <3>5. CASE i # c.ip
        BY <3>1, <3>5 DEF Online
      <3> QED BY <3>4, <3>5
    <2> QED BY <2>1, <2>2
  <1> HIDE DEF was
  <1>5. HostsOnline'
    BY <1>1, <1>4 DEF Online, HostsOnline
  <1>6. GaggedListed'
    <2> SUFFICES ASSUME NEW v \in gagged'
                 PROVE  /\ v \in DOMAIN clients'
                        /\ clients'[v].ip \in DOMAIN hosts' /\ v \in hosts'[clients'[v].ip]
                            => \E m \in DOMAIN gagList : Matches(m, clients'[v])
      BY DEF GaggedListed
    <2>1. CASE v = u
      BY <2>1, <1>1, <1>3
    <2>2. CASE v # u
      <3>1. v \in gagged
        BY <2>2
      <3>2. v \in DOMAIN clients /\ clients'[v] = clients[v]
        BY <3>1, <1>1 DEF Online, GaggedListed
      <3> QED BY <2>2, <3>1, <3>2, <1>1, <1>4 DEF Online, GaggedListed
    <2> QED BY <2>1, <2>2
  <1> QED BY <1>1, <1>4, <1>5, <1>6 DEF Online

LEMMA VerdictsAre ==
    ASSUME AlertsOK, NEW A \in SUBSET DOMAIN alerts, NEW u, NEW c
    PROVE  Verdicts(A, u, c) \subseteq {"kill", "block", "none"}
  <1>1. \A a \in A : alerts[a].reaction \in {"kill", "block", "notice"}
    BY DEF AlertsOK, Alert, Reactions
  <1>2. Triggered(A, u, c) \subseteq A
    BY DEF Triggered
  <1> QED BY <1>1, <1>2 DEF Verdicts

LEMMA NewUserKeeps ==
    ASSUME Online, AlertsOK, NEW u \in Users, NEW c \in Client, opserv_new_user_check(u, c)
    PROVE  Online'
  <1>1. u \in Users \ DOMAIN clients /\ gagList' = gagList
    BY DEF opserv_new_user_check, Lists
  <1>2. PICK verdict \in Verdicts(DOMAIN alerts, u, c) :
            CASE verdict = "kill"  -> UNCHANGED UserState
              [] verdict = "block" -> /\ clients' = Put(clients, u, c)
                                      /\ blocked' = blocked \union {c.ip}
                                      /\ UNCHANGED <<gagged, hosts>>
              [] verdict = "none"  -> LetIn(u, c)
    BY DEF opserv_new_user_check
  <1>3. verdict \in {"kill", "block", "none"}
    BY VerdictsAre
  <1>4. u \notin gagged
    BY <1>1 DEF Online, GaggedListed
  <1>5. CASE verdict = "kill"
    BY <1>1, <1>2, <1>5, SameOnline DEF UserState
  <1>6. CASE verdict = "block"
    <2>1. clients' = Put(clients, u, c) /\ UNCHANGED <<gagged, hosts>>
      BY <1>2, <1>6
    <2> QED BY <2>1, <1>1, <1>4, NewOnline
  <1>7. CASE verdict = "none"
    <2>1. LetIn(u, c)
      BY <1>2, <1>7
    <2>2. CASE UNCHANGED <<clients, gagged, hosts, blocked>>
      BY <2>2, <1>1, SameOnline
    <2>3. CASE ~checkDefCon("NO_NEW_CLIENTS")
      <3> DEFINE counted == IF c.ip \in DOMAIN hosts THEN hosts[c.ip] \union {u} ELSE {u}
                 was == IF c.ip \in DOMAIN hosts THEN hosts[c.ip] ELSE {}
      <3>1. /\ clients' = Put(clients, u, c) /\ hosts' = Put(hosts, c.ip, counted)
            /\ gagged' = IF \E m \in DOMAIN gagList : Matches(m, c)
                         THEN gagged \union Gaggable({u}) ELSE gagged
        BY <2>1, <2>3 DEF LetIn
      <3>2. counted = was \union {u}
        OBVIOUS
      <3>3. /\ gagged' \subseteq gagged \union {u}
            /\ u \in gagged' => \E m \in DOMAIN gagList : Matches(m, c)
        BY <3>1, <1>4 DEF Gaggable
      <3> QED BY <3>1, <3>2, <3>3, <1>1, NewOnline
    <2> QED BY <2>1, <2>2, <2>3 DEF LetIn
  <1> QED BY <1>3, <1>5, <1>6, <1>7

LEMMA NickKeeps ==
    ASSUME Online, AlertsOK, NEW u, NEW n \in Nicks, opserv_alert_check_nick(u, n)
    PROVE  Online'
  <1> DEFINE c == [clients[u] EXCEPT !.nick = n]
             A == {a \in DOMAIN alerts : alerts[a].discrim.nicks # Nicks}
  <1>1. u \in DOMAIN clients /\ gagList' = gagList
    BY DEF opserv_alert_check_nick, Lists
  <1>2. c \in Client /\ c.ip = clients[u].ip
    BY <1>1 DEF Online, Client
  <1>3. PICK verdict \in Verdicts(A, u, c) :
            IF verdict = "kill" THEN Gone(u) /\ UNCHANGED blocked
            ELSE /\ clients' = Put(clients, u, c)
                 /\ gagged' = GagAnew(u, c)
                 /\ blocked' = IF verdict = "block" THEN blocked \union {c.ip} ELSE blocked
                 /\ UNCHANGED hosts
    BY DEF opserv_alert_check_nick
  <1> HIDE DEF c, A
  <1>4. CASE verdict = "kill"
    BY <1>1, <1>3, <1>4, GoneKeeps
  <1>5. CASE verdict # "kill"
    <2>1. clients' = Put(clients, u, c) /\ gagged' = GagAnew(u, c) /\ hosts' = hosts
      BY <1>3, <1>5
    <2>2. /\ DOMAIN clients' = DOMAIN clients /\ clients'[u] = c
          /\ \A v \in DOMAIN clients : v # u => clients'[v] = clients[v]
      BY <2>1, <1>1 DEF Put
    <2>3. HostsOnline'
      BY <2>1, <2>2, <1>2 DEF Online, HostsOnline
    <2>4. /\ gagged' \subseteq gagged \union {u}
          /\ u \in gagged' => \E m \in DOMAIN gagList : Matches(m, c)
      BY <2>1 DEF GagAnew, Gaggable
    <2>5. GaggedListed'
      <3> SUFFICES ASSUME NEW v \in gagged'
                   PROVE  /\ v \in DOMAIN clients'
                          /\ clients'[v].ip \in DOMAIN hosts' /\ v \in hosts'[clients'[v].ip]
                              => \E m \in DOMAIN gagList : Matches(m, clients'[v])
        BY <1>1 DEF GaggedListed
      <3>1. CASE v = u
        BY <3>1, <2>2, <2>4, <1>1
      <3>2. CASE v # u
        BY <3>2, <2>1, <2>2, <2>4 DEF Online, GaggedListed
      <3> QED BY <3>1, <3>2
    <2> QED BY <2>1, <2>2, <2>3, <2>5, <1>2 DEF Online
  <1> QED BY <1>4, <1>5

-----------------------------------------------------------------------------
(* Gags. *)

LEMMA GagCreateKeeps ==
    ASSUME Online, NEW m, NEW e, GagCreate(m, e), UNCHANGED <<clients, hosts>>
    PROVE  Online'
  <1>1. DOMAIN gagList' = DOMAIN gagList \union {m}
    BY DEF GagCreate, Put
  <1>2. \A u \in gagged' : u \in gagged \/ (u \in DOMAIN clients /\ Matches(m, clients[u]))
    BY DEF GagCreate, Gaggable, GagHits, Searched
  <1>3. GaggedListed'
    BY <1>1, <1>2 DEF Online, GaggedListed
  <1> QED BY <1>3 DEF Online, HostsOnline

\* gag_free looks for all that are counted, also when it searches one address.
LEMMA GagFreeKeeps ==
    ASSUME Online, NEW m, GagFree(m), UNCHANGED <<clients, hosts>>
    PROVE  Online'
  <1>1. DOMAIN gagList' = DOMAIN gagList \ {m} /\ gagged' = gagged \ GagHits(m)
    BY DEF GagFree, Drop
  <1>2. \A u \in DOMAIN clients :
            clients[u].ip \in DOMAIN hosts /\ u \in hosts[clients[u].ip] => u \in Searched(m)
    BY DEF Searched
  <1>3. GaggedListed'
    <2> SUFFICES ASSUME NEW u \in gagged'
                 PROVE  /\ u \in DOMAIN clients
                        /\ clients[u].ip \in DOMAIN hosts /\ u \in hosts[clients[u].ip]
                            => \E g \in DOMAIN gagList' : Matches(g, clients[u])
      BY DEF GaggedListed
    <2>1. u \in gagged /\ u \in DOMAIN clients /\ u \notin GagHits(m)
      BY <1>1 DEF Online, GaggedListed
    <2>2. ASSUME clients[u].ip \in DOMAIN hosts, u \in hosts[clients[u].ip]
          PROVE  \E g \in DOMAIN gagList' : Matches(g, clients[u])
      <3>1. PICK g \in DOMAIN gagList : Matches(g, clients[u])
        BY <2>1, <2>2 DEF Online, GaggedListed
      <3>2. g # m
        BY <2>1, <2>2, <3>1, <1>2 DEF GagHits
      <3> QED BY <3>1, <3>2, <1>1
    <2> QED BY <2>1, <2>2
  <1> QED BY <1>3 DEF Online, HostsOnline

-----------------------------------------------------------------------------
(* Timers. *)

LEMMA GagCreateTimed ==
    ASSUME GagsTimed, NEW m, m \notin DOMAIN gagList, NEW e \in Nat, GagCreate(m, e)
    PROVE  GagsTimed'
  <1>1. /\ DOMAIN gagList' = DOMAIN gagList \union {m} /\ gagList'[m] = e
        /\ \A n \in DOMAIN gagList : gagList'[n] = gagList[n]
    BY DEF GagCreate, Put
  <1>2. gagTimers' = IF e = 0 THEN gagTimers ELSE gagTimers \union {<<e, m>>}
    BY DEF GagCreate
  <1>3. \A n \in DOMAIN gagList' : gagList'[n] \in Nat
    BY <1>1 DEF GagsTimed
  <1>4. ASSUME NEW t, t \in gagTimers'
        PROVE  \E n \in DOMAIN gagList' : gagList'[n] # 0 /\ t = <<gagList'[n], n>>
    <2>1. CASE t \in gagTimers
      <3>1. PICK n \in DOMAIN gagList : gagList[n] # 0 /\ t = <<gagList[n], n>>
        BY <2>1 DEF GagsTimed
      <3> QED BY <3>1, <1>1
    <2>2. CASE t \notin gagTimers
      <3>1. e # 0 /\ t = <<e, m>>
        BY <2>2, <1>2, <1>4
      <3> QED BY <3>1, <1>1
    <2> QED BY <2>1, <2>2
  <1>5. ASSUME NEW t, NEW n \in DOMAIN gagList', gagList'[n] # 0, t = <<gagList'[n], n>>
        PROVE  t \in gagTimers'
    <2>1. CASE n \in DOMAIN gagList
      <3>1. t \in gagTimers
        BY <2>1, <1>1, <1>5 DEF GagsTimed
      <3> QED BY <3>1, <1>2
    <2>2. CASE n \notin DOMAIN gagList
      BY <2>2, <1>1, <1>2, <1>5
    <2> QED BY <2>1, <2>2
  <1> QED BY <1>3, <1>4, <1>5 DEF GagsTimed

LEMMA GagFreeTimed ==
    ASSUME GagsTimed, NEW m \in DOMAIN gagList, gagTimers' = gagTimers \ {<<gagList[m], m>>},
           GagFree(m)
    PROVE  GagsTimed'
  <1>1. /\ DOMAIN gagList' = DOMAIN gagList \ {m}
        /\ \A n \in DOMAIN gagList' : gagList'[n] = gagList[n]
    BY DEF GagFree, Drop
  <1>2. \A n \in DOMAIN gagList' : gagList'[n] \in Nat
    BY <1>1 DEF GagsTimed
  <1>3. ASSUME NEW t, t \in gagTimers'
        PROVE  \E n \in DOMAIN gagList' : gagList'[n] # 0 /\ t = <<gagList'[n], n>>
    <2>1. PICK n \in DOMAIN gagList : gagList[n] # 0 /\ t = <<gagList[n], n>>
      BY <1>3 DEF GagsTimed
    <2>2. n # m
      BY <2>1, <1>3
    <2> QED BY <2>1, <2>2, <1>1
  <1>4. ASSUME NEW t, NEW n \in DOMAIN gagList', gagList'[n] # 0, t = <<gagList'[n], n>>
        PROVE  t \in gagTimers'
    <2>1. t \in gagTimers /\ n # m
      BY <1>1, <1>4 DEF GagsTimed
    <2> QED BY <2>1, <1>4
  <1> QED BY <1>2, <1>3, <1>4 DEF GagsTimed

LEMMA AddTrustedTimed ==
    ASSUME TrustTimed, NEW i, NEW limit \in Limits, NEW e \in Nat, AddTrusted(i, limit, e)
    PROVE  TrustTimed'
  <1> DEFINE r == [limit |-> limit, expires |-> e]
  <1>0. r \in [limit : Limits, expires : Nat] /\ r.expires = e
    OBVIOUS
  <1>1. /\ DOMAIN trusted' = DOMAIN trusted \union {i} /\ trusted'[i] = r
        /\ \A j \in DOMAIN trusted : j # i => trusted'[j] = trusted[j]
    BY DEF AddTrusted, Put
  <1> HIDE DEF r
  <1>2. trustTimers' = (IF i \in DOMAIN trusted THEN trustTimers \ {<<trusted[i].expires, i>>} ELSE trustTimers)
                        \union (IF e = 0 THEN {} ELSE {<<e, i>>})
    BY DEF AddTrusted
  <1>3. \A j \in DOMAIN trusted' : trusted'[j] \in [limit : Limits, expires : Nat]
    BY <1>0, <1>1 DEF TrustTimed
  <1>4. ASSUME NEW t, t \in trustTimers'
        PROVE  \E j \in DOMAIN trusted' : trusted'[j].expires # 0 /\ t = <<trusted'[j].expires, j>>
    <2>1. CASE e # 0 /\ t = <<e, i>>
      BY <2>1, <1>0, <1>1
    <2>2. CASE ~(e # 0 /\ t = <<e, i>>)
      <3>1. t \in trustTimers /\ (i \in DOMAIN trusted => t # <<trusted[i].expires, i>>)
        BY <2>2, <1>2, <1>4
      <3>2. PICK j \in DOMAIN trusted : trusted[j].expires # 0 /\ t = <<trusted[j].expires, j>>
        BY <3>1 DEF TrustTimed
      <3>3. j # i
        BY <3>1, <3>2
      <3> QED BY <3>2, <3>3, <1>1
    <2> QED BY <2>1, <2>2
  <1>5. ASSUME NEW t, NEW j \in DOMAIN trusted', trusted'[j].expires # 0, t = <<trusted'[j].expires, j>>
        PROVE  t \in trustTimers'
    <2>1. CASE j = i
      BY <2>1, <1>0, <1>1, <1>2, <1>5
    <2>2. CASE j # i
      <3>1. j \in DOMAIN trusted /\ trusted'[j] = trusted[j]
        BY <2>2, <1>1
      <3>2. t \in trustTimers
        BY <3>1, <1>5 DEF TrustTimed
      <3>3. i \in DOMAIN trusted => t # <<trusted[i].expires, i>>
        BY <2>2, <1>5
      <3> QED BY <3>2, <3>3, <1>2
    <2> QED BY <2>1, <2>2
  <1> QED BY <1>3, <1>4, <1>5 DEF TrustTimed

\* Trusted hosts K stay, with their timers and no others.
LEMMA KeptTimed ==
    ASSUME TrustTimed, NEW K \in SUBSET DOMAIN trusted,
           DOMAIN trusted' = K, \A i \in K : trusted'[i] = trusted[i],
           \A t : t \in trustTimers' <=> t \in trustTimers /\ t[2] \in K
    PROVE  TrustTimed'
  <1>1. ASSUME NEW t, t \in trustTimers'
        PROVE  \E j \in DOMAIN trusted' : trusted'[j].expires # 0 /\ t = <<trusted'[j].expires, j>>
    <2>1. PICK j \in DOMAIN trusted : trusted[j].expires # 0 /\ t = <<trusted[j].expires, j>>
      BY <1>1 DEF TrustTimed
    <2>2. j \in K
      BY <2>1, <1>1
    <2> QED BY <2>1, <2>2
  <1>2. ASSUME NEW t, NEW j \in DOMAIN trusted', trusted'[j].expires # 0, t = <<trusted'[j].expires, j>>
        PROVE  t \in trustTimers'
    <2>1. t \in trustTimers
      BY <1>2 DEF TrustTimed
    <2> QED BY <2>1, <1>2
  <1> QED BY <1>1, <1>2 DEF TrustTimed

\* A trusted host goes, and its timer with it.
LEMMA DropTrustTimed ==
    ASSUME TrustTimed, NEW i \in DOMAIN trusted, trusted' = Drop(trusted, i),
           trustTimers' = trustTimers \ {<<trusted[i].expires, i>>}
    PROVE  TrustTimed'
  <1> DEFINE K == DOMAIN trusted \ {i}
  <1>1. DOMAIN trusted' = K /\ \A j \in K : trusted'[j] = trusted[j]
    BY DropIs
  <1>2. ASSUME NEW t
        PROVE  t \in trustTimers' <=> t \in trustTimers /\ t[2] \in K
    <2>1. t \in trustTimers => \E j \in DOMAIN trusted : t = <<trusted[j].expires, j>>
      BY DEF TrustTimed
    <2> QED BY <2>1
  <1> HIDE DEF K
  <1>3. K \in SUBSET DOMAIN trusted
    BY DEF K
  <1> QED BY <1>1, <1>2, <1>3, KeptTimed

\* What a Restart reads back.
LEMMA RestartTimed ==
    ASSUME TrustTimed, Restart
    PROVE  TrustTimed'
  <1> DEFINE K == {i \in DOMAIN trusted : trusted[i].expires = 0 \/ trusted[i].expires >= now}
  <1>1. DOMAIN trusted' = K /\ \A j \in K : trusted'[j] = trusted[j]
    BY DEF Restart
  <1>2. \A t : t \in trustTimers' <=> t \in trustTimers /\ t[2] \in K
    BY DEF Restart
  <1>3. K \in SUBSET DOMAIN trusted
    OBVIOUS
  <1> HIDE DEF K
  <1> QED BY <1>1, <1>2, <1>3, KeptTimed

LEMMA DefConProcessTimed ==
    ASSUME NEW level \in DOMAIN DefCon, DefConProcess(level), defconTimers' \in Nat, untimed' \in BOOLEAN,
           DefConTimeOut' \in Nat, defconTimers' > 0 \/ untimed' \/ DefCon[level] = {}
    PROVE  DefConTimed'
  <1>1. DefConModesSet' = ("FORCE_CHAN_MODES" \in DefCon[level]) /\ DefConLevel' = level
    BY DEF DefConProcess
  <1>2. DefConModesSet' \in BOOLEAN
    <2>1. CASE "FORCE_CHAN_MODES" \in DefCon[level]
      <3>1. DefConModesSet' = TRUE
        BY <1>1, <2>1, Zenon
      <3> QED BY <3>1
    <2>2. CASE "FORCE_CHAN_MODES" \notin DefCon[level]
      <3>1. ("FORCE_CHAN_MODES" \in DefCon[level]) = FALSE
        BY <2>2
      <3> QED BY <1>1, <3>1
    <2> QED BY <2>1, <2>2
  <1>3. DefConModesSet' => "FORCE_CHAN_MODES" \in DefCon[level]
    BY <1>1, Zenon
  <1> QED BY <1>1, <1>2, <1>3 DEF DefConTimed

-----------------------------------------------------------------------------
(* Steps. *)

\* Events and commands that touch clients, and perhaps blocked, only.
LEMMA UserStep ==
    ASSUME IInv, Online', UNCHANGED <<now, Lists, DefConState>>
    PROVE  IInv'
  BY SameTimed, SameAlerts DEF IInv, Lists

LEMMA GagStep ==
    ASSUME IInv, Online', GagsTimed', UNCHANGED <<now, alerts, trusted, trustTimers, DefConState>>
    PROVE  IInv'
  BY SameTrust, SameDefCon, SameAlerts DEF IInv, Timed, DefConState

LEMMA AlertStep ==
    ASSUME IInv, AlertsOK', UNCHANGED <<now, UserState, gagList, trusted, gagTimers, trustTimers, DefConState>>
    PROVE  IInv'
  BY SameTimed, SameOnline DEF IInv, UserState

LEMMA TrustStep ==
    ASSUME IInv, TrustTimed', OnlyTrust
    PROVE  IInv'
  <1>1. /\ UNCHANGED <<clients, gagged, hosts>> /\ gagList' = gagList
        /\ UNCHANGED <<now, alerts, gagTimers>> /\ UNCHANGED DefConState
    BY DEF OnlyTrust, UserState
  <1> QED BY <1>1, SameOnline, SameGags, SameDefCon, SameAlerts DEF IInv, Timed

LEMMA DefConStep ==
    ASSUME IInv, DefConTimed', UNCHANGED <<now, UserState, Lists>>
    PROVE  IInv'
  <1>1. /\ UNCHANGED <<clients, gagged, hosts>> /\ UNCHANGED <<now, gagList, gagTimers>>
        /\ UNCHANGED <<trusted, trustTimers>> /\ alerts' = alerts
    BY DEF UserState, Lists
  <1> QED BY <1>1, SameOnline, SameGags, SameTrust, SameAlerts DEF IInv, Timed

\* A mask that no gag covers is not listed.
LEMMA UncoveredIsNew ==
    ASSUME NEW m, \A g \in DOMAIN gagList : ~Covers(g, m)
    PROVE  m \notin DOMAIN gagList
  BY DEF Covers

LEMMA NextKeeps ==
    ASSUME Normal, IInv, Next
    PROVE  IInv'
  <1>1. CASE Tick
    <2>1. now' \in Nat
      BY <1>1 DEF Tick, IInv, Timed
    <2> QED BY <1>1, <2>1, SameOnline, SameGags, SameTrust, SameDefCon, SameAlerts
            DEF Tick, opVars, IInv, Timed, DefConState
  <1>2. CASE Restart
    <2>1. Online'
      BY <1>2 DEF Restart, Online, HostsOnline, GaggedListed, Nothing
    <2>2. TrustTimed'
      BY <1>2, RestartTimed DEF IInv, Timed
    <2>3. DefConTimed'
      <3>1. PICK conf \in Configs : DefConLevel' = conf.level /\ DefConTimeOut' = conf.timeout
        BY <1>2 DEF Restart
      <3>2. DefConModesSet' = FALSE /\ defconTimers' = 0 /\ untimed' = FALSE
        BY <1>2 DEF Restart
      <3> QED BY <3>1, <3>2 DEF DefConTimed, Normal
    <2>4. UNCHANGED <<now, gagList, gagTimers, alerts>>
      BY <1>2 DEF Restart
    <2> QED BY <2>1, <2>2, <2>3, <2>4, SameGags, SameAlerts DEF IInv, Timed
  <1>3. CASE defcon_timeout
    <2>1. defconTimers \in Nat /\ DefConTimeOut \in Nat
      BY DEF IInv, Timed, DefConTimed
    <2>2. defconTimers' \in Nat /\ untimed' = FALSE /\ DefConTimeOut' \in Nat /\ DefConProcess(5)
      BY <1>3, <2>1 DEF defcon_timeout
    <2>3. DefConTimed'
      BY <2>2, DefConProcessTimed DEF Normal
    <2> QED BY <1>3, <2>3, DefConStep DEF defcon_timeout
  <1>4. CASE opserv_conf_read
    <2>1. PICK conf \in Configs : DefConLevel' = conf.level /\ DefConTimeOut' = conf.timeout
      BY <1>4 DEF opserv_conf_read
    <2>2. DefConTimed'
      BY <1>4, <2>1 DEF opserv_conf_read, DefConTimed, IInv, Timed, Normal
    <2> QED BY <1>4, <2>2, DefConStep DEF opserv_conf_read
  <1>5. ASSUME NEW level \in DOMAIN DefCon, cmd_defcon(level) \/ (level = DefConLevel /\ irc_eob_ack)
        PROVE  IInv'
    <2>1. defconTimers \in Nat /\ DefConTimeOut \in Nat
      BY DEF IInv, Timed, DefConTimed
    <2>2. \/ defconTimers' = IF DefConTimeOut > 0 THEN 1 ELSE defconTimers
          \/ defconTimers' = IF DefConTimeOut > 0 THEN defconTimers + 1 ELSE defconTimers
      BY <1>5 DEF cmd_defcon, irc_eob_ack
    <2>3. /\ untimed' = (DefConTimeOut = 0 /\ defconTimers = 0)
          /\ DefConTimeOut' = DefConTimeOut /\ DefConProcess(level)
          /\ UNCHANGED <<now, UserState, Lists>>
      BY <1>5 DEF cmd_defcon, irc_eob_ack
    <2>4. defconTimers' \in Nat /\ (defconTimers' > 0 \/ (DefConTimeOut = 0 /\ defconTimers = 0))
      BY <2>1, <2>2
    <2>5. untimed' \in BOOLEAN /\ (defconTimers' > 0 \/ untimed')
      <3>1. CASE DefConTimeOut = 0 /\ defconTimers = 0
        <4>1. untimed' = TRUE
          BY <2>3, <3>1
        <4> QED BY <4>1
      <3>2. CASE ~(DefConTimeOut = 0 /\ defconTimers = 0)
        <4>1. untimed' = FALSE
          BY <2>3, <3>2
        <4> QED BY <2>4, <3>2, <4>1
      <3> QED BY <3>1, <3>2
    <2>6. DefConTimed'
      BY <2>1, <2>3, <2>4, <2>5, DefConProcessTimed
    <2> QED BY <2>3, <2>6, DefConStep
  <1>6. ASSUME NEW u \in Users, opserv_user_cleanup(u)
        PROVE  IInv'
    <2>1. Online'
      BY <1>6, GoneKeeps DEF opserv_user_cleanup, IInv, Lists
    <2> QED BY <1>6, <2>1, UserStep DEF opserv_user_cleanup
  <1>7. ASSUME NEW u \in Users, cmd_block(u)
        PROVE  IInv'
    <2>1. Online'
      BY <1>7, SameOnline DEF cmd_block, IInv, Lists
    <2> QED BY <1>7, <2>1, UserStep DEF cmd_block
  <1>8. ASSUME NEW u \in Users, NEW n \in Nicks, opserv_alert_check_nick(u, n)
        PROVE  IInv'
    <2>1. Online'
      BY <1>8, NickKeeps DEF IInv
    <2> QED BY <1>8, <2>1, UserStep DEF opserv_alert_check_nick
  <1>9. ASSUME NEW u \in Users, NEW n \in Nicks, NEW i \in Ips,
               opserv_new_user_check(u, [nick |-> n, ip |-> i])
        PROVE  IInv'
    <2>1. [nick |-> n, ip |-> i] \in Client
      BY DEF Client
    <2>2. Online'
      BY <1>9, <2>1, NewUserKeeps DEF IInv
    <2> QED BY <1>9, <2>2, UserStep DEF opserv_new_user_check
  <1>10. ASSUME NEW u \in Users, NEW d \in Discrims, NEW t \in {0, 1}, TraceGag(d, u, t)
         PROVE  IInv'
    <2> DEFINE m == [nicks |-> Nicks, ips |-> {clients[u].ip}]
               e == IF t = 0 THEN 0 ELSE now + t
    <2>1. /\ GagCreate(m, e) /\ m \notin DOMAIN gagList
          /\ UNCHANGED <<now, clients, alerts, hosts, trusted, trustTimers, DefConState>>
      BY <1>10, UncoveredIsNew DEF TraceGag
    <2>2. e \in Nat
      BY DEF IInv, Timed
    <2> HIDE DEF m, e
    <2> QED BY <2>1, <2>2, GagCreateKeeps, GagCreateTimed, GagStep DEF IInv, Timed
  <1>11. ASSUME NEW m \in Masks, NEW t \in {0, 1}, cmd_gag(m, t)
         PROVE  IInv'
    <2> DEFINE e == IF t = 0 THEN 0 ELSE now + t
    <2>1. /\ GagCreate(m, e) /\ m \notin DOMAIN gagList
          /\ UNCHANGED <<now, clients, alerts, hosts, trusted, trustTimers, DefConState>>
      BY <1>11, UncoveredIsNew DEF cmd_gag
    <2>2. e \in Nat
      BY DEF IInv, Timed
    <2> HIDE DEF e
    <2> QED BY <2>1, <2>2, GagCreateKeeps, GagCreateTimed, GagStep DEF IInv, Timed
  <1>12. ASSUME NEW m \in Masks, cmd_ungag(m)
         PROVE  IInv'
    <2>1. Online' /\ GagsTimed'
      BY <1>12, GagFreeKeeps, GagFreeTimed DEF cmd_ungag, IInv, Timed
    <2> QED BY <1>12, <2>1, GagStep DEF cmd_ungag
  <1>13. ASSUME NEW t \in gagTimers, gag_expire(t)
         PROVE  IInv'
    <2>1. PICK m \in DOMAIN gagList : t = <<gagList[m], m>>
      BY DEF IInv, Timed, GagsTimed
    <2>2. GagFree(m) /\ gagTimers' = gagTimers \ {<<gagList[m], m>>}
      BY <1>13, <2>1 DEF gag_expire
    <2>3. Online' /\ GagsTimed'
      BY <1>13, <2>2, GagFreeKeeps, GagFreeTimed DEF gag_expire, IInv, Timed
    <2> QED BY <1>13, <2>3, GagStep DEF gag_expire
  <1>14. ASSUME NEW d \in Discrims, TraceBlock(d)
         PROVE  IInv'
    <2>1. Online'
      BY <1>14, SameOnline DEF TraceBlock, IInv, Lists
    <2> QED BY <1>14, <2>1, UserStep DEF TraceBlock
  <1>15. ASSUME NEW d \in Discrims, TraceKill(d)
         PROVE  IInv'
    <2>1. Online'
      BY <1>15, TraceKillKeeps DEF IInv
    <2> QED BY <1>15, <2>1, UserStep DEF TraceKill
  <1>16. ASSUME NEW a \in AlertNames, cmd_delalert(a)
         PROVE  IInv'
    <2>1. AlertsOK'
      BY <1>16 DEF cmd_delalert, AlertsOK, Drop, IInv
    <2> QED BY <1>16, <2>1, AlertStep DEF cmd_delalert
  <1>17. ASSUME NEW a \in AlertNames, NEW d \in Discrims, NEW r \in Reactions, NEW t \in {0, 1},
                cmd_addalert(a, d, r, t)
         PROVE  IInv'
    <2> DEFINE x == [discrim |-> d, reaction |-> r, expire |-> IF t = 0 THEN 0 ELSE now + t]
    <2>1. x \in Alert
      BY DEF Alert, IInv, Timed
    <2>2. alerts' = Put(alerts, a, x)
      BY <1>17 DEF cmd_addalert
    <2> HIDE DEF x
    <2>3. AlertsOK'
      BY <2>1, <2>2 DEF AlertsOK, Put, IInv
    <2> QED BY <1>17, <2>3, AlertStep DEF cmd_addalert
  <1>18. ASSUME NEW t \in alertTimers, NEW seen \in BOOLEAN, alert_expire(t, seen)
         PROVE  IInv'
    <2>1. alerts' = alerts \/ alerts' = Drop(alerts, t[2])
      BY <1>18 DEF alert_expire
    <2>2. AlertsOK'
      BY <2>1 DEF AlertsOK, Drop, IInv
    <2> QED BY <1>18, <2>2, AlertStep DEF alert_expire
  <1>19. ASSUME NEW i \in Ips, cmd_deltrust(i)
         PROVE  IInv'
    <2>1. TrustTimed'
      BY <1>19, DropTrustTimed DEF cmd_deltrust, IInv, Timed
    <2> QED BY <1>19, <2>1, TrustStep DEF cmd_deltrust
  <1>20. ASSUME NEW i \in Ips, cmd_ungline(i)
         PROVE  IInv'
    <2>1. Online'
      BY <1>20, SameOnline DEF cmd_ungline, IInv, Lists
    <2> QED BY <1>20, <2>1, UserStep DEF cmd_ungline
  <1>21. ASSUME NEW i \in Ips, NEW limit \in Limits, NEW t \in {0, 1},
                cmd_addtrust(i, limit, t) \/ cmd_edittrust(i, limit, t)
         PROVE  IInv'
    <2> DEFINE e == IF t = 0 THEN 0 ELSE now + t
    <2>1. AddTrusted(i, limit, e) /\ OnlyTrust
      BY <1>21 DEF cmd_addtrust, cmd_edittrust
    <2>2. e \in Nat
      BY DEF IInv, Timed
    <2> HIDE DEF e
    <2> QED BY <2>1, <2>2, AddTrustedTimed, TrustStep DEF IInv, Timed
  <1>22. ASSUME NEW t \in trustTimers, opserv_expire_trusted_host(t)
         PROVE  IInv'
    <2>1. PICK i \in DOMAIN trusted : t = <<trusted[i].expires, i>>
      BY DEF IInv, Timed, TrustTimed
    <2>2. trusted' = Drop(trusted, i) /\ trustTimers' = trustTimers \ {<<trusted[i].expires, i>>}
      BY <1>22, <2>1 DEF opserv_expire_trusted_host
    <2>3. TrustTimed'
      BY <2>2, DropTrustTimed DEF IInv, Timed
    <2> QED BY <1>22, <2>3, TrustStep DEF opserv_expire_trusted_host
  <1>23. CASE irc_eob_ack
    <2>1. DefConLevel \in DOMAIN DefCon
      BY DEF IInv, Timed, DefConTimed
    <2> QED BY <1>5, <1>23, <2>1
  <1> QED BY <1>1, <1>2, <1>3, <1>4, <1>5, <1>6, <1>7, <1>8, <1>9, <1>10, <1>11, <1>12, <1>13,
             <1>14, <1>15, <1>16, <1>17, <1>18, <1>19, <1>20, <1>21, <1>22, <1>23 DEF Next

-----------------------------------------------------------------------------
(* Theorems. *)

LEMMA IInvHolds ==
    ASSUME Normal
    PROVE  Spec => []IInv
  <1>1. Init => IInv
    <2> SUFFICES ASSUME Init PROVE IInv
      OBVIOUS
    <2> USE DEF Init, Nothing
    <2>1. Online
      BY DEF Online, HostsOnline, GaggedListed
    <2>2. GagsTimed /\ TrustTimed /\ AlertsOK
      BY DEF GagsTimed, TrustTimed, AlertsOK
    <2>3. DefConTimed
      <3>1. PICK conf \in Configs : DefConLevel = conf.level /\ DefConTimeOut = conf.timeout
        OBVIOUS
      <3> QED BY <3>1 DEF DefConTimed, Normal
    <2> QED BY <2>1, <2>2, <2>3 DEF IInv, Timed
  <1>2. IInv /\ [Next]_vars => IInv'
    <2> SUFFICES ASSUME IInv, [Next]_vars PROVE IInv'
      OBVIOUS
    <2>1. CASE Next
      BY <2>1, NextKeeps
    <2>2. CASE UNCHANGED vars
      BY <2>2, SameOnline, SameTimed, SameAlerts DEF vars, opVars, IInv, DefConState
    <2> QED BY <2>1, <2>2
  <1> QED BY <1>1, <1>2, PTL DEF Spec

\* However many clients, masks and addresses there are: the clients counted for an address
\* are online and come from it, and a gag or trusted host that ends has its own timer and no
\* other, provided the normal level of DEFCON does nothing, as opserv.c has it; while modes
\* that DEFCON forced are set a timeout is queued, or they were ordered without one
\* (opserv_user_cleanup, gag_create, gag_free, opserv_add_trusted_host, cmd_defcon,
\* irc_eob_ack).
THEOREM ListsStayHeld ==
    ASSUME Normal
    PROVE  Spec => []ListsHeld
  <1>1. IInv => ListsHeld
    <2> SUFFICES ASSUME IInv PROVE ListsHeld
      OBVIOUS
    <2>1. HostsOnline
      BY DEF IInv, Online
    <2>2. gagTimers = {<<gagList[m], m>> : m \in {n \in DOMAIN gagList : gagList[n] # 0}}
      BY DEF IInv, Timed, GagsTimed
    <2>3. trustTimers = {<<trusted[i].expires, i>> : i \in {j \in DOMAIN trusted : trusted[j].expires # 0}}
      BY DEF IInv, Timed, TrustTimed
    <2>4. DefConModesSet => defconTimers > 0 \/ untimed
      BY DEF IInv, Timed, DefConTimed
    <2> QED BY <2>1, <2>2, <2>3, <2>4 DEF ListsHeld, ListsTimed
  <1>2. Spec => []IInv
    BY IInvHolds
  <1> QED BY <1>1, <1>2, PTL

\* For all of them too, who is gagged is online and, when counted, matched by a gag that is
\* still listed, through changes of nick and overlapping masks (opserv_alert_check_nick,
\* gag_free).
THEOREM GaggedStayListed ==
    ASSUME Normal
    PROVE  Spec => []GaggedListed
  <1>1. IInv => GaggedListed
    BY DEF IInv, Online
  <1>2. Spec => []IInv
    BY IInvHolds
  <1> QED BY <1>1, <1>2, PTL

\* No timer left behind by DELALERT ends a later alert of the same name before its time
\* (alert_expire).
THEOREM AlertsNotEarly ==
    ASSUME Normal
    PROVE  Spec => AlertNotEarly
  <1> DEFINE A == alertTimers' # alertTimers /\ alertTimers' \subseteq alertTimers /\ clients' = clients =>
                    \A a \in DOMAIN alerts \ DOMAIN alerts' : alerts[a].expire \in 1..now
  <1>1. IInv /\ [Next]_vars => [A]_vars
    <2> SUFFICES ASSUME IInv, Next, alertTimers' # alertTimers, NEW a \in DOMAIN alerts \ DOMAIN alerts'
                 PROVE  alerts[a].expire \in 1..now
      OBVIOUS
    <2>1. PICK t \in alertTimers, seen \in BOOLEAN : alert_expire(t, seen)
      <3>1. alerts' # alerts
        OBVIOUS
      <3> QED BY <3>1
          DEF Next, Tick, opVars, Restart, defcon_timeout, opserv_conf_read, cmd_defcon, irc_eob_ack, Lists,
              opserv_user_cleanup, cmd_block, opserv_alert_check_nick, opserv_new_user_check, TraceGag,
              cmd_ungag, cmd_gag, gag_expire, TraceBlock, TraceKill, cmd_delalert, cmd_addalert, Put,
              OnlyTrust, cmd_deltrust, cmd_ungline, cmd_addtrust, cmd_edittrust, opserv_expire_trusted_host
    <2>2. alerts[a].expire > 0 /\ alerts[a].expire <= now
      BY <2>1 DEF alert_expire, Drop
    <2>3. alerts[a].expire \in Nat /\ now \in Nat
      BY DEF IInv, AlertsOK, Alert, Timed
    <2> QED BY <2>2, <2>3
  <1>2. Spec => []IInv
    BY IInvHolds
  <1> QED BY <1>1, <1>2, PTL DEF Spec, AlertNotEarly
-----------------------------------------------------------------------------
(* Channels. *)

Channel == [members : SUBSET Users, opserv : BOOLEAN, bad : BOOLEAN, flooded : BOOLEAN]

ChannelsTyped ==
    /\ partTimers \in [Channels -> Nat]
    /\ DOMAIN channels \subseteq Channels
    /\ \A c \in DOMAIN channels : channels[c] \in Channel

\* What shutting and opening channels keeps.
Shut == ChannelsTyped /\ ShutTimed

ChInv == Shut /\ ReservedHeld /\ WordsLean

LEMMA SameShut ==
    ASSUME Shut, UNCHANGED <<channels, partTimers>>
    PROVE  Shut'
  BY DEF Shut, ChannelsTyped, ShutTimed

LEMMA EnteredType ==
    ASSUME Shut, NEW u \in Users, NEW c \in Channels
    PROVE  Entered(u, c) \in Channel
  <1>1. opserv_bad_channel(c) \in BOOLEAN
    BY DEF opserv_bad_channel, BadChannel
  <1>2. CASE c \in DOMAIN channels
    BY <1>2 DEF Entered, Shut, ChannelsTyped, Channel
  <1>3. CASE c \notin DOMAIN channels
    BY <1>1, <1>3 DEF Entered, Channel
  <1> QED BY <1>2, <1>3

LEMMA JoinBadShut ==
    ASSUME Shut, NEW u \in Users, NEW c \in Channels, JoinBad(u, c)
    PROVE  Shut'
  <1> DEFINE e == Entered(u, c)
             f == [e EXCEPT !.opserv = TRUE]
  <1>1. e \in Channel
    BY EnteredType
  <1>2. f \in Channel
    BY <1>1 DEF Channel
  <1>3. channels' = Put(channels, c, f) /\ e.bad
    BY DEF JoinBad
  <1>4. partTimers' = IF e.opserv THEN partTimers ELSE [partTimers EXCEPT ![c] = @ + 1]
    BY DEF JoinBad
  <1>5. e.opserv => c \in DOMAIN channels /\ channels[c].opserv /\ e.bad = channels[c].bad
    BY DEF Entered, Shut, ChannelsTyped, Channel
  <1>0. partTimers \in [Channels -> Nat]
    BY DEF Shut, ChannelsTyped
  <1> HIDE DEF e, f
  <1>6. partTimers' \in [Channels -> Nat] /\ partTimers'[c] > 0
    <2>1. CASE e.opserv
      BY <1>0, <1>3, <1>4, <1>5, <2>1 DEF Shut, ShutTimed
    <2>2. CASE ~e.opserv
      BY <1>0, <1>4, <2>2
    <2> QED BY <2>1, <2>2
  <1>7. \A d \in Channels \ {c} : partTimers'[d] = partTimers[d]
    BY <1>0, <1>4
  <1>8. DOMAIN channels' = DOMAIN channels \union {c} /\ channels'[c] = f
    BY <1>3 DEF Put
  <1>9. \A d \in DOMAIN channels \ {c} : channels'[d] = channels[d]
    BY <1>3 DEF Put
  <1>10. ChannelsTyped'
    BY <1>2, <1>6, <1>8, <1>9 DEF Shut, ChannelsTyped
  <1>11. ShutTimed'
    BY <1>6, <1>7, <1>8, <1>9 DEF Shut, ChannelsTyped, ShutTimed
  <1> QED BY <1>10, <1>11 DEF Shut

LEMMA JoinGoodShut ==
    ASSUME Shut, NEW u \in Users, NEW c \in Channels, NEW flood \in BOOLEAN, JoinGood(u, c, flood)
    PROVE  Shut'
  <1> DEFINE e == Entered(u, c)
             moderate == flood /\ ~e.flooded /\ Cardinality(e.members) > Threshold
             f == [e EXCEPT !.flooded = flood, !.opserv = @ \/ moderate]
  <1>1. e \in Channel
    BY EnteredType
  <1>2. f \in Channel
    BY <1>1 DEF Channel
  <1>3. channels' = Put(channels, c, f) /\ ~e.bad /\ partTimers' = partTimers
    BY DEF JoinGood
  <1>4. f.bad = e.bad
    BY <1>1 DEF Channel
  <1> HIDE DEF e, f
  <1>5. DOMAIN channels' = DOMAIN channels \union {c} /\ channels'[c] = f
    BY <1>3 DEF Put
  <1>6. \A d \in DOMAIN channels \ {c} : channels'[d] = channels[d]
    BY <1>3 DEF Put
  <1>7. ChannelsTyped'
    BY <1>2, <1>3, <1>5, <1>6 DEF Shut, ChannelsTyped
  <1>8. ShutTimed'
    BY <1>3, <1>4, <1>5, <1>6 DEF Shut, ChannelsTyped, ShutTimed
  <1> QED BY <1>7, <1>8 DEF Shut

\* Somebody leaves a channel, OpServ or a member: n is what is left of it, k its timers.
LEMMA SettleShut ==
    ASSUME Shut, NEW c \in DOMAIN channels, NEW n \in Channel, NEW k \in Nat,
           n.bad /\ n.opserv => k > 0,
           channels' = Settle([channels EXCEPT ![c] = n], DOMAIN channels \ {c}),
           partTimers' = TimersLeft([partTimers EXCEPT ![c] = k], channels')
    PROVE  Shut'
  <1>1. DOMAIN channels' \subseteq DOMAIN channels
    BY DEF Settle
  <1>2. \A d \in DOMAIN channels' : channels'[d] = IF d = c THEN n ELSE channels[d]
    BY DEF Settle
  <1>3. c \in Channels /\ DOMAIN channels' \subseteq Channels
    BY <1>1 DEF Shut, ChannelsTyped
  <1>4. \A d \in Channels : partTimers'[d] =
            IF d \in DOMAIN channels' THEN (IF d = c THEN k ELSE partTimers[d]) ELSE 0
    BY <1>3 DEF TimersLeft, Shut, ChannelsTyped
  <1>5. partTimers' \in [Channels -> Nat]
    BY <1>3 DEF TimersLeft, Shut, ChannelsTyped
  <1>6. ChannelsTyped'
    BY <1>1, <1>2, <1>3, <1>5 DEF Shut, ChannelsTyped
  <1>7. \A d \in DOMAIN channels' : channels'[d].bad /\ channels'[d].opserv => partTimers'[d] > 0
    <2> SUFFICES ASSUME NEW d \in DOMAIN channels', channels'[d].bad, channels'[d].opserv
                 PROVE  partTimers'[d] > 0
      OBVIOUS
    <2>1. CASE d = c
      BY <1>2, <1>3, <1>4, <2>1
    <2>2. CASE d # c
      <3>1. channels'[d] = channels[d] /\ d \in DOMAIN channels
        BY <1>1, <1>2, <2>2
      <3>2. partTimers[d] > 0
        BY <3>1 DEF Shut, ShutTimed
      <3> QED BY <1>3, <1>4, <2>2, <3>2
    <2> QED BY <2>1, <2>2
  <1>8. \A d \in Channels : partTimers'[d] > 0 => d \in DOMAIN channels'
    <2> SUFFICES ASSUME NEW d \in Channels, d \notin DOMAIN channels'
                 PROVE  ~(partTimers'[d] > 0)
      OBVIOUS
    <2>1. partTimers'[d] = 0
      BY <1>4
    <2> QED BY <2>1
  <1>9. ShutTimed'
    BY <1>7, <1>8 DEF ShutTimed
  <1> QED BY <1>6, <1>9 DEF Shut

LEMMA LeaveShut ==
    ASSUME Shut, NEW u \in Users, NEW c \in Channels, Leave(u, c)
    PROVE  Shut'
  <1> DEFINE n == [channels[c] EXCEPT !.members = @ \ {u}]
  <1>1. c \in DOMAIN channels /\ channels[c] \in Channel
    BY DEF Leave, Shut, ChannelsTyped
  <1>2. n \in Channel /\ n.bad = channels[c].bad /\ n.opserv = channels[c].opserv
    BY <1>1 DEF Channel
  <1>3. channels' = Settle([channels EXCEPT ![c] = n], DOMAIN channels \ {c})
    BY <1>1 DEF Leave
  <1>4. partTimers[c] \in Nat /\ [partTimers EXCEPT ![c] = partTimers[c]] = partTimers
    BY DEF Shut, ChannelsTyped
  <1>5. partTimers' = TimersLeft([partTimers EXCEPT ![c] = partTimers[c]], channels')
    BY <1>4 DEF Leave
  <1>6. n.bad /\ n.opserv => partTimers[c] > 0
    BY <1>1, <1>2 DEF Shut, ShutTimed
  <1> HIDE DEF n
  <1> QED BY <1>1, <1>2, <1>3, <1>4, <1>5, <1>6, SettleShut

LEMMA PartShut ==
    ASSUME Shut, NEW c \in Channels, opserv_part_channel(c)
    PROVE  Shut'
  <1> DEFINE n == [channels[c] EXCEPT !.opserv = FALSE]
  <1>1. c \in DOMAIN channels /\ channels[c] \in Channel
    BY DEF opserv_part_channel, Shut, ChannelsTyped
  <1>2. n \in Channel /\ ~n.opserv
    BY <1>1 DEF Channel
  <1>3. channels' = Settle([channels EXCEPT ![c] = n], DOMAIN channels \ {c})
    BY <1>1 DEF opserv_part_channel
  <1>4. partTimers[c] - 1 \in Nat
    BY DEF opserv_part_channel, Shut, ChannelsTyped
  <1>5. partTimers' = TimersLeft([partTimers EXCEPT ![c] = partTimers[c] - 1], channels')
    BY DEF opserv_part_channel
  <1> HIDE DEF n
  <1> QED BY <1>1, <1>2, <1>3, <1>4, <1>5, SettleShut

LEMMA AddBadShut ==
    ASSUME Shut, NEW w \in Words, cmd_addbad(w)
    PROVE  Shut'
  <1> DEFINE hit == {c \in DOMAIN channels :
                        BadChannel(opserv_add_bad_word(w), opserv_exempt_channels, chanGlines, c)}
  <1>1. DOMAIN channels' = DOMAIN channels
    BY DEF cmd_addbad
  <1>2. \A c \in DOMAIN channels : channels'[c] =
            IF c \in hit THEN [[channels[c] EXCEPT !.opserv = TRUE] EXCEPT !.bad = TRUE] ELSE channels[c]
    BY DEF cmd_addbad, opserv_shutdown_channel
  <1>3. partTimers' \in [Channels -> Nat]
        /\ \A c \in Channels : partTimers'[c] = IF c \in hit THEN partTimers[c] + 1 ELSE partTimers[c]
    <2>1. partTimers \in [Channels -> Nat]
      BY DEF Shut, ChannelsTyped
    <2>2. partTimers' = [c \in Channels |-> IF c \in hit THEN opserv_shutdown_channel(c).timers[c] ELSE partTimers[c]]
      BY DEF cmd_addbad
    <2>3. \A c \in Channels : opserv_shutdown_channel(c).timers[c] = partTimers[c] + 1
      BY <2>1 DEF opserv_shutdown_channel
    <2> QED BY <2>1, <2>2, <2>3
  <1> HIDE DEF hit
  <1>4. \A c \in DOMAIN channels : channels'[c] \in Channel
    BY <1>2 DEF Shut, ChannelsTyped, Channel
  <1>5. ChannelsTyped'
    BY <1>1, <1>3, <1>4 DEF Shut, ChannelsTyped
  <1>6. \A c \in DOMAIN channels : channels'[c].bad /\ channels'[c].opserv => partTimers'[c] > 0
    <2> SUFFICES ASSUME NEW c \in DOMAIN channels, channels'[c].bad, channels'[c].opserv
                 PROVE  partTimers'[c] > 0
      OBVIOUS
    <2>1. c \in Channels /\ partTimers[c] \in Nat
      BY DEF Shut, ChannelsTyped
    <2>2. CASE c \in hit
      BY <1>3, <2>1, <2>2
    <2>3. CASE c \notin hit
      <3>1. partTimers[c] > 0
        BY <1>2, <2>3 DEF Shut, ShutTimed
      <3> QED BY <1>3, <2>1, <2>3, <3>1
    <2> QED BY <2>2, <2>3
  <1>7. hit \subseteq DOMAIN channels
    BY DEF hit
  <1>8. ShutTimed'
    BY <1>1, <1>3, <1>6, <1>7 DEF Shut, ChannelsTyped, ShutTimed
  <1> QED BY <1>5, <1>8 DEF Shut

LEMMA ReopenShut ==
    ASSUME Shut, NEW S \in SUBSET DOMAIN channels, Reopen(S)
    PROVE  Shut'
  <1>1. DOMAIN channels' = DOMAIN channels
    BY DEF Reopen
  <1>2. \A c \in DOMAIN channels :
            /\ c \in S => channels'[c] \in Channel /\ ~channels'[c].opserv
            /\ c \notin S => channels'[c] = channels[c]
    BY DEF Reopen, Shut, ChannelsTyped, Channel
  <1>3. partTimers' \in [Channels -> Nat]
        /\ \A c \in Channels : partTimers'[c] = IF c \in S THEN 0 ELSE partTimers[c]
    BY DEF Reopen, Shut, ChannelsTyped
  <1>4. ChannelsTyped'
    BY <1>1, <1>2, <1>3 DEF Shut, ChannelsTyped
  <1>5. ShutTimed'
    BY <1>1, <1>2, <1>3 DEF Shut, ChannelsTyped, ShutTimed
  <1> QED BY <1>4, <1>5 DEF Shut

LEMMA RestartShut ==
    ASSUME RestartChannels
    PROVE  Shut'
  BY DEF RestartChannels, Shut, ChannelsTyped, ShutTimed, Nothing

LEMMA ShutNext ==
    ASSUME Shut, [ChannelsNext]_chVars
    PROVE  Shut'
  <1>1. ASSUME NEW u \in Users, NEW c \in Channels,
               JoinBad(u, c) \/ Leave(u, c) \/ \E flood \in BOOLEAN : JoinGood(u, c, flood)
        PROVE  Shut'
    BY <1>1, JoinBadShut, LeaveShut, JoinGoodShut
  <1>2. ASSUME NEW c \in Channels, opserv_part_channel(c)
        PROVE  Shut'
    BY <1>2, PartShut
  <1>3. ASSUME NEW c \in Channels, cmd_addexempt(c)
        PROVE  Shut'
    BY <1>3, ReopenShut DEF cmd_addexempt
  <1>4. ASSUME NEW w \in Words, cmd_delbad(w)
        PROVE  Shut'
    BY <1>4, ReopenShut DEF cmd_delbad
  <1>5. ASSUME NEW w \in Words, cmd_addbad(w)
        PROVE  Shut'
    BY <1>5, AddBadShut
  <1>6. CASE RestartChannels
    BY <1>6, RestartShut
  <1>7. CASE UNCHANGED <<channels, partTimers>>
    BY <1>7, SameShut
  <1>8. ASSUME NEW c \in Channels, cmd_delexempt(c) \/ ChannelGline(c)
        PROVE  UNCHANGED <<channels, partTimers>>
    BY <1>8 DEF cmd_delexempt, ChannelGline
  <1>9. ASSUME NEW n \in Dummies,
               \/ CloneAdd(n) \/ free_reserve(n) \/ CloneRemove(n) \/ Killed(n)
               \/ \E kind \in {"reserve", "collide"} : opserv_add_reserve(n, kind)
        PROVE  UNCHANGED <<channels, partTimers>>
    BY <1>9 DEF CloneAdd, free_reserve, CloneRemove, Killed, opserv_add_reserve, OnlyLocals
  <1>10. CASE UNCHANGED chVars
    BY <1>10, SameShut DEF chVars
  <1> QED BY <1>1, <1>2, <1>3, <1>4, <1>5, <1>6, <1>7, <1>8, <1>9, <1>10 DEF ChannelsNext

LEMMA ReservedNext ==
    ASSUME ReservedHeld, [ChannelsNext]_chVars
    PROVE  ReservedHeld'
  <1>1. ASSUME NEW n \in Dummies,
               \/ CloneAdd(n) \/ free_reserve(n) \/ CloneRemove(n) \/ Killed(n)
               \/ \E kind \in {"reserve", "collide"} : opserv_add_reserve(n, kind)
        PROVE  ReservedHeld'
    BY <1>1 DEF CloneAdd, free_reserve, CloneRemove, Killed, opserv_add_reserve, LocalGone, Put, Drop, ReservedHeld
  <1>2. CASE RestartChannels
    BY <1>2 DEF RestartChannels, ReservedHeld
  <1>3. CASE UNCHANGED <<locals, reserved>>
    BY <1>3 DEF ReservedHeld
  <1>4. ASSUME NEW u \in Users, NEW c \in Channels,
               JoinBad(u, c) \/ Leave(u, c) \/ \E flood \in BOOLEAN : JoinGood(u, c, flood)
        PROVE  UNCHANGED <<locals, reserved>>
    BY <1>4 DEF JoinBad, Leave, JoinGood, Same
  <1>5. ASSUME NEW c \in Channels,
               opserv_part_channel(c) \/ cmd_addexempt(c) \/ cmd_delexempt(c) \/ ChannelGline(c)
        PROVE  UNCHANGED <<locals, reserved>>
    BY <1>5 DEF opserv_part_channel, cmd_addexempt, cmd_delexempt, ChannelGline, Same
  <1>6. ASSUME NEW w \in Words, cmd_delbad(w) \/ cmd_addbad(w)
        PROVE  UNCHANGED <<locals, reserved>>
    BY <1>6 DEF cmd_delbad, cmd_addbad
  <1>7. CASE UNCHANGED chVars
    BY <1>7 DEF chVars, ReservedHeld
  <1> QED BY <1>1, <1>2, <1>3, <1>4, <1>5, <1>6, <1>7 DEF ChannelsNext

LEMMA WordsNext ==
    ASSUME WordsLean, [ChannelsNext]_chVars
    PROVE  WordsLean'
  <1>1. ASSUME NEW w \in Words, cmd_addbad(w)
        PROVE  WordsLean'
    BY <1>1 DEF cmd_addbad, opserv_add_bad_word, WordsLean
  <1>2. ASSUME NEW w \in Words, cmd_delbad(w)
        PROVE  WordsLean'
    BY <1>2 DEF cmd_delbad, WordsLean
  <1>3. CASE UNCHANGED opserv_bad_words
    BY <1>3 DEF WordsLean
  <1>4. ASSUME NEW u \in Users, NEW c \in Channels,
               JoinBad(u, c) \/ Leave(u, c) \/ \E flood \in BOOLEAN : JoinGood(u, c, flood)
        PROVE  UNCHANGED opserv_bad_words
    BY <1>4 DEF JoinBad, Leave, JoinGood, Same
  <1>5. ASSUME NEW c \in Channels,
               opserv_part_channel(c) \/ cmd_addexempt(c) \/ cmd_delexempt(c) \/ ChannelGline(c)
        PROVE  UNCHANGED opserv_bad_words
    BY <1>5 DEF opserv_part_channel, cmd_addexempt, cmd_delexempt, ChannelGline, Same
  <1>6. ASSUME NEW n \in Dummies,
               \/ CloneAdd(n) \/ free_reserve(n) \/ CloneRemove(n) \/ Killed(n)
               \/ \E kind \in {"reserve", "collide"} : opserv_add_reserve(n, kind)
        PROVE  UNCHANGED opserv_bad_words
    BY <1>6 DEF CloneAdd, free_reserve, CloneRemove, Killed, opserv_add_reserve, OnlyLocals
  <1>7. CASE RestartChannels
    BY <1>7, <1>3 DEF RestartChannels
  <1>8. CASE UNCHANGED chVars
    BY <1>8, <1>3 DEF chVars
  <1> QED BY <1>1, <1>2, <1>3, <1>4, <1>5, <1>6, <1>7, <1>8 DEF ChannelsNext

\* For every number of channels, words and nicks: a channel OpServ shut has a timer that opens it
\* again and no timer waits for a channel that is gone, reserved nicks are users of ours, and no
\* bad word is redundant (opserv_shutdown_channel, opserv_channel_delete, opserv_user_cleanup,
\* opserv_add_bad_word).
THEOREM ChannelsStayHeld == ChannelsSpec => []ChannelsHeld
  <1>1. ChannelsInit => ChInv
    BY DEF ChannelsInit, ChInv, Shut, ChannelsTyped, ShutTimed, ReservedHeld, WordsLean, Nothing
  <1>2. ChInv /\ [ChannelsNext]_chVars => ChInv'
    BY ShutNext, ReservedNext, WordsNext DEF ChInv
  <1>3. ChInv => ChannelsHeld
    BY DEF ChInv, Shut, ChannelsHeld
  <1> QED BY <1>1, <1>2, <1>3, PTL DEF ChannelsSpec
=============================================================================
