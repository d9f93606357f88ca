----------------------------- MODULE HostServ ------------------------------
(* Virtual hosts (mod-hostserv.c): a user asks for one, staff approve it, and *)
(* it is shown by the users of the account.  Accounts are numbered by their   *)
(* registration, because the requests know them by name only.  The syntax of  *)
(* a host is left out: Vhosts are the valid ones.                             *)
EXTENDS Integers, FiniteSets, Functions

CONSTANTS HostUsers, HostNames, Vhosts, Offers, require_approval, MaxAccount,
          NoHost  \* no account, no virtual host

VARIABLES
    owner,      \* name -> number of the account that has it
    fakehost,   \* number -> virtual host of the account
    login,      \* user -> number of its account, or 0
    shown,      \* user -> virtual host it shows, or NoHost for its own host
    hostserv_requests,  \* name -> [vhost, by]: by is the account that asked
    hostserv_offers, accounts,
    approved,   \* history: <<number, vhost>> that were given
    untold      \* history: users whose account, or its host, changed without the host being set for them

hostVars == <<owner, fakehost, login, shown, hostserv_requests, hostserv_offers, accounts, approved, untold>>
nickVars == <<owner, login, accounts>>

Unset == [x \in {} |-> 0]
SetAt(f, x, y) == [z \in DOMAIN f \union {x} |-> IF z = x THEN y ELSE f[z]]

HostInit ==
    /\ owner = Unset /\ fakehost = Unset /\ accounts = 0 /\ approved = {} /\ untold = {}
    /\ login = [u \in HostUsers |-> 0] /\ shown = [u \in HostUsers |-> NoHost]
    /\ hostserv_requests = Unset /\ hostserv_offers = {}

Name(n) == CHOOSE h \in DOMAIN owner : owner[h] = n
Sessions(n) == {u \in HostUsers : login[u] = n}
Wear(us, v) == shown' = [u \in HostUsers |-> IF u \in us THEN v ELSE shown[u]]
Told(us) == untold' = untold \ us

-----------------------------------------------------------------------------
cmd_on(u) ==
    /\ login[u] # 0 /\ fakehost[login[u]] # NoHost
    /\ Wear({u}, fakehost[login[u]]) /\ Told({u})
    /\ UNCHANGED <<nickVars, fakehost, hostserv_requests, hostserv_offers, approved>>

cmd_off(u) ==
    /\ login[u] # 0
    /\ Wear({u}, NoHost) /\ Told({u})
    /\ UNCHANGED <<nickVars, fakehost, hostserv_requests, hostserv_offers, approved>>

cmd_group(u) ==
    /\ login[u] # 0 /\ fakehost[login[u]] # NoHost
    /\ Wear(Sessions(login[u]), fakehost[login[u]]) /\ Told(Sessions(login[u]))
    /\ UNCHANGED <<nickVars, fakehost, hostserv_requests, hostserv_offers, approved>>

\* SET and SETALL.
cmd_set(h, v) ==
    /\ h \in DOMAIN owner
    /\ fakehost' = [fakehost EXCEPT ![owner[h]] = v]
    /\ approved' = approved \cup {<<owner[h], v>>}
    /\ Wear(Sessions(owner[h]), v) /\ Told(Sessions(owner[h]))
    /\ UNCHANGED <<nickVars, hostserv_requests, hostserv_offers>>

cmd_del(h) ==
    /\ h \in DOMAIN owner
    /\ fakehost' = [fakehost EXCEPT ![owner[h]] = NoHost]
    /\ Wear(Sessions(owner[h]), NoHost) /\ Told(Sessions(owner[h]))
    /\ UNCHANGED <<nickVars, hostserv_requests, hostserv_offers, approved>>

\* Without approval the host is the account's at once, on this session only.
cmd_request(u, v) ==
    /\ login[u] # 0 /\ Name(login[u]) \notin DOMAIN hostserv_requests
    /\ IF require_approval
       THEN /\ hostserv_requests' = SetAt(hostserv_requests, Name(login[u]), [vhost |-> v, by |-> login[u]])
            /\ UNCHANGED <<fakehost, shown, approved, untold>>
       ELSE /\ fakehost' = [fakehost EXCEPT ![login[u]] = v]
            /\ approved' = approved \cup {<<login[u], v>>} 
            /\ Wear({u}, v) /\ untold' = (untold \cup Sessions(login[u])) \ {u}
            /\ UNCHANGED hostserv_requests
    /\ UNCHANGED <<nickVars, hostserv_offers>>

cmd_activate(h) ==
    /\ h \in DOMAIN owner /\ h \in DOMAIN hostserv_requests
    /\ fakehost' = [fakehost EXCEPT ![owner[h]] = hostserv_requests[h].vhost]
    /\ approved' = approved \cup {<<owner[h], hostserv_requests[h].vhost>>}
    /\ Wear(Sessions(owner[h]), hostserv_requests[h].vhost) /\ Told(Sessions(owner[h]))
    /\ hostserv_requests' = Restrict(hostserv_requests, DOMAIN hostserv_requests \ {h})
    /\ UNCHANGED <<nickVars, hostserv_offers>>

cmd_reject(h) ==
    /\ h \in DOMAIN owner /\ h \in DOMAIN hostserv_requests
    /\ hostserv_requests' = Restrict(hostserv_requests, DOMAIN hostserv_requests \ {h})
    /\ UNCHANGED <<nickVars, fakehost, shown, hostserv_offers, approved, untold>>

cmd_offer(v) ==
    /\ hostserv_offers' = hostserv_offers \cup {v}
    /\ UNCHANGED <<nickVars, fakehost, shown, hostserv_requests, approved, untold>>

cmd_offerdel(v) ==
    /\ v \in hostserv_offers /\ hostserv_offers' = hostserv_offers \ {v}
    /\ UNCHANGED <<nickVars, fakehost, shown, hostserv_requests, approved, untold>>

-----------------------------------------------------------------------------
\* Mutant: whoever logs in shows the host of the account it had.
ShownKept(u, n) == UNCHANGED shown

\* A login shows the virtual host of the account, if it has one.
hostserv_check_auth(u, n) ==
    IF n # 0 /\ fakehost[n] # NoHost THEN Wear({u}, fakehost[n]) ELSE UNCHANGED shown

\* A user logs in; a user logs out, or its account goes, and the handlers run
\* with no account.
HostLogIn(u, h) ==
    /\ h \in DOMAIN owner /\ login[u] # owner[h]
    /\ login' = [login EXCEPT ![u] = owner[h]]
    /\ hostserv_check_auth(u, owner[h]) /\ Told({u})
    /\ UNCHANGED <<owner, accounts, fakehost, hostserv_requests, hostserv_offers, approved>>

HostLogOut(u) ==
    /\ login[u] # 0
    /\ login' = [login EXCEPT ![u] = 0]
    /\ hostserv_check_auth(u, 0) /\ Told({u})
    /\ UNCHANGED <<owner, accounts, fakehost, hostserv_requests, hostserv_offers, approved>>

\* external: a client leaves, another comes under its number.
Reconnect(u) ==
    /\ login' = [login EXCEPT ![u] = 0] /\ Wear({u}, NoHost) /\ Told({u})
    /\ UNCHANGED <<owner, accounts, fakehost, hostserv_requests, hostserv_offers, approved>>

\* external: NickServ's REGISTER, UNREGISTER, RENAME and MERGE, of which HostServ is not told.
RegisterAccount(h) ==
    /\ h \notin DOMAIN owner /\ accounts < MaxAccount
    /\ accounts' = accounts + 1
    /\ owner' = SetAt(owner, h, accounts') /\ fakehost' = SetAt(fakehost, accounts', NoHost)
    /\ UNCHANGED <<login, shown, hostserv_requests, hostserv_offers, approved, untold>>

UnregisterAccount(h) ==
    /\ h \in DOMAIN owner
    /\ owner' = Restrict(owner, DOMAIN owner \ {h})
    /\ fakehost' = Restrict(fakehost, DOMAIN fakehost \ {owner[h]})
    /\ login' = [u \in HostUsers |-> IF login[u] = owner[h] THEN 0 ELSE login[u]]
    /\ UNCHANGED <<accounts, shown, hostserv_requests, hostserv_offers, approved, untold>>

RenameAccount(h, k) ==
    /\ h \in DOMAIN owner /\ k \notin DOMAIN owner
    /\ owner' = SetAt(Restrict(owner, DOMAIN owner \ {h}), k, owner[h])
    /\ UNCHANGED <<login, accounts, fakehost, shown, hostserv_requests, hostserv_offers, approved, untold>>

\* The sessions of h become k's, without the handlers of logins; k takes over h's host if it has
\* none, "This intentionally doesn't set it for users previously attached to hi_to".
MergeAccounts(h, k) ==
    LET carried == fakehost[owner[h]] # NoHost /\ fakehost[owner[k]] = NoHost
    IN  /\ h # k /\ h \in DOMAIN owner /\ k \in DOMAIN owner
        /\ login' = [u \in HostUsers |-> IF login[u] = owner[h] THEN owner[k] ELSE login[u]]
        /\ fakehost' = [n \in DOMAIN fakehost \ {owner[h]} |->
                           IF n = owner[k] /\ carried THEN fakehost[owner[h]] ELSE fakehost[n]]
        /\ approved' = IF carried THEN approved \cup {<<owner[k], fakehost[owner[h]]>>} ELSE approved
        /\ untold' = untold \cup Sessions(owner[h]) \cup (IF carried THEN Sessions(owner[k]) ELSE {})
        /\ owner' = Restrict(owner, DOMAIN owner \ {h})
        /\ UNCHANGED <<accounts, shown, hostserv_requests, hostserv_offers>>

\* A restart writes the requests; reading them takes a record for a dictionary,
\* so any of them may be lost (the crash it may cause is not modelled).
hostserv_saxdb_read ==
    /\ \E kept \in SUBSET DOMAIN hostserv_requests :
          hostserv_requests' = Restrict(hostserv_requests, kept)
    /\ login' = [u \in HostUsers |-> 0] /\ shown' = [u \in HostUsers |-> NoHost]
    /\ UNCHANGED <<owner, accounts, fakehost, hostserv_offers, approved, untold>>

HostNext ==
    \/ \E u \in HostUsers : cmd_on(u) \/ cmd_off(u) \/ cmd_group(u) \/ HostLogOut(u) \/ Reconnect(u)
    \/ \E u \in HostUsers, h \in HostNames : HostLogIn(u, h)
    \/ \E h \in HostNames, v \in Vhosts : cmd_set(h, v)
    \/ \E h \in HostNames : cmd_del(h) \/ cmd_activate(h) \/ cmd_reject(h) \/ RegisterAccount(h) \/ UnregisterAccount(h)
    \/ \E u \in HostUsers, v \in Vhosts : cmd_request(u, v)
    \/ \E v \in Offers : cmd_offer(v) \/ cmd_offerdel(v)
    \/ \E h, k \in HostNames : RenameAccount(h, k) \/ MergeAccounts(h, k)
    \/ hostserv_saxdb_read

HostSpec == HostInit /\ [][HostNext]_hostVars

-----------------------------------------------------------------------------
\* Whoever shows a virtual host shows one that was given to an account, and a logged-in user whose
\* account has one shows that one or its own host, never what an account it was logged in to before
\* gave it (hostserv_check_auth, cmd_set).  The exceptions are users whose host nobody set when their
\* account's changed: cmd_request without approval tells no other session of the account, and MERGE
\* of NickServ neither the sessions it moves to another account nor those of the account that
\* inherits a host.
ShownApproved ==
    \A u \in HostUsers : shown[u] # NoHost =>
        /\ \E p \in approved : p[2] = shown[u]
        /\ login[u] # 0 /\ u \notin untold /\ fakehost[login[u]] # NoHost =>
              shown[u] = fakehost[login[u]] /\ <<login[u], shown[u]>> \in approved
=============================================================================
