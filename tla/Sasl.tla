-------------------------------- MODULE Sasl --------------------------------
(***************************************************************************)
(* Login while connecting: the SASL agent of NickServ (src/src/nickserv.c, *)
(* sasl_get_session to handle_sasl_input), the test of the credentials     *)
(* (loc_auth) and the client that arrives with the account it was granted  *)
(* (handle_account).  A packet comes in fragments of 400 bytes and ends    *)
(* with a shorter one; each fragment is terminated at its own length, so a *)
(* packet of several fragments decodes to nothing.  LDAP is left out; a    *)
(* session that was freed is written to once more, without effect.         *)
(***************************************************************************)
EXTENDS Integers, FiniteSets, Bags

CONSTANTS
    Uids, Accounts,
    Fps,                \* fingerprints of client certificates
    FpsOf,              \* the fingerprints of each account
    Roams, Near,        \* accounts with the mask *@*; others with one that matches every client here
    Impersonates,       \* accounts flagged IMPERSONATE
    maxlogins,
    Period,             \* the 30 seconds between two looks for stale sessions
    MaxFragments,       \* fragments of 400 bytes that fit into a buffer of 8192
    MaxTimers, MaxRegistrations, MaxSaslTime

VARIABLES
    saslsessions,       \* by uid
    staleTimers,        \* bag of times of the queued sasl_delete_stale
    saslRegistered,     \* account to its registration time, as a serial number; 0: none
    saslSuspended,
    granted,            \* uid to the account and time sent with "L", until the client arrives
    saslUsers,          \* uid to the account of a client
    serial, saslNow

ASSUME PeriodNatural == Period \in Nat

saslVars == <<saslsessions, staleTimers, saslRegistered, saslSuspended, granted, saslUsers, serial, saslNow>>
accountVars == <<saslRegistered, saslSuspended, serial>>

SaslPut(f, x, y) == [z \in DOMAIN f \union {x} |-> IF z = x THEN y ELSE f[z]]
SaslDrop(f, x) == [z \in DOMAIN f \ {x} |-> f[z]]
SaslEmpty == [x \in {} |-> x]
Existing == {h \in Accounts : saslRegistered[h] > 0}

SaslInit ==
    /\ saslsessions = SaslEmpty /\ staleTimers = EmptyBag
    /\ saslRegistered = [h \in Accounts |-> 1] /\ saslSuspended = {} /\ serial = 1
    /\ granted = SaslEmpty /\ saslUsers = SaslEmpty
    /\ saslNow = 0

-----------------------------------------------------------------------------
\* sasl_get_session; "touched" is when the session was last known not to be stale.
NewSession == [mech |-> "none", fragments |-> 0, fp |-> "none", host |-> FALSE, stale |-> FALSE, touched |-> saslNow]
sasl_get_session(uid) == IF uid \in DOMAIN saslsessions THEN saslsessions[uid] ELSE NewSession

SessionTimers == IF DOMAIN saslsessions = {} THEN staleTimers (+) SetToBag({saslNow + Period}) ELSE staleTimers

\* Mutant: the next look is queued only when something was found.
StaleTimersAgain(gone, left) == IF gone # {} THEN SetToBag({saslNow + Period}) ELSE EmptyBag

\* The end of sasl_delete_stale.
TimersAgain(gone, left) ==
    IF left # {} THEN SetToBag({saslNow + Period}) ELSE EmptyBag

sasl_delete_stale ==
    LET gone == {u \in DOMAIN saslsessions : saslsessions[u].stale}
        left == DOMAIN saslsessions \ gone
    IN  /\ BagIn(saslNow, staleTimers)
        /\ saslsessions' = [u \in left |-> [saslsessions[u] EXCEPT !.stale = TRUE]]
        /\ staleTimers' = (staleTimers (-) SetToBag({saslNow})) (+) TimersAgain(gone, left)
        /\ UNCHANGED <<accountVars, granted, saslUsers, saslNow>>

-----------------------------------------------------------------------------
\* The accounts loc_auth may look at: the one named or, when there is none, the owner of
\* the fingerprint.
Looked(fp, name) ==
    IF name \in Existing THEN {name} ELSE {h \in Existing : fp \in FpsOf[h]}

\* loc_auth: the accounts it may return.
loc_auth(fp, name, knows, host) ==
    {h \in Looked(fp, name) :
        /\ (knows /\ h = name) \/ fp \in FpsOf[h]
        /\ h \in IF host THEN Roams \union Near ELSE Roams
        /\ h \notin saslSuspended
        /\ Cardinality({u \in DOMAIN saslUsers : saslUsers[u].account = h}) < maxlogins}

\* sasl_packet, for the credentials of a mechanism; "as" is the account to act as (authzid).
Outcomes(s, name, knows, as) ==
    IF s.fragments > 0
    THEN IF s.mech = "EXTERNAL" THEN loc_auth(s.fp, "none", FALSE, s.host) ELSE {}
    ELSE IF s.mech = "EXTERNAL" THEN loc_auth(s.fp, name, FALSE, s.host)
    ELSE UNION {IF as \in {"none", name} THEN {h} ELSE IF h \in Impersonates THEN {as} \intersect Existing ELSE {} :
                   h \in loc_auth(s.fp, name, knows, s.host)}

\* The session after a fragment; handle_sasl_input stores the fingerprint with it.
Received(uid, fp) ==
    LET s == sasl_get_session(uid) IN IF fp = "none" THEN s ELSE [s EXCEPT !.fp = fp]

Ended(uid) == saslsessions' = SaslDrop(saslsessions, uid)

\* handle_sasl_input: a fragment of 400 bytes; the buffer may be full.
Fragment(uid, fp) ==
    LET s == Received(uid, fp)
    IN  /\ IF s.fragments = MaxFragments THEN Ended(uid)
           ELSE saslsessions' = SaslPut(saslsessions, uid, [s EXCEPT !.fragments = @ + 1])
        /\ staleTimers' = SessionTimers
        /\ UNCHANGED <<accountVars, granted, saslUsers, saslNow>>

\* handle_sasl_input: the end of a packet that names the mechanism.
Mechanism(uid, fp, mech) ==
    LET s == Received(uid, fp)
    IN  /\ s.mech = "none"
        /\ IF s.fragments = 0 /\ (mech = "PLAIN" \/ (mech = "EXTERNAL" /\ s.fp # "none"))
           THEN saslsessions' = SaslPut(saslsessions, uid, [s EXCEPT !.mech = mech, !.stale = FALSE, !.touched = saslNow])
           ELSE Ended(uid)
        /\ staleTimers' = SessionTimers
        /\ UNCHANGED <<accountVars, granted, saslUsers, saslNow>>

\* handle_sasl_input: the end of a packet with credentials.
Credentials(uid, fp, name, knows, as) ==
    LET s == Received(uid, fp)
        won == Outcomes(s, name, knows, as)
    IN  /\ s.mech # "none"
        /\ Ended(uid)
        /\ granted' \in IF won = {} THEN {granted}
                        ELSE {SaslPut(granted, uid, [account |-> h, stamp |-> saslRegistered[h]]) : h \in won}
        /\ staleTimers' = SessionTimers
        /\ UNCHANGED <<accountVars, saslUsers, saslNow>>

\* handle_sasl_input: "D" makes a session, if there is none, and deletes it; "H" tells the host.
Abort(uid) ==
    /\ Ended(uid) /\ staleTimers' = SessionTimers
    /\ UNCHANGED <<accountVars, granted, saslUsers, saslNow>>

HostTold(uid) ==
    /\ saslsessions' = SaslPut(saslsessions, uid, [sasl_get_session(uid) EXCEPT !.host = TRUE])
    /\ staleTimers' = SessionTimers
    /\ UNCHANGED <<accountVars, granted, saslUsers, saslNow>>

-----------------------------------------------------------------------------
\* Mutant: the time in the stamp is not looked at.
StampOfAnyone(g) == saslRegistered[g.account] > 0

\* handle_account: the account named by the stamp is the one that was meant.
StampMatches(g) ==
    saslRegistered[g.account] = g.stamp

\* The client arrives; handle_account.
handle_account(uid) ==
    LET g == granted[uid]
    IN  /\ uid \in DOMAIN granted /\ uid \notin DOMAIN saslUsers
        /\ granted' = SaslDrop(granted, uid)
        /\ saslUsers' = SaslPut(saslUsers, uid, IF StampMatches(g) /\ g.account \notin saslSuspended THEN g
                                    ELSE [account |-> "none", stamp |-> 0])
        /\ UNCHANGED <<saslsessions, staleTimers, accountVars, saslNow>>

\* The client leaves, or never arrives.
Leave(uid) ==
    /\ uid \in DOMAIN saslUsers \union DOMAIN granted
    /\ saslUsers' = SaslDrop(saslUsers, uid) /\ granted' = SaslDrop(granted, uid)
    /\ UNCHANGED <<saslsessions, staleTimers, accountVars, saslNow>>

\* nickserv_unregister_handle logs its users out.
Unregister(h) ==
    /\ h \in Existing
    /\ saslRegistered' = [saslRegistered EXCEPT ![h] = 0]
    /\ saslSuspended' = saslSuspended \ {h}
    /\ saslUsers' = [u \in DOMAIN saslUsers |-> IF saslUsers[u].account = h THEN [account |-> "none", stamp |-> 0] ELSE saslUsers[u]]
    /\ UNCHANGED <<saslsessions, staleTimers, granted, serial, saslNow>>

\* nickserv_register.
Register(h) ==
    /\ h \notin Existing /\ serial < MaxRegistrations
    /\ serial' = serial + 1
    /\ saslRegistered' = [saslRegistered EXCEPT ![h] = serial + 1]
    /\ UNCHANGED <<saslsessions, staleTimers, saslSuspended, granted, saslUsers, saslNow>>

\* opt_flags: +s logs nobody out.
Suspend(h) ==
    /\ h \in Existing
    /\ saslSuspended' = IF h \in saslSuspended THEN saslSuspended \ {h} ELSE saslSuspended \union {h}
    /\ UNCHANGED <<saslsessions, staleTimers, saslRegistered, granted, saslUsers, serial, saslNow>>

\* Time passes between two rounds of the timer queue.
SaslTick ==
    /\ saslNow < MaxSaslTime /\ ~BagIn(saslNow, staleTimers)
    /\ saslNow' = saslNow + 1
    /\ UNCHANGED <<saslsessions, staleTimers, accountVars, granted, saslUsers>>

Input ==
    \E uid \in Uids :
        \/ \E fp \in Fps \union {"none"} :
              \/ Fragment(uid, fp)
              \/ \E m \in {"PLAIN", "EXTERNAL", "OTHER"} : Mechanism(uid, fp, m)
              \/ \E name \in Accounts \union {"none"}, knows \in BOOLEAN, as \in Accounts \union {"none"} :
                    Credentials(uid, fp, name, knows, as)
        \/ Abort(uid) \/ HostTold(uid)

SaslNext ==
    \/ BagCardinality(SessionTimers) <= MaxTimers /\ Input
    \/ sasl_delete_stale \/ SaslTick
    \/ \E uid \in Uids : handle_account(uid) \/ Leave(uid)
    \/ \E h \in Accounts : Unregister(h) \/ Register(h) \/ Suspend(h)

SaslSpec == SaslInit /\ [][SaslNext]_saslVars

-----------------------------------------------------------------------------
\* No session outlives its last sign of life by more than two looks for stale ones, however
\* many of these are queued (sasl_get_session, sasl_delete_stale).
SessionsShort ==
    /\ \A u \in DOMAIN saslsessions : saslNow <= saslsessions[u].touched + 2 * Period
    /\ DOMAIN saslsessions # {} => staleTimers # EmptyBag

\* A client that arrives is on the very account that loc_auth accepted, not on one that took
\* its name since (handle_account).
LoginGranted ==
    \A u \in DOMAIN saslUsers : saslUsers[u].account # "none" => saslRegistered[saslUsers[u].account] = saslUsers[u].stamp

\* A SASL session that is left alone ends in time, and a client that arrives is on the very account
\* its login was accepted for (sasl_delete_stale, handle_account).
SaslSound == SessionsShort /\ LoginGranted
=============================================================================
