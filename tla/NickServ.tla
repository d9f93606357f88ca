------------------------------ MODULE NickServ ------------------------------
(***************************************************************************)
(* The accounts of src/src/nickserv.c: who is authenticated to what, which *)
(* nicks an account owns, the mailed cookies, the one-shot permissions of  *)
(* ALLOWAUTH and the timers that take a nick back.                         *)
(*                                                                         *)
(* services is one thread, so a command, a message of the network or a     *)
(* timer callback is one step; what makes it hard is that each of them     *)
(* keeps several indexes of the same facts in step: user->handle_info and  *)
(* hi->users, ni->owner and hi->nicks, hi->cookie and its timer, the       *)
(* nick-keyed allow_auth dictionary and the nicks in use.                  *)
(*                                                                         *)
(* Handles are the struct handle_info that malloc can return: registering  *)
(* takes any free one, so that a pointer kept to a freed account compares  *)
(* equal to a later account exactly when the memory is used again.         *)
(* Timers have no clock here: one that is queued may fire at any step.     *)
(***************************************************************************)
EXTENDS Naturals, FiniteSets, TLC

CONSTANTS
    Users,              \* connections of the network
    Nicks,              \* nicknames
    Handles,            \* account structures
    Emails,             \* mail addresses
    Flags,              \* the account flags this instance uses
    DisableNicks,       \* nickserv_conf.disable_nicks
    EmailEnabled,       \* nickserv_conf.email_enabled
    MaxLogins,          \* nickserv_conf.default_maxlogins
    NicksPerHandle,     \* nickserv_conf.nicks_per_handle
    HandlesPerEmail,    \* nickserv_conf.handles_per_email
    NONE, STALE         \* NULL, and an account stamp that names no account

CookieTypes == {"ACTIVATION", "PASSWORD_CHANGE", "EMAIL_CHANGE", "ALLOWAUTH"}
\* A pending cookie: what it is for, and the address it was mailed to (for an
\* EMAIL_CHANGE that is cookie->data, the new address).
Cookies == [type : CookieTypes, to : Emails]

ASSUME NickServAssumption ==
    /\ NONE \notin Users \union Nicks \union Handles \union Emails \union Cookies
    /\ STALE \notin Handles \union {NONE}
    /\ Flags \subseteq {"SUSPENDED", "FROZEN", "NODELETE"}
    /\ DisableNicks \in BOOLEAN /\ EmailEnabled \in BOOLEAN
    /\ MaxLogins \in Nat /\ NicksPerHandle \in Nat /\ HandlesPerEmail \in Nat

VARIABLES
    \* user->nick, the account stamp the network shows, +r and the register flag
    nick, stamp, regnick, registering,
    \* user->handle_info and hi->users
    handle_info, users,
    \* nickserv_handle_dict and the fields of an account; passwd: one that verifies
    registered, flags, passwd, email,
    \* hi->cookie and the nickserv_free_cookie timers
    cookie, cookieTimer,
    \* ni->owner and hi->nicks
    owner, nicks,
    \* nickserv_allow_auth_dict, by nick
    allowAuth,
    \* users with a nickserv_reclaim_p timer
    reclaim,
    \* the process has died on a null pointer
    crashed

userVars    == <<nick, registering>>
authVars    == <<handle_info, users, regnick, reclaim>>
accountVars == <<registered, passwd, email>>
cookieVars  == <<cookie, cookieTimer>>
nickVars    == <<owner, nicks>>
vars == <<nick, stamp, regnick, registering, handle_info, users, registered, flags, passwd,
          email, cookie, cookieTimer, owner, nicks, allowAuth, reclaim, crashed>>

\* The shape of the state of nickserv.c.
TypeOK ==
    /\ nick \in [Users -> Nicks \union {NONE}]
    /\ stamp \in [Users -> Handles \union {NONE, STALE}]
    /\ regnick \subseteq Users /\ registering \subseteq Users /\ reclaim \subseteq Users
    /\ handle_info \in [Users -> Handles \union {NONE}]
    /\ users \in [Handles -> SUBSET Users]
    /\ registered \subseteq Handles /\ cookieTimer \subseteq Handles
    /\ flags \in [Handles -> SUBSET Flags]
    /\ passwd \in [Handles -> BOOLEAN]
    /\ email \in [Handles -> Emails \union {NONE}]
    /\ cookie \in [Handles -> Cookies \union {NONE}]
    /\ owner \in [Nicks -> Handles \union {NONE}]
    /\ nicks \in [Handles -> SUBSET Nicks]
    /\ allowAuth \in [Nicks -> Handles \union {NONE}]
    /\ crashed \in BOOLEAN

Init ==
    /\ nick = [u \in Users |-> NONE] /\ stamp = [u \in Users |-> NONE]
    /\ regnick = {} /\ registering = {} /\ reclaim = {}
    /\ handle_info = [u \in Users |-> NONE] /\ users = [h \in Handles |-> {}]
    /\ registered = {} /\ flags = [h \in Handles |-> {}]
    /\ passwd = [h \in Handles |-> FALSE] /\ email = [h \in Handles |-> NONE]
    /\ cookie = [h \in Handles |-> NONE] /\ cookieTimer = {}
    /\ owner = [n \in Nicks |-> NONE] /\ nicks = [h \in Handles |-> {}]
    /\ allowAuth = [n \in Nicks |-> NONE]
    /\ crashed = FALSE

-----------------------------------------------------------------------------
Online   == {u \in Users : nick[u] # NONE}
Free(n)  == \A u \in Users : nick[u] # n
OnEmail(e) == {h \in registered : email[h] = e}
Flagged(h, f) == f \in flags[h]

-----------------------------------------------------------------------------
\* Mutant: the user stays on the list of the account it leaves.
SetHandleInfoKeepingOld(u, h, doStamp) ==
    IF handle_info[u] = h THEN UNCHANGED <<authVars, flags>> ELSE
    /\ handle_info' = [handle_info EXCEPT ![u] = h]
    /\ users' = [x \in Handles |-> IF x = h THEN users[x] \union {u} ELSE users[x]]
    /\ UNCHANGED <<flags, regnick, reclaim>>

\* set_user_handle_info: move user u to account h (or to none).  Nothing happens
\* when it is there already.  Arriving ends a vacation; a user whose account owns
\* its nick gets +r (when the user is being stamped) and is no longer chased from it.
SetHandleInfo(u, h, doStamp) ==
    IF handle_info[u] = h THEN UNCHANGED <<authVars, flags>> ELSE
    /\ handle_info' = [handle_info EXCEPT ![u] = h]
    /\ users' = [x \in Handles |->
                    IF x = h THEN users[x] \union {u}
                    ELSE IF x = handle_info[u] THEN users[x] \ {u} ELSE users[x]]
    /\ flags' = [x \in Handles |-> IF x = h THEN flags[x] \ {"FROZEN"} ELSE flags[x]]
    /\ regnick' = IF doStamp /\ ~DisableNicks /\ nick[u] \in nicks[h]
                  THEN regnick \union {u} ELSE regnick
    /\ reclaim' = IF h # NONE /\ owner[nick[u]] = h THEN reclaim \ {u} ELSE reclaim

\* StampUser, called by set_user_handle_info: a user is stamped once.
Stamped(u, h) ==
    IF handle_info[u] # h /\ stamp[u] = NONE THEN [stamp EXCEPT ![u] = h] ELSE stamp

\* nickserv_make_cookie and nickserv_bake_cookie: one cookie at a time, with a timer.
MakeCookie(h, type, to) ==
    /\ cookie[h] = NONE
    /\ cookie' = [cookie EXCEPT ![h] = [type |-> type, to |-> to]]
    /\ cookieTimer' = cookieTimer \union {h}

\* Mutant: the cookie goes and its timer stays queued.
EatCookieOnly(h) ==
    /\ cookie' = [cookie EXCEPT ![h] = NONE]
    /\ UNCHANGED cookieTimer

\* nickserv_eat_cookie: the cookie and its timer go together.
EatCookie(h) ==
    /\ cookie' = [cookie EXCEPT ![h] = NONE]
    /\ cookieTimer' = cookieTimer \ {h}

\* register_nick: the nick record and the owner's list.
RegisterNick(n, h) ==
    /\ owner' = [owner EXCEPT ![n] = h]
    /\ nicks' = [nicks EXCEPT ![h] = @ \union {n}]

\* delete_nick for each nick of S: find it on its owner's list and unlink it.  The
\* walk has no end test: a nick that is not on the list ends in a null pointer.
DeleteNicks(S) ==
    IF \E n \in S : n \notin nicks[owner[n]]
    THEN crashed' = TRUE /\ UNCHANGED <<owner, nicks, regnick>>
    ELSE /\ owner' = [n \in Nicks |-> IF n \in S THEN NONE ELSE owner[n]]
         /\ nicks' = [h \in Handles |-> nicks[h] \ S]
         /\ regnick' = {u \in regnick : nick[u] \notin S}
         /\ UNCHANGED crashed

\* dict_remove on nickserv_handle_dict, which calls free_handle_info: the fields of
\* the accounts S go, with the cookie, its timer and the mail address.  A stamp that
\* names one of them names nothing any more.  nickserv_allow_auth_dict stays as it is.
FreeHandles(S) ==
    /\ registered' = registered \ S
    /\ flags' = [h \in Handles |-> IF h \in S THEN {} ELSE flags[h]]
    /\ passwd' = [h \in Handles |-> IF h \in S THEN FALSE ELSE passwd[h]]
    /\ email' = [h \in Handles |-> IF h \in S THEN NONE ELSE email[h]]
    /\ cookie' = [h \in Handles |-> IF h \in S THEN NONE ELSE cookie[h]]
    /\ cookieTimer' = cookieTimer \ S
    /\ stamp' = [u \in Users |-> IF stamp[u] \in S THEN STALE ELSE stamp[u]]

\* Mutant: the nick records of the account survive it.
UnregisterKeepingNicks(S) ==
    /\ handle_info' = [u \in Users |-> IF \E h \in S : u \in users[h] THEN NONE ELSE handle_info[u]]
    /\ users' = [h \in Handles |-> IF h \in S THEN {} ELSE users[h]]
    /\ FreeHandles(S)
    /\ UNCHANGED <<owner, nicks, regnick, userVars, allowAuth, reclaim, crashed>>

\* nickserv_unregister_handle for each account of S: the users on its list are
\* logged out, the nicks on its list deleted, and the structure freed.
Unregister(S) ==
    /\ handle_info' = [u \in Users |-> IF \E h \in S : u \in users[h] THEN NONE ELSE handle_info[u]]
    /\ users' = [h \in Handles |-> IF h \in S THEN {} ELSE users[h]]
    /\ DeleteNicks(UNION {nicks[h] : h \in S})
    /\ FreeHandles(S)
    /\ UNCHANGED <<userVars, allowAuth, reclaim>>

-----------------------------------------------------------------------------
(* The network: users come, go and change nick; servers pass on account stamps. *)

\* check_user_nick, for user u whose nick is now n and whose account is h: +r when h
\* owns the nick, else a timer to take it back (auto_reclaim_action is set and
\* auto_reclaim_delay is not 0); the user has no other timer by then.
CheckUserNick(u, n, h) ==
    /\ regnick' = IF owner[n] # NONE /\ owner[n] = h THEN regnick \union {u} ELSE regnick \ {u}
    /\ reclaim' = IF owner[n] # NONE /\ owner[n] # h THEN reclaim \union {u} ELSE reclaim \ {u}

\* handle_account: the account a stamp s stands for, if services accepts it.
Accepted(s) == IF s \in registered /\ ~Flagged(s, "SUSPENDED") THEN s ELSE NONE

\* AddUser: a user appears, with the account stamp s its server shows (it logged in
\* through its server, or was authenticated before a net split).
AddUser(u, n, s) ==
    /\ nick[u] = NONE /\ Free(n) /\ s \in registered \union {NONE, STALE}
    /\ nick' = [nick EXCEPT ![u] = n]
    /\ stamp' = [stamp EXCEPT ![u] = s]
    /\ handle_info' = [handle_info EXCEPT ![u] = Accepted(s)]
    /\ users' = [h \in Handles |-> IF h = Accepted(s) THEN users[h] \union {u} ELSE users[h]]
    /\ flags' = [h \in Handles |-> IF h = Accepted(s) THEN flags[h] \ {"FROZEN"} ELSE flags[h]]
    /\ CheckUserNick(u, n, Accepted(s))
    /\ UNCHANGED <<registering, accountVars, cookieVars, nickVars, allowAuth, crashed>>

\* Mutant: the permission granted to the nick outlives the user.
DelUserKeepingAllowAuth(u) ==
    /\ nick' = [nick EXCEPT ![u] = NONE] /\ stamp' = [stamp EXCEPT ![u] = NONE]
    /\ regnick' = regnick \ {u} /\ registering' = registering \ {u} /\ reclaim' = reclaim \ {u}
    /\ handle_info' = [handle_info EXCEPT ![u] = NONE]
    /\ users' = [h \in Handles |-> IF h = handle_info[u] THEN users[h] \ {u} ELSE users[h]]
    /\ UNCHANGED <<allowAuth, accountVars, flags, cookieVars, nickVars, crashed>>

\* Mutant: the timer that points to the user stays queued.
DelUserKeepingTimer(u) ==
    /\ nick' = [nick EXCEPT ![u] = NONE] /\ stamp' = [stamp EXCEPT ![u] = NONE]
    /\ regnick' = regnick \ {u} /\ registering' = registering \ {u}
    /\ allowAuth' = [allowAuth EXCEPT ![nick[u]] = NONE]
    /\ handle_info' = [handle_info EXCEPT ![u] = NONE]
    /\ users' = [h \in Handles |-> IF h = handle_info[u] THEN users[h] \ {u} ELSE users[h]]
    /\ UNCHANGED <<reclaim, accountVars, flags, cookieVars, nickVars, crashed>>

\* DelUser with nickserv_remove_user: a permission granted to the nick and the
\* reclaim timer go with the user, who leaves its account.
DelUser(u) ==
    /\ nick' = [nick EXCEPT ![u] = NONE] /\ stamp' = [stamp EXCEPT ![u] = NONE]
    /\ regnick' = regnick \ {u} /\ registering' = registering \ {u} /\ reclaim' = reclaim \ {u}
    /\ allowAuth' = [allowAuth EXCEPT ![nick[u]] = NONE]
    /\ handle_info' = [handle_info EXCEPT ![u] = NONE]
    /\ users' = [h \in Handles |-> IF h = handle_info[u] THEN users[h] \ {u} ELSE users[h]]
    /\ UNCHANGED <<accountVars, flags, cookieVars, nickVars, crashed>>

\* A QUIT, KILL or SQUIT of the network.
Quit(u) == u \in Online /\ DelUser(u)

\* NickChange with handle_nick_change: a permission follows the user to the new
\* nick, the old timer is dropped and the new nick checked.
NickChange(u, n) ==
    /\ u \in Online /\ Free(n)
    /\ nick' = [nick EXCEPT ![u] = n]
    /\ allowAuth' = IF allowAuth[nick[u]] = NONE THEN allowAuth
                    ELSE [allowAuth EXCEPT ![nick[u]] = NONE, ![n] = allowAuth[nick[u]]]
    /\ CheckUserNick(u, n, handle_info[u])
    /\ UNCHANGED <<stamp, registering, handle_info, users, accountVars, flags, cookieVars,
                   nickVars, crashed>>

\* cmd_account: a server stamps a user that had no stamp; services follows it.
cmd_account(u, s) ==
    /\ u \in Online /\ stamp[u] = NONE /\ s \in registered
    /\ IF Accepted(s) = NONE THEN UNCHANGED <<authVars, flags>> ELSE SetHandleInfo(u, s, FALSE)
    /\ stamp' = [stamp EXCEPT ![u] = s]
    /\ UNCHANGED <<userVars, accountVars, cookieVars, nickVars, allowAuth, crashed>>

\* nickserv_reclaim_p: whoever holds a registered nick when the timer fires is
\* warned, renamed by its server (a later NickChange) or killed, as configured;
\* whether the nick is the user's own by now is not looked at.
nickserv_reclaim_p(u) ==
    /\ u \in reclaim
    /\ \/ /\ owner[nick[u]] # NONE /\ DelUser(u)
       \/ /\ reclaim' = reclaim \ {u}
          /\ UNCHANGED <<userVars, stamp, regnick, handle_info, users, accountVars, flags,
                         cookieVars, nickVars, allowAuth, crashed>>

-----------------------------------------------------------------------------
(* Registering and authenticating. *)

\* cmd_register: an unauthenticated, unstamped user registers account h.  With a
\* mail address the account waits for an ACTIVATION cookie and has no password;
\* otherwise the user is authenticated.  The user's nick is registered with it.
cmd_register(u, h, e) ==
    /\ u \in Online /\ handle_info[u] = NONE /\ u \notin registering /\ stamp[u] = NONE
    /\ h \notin registered
    /\ registered' = registered \union {h}
    /\ registering' = registering \union {u}
    /\ email' = [email EXCEPT ![h] = e]
    /\ \/ /\ EmailEnabled /\ e # NONE
          /\ \A x \in OnEmail(e) : cookie[x] = NONE
          /\ Cardinality(OnEmail(e)) < HandlesPerEmail
          /\ MakeCookie(h, "ACTIVATION", e)
          /\ passwd' = [passwd EXCEPT ![h] = FALSE]
          /\ UNCHANGED <<authVars, stamp, flags>>
       \/ /\ e = NONE
          /\ passwd' = [passwd EXCEPT ![h] = TRUE]
          /\ SetHandleInfo(u, h, TRUE)
          /\ stamp' = Stamped(u, h)
          /\ UNCHANGED cookieVars
    /\ IF ~DisableNicks /\ owner[nick[u]] = NONE
       THEN RegisterNick(nick[u], h) ELSE UNCHANGED nickVars
    /\ UNCHANGED <<nick, allowAuth, crashed>>

\* cmd_oregister: staff registers account h, for the user u or for nobody.
cmd_oregister(h, u, e) ==
    /\ h \notin registered
    /\ u # NONE => u \in Online /\ handle_info[u] = NONE
    /\ registered' = registered \union {h}
    /\ passwd' = [passwd EXCEPT ![h] = TRUE]
    /\ email' = [email EXCEPT ![h] = e]
    /\ IF u = NONE THEN UNCHANGED <<authVars, stamp, flags>>
       ELSE SetHandleInfo(u, h, TRUE) /\ stamp' = Stamped(u, h)
    /\ UNCHANGED <<userVars, cookieVars, nickVars, allowAuth, crashed>>

\* cmd_auth and nickserv_do_autoauth (autoauth: no password, no stamp test).  A user
\* no mask of the account matches may use a permission of ALLOWAUTH, which is spent
\* whether or not the credential then verifies.  A verified user is still refused by
\* a suspended account and by one with enough users.
Login(u, h, byMask, verified) ==
    /\ byMask \/ allowAuth[nick[u]] = h
    /\ allowAuth' = IF byMask THEN allowAuth ELSE [allowAuth EXCEPT ![nick[u]] = NONE]
    /\ IF verified /\ ~Flagged(h, "SUSPENDED") /\ Cardinality(users[h]) < MaxLogins
       THEN SetHandleInfo(u, h, TRUE) /\ stamp' = Stamped(u, h)
       ELSE UNCHANGED <<authVars, flags, stamp>>
    /\ UNCHANGED <<userVars, accountVars, cookieVars, nickVars, crashed>>

\* verified: the password verifies, or the client's certificate is on the account.
cmd_auth(u, h) ==
    /\ u \in Online /\ handle_info[u] = NONE /\ stamp[u] = NONE /\ h \in registered
    /\ \E byMask, verified \in BOOLEAN : Login(u, h, byMask, verified)

nickserv_do_autoauth(u, h) ==
    /\ u \in Online /\ handle_info[u] = NONE /\ h \in registered
    /\ \E byMask \in BOOLEAN : Login(u, h, byMask, TRUE)

\* cmd_allowauth: staff permits an unauthenticated user to use account h, or takes
\* the permission back (h is NONE).
cmd_allowauth(t, h) ==
    /\ t \in Online /\ handle_info[t] = NONE /\ stamp[t] = NONE
    /\ h \in registered \union {NONE}
    /\ allowAuth' = [allowAuth EXCEPT ![nick[t]] = h]
    /\ UNCHANGED <<userVars, authVars, stamp, accountVars, flags, cookieVars, nickVars, crashed>>

\* cmd_logout: the account is left; the stamp cannot be taken back.
cmd_logout(u) ==
    /\ u \in Online /\ handle_info[u] # NONE
    /\ SetHandleInfo(u, NONE, FALSE)
    /\ UNCHANGED <<userVars, stamp, accountVars, cookieVars, nickVars, allowAuth, crashed>>

\* cmd_ghost: a user kills another connection of its own account.
cmd_ghost(u, t) ==
    /\ u \in Online /\ t \in Online \ {u}
    /\ handle_info[t] # NONE /\ handle_info[t] = handle_info[u]
    /\ DelUser(t)

-----------------------------------------------------------------------------
(* Mailed cookies. *)

\* cmd_authcookie and cmd_resetpass: an unauthenticated, unstamped user has a cookie
\* mailed to the address of the account.
RequestCookie(u, h, type) ==
    /\ EmailEnabled
    /\ u \in Online /\ handle_info[u] = NONE /\ stamp[u] = NONE
    /\ h \in registered /\ email[h] # NONE
    /\ MakeCookie(h, type, email[h])
    /\ UNCHANGED <<userVars, authVars, stamp, accountVars, flags, nickVars, allowAuth, crashed>>

cmd_authcookie(u, h) == RequestCookie(u, h, "ALLOWAUTH")
cmd_resetpass(u, h)  == RequestCookie(u, h, "PASSWORD_CHANGE")

\* opt_email of a user: the new address must be confirmed with a cookie.
SetEmail(u, e) ==
    /\ EmailEnabled /\ u \in Online /\ handle_info[u] # NONE
    /\ email[handle_info[u]] # e
    /\ MakeCookie(handle_info[u], "EMAIL_CHANGE", e)
    /\ UNCHANGED <<userVars, authVars, stamp, accountVars, flags, nickVars, allowAuth, crashed>>

\* Mutant: the pending cookie stays valid.
OverrideEmailKeepingCookie(h, e) ==
    /\ EmailEnabled /\ h \in registered /\ email[h] # e
    /\ email' = [email EXCEPT ![h] = e]
    /\ UNCHANGED <<userVars, authVars, stamp, registered, passwd, flags, cookieVars, nickVars,
                   allowAuth, crashed>>

\* opt_email with override: staff sets the address, and a pending cookie is void.
OverrideEmail(h, e) ==
    /\ EmailEnabled /\ h \in registered /\ email[h] # e
    /\ email' = [email EXCEPT ![h] = e]
    /\ EatCookie(h)
    /\ UNCHANGED <<userVars, authVars, stamp, registered, passwd, flags, nickVars, allowAuth,
                   crashed>>

\* Mutant: the suspension of the account is not looked at.
UseCookieSuspended(u, h) ==
    /\ u \in Online /\ h \in registered /\ cookie[h] # NONE
    /\ handle_info[u] # NONE => cookie[h].type \in {"EMAIL_CHANGE", "PASSWORD_CHANGE"}
    /\ email' = IF cookie[h].type = "EMAIL_CHANGE" THEN [email EXCEPT ![h] = cookie[h].to] ELSE email
    /\ passwd' = IF cookie[h].type \in {"ACTIVATION", "PASSWORD_CHANGE"}
                 THEN [passwd EXCEPT ![h] = TRUE] ELSE passwd
    /\ IF cookie[h].type = "EMAIL_CHANGE" THEN UNCHANGED <<authVars, flags, stamp>>
       ELSE SetHandleInfo(u, h, TRUE) /\ stamp' = Stamped(u, h)
    /\ EatCookie(h)
    /\ UNCHANGED <<userVars, registered, nickVars, allowAuth, crashed>>

\* cmd_cookie: the holder of the cookie confirms the address, or becomes a user of
\* the account (an authenticated one can change account only by a PASSWORD_CHANGE).
\* Neither the stamp nor the number of users of the account is looked at.
cmd_cookie(u, h) ==
    /\ u \in Online /\ h \in registered /\ cookie[h] # NONE
    /\ ~Flagged(h, "SUSPENDED")
    /\ handle_info[u] # NONE => cookie[h].type \in {"EMAIL_CHANGE", "PASSWORD_CHANGE"}
    /\ email' = IF cookie[h].type = "EMAIL_CHANGE" THEN [email EXCEPT ![h] = cookie[h].to] ELSE email
    /\ passwd' = IF cookie[h].type \in {"ACTIVATION", "PASSWORD_CHANGE"}
                 THEN [passwd EXCEPT ![h] = TRUE] ELSE passwd
    /\ IF cookie[h].type = "EMAIL_CHANGE" THEN UNCHANGED <<authVars, flags, stamp>>
       ELSE SetHandleInfo(u, h, TRUE) /\ stamp' = Stamped(u, h)
    /\ EatCookie(h)
    /\ UNCHANGED <<userVars, registered, nickVars, allowAuth, crashed>>

\* cmd_delcookie: a user gives up a cookie of its own account, if its type allows.
cmd_delcookie(u) ==
    /\ u \in Online /\ handle_info[u] # NONE /\ cookie[handle_info[u]] # NONE
    /\ cookie[handle_info[u]].type \in {"PASSWORD_CHANGE", "ALLOWAUTH"}
    /\ EatCookie(handle_info[u])
    /\ UNCHANGED <<userVars, authVars, stamp, accountVars, flags, nickVars, allowAuth, crashed>>

\* cmd_odelcookie: staff drops any cookie; an ACTIVATION cookie counts as used.
cmd_odelcookie(h) ==
    /\ h \in registered /\ cookie[h] # NONE
    /\ passwd' = IF cookie[h].type = "ACTIVATION" THEN [passwd EXCEPT ![h] = TRUE] ELSE passwd
    /\ EatCookie(h)
    /\ UNCHANGED <<userVars, authVars, stamp, registered, email, flags, nickVars, allowAuth, crashed>>

\* nickserv_free_cookie as a timer: the cookie times out; the account stays.
CookieTimeout(h) ==
    /\ h \in cookieTimer
    /\ EatCookie(h)
    /\ UNCHANGED <<userVars, authVars, stamp, accountVars, flags, nickVars, allowAuth, crashed>>

\* opt_password: staff sets a password.
opt_password(h) ==
    /\ h \in registered /\ ~passwd[h]
    /\ passwd' = [passwd EXCEPT ![h] = TRUE]
    /\ UNCHANGED <<userVars, authVars, stamp, registered, email, flags, cookieVars, nickVars,
                   allowAuth, crashed>>

-----------------------------------------------------------------------------
(* Flags, nicks, and the end of accounts. *)

\* nickserv_apply_flags (OSET FLAGS, SUSPEND): nobody is logged out by it.
SetFlag(h, f) ==
    /\ h \in registered
    /\ flags' = [flags EXCEPT ![h] = IF f \in @ THEN @ \ {f} ELSE @ \union {f}]
    /\ UNCHANGED <<userVars, authVars, stamp, accountVars, cookieVars, nickVars, allowAuth, crashed>>

\* cmd_vacation: the account is frozen until it is next used.
cmd_vacation(u) ==
    /\ u \in Online /\ handle_info[u] # NONE /\ "FROZEN" \in Flags
    /\ flags' = [flags EXCEPT ![handle_info[u]] = @ \union {"FROZEN"}]
    /\ UNCHANGED <<userVars, authVars, stamp, accountVars, cookieVars, nickVars, allowAuth, crashed>>

\* cmd_regnick: a user registers the nick it holds, if the account has room.
cmd_regnick(u) ==
    /\ ~DisableNicks /\ u \in Online /\ handle_info[u] # NONE
    /\ Cardinality(nicks[handle_info[u]]) < NicksPerHandle
    /\ owner[nick[u]] = NONE
    /\ RegisterNick(nick[u], handle_info[u])
    /\ UNCHANGED <<userVars, authVars, stamp, accountVars, flags, cookieVars, allowAuth, crashed>>

\* cmd_oregnick: staff registers any free nick to any account.
cmd_oregnick(h, n) ==
    /\ ~DisableNicks /\ h \in registered /\ owner[n] = NONE
    /\ RegisterNick(n, h)
    /\ UNCHANGED <<userVars, authVars, stamp, accountVars, flags, cookieVars, allowAuth, crashed>>

\* The frame of the commands that only delete nicks.
OnlyNicks == UNCHANGED <<userVars, stamp, handle_info, users, reclaim, accountVars, flags,
                         cookieVars, allowAuth>>

\* cmd_unregnick: a user drops a nick of its account.
cmd_unregnick(u, n) ==
    /\ ~DisableNicks /\ u \in Online /\ handle_info[u] # NONE /\ owner[n] = handle_info[u]
    /\ DeleteNicks({n}) /\ OnlyNicks

\* cmd_ounregnick: staff drops any nick.
cmd_ounregnick(n) ==
    /\ ~DisableNicks /\ owner[n] # NONE
    /\ DeleteNicks({n}) /\ OnlyNicks

\* expire_nicks: the unused nicks go, except those in use by their owner and
\* those of frozen and undeletable accounts (how long a nick is unused is open).
expire_nicks(S) ==
    /\ ~DisableNicks /\ S # {}
    /\ \A n \in S : /\ owner[n] # NONE
                    /\ \A u \in Users : nick[u] = n => handle_info[u] # owner[n]
                    /\ flags[owner[n]] \intersect {"FROZEN", "NODELETE"} = {}
    /\ DeleteNicks(S) /\ OnlyNicks

\* cmd_reclaim: a user takes a nick of its account back from another user.
cmd_reclaim(u, t) ==
    /\ ~DisableNicks /\ u \in Online /\ t \in Online \ {u}
    /\ handle_info[u] # NONE /\ owner[nick[t]] = handle_info[u]
    /\ DelUser(t)

\* cmd_unregister: a user drops its own account, with the password.
cmd_unregister(u) ==
    /\ u \in Online /\ handle_info[u] # NONE /\ passwd[handle_info[u]]
    /\ Unregister({handle_info[u]})

\* cmd_ounregister: staff drops an account (with force, also one in use).
cmd_ounregister(h) ==
    /\ h \in registered /\ ~Flagged(h, "NODELETE")
    /\ Unregister({h})

\* expire_handles: the accounts nobody used for long enough go.
expire_handles(S) ==
    /\ S # {} /\ S \subseteq registered
    /\ \A h \in S : users[h] = {} /\ flags[h] \intersect {"FROZEN", "NODELETE"} = {}
    /\ Unregister(S)

\* cmd_merge: account `from' is folded into `to' and dropped.  Its users move; its
\* nicks change owner, and are appended to the list of `to' if that is not empty.
cmd_merge(from, to) ==
    /\ from \in registered /\ to \in registered /\ from # to
    /\ owner' = [n \in Nicks |-> IF n \in nicks[from] THEN to ELSE owner[n]]
    /\ nicks' = [nicks EXCEPT ![from] = {},
                              ![to] = IF @ = {} THEN {} ELSE @ \union nicks[from]]
    /\ users' = [users EXCEPT ![from] = {}, ![to] = @ \union users[from]]
    /\ handle_info' = [u \in Users |-> IF u \in users[from] THEN to ELSE handle_info[u]]
    /\ FreeHandles({from})
    /\ UNCHANGED <<userVars, regnick, reclaim, allowAuth, crashed>>

\* A restart with the database written at exit (saxdb_write_all, nickserv_saxdb_read):
\* what is on the accounts is read back, nicks from the accounts' lists, cookies
\* unless they timed out meanwhile (D).  The servers then burst their users, whose
\* stamps log them in again.
Restart(D) ==
    LET auth == [u \in Users |-> IF u \in Online THEN Accepted(stamp[u]) ELSE NONE]
        own  == [n \in Nicks |-> IF \E h \in registered : n \in nicks[h]
                                 THEN CHOOSE h \in registered : n \in nicks[h] ELSE NONE]
    IN  /\ handle_info' = auth
        /\ users' = [h \in Handles |-> {u \in Users : auth[u] = h}]
        /\ flags' = [h \in Handles |-> IF \E u \in Users : auth[u] = h
                                       THEN flags[h] \ {"FROZEN"} ELSE flags[h]]
        /\ owner' = own
        /\ regnick' = {u \in Online : own[nick[u]] # NONE /\ own[nick[u]] = auth[u]}
        /\ reclaim' = {u \in Online : own[nick[u]] # NONE /\ own[nick[u]] # auth[u]}
        /\ registering' = {}
        /\ allowAuth' = [n \in Nicks |-> NONE]
        /\ cookie' = [h \in Handles |-> IF h \in D THEN NONE ELSE cookie[h]]
        /\ cookieTimer' = {h \in Handles : cookie'[h] # NONE}
        /\ UNCHANGED <<nick, stamp, accountVars, nicks, crashed>>

-----------------------------------------------------------------------------
Step ==
    \/ \E u \in Users, n \in Nicks : NickChange(u, n) \/ cmd_unregnick(u, n)
    \/ \E u \in Users, n \in Nicks, s \in Handles \union {NONE, STALE} : AddUser(u, n, s)
    \/ \E u \in Users : Quit(u) \/ nickserv_reclaim_p(u) \/ cmd_logout(u) \/ cmd_delcookie(u)
                        \/ cmd_vacation(u) \/ cmd_regnick(u) \/ cmd_unregister(u)
    \/ \E u, t \in Users : cmd_ghost(u, t) \/ cmd_reclaim(u, t)
    \/ \E u \in Users, h \in Handles :
          \/ cmd_account(u, h) \/ cmd_auth(u, h) \/ nickserv_do_autoauth(u, h)
          \/ cmd_authcookie(u, h) \/ cmd_resetpass(u, h) \/ cmd_cookie(u, h)
    \/ \E u \in Users, h \in Handles, e \in Emails \union {NONE} : cmd_register(u, h, e)
    \/ \E h \in Handles, u \in Users \union {NONE}, e \in Emails \union {NONE} :
          cmd_oregister(h, u, e)
    \/ \E t \in Users, h \in Handles \union {NONE} : cmd_allowauth(t, h)
    \/ \E u \in Users, e \in Emails : SetEmail(u, e)
    \/ \E h \in Handles, e \in Emails : OverrideEmail(h, e)
    \/ \E h \in Handles : cmd_odelcookie(h) \/ CookieTimeout(h) \/ opt_password(h)
                          \/ cmd_ounregister(h)
    \/ \E h \in Handles, f \in Flags : SetFlag(h, f)
    \/ \E h \in Handles, n \in Nicks : cmd_oregnick(h, n)
    \/ \E n \in Nicks : cmd_ounregnick(n)
    \/ \E S \in SUBSET Nicks : expire_nicks(S)
    \/ \E S \in SUBSET Handles : expire_handles(S)
    \/ \E from, to \in Handles : cmd_merge(from, to)
    \/ \E D \in SUBSET Handles : Restart(D)

\* Nothing runs after a crash: recovery is a new process.
Next == (~crashed /\ Step) \/ (crashed /\ UNCHANGED vars)

Spec == Init /\ [][Next]_vars

-----------------------------------------------------------------------------
\* user->handle_info and hi->users are two views of one relation, between users that
\* are connected and accounts that exist (nickserv.c:975, 592, 4072).
AuthConsistent ==
    /\ \A u \in Users, h \in Handles : u \in users[h] <=> handle_info[u] = h
    /\ \A u \in Users : handle_info[u] # NONE => u \in Online /\ handle_info[u] \in registered

\* A cookie has its timer and a timer its cookie, and both belong to an account that
\* exists: nickserv_free_cookie never runs on a freed cookie (nickserv.c:552, 1179, 1306).
CookieTimed ==
    \A h \in Handles : /\ h \in cookieTimer <=> cookie[h] # NONE
                       /\ cookie[h] # NONE => h \in registered

\* A cookie that lets its holder into the account was mailed to the address the
\* account has now: after a change of address by staff or by a cookie, nothing sent to
\* the old one is still good (nickserv.c:1211, 2851, 3518).
CookieToOwner ==
    \A h \in Handles :
        cookie[h] # NONE /\ cookie[h].type # "EMAIL_CHANGE" => cookie[h].to = email[h]

\* A permission of ALLOWAUTH is kept under a nick in use: whoever takes the nick after
\* its holder left inherits nothing (nickserv.c:5431, 5444).
AllowAuthOnline ==
    \A n \in Nicks : allowAuth[n] # NONE => ~Free(n)

\* A nick on the list of an account is owned by that account, which exists, so that
\* freeing the account frees the nick (nickserv.c:491-528, 4092).
NickLists ==
    \A h \in Handles : \A n \in nicks[h] : owner[n] = h /\ h \in registered

\* A reclaim timer points to a connected user (nickserv.c:5312, 5444).
ReclaimOnline == reclaim \subseteq Online

Inv == TypeOK /\ AuthConsistent /\ CookieTimed /\ CookieToOwner /\ AllowAuthOnline
       /\ NickLists /\ ReclaimOnline

\* Nobody gets into a suspended account by password, certificate, cookie, server stamp
\* or restart; only who was in it already, or in an account merged into it, is there
\* (nickserv.c:2460, 2770, 5420).
SuspendedStaysOut ==
    [][\A u \in Users :
          handle_info'[u] \notin {NONE, handle_info[u]} /\ handle_info[u] \in registered' \union {NONE}
            => ~Flagged(handle_info'[u], "SUSPENDED")]_vars

-----------------------------------------------------------------------------
(* What comments and docs of the repository say, and the code does not do. *)

\* "Append "from" handle's nicks to "to" handle's nick list" (nickserv.c:4091): every
\* nick an account owns is on the account's list.
OwnedNicksListed == \A n \in Nicks : owner[n] # NONE => n \in nicks[owner[n]]

\* "Unauthenticated users might still have been stamped previously and could therefore
\* have a hidden host; do not allow them to activate an account" (nickserv.c:2733):
\* a cookie does not authenticate such a user.
StampedStayOut ==
    [][\A u \in Users, h \in Handles :
          handle_info[u] = NONE /\ stamp[u] # NONE /\ cmd_cookie(u, h) => UNCHANGED handle_info]_vars

-----------------------------------------------------------------------------
\* For model checking: users, nicks, accounts and addresses are interchangeable.
Symmetry == Permutations(Users) \union Permutations(Nicks) \union Permutations(Handles)
            \union Permutations(Emails)
=============================================================================
