--------------------------- MODULE NickServProofs ---------------------------
(***************************************************************************)
(* The indexes of module NickServ stay in step for every number of users,  *)
(* nicks, accounts, addresses and every configuration: Inv is an invariant *)
(* and nobody gets into a suspended account.                               *)
(*                                                                         *)
(* Inv is inductive as it stands.  The lemmas follow the code: one for     *)
(* each function several commands share (set_user_handle_info, DelUser,    *)
(* nickserv_unregister_handle, delete_nick, ...), and the frame lemmas say *)
(* which variables each part of Inv depends on.                            *)
(***************************************************************************)
EXTENDS NickServ, TLAPS

-----------------------------------------------------------------------------
(* What each part of Inv depends on. *)

LEMMA AuthFrame ==
    ASSUME AuthConsistent, UNCHANGED <<handle_info, users, nick>>, registered \subseteq registered'
    PROVE  AuthConsistent'
  BY DEF AuthConsistent, Online

LEMMA CookieFrame ==
    ASSUME CookieTimed, CookieToOwner, UNCHANGED <<cookieVars, email>>, registered \subseteq registered'
    PROVE  CookieTimed' /\ CookieToOwner'
  BY DEF CookieTimed, CookieToOwner, cookieVars

LEMMA AllowFrame ==
    ASSUME AllowAuthOnline, UNCHANGED <<allowAuth, nick>>
    PROVE  AllowAuthOnline'
  BY DEF AllowAuthOnline, Free

LEMMA NickFrame ==
    ASSUME NickLists, UNCHANGED nickVars, registered \subseteq registered'
    PROVE  NickLists'
  BY DEF NickLists, nickVars

LEMMA ReclaimFrame ==
    ASSUME ReclaimOnline, reclaim' \subseteq reclaim, UNCHANGED nick
    PROVE  ReclaimOnline'
  BY DEF ReclaimOnline, Online

-----------------------------------------------------------------------------
(* The functions the commands share. *)

\* set_user_handle_info moves exactly user u, and hi->users follows (nickserv.c:975).
LEMMA SetHandleInfoMoves ==
    ASSUME TypeOK, AuthConsistent,
           NEW u \in Users, NEW h \in Handles \union {NONE}, NEW d \in BOOLEAN,
           SetHandleInfo(u, h, d)
    PROVE  /\ handle_info' = [handle_info EXCEPT ![u] = h]
           /\ \A x \in Users, y \in Handles : x \in users'[y] <=> handle_info'[x] = y
           /\ users' \in [Handles -> SUBSET Users]
           /\ flags' \in [Handles -> SUBSET Flags]
           /\ regnick' \subseteq Users
           /\ reclaim' \subseteq reclaim
  <1>1. CASE handle_info[u] = h
    BY <1>1 DEF SetHandleInfo, authVars, TypeOK, AuthConsistent
  <1>2. CASE handle_info[u] # h
    <2>1. handle_info' = [handle_info EXCEPT ![u] = h]
      BY <1>2 DEF SetHandleInfo
    <2>2. users' \in [Handles -> SUBSET Users]
      BY <1>2 DEF SetHandleInfo, TypeOK
    <2>3. \A x \in Users, y \in Handles : x \in users'[y] <=> handle_info'[x] = y
      BY <1>2, <2>1 DEF SetHandleInfo, TypeOK, AuthConsistent
    <2>4. flags' \in [Handles -> SUBSET Flags] /\ regnick' \subseteq Users
      BY <1>2 DEF SetHandleInfo, TypeOK
    <2>5. reclaim' \subseteq reclaim
      BY <1>2 DEF SetHandleInfo
    <2> QED BY <2>1, <2>2, <2>3, <2>4, <2>5
  <1> QED BY <1>1, <1>2

\* Moving a connected user to an existing account, or to none, keeps both views of
\* who is authenticated in step.
LEMMA SetHandleInfoKeeps ==
    ASSUME TypeOK, AuthConsistent, ReclaimOnline,
           NEW u \in Online, NEW h \in Handles \union {NONE}, NEW d \in BOOLEAN,
           SetHandleInfo(u, h, d), UNCHANGED nick,
           registered \subseteq registered', h \in registered' \union {NONE}
    PROVE  /\ AuthConsistent' /\ ReclaimOnline'
           /\ handle_info' \in [Users -> Handles \union {NONE}]
           /\ users' \in [Handles -> SUBSET Users]
           /\ flags' \in [Handles -> SUBSET Flags]
           /\ regnick' \subseteq Users /\ reclaim' \subseteq Users
  <1>0. u \in Users
    BY DEF Online
  <1>1. /\ handle_info' = [handle_info EXCEPT ![u] = h]
        /\ \A x \in Users, y \in Handles : x \in users'[y] <=> handle_info'[x] = y
        /\ users' \in [Handles -> SUBSET Users]
        /\ flags' \in [Handles -> SUBSET Flags]
        /\ regnick' \subseteq Users
        /\ reclaim' \subseteq reclaim
    BY <1>0, SetHandleInfoMoves
  <1>2. handle_info' \in [Users -> Handles \union {NONE}] /\ reclaim' \subseteq Users
    BY <1>1 DEF TypeOK
  <1>3. \A x \in Users : handle_info'[x] # NONE => x \in Online' /\ handle_info'[x] \in registered'
    BY <1>0, <1>1 DEF TypeOK, AuthConsistent, Online
  <1>4. AuthConsistent'
    BY <1>1, <1>3 DEF AuthConsistent
  <1> QED BY <1>1, <1>2, <1>4, ReclaimFrame

LEMMA StampedType ==
    ASSUME TypeOK, NEW u \in Users, NEW h \in Handles
    PROVE  Stamped(u, h) \in [Users -> Handles \union {NONE, STALE}]
  BY DEF TypeOK, Stamped

\* A user that leaves takes its entry in every index along (proto-p10.c:3466,
\* nickserv.c:5444).
LEMMA DelUserKeeps ==
    ASSUME Inv, NEW u \in Online, DelUser(u)
    PROVE  Inv'
  <1> USE DEF Inv, DelUser
  <1>0. u \in Users /\ nick[u] \in Nicks
    BY DEF Online, TypeOK
  <1>1. TypeOK'
    BY <1>0 DEF TypeOK, accountVars, cookieVars, nickVars
  <1>2. AuthConsistent'
    <2>1. \A x \in Users : handle_info'[x] = IF x = u THEN NONE ELSE handle_info[x]
      BY <1>0 DEF TypeOK
    <2>2. \A x \in Users, y \in Handles : x \in users'[y] <=> x \in users[y] /\ x # u
      BY <1>0 DEF TypeOK, AuthConsistent
    <2>3. \A x \in Online : x # u => x \in Online'
      BY DEF Online, TypeOK
    <2> QED BY <2>1, <2>2, <2>3, NickServAssumption DEF AuthConsistent, accountVars
  <1>3. CookieTimed' /\ CookieToOwner' /\ NickLists'
    BY CookieFrame, NickFrame DEF accountVars
  <1>4. AllowAuthOnline'
    BY <1>0 DEF AllowAuthOnline, Free, TypeOK
  <1>5. ReclaimOnline'
    BY DEF ReclaimOnline, Online, TypeOK
  <1> QED BY <1>1, <1>2, <1>3, <1>4, <1>5

\* An attempt to log in, successful or not, spends at most the permission of the
\* user's own nick (nickserv.c:2320, 2255).
LEMMA LoginKeeps ==
    ASSUME Inv, NEW u \in Online, NEW h \in registered,
           NEW byMask \in BOOLEAN, NEW verified \in BOOLEAN, Login(u, h, byMask, verified)
    PROVE  Inv'
  <1> USE DEF Inv
  <1>0. u \in Users /\ nick[u] \in Nicks /\ h \in Handles
    BY DEF Online, TypeOK
  <1>1. UNCHANGED <<userVars, accountVars, cookieVars, nickVars, crashed>>
    BY DEF Login
  <1>2. /\ AuthConsistent' /\ ReclaimOnline'
        /\ handle_info' \in [Users -> Handles \union {NONE}]
        /\ users' \in [Handles -> SUBSET Users]
        /\ flags' \in [Handles -> SUBSET Flags]
        /\ regnick' \subseteq Users /\ reclaim' \subseteq Users
        /\ stamp' \in [Users -> Handles \union {NONE, STALE}]
    <2>1. CASE SetHandleInfo(u, h, TRUE) /\ stamp' = Stamped(u, h)
      BY <1>0, <1>1, <2>1, SetHandleInfoKeeps, StampedType DEF userVars, accountVars
    <2>2. CASE UNCHANGED <<authVars, flags, stamp>>
      BY <1>1, <2>2, AuthFrame, ReclaimFrame DEF authVars, userVars, accountVars, TypeOK
    <2> QED BY <2>1, <2>2 DEF Login
  <1>3. AllowAuthOnline' /\ allowAuth' \in [Nicks -> Handles \union {NONE}]
    BY <1>0, <1>1 DEF Login, AllowAuthOnline, Free, userVars, TypeOK
  <1>4. CookieTimed' /\ CookieToOwner' /\ NickLists'
    BY <1>1, CookieFrame, NickFrame DEF accountVars
  <1>5. TypeOK'
    BY <1>1, <1>2, <1>3 DEF TypeOK, userVars, accountVars, cookieVars, nickVars
  <1> QED BY <1>2, <1>3, <1>4, <1>5

\* Issuing a cookie: it gets its timer, and only an account without one can get one
\* (nickserv.c:1179, 1207).
LEMMA MakeCookieKeeps ==
    ASSUME TypeOK, CookieTimed, CookieToOwner,
           NEW h \in Handles, NEW type \in CookieTypes, NEW to \in Emails,
           MakeCookie(h, type, to),
           \A x \in Handles : x # h => email'[x] = email[x],
           type # "EMAIL_CHANGE" => to = email'[h],
           registered \subseteq registered', h \in registered'
    PROVE  /\ CookieTimed' /\ CookieToOwner'
           /\ cookie' \in [Handles -> Cookies \union {NONE}] /\ cookieTimer' \subseteq Handles
  <1> DEFINE c == [type |-> type, to |-> to]
  <1>1. c \in Cookies /\ c.type = type /\ c.to = to
    BY DEF Cookies
  <1>2. cookie' = [cookie EXCEPT ![h] = c] /\ cookieTimer' = cookieTimer \union {h}
    BY DEF MakeCookie
  <1>3. c # NONE
    BY <1>1, NickServAssumption
  <1> HIDE DEF c
  <1>4. CookieTimed'
    BY <1>2, <1>3 DEF CookieTimed, TypeOK
  <1>5. CookieToOwner'
    BY <1>1, <1>2 DEF CookieToOwner, TypeOK
  <1>6. cookie' \in [Handles -> Cookies \union {NONE}] /\ cookieTimer' \subseteq Handles
    BY <1>1, <1>2 DEF TypeOK
  <1> QED BY <1>4, <1>5, <1>6

\* A cookie goes with its timer (nickserv.c:1306).
LEMMA EatCookieKeeps ==
    ASSUME TypeOK, CookieTimed, CookieToOwner, NEW h \in Handles, EatCookie(h),
           \A x \in Handles : x # h => email'[x] = email[x], registered \subseteq registered'
    PROVE  /\ CookieTimed' /\ CookieToOwner'
           /\ cookie' \in [Handles -> Cookies \union {NONE}] /\ cookieTimer' \subseteq Handles
  <1>1. CookieTimed'
    BY DEF EatCookie, CookieTimed, TypeOK
  <1>2. CookieToOwner'
    BY DEF EatCookie, CookieToOwner, TypeOK
  <1>3. cookie' \in [Handles -> Cookies \union {NONE}] /\ cookieTimer' \subseteq Handles
    BY DEF EatCookie, TypeOK
  <1> QED BY <1>1, <1>2, <1>3

\* A free nick goes to one account's list and names that account (nickserv.c:491).
LEMMA RegisterNickKeeps ==
    ASSUME TypeOK, NickLists, NEW n \in Nicks, NEW h \in Handles, RegisterNick(n, h),
           owner[n] = NONE, registered \subseteq registered', h \in registered'
    PROVE  /\ NickLists'
           /\ owner' \in [Nicks -> Handles \union {NONE}] /\ nicks' \in [Handles -> SUBSET Nicks]
  <1>1. owner' \in [Nicks -> Handles \union {NONE}] /\ nicks' \in [Handles -> SUBSET Nicks]
    BY DEF RegisterNick, TypeOK
  <1>2. \A m \in Nicks : owner'[m] = IF m = n THEN h ELSE owner[m]
    BY DEF RegisterNick, TypeOK
  <1>3. \A x \in Handles : \A m \in nicks'[x] : m \in nicks[x] \/ (x = h /\ m = n)
    BY DEF RegisterNick, TypeOK
  <1>4. \A x \in Handles : n \notin nicks[x]
    BY NickServAssumption DEF NickLists
  <1>5. NickLists'
    BY <1>1, <1>2, <1>3, <1>4 DEF NickLists, TypeOK
  <1> QED BY <1>1, <1>5

\* delete_nick unlinks a nick from its owner's list and from nothing else, or the
\* process dies on the list's end (nickserv.c:505).
LEMMA DeleteNicksKeeps ==
    ASSUME TypeOK, NickLists, NEW S \in SUBSET Nicks, DeleteNicks(S)
    PROVE  /\ \A h \in Handles : \A n \in nicks'[h] : owner'[n] = h /\ h \in registered
           /\ \A h \in Handles : nicks'[h] \subseteq nicks[h]
           /\ owner' \in [Nicks -> Handles \union {NONE}] /\ nicks' \in [Handles -> SUBSET Nicks]
           /\ regnick' \subseteq Users /\ crashed' \in BOOLEAN
  <1>1. CASE \E n \in S : n \notin nicks[owner[n]]
    BY <1>1 DEF DeleteNicks, TypeOK, NickLists
  <1>2. CASE ~ \E n \in S : n \notin nicks[owner[n]]
    <2>1. /\ owner' = [n \in Nicks |-> IF n \in S THEN NONE ELSE owner[n]]
          /\ nicks' = [h \in Handles |-> nicks[h] \ S]
          /\ regnick' \subseteq regnick /\ crashed' = crashed
      BY <1>2 DEF DeleteNicks
    <2>2. \A h \in Handles : \A n \in nicks'[h] : owner'[n] = h /\ h \in registered
      BY <2>1 DEF TypeOK, NickLists
    <2> QED BY <2>1, <2>2 DEF TypeOK
  <1> QED BY <1>1, <1>2

\* The commands that only drop nicks.
LEMMA OnlyNicksKeeps ==
    ASSUME Inv, NEW S \in SUBSET Nicks, DeleteNicks(S), OnlyNicks
    PROVE  Inv'
  <1> USE DEF Inv, OnlyNicks
  <1>1. /\ \A h \in Handles : \A n \in nicks'[h] : owner'[n] = h /\ h \in registered
        /\ owner' \in [Nicks -> Handles \union {NONE}] /\ nicks' \in [Handles -> SUBSET Nicks]
        /\ regnick' \subseteq Users /\ crashed' \in BOOLEAN
    BY DeleteNicksKeeps
  <1>2. NickLists'
    BY <1>1 DEF NickLists, accountVars
  <1>3. AuthConsistent' /\ CookieTimed' /\ CookieToOwner' /\ AllowAuthOnline' /\ ReclaimOnline'
    BY AuthFrame, CookieFrame, AllowFrame, ReclaimFrame DEF accountVars, userVars
  <1>4. TypeOK'
    BY <1>1 DEF TypeOK, userVars, accountVars, cookieVars
  <1> QED BY <1>2, <1>3, <1>4

\* Freeing accounts takes their cookies along (nickserv.c:561).
LEMMA FreeHandlesKeeps ==
    ASSUME TypeOK, CookieTimed, CookieToOwner, NEW S \in SUBSET Handles, FreeHandles(S)
    PROVE  /\ CookieTimed' /\ CookieToOwner'
           /\ registered' = registered \ S
           /\ flags' \in [Handles -> SUBSET Flags] /\ passwd' \in [Handles -> BOOLEAN]
           /\ email' \in [Handles -> Emails \union {NONE}]
           /\ cookie' \in [Handles -> Cookies \union {NONE}] /\ cookieTimer' \subseteq Handles
           /\ stamp' \in [Users -> Handles \union {NONE, STALE}]
  <1>1. CookieTimed'
    BY DEF FreeHandles, CookieTimed, TypeOK
  <1>2. CookieToOwner'
    BY DEF FreeHandles, CookieToOwner, TypeOK
  <1>3. /\ flags' \in [Handles -> SUBSET Flags]
        /\ email' \in [Handles -> Emails \union {NONE}]
        /\ cookie' \in [Handles -> Cookies \union {NONE}] /\ cookieTimer' \subseteq Handles
        /\ stamp' \in [Users -> Handles \union {NONE, STALE}]
    BY DEF FreeHandles, TypeOK
  <1>4. passwd' \in [Handles -> BOOLEAN]
    BY Zenon DEF FreeHandles, TypeOK
  <1> QED BY <1>1, <1>2, <1>3, <1>4 DEF FreeHandles

\* nickserv_unregister_handle leaves no pointer to a freed account in user->handle_info,
\* ni->owner of a listed nick or a cookie (nickserv.c:592).
LEMMA UnregisterKeeps ==
    ASSUME Inv, NEW S \in SUBSET registered, Unregister(S)
    PROVE  Inv'
  <1> USE DEF Inv
  <1> DEFINE T == UNION {nicks[h] : h \in S}
  <1>0. S \in SUBSET Handles /\ T \in SUBSET Nicks
    BY DEF TypeOK
  <1>1. DeleteNicks(T) /\ FreeHandles(S) /\ UNCHANGED <<userVars, allowAuth, reclaim>>
    BY DEF Unregister
  <1>2. /\ CookieTimed' /\ CookieToOwner' /\ registered' = registered \ S
        /\ flags' \in [Handles -> SUBSET Flags] /\ passwd' \in [Handles -> BOOLEAN]
        /\ email' \in [Handles -> Emails \union {NONE}]
        /\ cookie' \in [Handles -> Cookies \union {NONE}] /\ cookieTimer' \subseteq Handles
        /\ stamp' \in [Users -> Handles \union {NONE, STALE}]
    BY <1>0, <1>1, FreeHandlesKeeps
  <1>3. /\ owner' \in [Nicks -> Handles \union {NONE}] /\ nicks' \in [Handles -> SUBSET Nicks]
        /\ regnick' \subseteq Users /\ crashed' \in BOOLEAN
    BY <1>0, <1>1, DeleteNicksKeeps
  <1>4. NickLists'
    <2>1. \A n \in T : n \in nicks[owner[n]]
      BY DEF NickLists, TypeOK
    <2>2. nicks' = [h \in Handles |-> nicks[h] \ T]
      BY <1>1, <2>1 DEF DeleteNicks
    <2>3. \A h \in Handles : \A n \in nicks'[h] : h \notin S
      BY <2>2
    <2> QED BY <1>0, <1>1, <1>2, <2>3, DeleteNicksKeeps DEF NickLists
  <1>5. AuthConsistent' /\ handle_info' \in [Users -> Handles \union {NONE}]
                        /\ users' \in [Handles -> SUBSET Users]
    <2>1. handle_info' = [u \in Users |-> IF \E h \in S : u \in users[h] THEN NONE ELSE handle_info[u]]
      BY DEF Unregister
    <2>2. users' = [h \in Handles |-> IF h \in S THEN {} ELSE users[h]]
      BY DEF Unregister
    <2>3. \A u \in Users : handle_info'[u] = IF handle_info[u] \in S THEN NONE ELSE handle_info[u]
      BY <1>0, <2>1 DEF AuthConsistent, TypeOK
    <2>4. \A u \in Users, h \in Handles : u \in users'[h] <=> handle_info'[u] = h
      BY <2>2, <2>3, NickServAssumption DEF AuthConsistent, TypeOK
    <2>5. \A u \in Users : handle_info'[u] # NONE => u \in Online' /\ handle_info'[u] \in registered'
      BY <1>1, <1>2, <2>3 DEF AuthConsistent, Online, userVars
    <2> QED BY <2>1, <2>2, <2>4, <2>5 DEF AuthConsistent, TypeOK
  <1>6. AllowAuthOnline' /\ ReclaimOnline'
    BY <1>1, AllowFrame, ReclaimFrame DEF userVars
  <1>7. TypeOK'
    BY <1>1, <1>2, <1>3, <1>5 DEF TypeOK, userVars
  <1> QED BY <1>2, <1>4, <1>5, <1>6, <1>7

-----------------------------------------------------------------------------
(* The handlers that do more than one of these. *)

\* A user that appears with a stamp is authenticated to the account the stamp names, if
\* that exists and is not suspended (proto-p10.c:3368, nickserv.c:5361).
LEMMA AddUserKeeps ==
    ASSUME Inv, NEW u \in Users, NEW n \in Nicks, NEW s \in Handles \union {NONE, STALE},
           AddUser(u, n, s)
    PROVE  Inv'
  <1> USE DEF Inv
  <1>1. UNCHANGED <<registering, accountVars, cookieVars, nickVars, allowAuth, crashed>>
    BY DEF AddUser
  <1>2. Accepted(s) \in registered \union {NONE} /\ Accepted(s) \in Handles \union {NONE}
    BY DEF Accepted, TypeOK
  <1>3. /\ nick' = [nick EXCEPT ![u] = n] /\ nick[u] = NONE
        /\ \A x \in Users : nick'[x] = IF x = u THEN n ELSE nick[x]
        /\ Online' = Online \union {u}
    BY NickServAssumption DEF AddUser, Online, TypeOK
  <1>4. /\ \A x \in Users : handle_info'[x] = IF x = u THEN Accepted(s) ELSE handle_info[x]
        /\ handle_info' \in [Users -> Handles \union {NONE}]
    BY <1>2 DEF AddUser, TypeOK
  <1>5. /\ \A x \in Users, h \in Handles :
              x \in users'[h] <=> x \in users[h] \/ (x = u /\ h = Accepted(s))
        /\ users' \in [Handles -> SUBSET Users]
    BY DEF AddUser, TypeOK
  <1>6. AuthConsistent'
    <2>1. \A h \in Handles : u \notin users[h]
      BY <1>3, NickServAssumption DEF AuthConsistent, Online
    <2>2. \A x \in Users, h \in Handles : x \in users'[h] <=> handle_info'[x] = h
      BY <1>4, <1>5, <2>1 DEF AuthConsistent
    <2>3. \A x \in Users : handle_info'[x] # NONE => x \in Online' /\ handle_info'[x] \in registered'
      BY <1>1, <1>2, <1>3, <1>4 DEF AuthConsistent, accountVars
    <2> QED BY <2>2, <2>3 DEF AuthConsistent
  <1>7. AllowAuthOnline'
    BY <1>1, <1>3, NickServAssumption DEF AllowAuthOnline, Free, TypeOK
  <1>8. ReclaimOnline' /\ reclaim' \subseteq Users /\ regnick' \subseteq Users
    BY <1>3 DEF AddUser, CheckUserNick, ReclaimOnline, TypeOK
  <1>9. CookieTimed' /\ CookieToOwner' /\ NickLists'
    BY <1>1, CookieFrame, NickFrame DEF accountVars
  <1>10. flags' \in [Handles -> SUBSET Flags] /\ stamp' \in [Users -> Handles \union {NONE, STALE}]
    BY DEF AddUser, TypeOK
  <1>11. TypeOK'
    BY <1>1, <1>3, <1>4, <1>5, <1>8, <1>10 DEF TypeOK, accountVars, cookieVars, nickVars
  <1> QED BY <1>6, <1>7, <1>8, <1>9, <1>11

\* A change of nick moves the permission and drops the timer (nickserv.c:5431).
LEMMA NickChangeKeeps ==
    ASSUME Inv, NEW u \in Users, NEW n \in Nicks, NickChange(u, n)
    PROVE  Inv'
  <1> USE DEF Inv
  <1>1. UNCHANGED <<stamp, registering, handle_info, users, accountVars, flags, cookieVars,
                    nickVars, crashed>>
    BY DEF NickChange
  <1>2. /\ u \in Online /\ Free(n) /\ nick[u] \in Nicks /\ nick[u] # n
        /\ \A x \in Users : nick'[x] = IF x = u THEN n ELSE nick[x]
        /\ nick' \in [Users -> Nicks \union {NONE}]
        /\ Online' = Online
    BY NickServAssumption DEF NickChange, Online, Free, TypeOK
  <1>3. AuthConsistent'
    BY <1>1, <1>2 DEF AuthConsistent, accountVars
  <1>4. /\ allowAuth' \in [Nicks -> Handles \union {NONE}]
        /\ \A m \in Nicks : allowAuth'[m] # NONE => m = n \/ (m # nick[u] /\ allowAuth[m] # NONE)
    BY <1>2 DEF NickChange, TypeOK
  <1>5. AllowAuthOnline'
    BY <1>2, <1>4 DEF AllowAuthOnline, Free
  <1>6. ReclaimOnline' /\ reclaim' \subseteq Users /\ regnick' \subseteq Users
    BY <1>2 DEF NickChange, CheckUserNick, ReclaimOnline, TypeOK
  <1>7. CookieTimed' /\ CookieToOwner' /\ NickLists'
    BY <1>1, CookieFrame, NickFrame DEF accountVars
  <1>8. TypeOK'
    BY <1>1, <1>2, <1>4, <1>6 DEF TypeOK, accountVars, cookieVars, nickVars
  <1> QED BY <1>3, <1>5, <1>6, <1>7, <1>8

\* A server's stamp authenticates the user, or only marks it (proto-p10.c:1700).
LEMMA AccountKeeps ==
    ASSUME Inv, NEW u \in Users, NEW h \in Handles, cmd_account(u, h)
    PROVE  Inv'
  <1> USE DEF Inv
  <1>1. UNCHANGED <<userVars, accountVars, cookieVars, nickVars, allowAuth, crashed>>
        /\ u \in Online /\ h \in registered
    BY DEF cmd_account
  <1>2. /\ AuthConsistent' /\ ReclaimOnline'
        /\ handle_info' \in [Users -> Handles \union {NONE}]
        /\ users' \in [Handles -> SUBSET Users]
        /\ flags' \in [Handles -> SUBSET Flags]
        /\ regnick' \subseteq Users /\ reclaim' \subseteq Users
    <2>1. CASE SetHandleInfo(u, h, FALSE)
      BY <1>1, <2>1, SetHandleInfoKeeps DEF userVars, accountVars
    <2>2. CASE UNCHANGED <<authVars, flags>>
      BY <1>1, <2>2, AuthFrame, ReclaimFrame DEF authVars, userVars, accountVars, TypeOK
    <2> QED BY <2>1, <2>2 DEF cmd_account
  <1>3. CookieTimed' /\ CookieToOwner' /\ NickLists' /\ AllowAuthOnline'
    BY <1>1, CookieFrame, NickFrame, AllowFrame DEF accountVars, userVars
  <1>4. TypeOK'
    BY <1>1, <1>2 DEF cmd_account, TypeOK, userVars, accountVars, cookieVars, nickVars
  <1> QED BY <1>2, <1>3, <1>4

\* The timer renames or kills a connected user (nickserv.c:5312).
LEMMA ReclaimTimerKeeps ==
    ASSUME Inv, NEW u \in Users, nickserv_reclaim_p(u)
    PROVE  Inv'
  <1> USE DEF Inv
  <1>1. u \in Online
    BY DEF nickserv_reclaim_p, ReclaimOnline
  <1>2. CASE DelUser(u)
    BY <1>1, <1>2, DelUserKeeps
  <1>3. CASE /\ reclaim' = reclaim \ {u}
             /\ UNCHANGED <<userVars, stamp, regnick, handle_info, users, accountVars, flags,
                            cookieVars, nickVars, allowAuth, crashed>>
    <2>1. AuthConsistent' /\ CookieTimed' /\ CookieToOwner' /\ AllowAuthOnline' /\ NickLists'
          /\ ReclaimOnline'
      BY <1>3, AuthFrame, CookieFrame, AllowFrame, NickFrame, ReclaimFrame DEF userVars, accountVars
    <2>2. TypeOK'
      BY <1>3 DEF TypeOK, userVars, accountVars, cookieVars, nickVars
    <2> QED BY <2>1, <2>2
  <1> QED BY <1>2, <1>3 DEF nickserv_reclaim_p

\* A new account, with its cookie or its first user, and the user's nick
\* (nickserv.c:1090, 1343).
LEMMA RegisterKeeps ==
    ASSUME Inv, NEW u \in Users, NEW h \in Handles, NEW e \in Emails \union {NONE},
           cmd_register(u, h, e)
    PROVE  Inv'
  <1> USE DEF Inv
  <1>1. /\ UNCHANGED <<nick, allowAuth, crashed>> /\ u \in Online /\ h \notin registered
        /\ registered' = registered \union {h} /\ registering' = registering \union {u}
        /\ email' = [email EXCEPT ![h] = e]
    BY DEF cmd_register
  <1>2. nick[u] \in Nicks /\ cookie[h] = NONE
    BY <1>1 DEF Online, TypeOK, CookieTimed
  <1>3. \A x \in Handles : email'[x] = IF x = h THEN e ELSE email[x]
    BY <1>1 DEF TypeOK
  <1>4. /\ AuthConsistent' /\ ReclaimOnline' /\ CookieTimed' /\ CookieToOwner'
        /\ handle_info' \in [Users -> Handles \union {NONE}]
        /\ users' \in [Handles -> SUBSET Users]
        /\ flags' \in [Handles -> SUBSET Flags]
        /\ regnick' \subseteq Users /\ reclaim' \subseteq Users
        /\ stamp' \in [Users -> Handles \union {NONE, STALE}]
        /\ cookie' \in [Handles -> Cookies \union {NONE}] /\ cookieTimer' \subseteq Handles
    <2>1. CASE e # NONE /\ MakeCookie(h, "ACTIVATION", e) /\ UNCHANGED <<authVars, stamp, flags>>
      <3>1. /\ CookieTimed' /\ CookieToOwner'
            /\ cookie' \in [Handles -> Cookies \union {NONE}] /\ cookieTimer' \subseteq Handles
        BY <1>1, <1>3, <2>1, MakeCookieKeeps DEF CookieTypes
      <3>2. AuthConsistent' /\ ReclaimOnline'
        BY <1>1, <2>1, AuthFrame, ReclaimFrame DEF authVars
      <3> QED BY <2>1, <3>1, <3>2 DEF authVars, TypeOK
    <2>2. CASE SetHandleInfo(u, h, TRUE) /\ stamp' = Stamped(u, h) /\ UNCHANGED cookieVars
      <3>1. CookieTimed' /\ CookieToOwner'
        BY <1>1, <1>2, <1>3, <2>2 DEF cookieVars, CookieTimed, CookieToOwner
      <3>2. /\ AuthConsistent' /\ ReclaimOnline'
            /\ handle_info' \in [Users -> Handles \union {NONE}]
            /\ users' \in [Handles -> SUBSET Users]
            /\ flags' \in [Handles -> SUBSET Flags]
            /\ regnick' \subseteq Users /\ reclaim' \subseteq Users
        BY <1>1, <2>2, SetHandleInfoKeeps
      <3> QED BY <2>2, <3>1, <3>2, StampedType DEF cookieVars, TypeOK
    <2> QED BY <2>1, <2>2 DEF cmd_register
  <1>5. /\ NickLists' /\ owner' \in [Nicks -> Handles \union {NONE}]
        /\ nicks' \in [Handles -> SUBSET Nicks]
    <2>1. CASE owner[nick[u]] = NONE /\ RegisterNick(nick[u], h)
      BY <1>1, <1>2, <2>1, RegisterNickKeeps
    <2>2. CASE UNCHANGED nickVars
      BY <1>1, <2>2, NickFrame DEF nickVars, TypeOK
    <2> QED BY <2>1, <2>2 DEF cmd_register
  <1>6. passwd' \in [Handles -> BOOLEAN] /\ email' \in [Handles -> Emails \union {NONE}]
    <2>1. passwd' = [passwd EXCEPT ![h] = FALSE] \/ passwd' = [passwd EXCEPT ![h] = TRUE]
      BY DEF cmd_register
    <2> QED BY <1>1, <2>1 DEF TypeOK
  <1>7. registered' \subseteq Handles /\ registering' \subseteq Users
    BY <1>1 DEF TypeOK
  <1>8. TypeOK'
    BY <1>1, <1>4, <1>5, <1>6, <1>7 DEF TypeOK
  <1> QED BY <1>1, <1>4, <1>5, <1>8, AllowFrame

\* The same by staff, for a connected user or for nobody (nickserv.c:1500).
LEMMA OregisterKeeps ==
    ASSUME Inv, NEW h \in Handles, NEW u \in Users \union {NONE}, NEW e \in Emails \union {NONE},
           cmd_oregister(h, u, e)
    PROVE  Inv'
  <1> USE DEF Inv
  <1>1. /\ UNCHANGED <<userVars, cookieVars, nickVars, allowAuth, crashed>> /\ h \notin registered
        /\ registered' = registered \union {h} /\ passwd' = [passwd EXCEPT ![h] = TRUE]
        /\ email' = [email EXCEPT ![h] = e]
    BY DEF cmd_oregister
  <1>2. /\ AuthConsistent' /\ ReclaimOnline'
        /\ handle_info' \in [Users -> Handles \union {NONE}]
        /\ users' \in [Handles -> SUBSET Users]
        /\ flags' \in [Handles -> SUBSET Flags]
        /\ regnick' \subseteq Users /\ reclaim' \subseteq Users
        /\ stamp' \in [Users -> Handles \union {NONE, STALE}]
    <2>1. CASE u # NONE
      <3>1. u \in Online /\ SetHandleInfo(u, h, TRUE) /\ stamp' = Stamped(u, h)
        BY <2>1 DEF cmd_oregister
      <3> QED BY <1>1, <3>1, SetHandleInfoKeeps, StampedType DEF userVars, Online
    <2>2. CASE u = NONE
      <3>1. UNCHANGED <<authVars, stamp, flags>>
        BY <2>2 DEF cmd_oregister
      <3> QED BY <1>1, <3>1, AuthFrame, ReclaimFrame DEF authVars, userVars, TypeOK
    <2> QED BY <2>1, <2>2
  <1>3. CookieTimed' /\ CookieToOwner'
    BY <1>1 DEF CookieTimed, CookieToOwner, cookieVars, TypeOK
  <1>4. NickLists' /\ AllowAuthOnline'
    BY <1>1, NickFrame, AllowFrame DEF userVars
  <1>5. TypeOK'
    BY <1>1, <1>2 DEF TypeOK, userVars, cookieVars, nickVars
  <1> QED BY <1>2, <1>3, <1>4, <1>5

\* Using a cookie: it is spent, and its holder may become a user of the account
\* (nickserv.c:2753).
LEMMA CookieKeeps ==
    ASSUME Inv, NEW u \in Users, NEW h \in Handles, cmd_cookie(u, h)
    PROVE  Inv'
  <1> USE DEF Inv
  <1>1. /\ UNCHANGED <<userVars, registered, nickVars, allowAuth, crashed>>
        /\ u \in Online /\ h \in registered /\ cookie[h] # NONE /\ EatCookie(h)
    BY DEF cmd_cookie
  <1>2. /\ email' \in [Handles -> Emails \union {NONE}]
        /\ \A x \in Handles : x # h => email'[x] = email[x]
    <2>1. cookie[h].to \in Emails
      BY <1>1 DEF TypeOK, Cookies
    <2>2. email' = [email EXCEPT ![h] = cookie[h].to] \/ email' = email
      BY DEF cmd_cookie
    <2> QED BY <2>1, <2>2 DEF TypeOK
  <1>3. passwd' \in [Handles -> BOOLEAN]
    BY DEF cmd_cookie, TypeOK
  <1>4. /\ AuthConsistent' /\ ReclaimOnline'
        /\ handle_info' \in [Users -> Handles \union {NONE}]
        /\ users' \in [Handles -> SUBSET Users]
        /\ flags' \in [Handles -> SUBSET Flags]
        /\ regnick' \subseteq Users /\ reclaim' \subseteq Users
        /\ stamp' \in [Users -> Handles \union {NONE, STALE}]
    <2>1. CASE SetHandleInfo(u, h, TRUE) /\ stamp' = Stamped(u, h)
      BY <1>1, <2>1, SetHandleInfoKeeps, StampedType DEF userVars
    <2>2. CASE UNCHANGED <<authVars, flags, stamp>>
      BY <1>1, <2>2, AuthFrame, ReclaimFrame DEF authVars, userVars, TypeOK
    <2> QED BY <2>1, <2>2 DEF cmd_cookie
  <1>5. /\ CookieTimed' /\ CookieToOwner'
        /\ cookie' \in [Handles -> Cookies \union {NONE}] /\ cookieTimer' \subseteq Handles
    BY <1>1, <1>2, EatCookieKeeps
  <1>6. NickLists' /\ AllowAuthOnline'
    BY <1>1, NickFrame, AllowFrame DEF userVars
  <1>7. TypeOK'
    BY <1>1, <1>2, <1>3, <1>4, <1>5 DEF TypeOK, userVars, nickVars
  <1> QED BY <1>4, <1>5, <1>6, <1>7

\* A merge moves the users and the listed nicks, then frees the account; nicks may be
\* left on no list, but no list names a nick it does not own (nickserv.c:4072).
LEMMA MergeKeeps ==
    ASSUME Inv, NEW from \in Handles, NEW to \in Handles, cmd_merge(from, to)
    PROVE  Inv'
  <1> USE DEF Inv
  <1>1. /\ from \in registered /\ to \in registered /\ from # to /\ FreeHandles({from})
        /\ UNCHANGED <<userVars, regnick, reclaim, allowAuth, crashed>>
    BY DEF cmd_merge
  <1>2. /\ CookieTimed' /\ CookieToOwner' /\ registered' = registered \ {from}
        /\ flags' \in [Handles -> SUBSET Flags] /\ passwd' \in [Handles -> BOOLEAN]
        /\ email' \in [Handles -> Emails \union {NONE}]
        /\ cookie' \in [Handles -> Cookies \union {NONE}] /\ cookieTimer' \subseteq Handles
        /\ stamp' \in [Users -> Handles \union {NONE, STALE}]
    <2>1. {from} \in SUBSET Handles
      OBVIOUS
    <2> QED BY <1>1, <2>1, FreeHandlesKeeps
  <1>3. /\ owner' = [n \in Nicks |-> IF n \in nicks[from] THEN to ELSE owner[n]]
        /\ owner' \in [Nicks -> Handles \union {NONE}]
    BY DEF cmd_merge, TypeOK
  <1>4. /\ nicks' \in [Handles -> SUBSET Nicks] /\ nicks'[from] = {}
        /\ nicks'[to] \subseteq nicks[to] \union nicks[from]
        /\ \A h \in Handles : h # from /\ h # to => nicks'[h] = nicks[h]
    BY <1>1 DEF cmd_merge, TypeOK
  <1>5. NickLists'
    BY <1>1, <1>2, <1>3, <1>4 DEF NickLists, TypeOK
  <1>6. /\ handle_info' = [u \in Users |-> IF u \in users[from] THEN to ELSE handle_info[u]]
        /\ handle_info' \in [Users -> Handles \union {NONE}]
    BY DEF cmd_merge, TypeOK
  <1>7. /\ users' \in [Handles -> SUBSET Users] /\ users'[from] = {}
        /\ users'[to] = users[to] \union users[from]
        /\ \A h \in Handles : h # from /\ h # to => users'[h] = users[h]
    BY <1>1 DEF cmd_merge, TypeOK
  <1>8. AuthConsistent'
    <2>1. \A u \in Users : handle_info'[u] = IF handle_info[u] = from THEN to ELSE handle_info[u]
      BY <1>6 DEF AuthConsistent
    <2>2. \A u \in Users, h \in Handles : u \in users'[h] <=> handle_info'[u] = h
      BY <1>1, <1>7, <2>1 DEF AuthConsistent
    <2>3. \A u \in Users : handle_info'[u] # NONE => u \in Online' /\ handle_info'[u] \in registered'
      BY <1>1, <1>2, <2>1, NickServAssumption DEF AuthConsistent, Online, userVars
    <2> QED BY <2>2, <2>3 DEF AuthConsistent
  <1>9. AllowAuthOnline' /\ ReclaimOnline'
    BY <1>1, AllowFrame, ReclaimFrame DEF userVars
  <1>10. TypeOK'
    BY <1>1, <1>2, <1>3, <1>4, <1>6, <1>7 DEF TypeOK, userVars
  <1> QED BY <1>2, <1>5, <1>8, <1>9, <1>10

\* After a restart every index is rebuilt from the database and the servers' bursts
\* (nickserv.c:4681, 4864).
LEMMA RestartKeeps ==
    ASSUME Inv, NEW D \in SUBSET Handles, Restart(D)
    PROVE  Inv'
  <1> USE DEF Inv
  <1> DEFINE auth == [u \in Users |-> IF u \in Online THEN Accepted(stamp[u]) ELSE NONE]
             own == [n \in Nicks |-> IF \E h \in registered : n \in nicks[h]
                                     THEN CHOOSE h \in registered : n \in nicks[h] ELSE NONE]
  <1>1. UNCHANGED <<nick, stamp, accountVars, nicks, crashed>> /\ registering' = {}
        /\ allowAuth' = [n \in Nicks |-> NONE] /\ handle_info' = auth /\ owner' = own
    BY DEF Restart
  <1>2. auth \in [Users -> Handles \union {NONE}]
        /\ \A u \in Users : auth[u] # NONE => u \in Online /\ auth[u] \in registered
    BY DEF Accepted, TypeOK
  <1>3. users' = [h \in Handles |-> {u \in Users : auth[u] = h}]
    BY DEF Restart
  <1>4. AuthConsistent'
    BY <1>1, <1>2, <1>3 DEF AuthConsistent, Online, accountVars
  <1>5. own \in [Nicks -> Handles \union {NONE}]
    BY DEF TypeOK
  <1>6. NickLists'
    <2>1. ASSUME NEW h \in Handles, NEW n \in nicks[h] PROVE own[n] = h
      <3>1. n \in Nicks /\ h \in registered /\ \A x \in registered : n \in nicks[x] => x = h
        BY <2>1 DEF NickLists, TypeOK
      <3> QED BY <2>1, <3>1
    <2> QED BY <1>1, <2>1 DEF NickLists, accountVars
  <1>7. /\ CookieTimed' /\ CookieToOwner'
        /\ cookie' \in [Handles -> Cookies \union {NONE}] /\ cookieTimer' \subseteq Handles
    <2>1. /\ cookie' = [h \in Handles |-> IF h \in D THEN NONE ELSE cookie[h]]
          /\ cookieTimer' = {h \in Handles : cookie'[h] # NONE}
      BY DEF Restart
    <2> QED BY <1>1, <2>1 DEF CookieTimed, CookieToOwner, TypeOK, accountVars
  <1>8. AllowAuthOnline' /\ allowAuth' \in [Nicks -> Handles \union {NONE}]
    BY <1>1 DEF AllowAuthOnline
  <1>9. ReclaimOnline' /\ reclaim' \subseteq Users /\ regnick' \subseteq Users
        /\ flags' \in [Handles -> SUBSET Flags]
    BY <1>1 DEF Restart, ReclaimOnline, Online, TypeOK
  <1> HIDE DEF auth, own
  <1>10. users' \in [Handles -> SUBSET Users]
    BY <1>3
  <1>11. TypeOK'
    BY <1>1, <1>2, <1>5, <1>7, <1>8, <1>9, <1>10 DEF TypeOK, accountVars
  <1> QED BY <1>4, <1>6, <1>7, <1>8, <1>9, <1>11

-----------------------------------------------------------------------------
(* One step per action. *)

\* Actions that change only a cookie, the flags or the nicks of an account share the
\* rest of the argument.
LEMMA CookieOnlyKeeps ==
    ASSUME Inv, CookieTimed', CookieToOwner', cookie' \in [Handles -> Cookies \union {NONE}],
           cookieTimer' \subseteq Handles, email' \in [Handles -> Emails \union {NONE}],
           passwd' \in [Handles -> BOOLEAN],
           UNCHANGED <<userVars, authVars, stamp, registered, flags, nickVars, allowAuth, crashed>>
    PROVE  Inv'
  <1> USE DEF Inv
  <1>1. AuthConsistent' /\ AllowAuthOnline' /\ NickLists' /\ ReclaimOnline'
    BY AuthFrame, AllowFrame, NickFrame, ReclaimFrame DEF userVars, authVars
  <1>2. TypeOK'
    BY DEF TypeOK, userVars, authVars, nickVars
  <1> QED BY <1>1, <1>2

LEMMA FlagsOnlyKeeps ==
    ASSUME Inv, flags' \in [Handles -> SUBSET Flags],
           UNCHANGED <<userVars, authVars, stamp, accountVars, cookieVars, nickVars, allowAuth, crashed>>
    PROVE  Inv'
  <1> USE DEF Inv
  <1>1. AuthConsistent' /\ CookieTimed' /\ CookieToOwner' /\ AllowAuthOnline' /\ NickLists'
        /\ ReclaimOnline'
    BY AuthFrame, CookieFrame, AllowFrame, NickFrame, ReclaimFrame DEF userVars, authVars, accountVars
  <1>2. TypeOK'
    BY DEF TypeOK, userVars, authVars, accountVars, cookieVars, nickVars
  <1> QED BY <1>1, <1>2

LEMMA AddNickKeeps ==
    ASSUME Inv, NEW n \in Nicks, NEW h \in registered, owner[n] = NONE, RegisterNick(n, h),
           UNCHANGED <<userVars, authVars, stamp, accountVars, flags, cookieVars, allowAuth, crashed>>
    PROVE  Inv'
  <1> USE DEF Inv
  <1>0. h \in Handles
    BY DEF TypeOK
  <1>1. /\ NickLists' /\ owner' \in [Nicks -> Handles \union {NONE}]
        /\ nicks' \in [Handles -> SUBSET Nicks]
    BY <1>0, RegisterNickKeeps DEF accountVars
  <1>2. AuthConsistent' /\ CookieTimed' /\ CookieToOwner' /\ AllowAuthOnline' /\ ReclaimOnline'
    BY AuthFrame, CookieFrame, AllowFrame, ReclaimFrame DEF userVars, authVars, accountVars
  <1>3. TypeOK'
    BY <1>1 DEF TypeOK, userVars, authVars, accountVars, cookieVars
  <1> QED BY <1>1, <1>2, <1>3

\* A cookie mailed on request goes to the address of the account (nickserv.c:2618, 2717).
LEMMA RequestCookieKeeps ==
    ASSUME Inv, NEW u \in Users, NEW h \in Handles, NEW type \in CookieTypes,
           type # "EMAIL_CHANGE", RequestCookie(u, h, type)
    PROVE  Inv'
  <1> USE DEF Inv
  <1>1. /\ h \in registered /\ email[h] \in Emails /\ MakeCookie(h, type, email[h])
        /\ UNCHANGED <<userVars, authVars, stamp, accountVars, flags, nickVars, allowAuth, crashed>>
    BY DEF RequestCookie, TypeOK
  <1>2. /\ CookieTimed' /\ CookieToOwner'
        /\ cookie' \in [Handles -> Cookies \union {NONE}] /\ cookieTimer' \subseteq Handles
    BY <1>1, MakeCookieKeeps DEF accountVars
  <1>3. email' \in [Handles -> Emails \union {NONE}] /\ passwd' \in [Handles -> BOOLEAN]
    BY <1>1 DEF accountVars, TypeOK
  <1> QED BY <1>1, <1>2, <1>3, CookieOnlyKeeps DEF accountVars

\* A cookie that is dropped, whatever else happens to password and address.
LEMMA DropCookieKeeps ==
    ASSUME Inv, NEW h \in Handles, EatCookie(h),
           email' \in [Handles -> Emails \union {NONE}],
           \A x \in Handles : x # h => email'[x] = email[x],
           passwd' \in [Handles -> BOOLEAN],
           UNCHANGED <<userVars, authVars, stamp, registered, flags, nickVars, allowAuth, crashed>>
    PROVE  Inv'
  <1>1. /\ CookieTimed' /\ CookieToOwner'
        /\ cookie' \in [Handles -> Cookies \union {NONE}] /\ cookieTimer' \subseteq Handles
    BY EatCookieKeeps DEF Inv
  <1> QED BY <1>1, CookieOnlyKeeps

\* Every operation of NickServ keeps its indexes in step.
LEMMA StepKeeps ==
    ASSUME Inv, Step
    PROVE  Inv'
  <1> USE DEF Inv
  <1>1. ASSUME NEW u \in Users, NEW n \in Nicks, NEW s \in Handles \union {NONE, STALE}, AddUser(u, n, s)
        PROVE  Inv'
    BY <1>1, AddUserKeeps
  <1>2. ASSUME NEW u \in Users, NEW n \in Nicks, NickChange(u, n)
        PROVE  Inv'
    BY <1>2, NickChangeKeeps
  <1>3. ASSUME NEW u \in Users, Quit(u)
        PROVE  Inv'
    BY <1>3, DelUserKeeps DEF Quit
  <1>4. ASSUME NEW u \in Users, NEW h \in Handles, cmd_account(u, h)
        PROVE  Inv'
    BY <1>4, AccountKeeps
  <1>5. ASSUME NEW u \in Users, nickserv_reclaim_p(u)
        PROVE  Inv'
    BY <1>5, ReclaimTimerKeeps
  <1>6. ASSUME NEW u \in Users, NEW h \in Handles, NEW e \in Emails \union {NONE}, cmd_register(u, h, e)
        PROVE  Inv'
    BY <1>6, RegisterKeeps
  <1>7. ASSUME NEW h \in Handles, NEW u \in Users \union {NONE}, NEW e \in Emails \union {NONE}, cmd_oregister(h, u, e)
        PROVE  Inv'
    BY <1>7, OregisterKeeps
  <1>8. ASSUME NEW u \in Users, NEW h \in Handles, cmd_auth(u, h)
        PROVE  Inv'
    <2>1. u \in Online /\ h \in registered /\ \E byMask, verified \in BOOLEAN : Login(u, h, byMask, verified)
      BY <1>8 DEF cmd_auth
    <2> QED BY <2>1, LoginKeeps
  <1>9. ASSUME NEW u \in Users, NEW h \in Handles, nickserv_do_autoauth(u, h)
        PROVE  Inv'
    <2>1. u \in Online /\ h \in registered /\ \E byMask, verified \in BOOLEAN : Login(u, h, byMask, verified)
      BY <1>9 DEF nickserv_do_autoauth
    <2> QED BY <2>1, LoginKeeps
  <1>10. ASSUME NEW t \in Users, NEW h \in Handles \union {NONE}, cmd_allowauth(t, h)
         PROVE  Inv'
    <2>1. /\ t \in Online /\ nick[t] \in Nicks /\ allowAuth' = [allowAuth EXCEPT ![nick[t]] = h]
          /\ UNCHANGED <<userVars, authVars, stamp, accountVars, flags, cookieVars, nickVars, crashed>>
      BY <1>10 DEF cmd_allowauth, Online, TypeOK
    <2>2. AllowAuthOnline'
      BY <2>1 DEF AllowAuthOnline, Free, userVars, TypeOK
    <2>3. AuthConsistent' /\ CookieTimed' /\ CookieToOwner' /\ NickLists' /\ ReclaimOnline'
      BY <2>1, AuthFrame, CookieFrame, NickFrame, ReclaimFrame DEF userVars, authVars, accountVars
    <2>4. TypeOK'
      BY <2>1 DEF TypeOK, userVars, authVars, accountVars, cookieVars, nickVars
    <2> QED BY <2>2, <2>3, <2>4
  <1>11. ASSUME NEW u \in Users, cmd_logout(u)
         PROVE  Inv'
    <2>1. /\ u \in Online /\ SetHandleInfo(u, NONE, FALSE)
          /\ UNCHANGED <<userVars, stamp, accountVars, cookieVars, nickVars, allowAuth, crashed>>
      BY <1>11 DEF cmd_logout
    <2>2. /\ AuthConsistent' /\ ReclaimOnline'
          /\ handle_info' \in [Users -> Handles \union {NONE}]
          /\ users' \in [Handles -> SUBSET Users]
          /\ flags' \in [Handles -> SUBSET Flags]
          /\ regnick' \subseteq Users /\ reclaim' \subseteq Users
      BY <2>1, SetHandleInfoKeeps DEF userVars, accountVars
    <2>3. CookieTimed' /\ CookieToOwner' /\ AllowAuthOnline' /\ NickLists'
      BY <2>1, CookieFrame, AllowFrame, NickFrame DEF userVars, accountVars
    <2>4. TypeOK'
      BY <2>1, <2>2 DEF TypeOK, userVars, accountVars, cookieVars, nickVars
    <2> QED BY <2>2, <2>3, <2>4
  <1>12. ASSUME NEW u \in Users, NEW t \in Users, cmd_ghost(u, t)
         PROVE  Inv'
    BY <1>12, DelUserKeeps DEF cmd_ghost
  <1>13. ASSUME NEW u \in Users, NEW h \in Handles, cmd_authcookie(u, h)
         PROVE  Inv'
    BY <1>13, RequestCookieKeeps DEF cmd_authcookie, CookieTypes
  <1>14. ASSUME NEW u \in Users, NEW h \in Handles, cmd_resetpass(u, h)
         PROVE  Inv'
    BY <1>14, RequestCookieKeeps DEF cmd_resetpass, CookieTypes
  <1>15. ASSUME NEW u \in Users, NEW e \in Emails, SetEmail(u, e)
         PROVE  Inv'
    <2>1. /\ handle_info[u] \in registered /\ handle_info[u] \in Handles
          /\ MakeCookie(handle_info[u], "EMAIL_CHANGE", e)
          /\ UNCHANGED <<userVars, authVars, stamp, accountVars, flags, nickVars, allowAuth, crashed>>
      BY <1>15 DEF SetEmail, AuthConsistent, TypeOK
    <2>2. /\ CookieTimed' /\ CookieToOwner'
          /\ cookie' \in [Handles -> Cookies \union {NONE}] /\ cookieTimer' \subseteq Handles
      BY <2>1, MakeCookieKeeps DEF accountVars, CookieTypes
    <2> QED BY <2>1, <2>2, CookieOnlyKeeps DEF accountVars, TypeOK
  <1>16. ASSUME NEW h \in Handles, NEW e \in Emails, OverrideEmail(h, e)
         PROVE  Inv'
    <2>1. /\ EatCookie(h) /\ email' = [email EXCEPT ![h] = e]
          /\ UNCHANGED <<userVars, authVars, stamp, registered, passwd, flags, nickVars, allowAuth,
                         crashed>>
      BY <1>16 DEF OverrideEmail
    <2>2. email' \in [Handles -> Emails \union {NONE}] /\ passwd' \in [Handles -> BOOLEAN]
          /\ \A x \in Handles : x # h => email'[x] = email[x]
      BY <2>1 DEF TypeOK
    <2> QED BY <2>1, <2>2, DropCookieKeeps
  <1>17. ASSUME NEW u \in Users, NEW h \in Handles, cmd_cookie(u, h)
         PROVE  Inv'
    BY <1>17, CookieKeeps
  <1>18. ASSUME NEW u \in Users, cmd_delcookie(u)
         PROVE  Inv'
    <2>1. handle_info[u] \in Handles /\ EatCookie(handle_info[u]) /\ UNCHANGED <<userVars, authVars, stamp, accountVars, flags, nickVars, allowAuth, crashed>>
      BY <1>18 DEF cmd_delcookie, Inv, TypeOK
    <2> QED BY <2>1, DropCookieKeeps DEF accountVars, Inv, TypeOK
  <1>19. ASSUME NEW h \in Handles, cmd_odelcookie(h)
         PROVE  Inv'
    <2>1. /\ EatCookie(h) /\ (passwd' = [passwd EXCEPT ![h] = TRUE] \/ passwd' = passwd)
          /\ UNCHANGED <<userVars, authVars, stamp, registered, email, flags, nickVars, allowAuth,
                         crashed>>
      BY <1>19 DEF cmd_odelcookie
    <2>2. email' \in [Handles -> Emails \union {NONE}] /\ passwd' \in [Handles -> BOOLEAN]
      BY <2>1 DEF TypeOK
    <2> QED BY <2>1, <2>2, DropCookieKeeps
  <1>20. ASSUME NEW h \in Handles, CookieTimeout(h)
         PROVE  Inv'
    <2>1. EatCookie(h) /\ UNCHANGED <<userVars, authVars, stamp, accountVars, flags, nickVars, allowAuth, crashed>>
      BY <1>20 DEF CookieTimeout
    <2> QED BY <2>1, DropCookieKeeps DEF accountVars, Inv, TypeOK
  <1>21. ASSUME NEW h \in Handles, opt_password(h)
         PROVE  Inv'
    <2>1. /\ passwd' = [passwd EXCEPT ![h] = TRUE]
          /\ UNCHANGED <<userVars, authVars, stamp, registered, email, flags, cookieVars, nickVars,
                         allowAuth, crashed>>
      BY <1>21 DEF opt_password
    <2>2. CookieTimed' /\ CookieToOwner' /\ passwd' \in [Handles -> BOOLEAN]
      BY <2>1, CookieFrame DEF TypeOK
    <2> QED BY <2>1, <2>2, CookieOnlyKeeps DEF cookieVars, TypeOK
  <1>22. ASSUME NEW h \in Handles, NEW f \in Flags, SetFlag(h, f)
         PROVE  Inv'
    <2>1. flags' \in [Handles -> SUBSET Flags]
      BY <1>22 DEF SetFlag, Inv, TypeOK
    <2> QED BY <2>1, <1>22, FlagsOnlyKeeps DEF SetFlag
  <1>23. ASSUME NEW u \in Users, cmd_vacation(u)
         PROVE  Inv'
    <2>1. flags' \in [Handles -> SUBSET Flags]
      BY <1>23 DEF cmd_vacation, Inv, TypeOK
    <2> QED BY <2>1, <1>23, FlagsOnlyKeeps DEF cmd_vacation
  <1>24. ASSUME NEW u \in Users, cmd_regnick(u)
         PROVE  Inv'
    <2>1. nick[u] \in Nicks /\ handle_info[u] \in registered
      BY <1>24 DEF cmd_regnick, Inv, TypeOK, AuthConsistent, Online
    <2> QED BY <2>1, <1>24, AddNickKeeps DEF cmd_regnick
  <1>25. ASSUME NEW h \in Handles, NEW n \in Nicks, cmd_oregnick(h, n)
         PROVE  Inv'
    BY <1>25, AddNickKeeps DEF cmd_oregnick
  <1>26. ASSUME NEW u \in Users, NEW n \in Nicks, cmd_unregnick(u, n)
         PROVE  Inv'
    BY <1>26, OnlyNicksKeeps DEF cmd_unregnick
  <1>27. ASSUME NEW n \in Nicks, cmd_ounregnick(n)
         PROVE  Inv'
    BY <1>27, OnlyNicksKeeps DEF cmd_ounregnick
  <1>28. ASSUME NEW S \in SUBSET Nicks, expire_nicks(S)
         PROVE  Inv'
    BY <1>28, OnlyNicksKeeps DEF expire_nicks
  <1>29. ASSUME NEW u \in Users, NEW t \in Users, cmd_reclaim(u, t)
         PROVE  Inv'
    BY <1>29, DelUserKeeps DEF cmd_reclaim
  <1>30. ASSUME NEW u \in Users, cmd_unregister(u)
         PROVE  Inv'
    <2>1. {handle_info[u]} \in SUBSET registered /\ Unregister({handle_info[u]})
      BY <1>30 DEF cmd_unregister, Inv, AuthConsistent
    <2> QED BY <2>1, UnregisterKeeps
  <1>31. ASSUME NEW h \in Handles, cmd_ounregister(h)
         PROVE  Inv'
    <2>1. {h} \in SUBSET registered /\ Unregister({h})
      BY <1>31 DEF cmd_ounregister
    <2> QED BY <2>1, UnregisterKeeps
  <1>32. ASSUME NEW S \in SUBSET Handles, expire_handles(S)
         PROVE  Inv'
    BY <1>32, UnregisterKeeps DEF expire_handles
  <1>33. ASSUME NEW from \in Handles, NEW to \in Handles, cmd_merge(from, to)
         PROVE  Inv'
    BY <1>33, MergeKeeps
  <1>34. ASSUME NEW D \in SUBSET Handles, Restart(D)
         PROVE  Inv'
    BY <1>34, RestartKeeps
    <1> QED BY <1>1, <1>2, <1>3, <1>4, <1>5, <1>6, <1>7, <1>8, <1>9, <1>10, <1>11, <1>12,
      <1>13, <1>14, <1>15, <1>16, <1>17, <1>18, <1>19, <1>20, <1>21, <1>22, <1>23, <1>24,
      <1>25, <1>26, <1>27, <1>28, <1>29, <1>30, <1>31, <1>32, <1>33, <1>34 DEF Step

LEMMA InitKeeps == Init => Inv
  <1> SUFFICES ASSUME Init PROVE Inv
    OBVIOUS
  <1>1. TypeOK
    BY DEF Init, TypeOK
  <1>2. AuthConsistent
    BY NickServAssumption DEF Init, AuthConsistent
  <1>3. CookieTimed /\ CookieToOwner /\ AllowAuthOnline /\ NickLists /\ ReclaimOnline
    BY DEF Init, CookieTimed, CookieToOwner, AllowAuthOnline, NickLists, ReclaimOnline
  <1> QED BY <1>1, <1>2, <1>3 DEF Inv

LEMMA NextKeeps ==
    ASSUME Inv, [Next]_vars
    PROVE  Inv'
  <1>1. CASE UNCHANGED vars
    BY <1>1 DEF vars, Inv, TypeOK, AuthConsistent, CookieTimed, CookieToOwner, AllowAuthOnline,
                NickLists, ReclaimOnline, Online, Free
  <1>2. CASE Step
    BY <1>2, StepKeeps
  <1> QED BY <1>1, <1>2 DEF Next

\* The indexes of nickserv.c agree in every reachable state, for every set of users,
\* nicks, accounts and addresses and every configuration.
THEOREM IndexesAgree == Spec => []Inv
  <1>1. Init => Inv
    BY InitKeeps
  <1>2. Inv /\ [Next]_vars => Inv'
    BY NextKeeps
  <1> QED BY <1>1, <1>2, PTL DEF Spec

\* A user's handle_info and an account's list of users name each other, and only users
\* who are online and accounts that are registered (set_user_handle_info, nickserv.c:975).
THEOREM LoginsAgree == Spec => []AuthConsistent
  <1>1. Inv => AuthConsistent
    BY DEF Inv
  <1> QED BY <1>1, IndexesAgree, PTL

\* Every cookie belongs to a registered account and has its timer in the queue, and no
\* timer is left of a cookie that is gone (nickserv_make_cookie, nickserv_eat_cookie).
THEOREM CookiesTimed == Spec => []CookieTimed
  <1>1. Inv => CookieTimed
    BY DEF Inv
  <1> QED BY <1>1, IndexesAgree, PTL

\* A cookie that lets its holder into an account was mailed to the account's present
\* address: changes of address, by staff or by cookie, leave no older one good
\* (nickserv_make_cookie, nickserv_set_email_addr).
THEOREM CookiesToOwners == Spec => []CookieToOwner
  <1>1. Inv => CookieToOwner
    BY DEF Inv
  <1> QED BY <1>1, IndexesAgree, PTL

-----------------------------------------------------------------------------
(* Suspended accounts. *)

\* An account structure that is not registered carries no flags (nickserv.c:475, 561).
Fresh == \A h \in Handles : h \notin registered => flags[h] = {}

LEMMA StepKeepsFresh ==
    ASSUME Inv, Fresh, Step
    PROVE  Fresh'
  <1> USE NickServAssumption DEF Inv, TypeOK, Fresh, AuthConsistent, authVars, accountVars
  <1>1. ASSUME NEW u \in Users, NEW n \in Nicks, NEW s \in Handles \union {NONE, STALE}, AddUser(u, n, s)
        PROVE  Fresh'
    BY <1>1 DEF AddUser, Accepted
  <1>2. ASSUME NEW u \in Users, NEW n \in Nicks, NickChange(u, n)
        PROVE  Fresh'
    BY <1>2 DEF NickChange
  <1>3. ASSUME NEW u \in Users, Quit(u)
        PROVE  Fresh'
    BY <1>3 DEF Quit, DelUser, Online
  <1>4. ASSUME NEW u \in Users, NEW h \in Handles, cmd_account(u, h)
        PROVE  Fresh'
    BY <1>4 DEF cmd_account, SetHandleInfo, Accepted
  <1>5. ASSUME NEW u \in Users, nickserv_reclaim_p(u)
        PROVE  Fresh'
    BY <1>5 DEF nickserv_reclaim_p, DelUser
  <1>6. ASSUME NEW u \in Users, NEW h \in Handles, NEW e \in Emails \union {NONE}, cmd_register(u, h, e)
        PROVE  Fresh'
    BY <1>6 DEF cmd_register, SetHandleInfo
  <1>7. ASSUME NEW h \in Handles, NEW u \in Users \union {NONE}, NEW e \in Emails \union {NONE}, cmd_oregister(h, u, e)
        PROVE  Fresh'
    BY <1>7 DEF cmd_oregister, SetHandleInfo
  <1>8. ASSUME NEW u \in Users, NEW h \in Handles, cmd_auth(u, h)
        PROVE  Fresh'
    BY <1>8 DEF cmd_auth, Login, SetHandleInfo
  <1>9. ASSUME NEW u \in Users, NEW h \in Handles, nickserv_do_autoauth(u, h)
        PROVE  Fresh'
    BY <1>9 DEF nickserv_do_autoauth, Login, SetHandleInfo
  <1>10. ASSUME NEW t \in Users, NEW h \in Handles \union {NONE}, cmd_allowauth(t, h)
         PROVE  Fresh'
    BY <1>10 DEF cmd_allowauth
  <1>11. ASSUME NEW u \in Users, cmd_logout(u)
         PROVE  Fresh'
    BY <1>11 DEF cmd_logout, SetHandleInfo
  <1>12. ASSUME NEW u \in Users, NEW t \in Users, cmd_ghost(u, t)
         PROVE  Fresh'
    BY <1>12 DEF cmd_ghost, DelUser
  <1>13. ASSUME NEW u \in Users, NEW h \in Handles, cmd_authcookie(u, h)
         PROVE  Fresh'
    BY <1>13 DEF cmd_authcookie, RequestCookie
  <1>14. ASSUME NEW u \in Users, NEW h \in Handles, cmd_resetpass(u, h)
         PROVE  Fresh'
    BY <1>14 DEF cmd_resetpass, RequestCookie
  <1>15. ASSUME NEW u \in Users, NEW e \in Emails, SetEmail(u, e)
         PROVE  Fresh'
    BY <1>15 DEF SetEmail
  <1>16. ASSUME NEW h \in Handles, NEW e \in Emails, OverrideEmail(h, e)
         PROVE  Fresh'
    BY <1>16 DEF OverrideEmail
  <1>17. ASSUME NEW u \in Users, NEW h \in Handles, cmd_cookie(u, h)
         PROVE  Fresh'
    BY <1>17 DEF cmd_cookie, SetHandleInfo
  <1>18. ASSUME NEW u \in Users, cmd_delcookie(u)
         PROVE  Fresh'
    BY <1>18 DEF cmd_delcookie
  <1>19. ASSUME NEW h \in Handles, cmd_odelcookie(h)
         PROVE  Fresh'
    BY <1>19 DEF cmd_odelcookie
  <1>20. ASSUME NEW h \in Handles, CookieTimeout(h)
         PROVE  Fresh'
    BY <1>20 DEF CookieTimeout
  <1>21. ASSUME NEW h \in Handles, opt_password(h)
         PROVE  Fresh'
    BY <1>21 DEF opt_password
  <1>22. ASSUME NEW h \in Handles, NEW f \in Flags, SetFlag(h, f)
         PROVE  Fresh'
    BY <1>22 DEF SetFlag
  <1>23. ASSUME NEW u \in Users, cmd_vacation(u)
         PROVE  Fresh'
    BY <1>23 DEF cmd_vacation
  <1>24. ASSUME NEW u \in Users, cmd_regnick(u)
         PROVE  Fresh'
    BY <1>24 DEF cmd_regnick
  <1>25. ASSUME NEW h \in Handles, NEW n \in Nicks, cmd_oregnick(h, n)
         PROVE  Fresh'
    BY <1>25 DEF cmd_oregnick
  <1>26. ASSUME NEW u \in Users, NEW n \in Nicks, cmd_unregnick(u, n)
         PROVE  Fresh'
    BY <1>26 DEF cmd_unregnick, OnlyNicks
  <1>27. ASSUME NEW n \in Nicks, cmd_ounregnick(n)
         PROVE  Fresh'
    BY <1>27 DEF cmd_ounregnick, OnlyNicks
  <1>28. ASSUME NEW S \in SUBSET Nicks, expire_nicks(S)
         PROVE  Fresh'
    BY <1>28 DEF expire_nicks, OnlyNicks
  <1>29. ASSUME NEW u \in Users, NEW t \in Users, cmd_reclaim(u, t)
         PROVE  Fresh'
    BY <1>29 DEF cmd_reclaim, DelUser
  <1>30. ASSUME NEW u \in Users, cmd_unregister(u)
         PROVE  Fresh'
    BY <1>30 DEF cmd_unregister, Unregister, FreeHandles
  <1>31. ASSUME NEW h \in Handles, cmd_ounregister(h)
         PROVE  Fresh'
    BY <1>31 DEF cmd_ounregister, Unregister, FreeHandles
  <1>32. ASSUME NEW S \in SUBSET Handles, expire_handles(S)
         PROVE  Fresh'
    BY <1>32 DEF expire_handles, Unregister, FreeHandles
  <1>33. ASSUME NEW from \in Handles, NEW to \in Handles, cmd_merge(from, to)
         PROVE  Fresh'
    BY <1>33 DEF cmd_merge, FreeHandles
  <1>34. ASSUME NEW D \in SUBSET Handles, Restart(D)
         PROVE  Fresh'
    BY <1>34 DEF Restart, Accepted
  <1> QED BY <1>1, <1>2, <1>3, <1>4, <1>5, <1>6, <1>7, <1>8, <1>9, <1>10, <1>11, <1>12, <1>13,
      <1>14, <1>15, <1>16, <1>17, <1>18, <1>19, <1>20, <1>21, <1>22, <1>23, <1>24, <1>25,
      <1>26, <1>27, <1>28, <1>29, <1>30, <1>31, <1>32, <1>33, <1>34 DEF Step

\* Who enters an account it was not in.
NotIntoSuspended ==
    \A u \in Users :
        handle_info'[u] \notin {NONE, handle_info[u]} /\ handle_info[u] \in registered' \union {NONE}
            => ~Flagged(handle_info'[u], "SUSPENDED")

LEMMA StepKeepsOut ==
    ASSUME Inv, Fresh, Step
    PROVE  NotIntoSuspended
  <1> USE NickServAssumption DEF Inv, TypeOK, Fresh, NotIntoSuspended, Flagged, AuthConsistent,
                                 authVars, accountVars
  <1>1. ASSUME NEW u \in Users, NEW n \in Nicks, NEW s \in Handles \union {NONE, STALE}, AddUser(u, n, s)
        PROVE  NotIntoSuspended
    BY <1>1 DEF AddUser, Accepted
  <1>2. ASSUME NEW u \in Users, NEW n \in Nicks, NickChange(u, n)
        PROVE  NotIntoSuspended
    BY <1>2 DEF NickChange
  <1>3. ASSUME NEW u \in Users, Quit(u)
        PROVE  NotIntoSuspended
    BY <1>3 DEF Quit, DelUser, Online
  <1>4. ASSUME NEW u \in Users, NEW h \in Handles, cmd_account(u, h)
        PROVE  NotIntoSuspended
    BY <1>4 DEF cmd_account, SetHandleInfo, Accepted
  <1>5. ASSUME NEW u \in Users, nickserv_reclaim_p(u)
        PROVE  NotIntoSuspended
    BY <1>5 DEF nickserv_reclaim_p, DelUser
  <1>6. ASSUME NEW u \in Users, NEW h \in Handles, NEW e \in Emails \union {NONE}, cmd_register(u, h, e)
        PROVE  NotIntoSuspended
    BY <1>6 DEF cmd_register, SetHandleInfo
  <1>7. ASSUME NEW h \in Handles, NEW u \in Users \union {NONE}, NEW e \in Emails \union {NONE}, cmd_oregister(h, u, e)
        PROVE  NotIntoSuspended
    BY <1>7 DEF cmd_oregister, SetHandleInfo
  <1>8. ASSUME NEW u \in Users, NEW h \in Handles, cmd_auth(u, h)
        PROVE  NotIntoSuspended
    BY <1>8 DEF cmd_auth, Login, SetHandleInfo
  <1>9. ASSUME NEW u \in Users, NEW h \in Handles, nickserv_do_autoauth(u, h)
        PROVE  NotIntoSuspended
    BY <1>9 DEF nickserv_do_autoauth, Login, SetHandleInfo
  <1>10. ASSUME NEW t \in Users, NEW h \in Handles \union {NONE}, cmd_allowauth(t, h)
         PROVE  NotIntoSuspended
    BY <1>10 DEF cmd_allowauth
  <1>11. ASSUME NEW u \in Users, cmd_logout(u)
         PROVE  NotIntoSuspended
    BY <1>11 DEF cmd_logout, SetHandleInfo
  <1>12. ASSUME NEW u \in Users, NEW t \in Users, cmd_ghost(u, t)
         PROVE  NotIntoSuspended
    BY <1>12 DEF cmd_ghost, DelUser
  <1>13. ASSUME NEW u \in Users, NEW h \in Handles, cmd_authcookie(u, h)
         PROVE  NotIntoSuspended
    BY <1>13 DEF cmd_authcookie, RequestCookie
  <1>14. ASSUME NEW u \in Users, NEW h \in Handles, cmd_resetpass(u, h)
         PROVE  NotIntoSuspended
    BY <1>14 DEF cmd_resetpass, RequestCookie
  <1>15. ASSUME NEW u \in Users, NEW e \in Emails, SetEmail(u, e)
         PROVE  NotIntoSuspended
    BY <1>15 DEF SetEmail
  <1>16. ASSUME NEW h \in Handles, NEW e \in Emails, OverrideEmail(h, e)
         PROVE  NotIntoSuspended
    BY <1>16 DEF OverrideEmail
  <1>17. ASSUME NEW u \in Users, NEW h \in Handles, cmd_cookie(u, h)
         PROVE  NotIntoSuspended
    BY <1>17 DEF cmd_cookie, SetHandleInfo
  <1>18. ASSUME NEW u \in Users, cmd_delcookie(u)
         PROVE  NotIntoSuspended
    BY <1>18 DEF cmd_delcookie
  <1>19. ASSUME NEW h \in Handles, cmd_odelcookie(h)
         PROVE  NotIntoSuspended
    BY <1>19 DEF cmd_odelcookie
  <1>20. ASSUME NEW h \in Handles, CookieTimeout(h)
         PROVE  NotIntoSuspended
    BY <1>20 DEF CookieTimeout
  <1>21. ASSUME NEW h \in Handles, opt_password(h)
         PROVE  NotIntoSuspended
    BY <1>21 DEF opt_password
  <1>22. ASSUME NEW h \in Handles, NEW f \in Flags, SetFlag(h, f)
         PROVE  NotIntoSuspended
    BY <1>22 DEF SetFlag
  <1>23. ASSUME NEW u \in Users, cmd_vacation(u)
         PROVE  NotIntoSuspended
    BY <1>23 DEF cmd_vacation
  <1>24. ASSUME NEW u \in Users, cmd_regnick(u)
         PROVE  NotIntoSuspended
    BY <1>24 DEF cmd_regnick
  <1>25. ASSUME NEW h \in Handles, NEW n \in Nicks, cmd_oregnick(h, n)
         PROVE  NotIntoSuspended
    BY <1>25 DEF cmd_oregnick
  <1>26. ASSUME NEW u \in Users, NEW n \in Nicks, cmd_unregnick(u, n)
         PROVE  NotIntoSuspended
    BY <1>26 DEF cmd_unregnick, OnlyNicks
  <1>27. ASSUME NEW n \in Nicks, cmd_ounregnick(n)
         PROVE  NotIntoSuspended
    BY <1>27 DEF cmd_ounregnick, OnlyNicks
  <1>28. ASSUME NEW S \in SUBSET Nicks, expire_nicks(S)
         PROVE  NotIntoSuspended
    BY <1>28 DEF expire_nicks, OnlyNicks
  <1>29. ASSUME NEW u \in Users, NEW t \in Users, cmd_reclaim(u, t)
         PROVE  NotIntoSuspended
    BY <1>29 DEF cmd_reclaim, DelUser
  <1>30. ASSUME NEW u \in Users, cmd_unregister(u)
         PROVE  NotIntoSuspended
    BY <1>30 DEF cmd_unregister, Unregister, FreeHandles
  <1>31. ASSUME NEW h \in Handles, cmd_ounregister(h)
         PROVE  NotIntoSuspended
    BY <1>31 DEF cmd_ounregister, Unregister, FreeHandles
  <1>32. ASSUME NEW S \in SUBSET Handles, expire_handles(S)
         PROVE  NotIntoSuspended
    BY <1>32 DEF expire_handles, Unregister, FreeHandles
  <1>33. ASSUME NEW from \in Handles, NEW to \in Handles, cmd_merge(from, to)
         PROVE  NotIntoSuspended
    BY <1>33 DEF cmd_merge, FreeHandles
  <1>34. ASSUME NEW D \in SUBSET Handles, Restart(D)
         PROVE  NotIntoSuspended
    BY <1>34 DEF Restart, Accepted
  <1> QED BY <1>1, <1>2, <1>3, <1>4, <1>5, <1>6, <1>7, <1>8, <1>9, <1>10, <1>11, <1>12, <1>13,
      <1>14, <1>15, <1>16, <1>17, <1>18, <1>19, <1>20, <1>21, <1>22, <1>23, <1>24, <1>25,
      <1>26, <1>27, <1>28, <1>29, <1>30, <1>31, <1>32, <1>33, <1>34 DEF Step

\* Nobody gets into a suspended account, by any of the ways in: registration, password,
\* certificate, cookie, a server's stamp or the reload after a restart.
THEOREM SuspendedKeptOut == Spec => SuspendedStaysOut
  <1>1. Init => Fresh
    BY DEF Init, Fresh
  <1>2. Inv /\ Fresh /\ [Next]_vars => Fresh'
    <2> SUFFICES ASSUME Inv, Fresh, [Next]_vars PROVE Fresh'
      OBVIOUS
    <2>1. CASE UNCHANGED vars
      BY <2>1 DEF vars, Fresh
    <2>2. CASE Step
      BY <2>2, StepKeepsFresh
    <2> QED BY <2>1, <2>2 DEF Next
  <1>3. Inv /\ Fresh /\ [Next]_vars => [NotIntoSuspended]_vars
    <2> SUFFICES ASSUME Inv, Fresh, Next PROVE NotIntoSuspended \/ UNCHANGED vars
      OBVIOUS
    <2> QED BY StepKeepsOut DEF Next
  <1>4. Spec => [][NotIntoSuspended]_vars
    BY <1>1, <1>2, <1>3, IndexesAgree, PTL DEF Spec
  <1> QED BY <1>4 DEF NotIntoSuspended, SuspendedStaysOut
=============================================================================
