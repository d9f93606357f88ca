--------------------------- MODULE NetworkProofs ---------------------------
(***************************************************************************)
(* The tables of module Network agree for every network: every number of   *)
(* users, servers, nicks and channels, and every shape of the server tree. *)
(*                                                                         *)
(* Inv is split by the tables it speaks of: channels, users, the server    *)
(* tree, and the one fact that ties members to users.  Each function that  *)
(* several messages share (DelChannelUser, AddChannel, DelUser, ...) has   *)
(* one lemma on the part it touches.                                       *)
(***************************************************************************)
EXTENDS Network, TLAPS

-----------------------------------------------------------------------------
(* The parts of Inv. *)

ChanOK ==
    /\ channels \subseteq Channels /\ unbursted \subseteq Channels
    /\ created \in [Channels -> Nat]
    /\ modes \in [Channels -> SUBSET Modes]
    /\ locks \in [Channels -> 0..MaxLocks]
    /\ members \in [Channels -> SUBSET Users] /\ ops \in [Channels -> SUBSET Users]
    /\ userChannels \in [Users -> SUBSET Channels]
    /\ \A u \in Users, c \in Channels : u \in members[c] <=> c \in userChannels[u]
    /\ \A c \in Channels : ops[c] \subseteq members[c]
    /\ \A c \in Channels : members[c] # {} => c \in channels
    /\ UnburstedExist /\ LockedKept

UserOK ==
    /\ live \subseteq Users
    /\ nick \in [Users -> Nicks \union {NONE}]
    /\ age \in [Users -> Nat]
    /\ clients \in [Nicks -> Users \union {NONE}]
    /\ NickIndex /\ LiveNamed

TreeOK ==
    /\ uplink \in [Servers -> Servers \union {SELF, NONE}]
    /\ TreeWhole

Present == \A c \in Channels : members[c] \subseteq live

\* Inv is the conjunction of its parts.
LEMMA InvParts == Inv <=> ChanOK /\ UserOK /\ TreeOK /\ Present /\ crashed \in BOOLEAN
  BY DEF Inv, TypeOK, MembersAgree, ChanOK, UserOK, TreeOK, Present

\* The same after a step.
LEMMA InvPartsNext ==
    ASSUME ChanOK', UserOK', TreeOK', Present', crashed' \in BOOLEAN
    PROVE  Inv'
  BY DEF Inv, TypeOK, MembersAgree, ChanOK, UserOK, TreeOK, Present

\* A step that leaves the channel tables alone keeps their part.
LEMMA ChanFrame ==
    ASSUME ChanOK, UNCHANGED chanVars
    PROVE  ChanOK'
  BY DEF ChanOK, chanVars, UnburstedExist, LockedKept

\* A step that leaves users and nicks alone keeps their part.
LEMMA UserFrame ==
    ASSUME UserOK, UNCHANGED userVars
    PROVE  UserOK'
  BY DEF UserOK, userVars, NickIndex, LiveNamed

\* Users may go while the servers stay.
LEMMA TreeFrame ==
    ASSUME TreeOK, UNCHANGED uplink, live' \subseteq live
    PROVE  TreeOK'
  BY DEF TreeOK, TreeWhole, Linked

-----------------------------------------------------------------------------
(* Channels. *)

\* DelChannelUser takes the members L off, on both sides, and frees only channels
\* that nobody is in and nothing keeps (hash.c:884).
LEMMA OutKeeps ==
    ASSUME ChanOK, NEW L \in [Channels -> SUBSET Users], \A c \in Channels : L[c] \subseteq members[c],
           Out(L)
    PROVE  ChanOK' /\ \A c \in Channels : members'[c] = members[c] \ L[c]
  <1> DEFINE gone == {c \in channels : L[c] # {} /\ L[c] = members[c] /\ ~Kept(c)}
  <1>1. /\ members' = [c \in Channels |-> members[c] \ L[c]]
        /\ ops' = [c \in Channels |-> ops[c] \ L[c]]
        /\ userChannels' = [u \in Users |-> {c \in userChannels[u] : u \notin L[c]}]
        /\ channels' = channels \ gone /\ unbursted' = unbursted \ gone
        /\ modes' = [c \in Channels |-> IF c \in gone THEN {} ELSE modes[c]]
        /\ created' = [c \in Channels |-> IF c \in gone THEN 0 ELSE created[c]]
        /\ locks' = locks
    BY DEF Out, DelChannels
  <1>2. \A c \in gone : c \in Channels /\ members'[c] = {} /\ ~(locks[c] > 0)
    BY <1>1 DEF ChanOK, Kept
  <1> HIDE DEF gone
  <1>3. /\ channels' \subseteq Channels /\ unbursted' \subseteq Channels
        /\ created' \in [Channels -> Nat]
        /\ modes' \in [Channels -> SUBSET Modes]
        /\ locks' \in [Channels -> 0..MaxLocks]
        /\ members' \in [Channels -> SUBSET Users] /\ ops' \in [Channels -> SUBSET Users]
        /\ userChannels' \in [Users -> SUBSET Channels]
    BY <1>1 DEF ChanOK
  <1>4. \A u \in Users, c \in Channels : u \in members'[c] <=> c \in userChannels'[u]
    BY <1>1 DEF ChanOK
  <1>5. \A c \in Channels : ops'[c] \subseteq members'[c]
    BY <1>1 DEF ChanOK
  <1>6. \A c \in Channels : members'[c] # {} => c \in channels'
    BY <1>1, <1>2 DEF ChanOK
  <1>7. UnburstedExist'
    BY <1>1 DEF ChanOK, UnburstedExist
  <1>8. LockedKept'
    BY <1>1, <1>2 DEF ChanOK, LockedKept
  <1> QED BY <1>1, <1>3, <1>4, <1>5, <1>6, <1>7, <1>8 DEF ChanOK

\* The same for one user and one channel.
LEMMA LeaveKeeps ==
    ASSUME ChanOK, Present, NEW u \in Users, NEW c \in Channels, Out(Leaving(u, c)), UNCHANGED live
    PROVE  ChanOK' /\ Present'
  <1>1. /\ Leaving(u, c) \in [Channels -> SUBSET Users]
        /\ \A d \in Channels : Leaving(u, c)[d] \subseteq members[d]
    BY DEF Leaving, ChanOK
  <1>2. ChanOK' /\ \A d \in Channels : members'[d] = members[d] \ Leaving(u, c)[d]
    BY <1>1, OutKeeps
  <1> QED BY <1>2 DEF Present

\* The same for the users S and all channels.
LEMMA LeaveAllKeeps ==
    ASSUME ChanOK, Present, NEW S \in SUBSET Users,
           Out([c \in Channels |-> members[c] \intersect S])
    PROVE  ChanOK' /\ \A c \in Channels : members'[c] \subseteq live \ S
  <1> DEFINE L == [c \in Channels |-> members[c] \intersect S]
  <1>1. /\ L \in [Channels -> SUBSET Users]
        /\ \A d \in Channels : L[d] \subseteq members[d]
    BY DEF ChanOK
  <1>2. ChanOK' /\ \A d \in Channels : members'[d] = members[d] \ L[d]
    <2> HIDE DEF L
    <2>1. Out(L)
      BY DEF L
    <2> QED BY <1>1, <2>1, OutKeeps
  <1> QED BY <1>2 DEF Present

\* AddChannelUser with a user that exists and a channel in the dictionary, which the
\* same step may have put there (hash.c:794).
LEMMA EnterKeeps ==
    ASSUME ChanOK, Present, NEW u \in live, live \subseteq Users, NEW c \in Channels, Enter(u, c),
           channels \subseteq channels', c \in channels', channels' \subseteq Channels,
           created' \in [Channels -> Nat], modes' \in [Channels -> SUBSET Modes],
           UNCHANGED <<live, locks, unbursted>>
    PROVE  ChanOK' /\ Present'
  <1>1. u \in Users
    OBVIOUS
  <1>2. /\ members' = [members EXCEPT ![c] = @ \union {u}]
        /\ userChannels' = [userChannels EXCEPT ![u] = @ \union {c}]
        /\ ops' = IF members[c] = {} /\ modes[c] \intersect Keep = {}
                  THEN [ops EXCEPT ![c] = {u}] ELSE ops
    BY DEF Enter
  <1>3. /\ members' \in [Channels -> SUBSET Users] /\ ops' \in [Channels -> SUBSET Users]
        /\ userChannels' \in [Users -> SUBSET Channels]
    BY <1>1, <1>2 DEF ChanOK
  <1>4. \A x \in Users, d \in Channels : x \in members'[d] <=> d \in userChannels'[x]
    BY <1>1, <1>2 DEF ChanOK
  <1>5. \A d \in Channels : ops'[d] \subseteq members'[d] /\ members'[d] \subseteq live
    BY <1>1, <1>2 DEF ChanOK, Present
  <1>6. \A d \in Channels : members'[d] # {} => d \in channels'
    BY <1>1, <1>2 DEF ChanOK
  <1>7. UnburstedExist' /\ LockedKept'
    BY DEF ChanOK, UnburstedExist, LockedKept
  <1> QED BY <1>3, <1>4, <1>5, <1>6, <1>7 DEF ChanOK, Present

\* AddChannel leaves the channel in the dictionary, with modes and a timestamp
\* (hash.c:655).
LEMMA AddChannelTypes ==
    ASSUME ChanOK, NEW c \in Channels, NEW old \in Nat, NEW t \in Nat, NEW M \in SUBSET Modes,
           AddChannel(c, old, t, M)
    PROVE  /\ channels' = channels \union {c} /\ channels' \subseteq Channels
           /\ created' \in [Channels -> Nat] /\ modes' \in [Channels -> SUBSET Modes]
  BY DEF ChanOK, AddChannel

-----------------------------------------------------------------------------
(* Users and servers. *)

\* DelUser leaves no trace of the users S, in a nick or in a channel
\* (proto-p10.c:3466).
LEMMA DelUsersKeeps ==
    ASSUME ChanOK, UserOK, Present, NEW S \in SUBSET Users, DelUsers(S)
    PROVE  ChanOK' /\ UserOK' /\ Present' /\ live' = live \ S
  <1>1. ChanOK' /\ \A c \in Channels : members'[c] \subseteq live \ S
    BY LeaveAllKeeps DEF DelUsers
  <1>2. live' = live \ S
    BY DEF DelUsers
  <1>3. /\ live' \subseteq Users
        /\ nick' \in [Users -> Nicks \union {NONE}]
        /\ age' \in [Users -> Nat]
        /\ clients' \in [Nicks -> Users \union {NONE}]
    BY DEF DelUsers, UserOK
  <1>4. NickIndex'
    BY NetworkAssumption DEF DelUsers, UserOK, NickIndex
  <1>5. LiveNamed'
    BY DEF DelUsers, UserOK, LiveNamed
  <1> QED BY <1>1, <1>2, <1>3, <1>4, <1>5 DEF UserOK, Present

\* Behind(s) is closed: what hangs off it is in it.
LEMMA BehindClosed ==
    ASSUME TreeOK, NEW s \in Servers
    PROVE  /\ Behind(s) \subseteq Linked
           /\ s \in Linked => s \in Behind(s)
           /\ \A y \in Linked : uplink[y] \in Behind(s) => y \in Behind(s)
  BY DEF Behind

\* Removing everything behind s leaves a tree whose users are on it (proto-p10.c:3269).
LEMMA SplitKeeps ==
    ASSUME TreeOK, live \subseteq Users, NEW s \in Servers,
           uplink' = [x \in Servers |-> IF x \in Behind(s) THEN NONE ELSE uplink[x]],
           live' = live \ {u \in live \ Local : ServerOf[u] \in Behind(s)}
    PROVE  TreeOK'
  <1>1. /\ Behind(s) \subseteq Linked
        /\ \A y \in Linked : uplink[y] \in Behind(s) => y \in Behind(s)
    BY BehindClosed
  <1>2. uplink' \in [Servers -> Servers \union {SELF, NONE}]
    BY DEF TreeOK
  <1>3. Linked' = Linked \ Behind(s)
    BY DEF Linked
  <1>4. \A u \in live' \ Local : ServerOf[u] \in Linked'
    BY <1>3 DEF TreeOK, TreeWhole
  <1>5. \A x \in Linked' : uplink'[x] \in Linked' \union {SELF}
    BY <1>1, <1>3 DEF TreeOK, TreeWhole, Linked
  <1> QED BY <1>2, <1>4, <1>5 DEF TreeOK, TreeWhole

\* NickChange moves one existing user to the new nick (hash.c:288).
LEMMA NickChangeKeeps ==
    ASSUME UserOK, NEW u \in live, NEW n \in Nicks, NEW t \in Nat, NickChange(u, n, t)
    PROVE  UserOK'
  <1>1. u \in Users /\ nick[u] \in Nicks
    BY DEF UserOK, LiveNamed
  <1>2. /\ clients' = [clients EXCEPT ![nick[u]] = NONE, ![n] = u]
        /\ nick' = [nick EXCEPT ![u] = n]
        /\ age' = IF u \in Local THEN age ELSE [age EXCEPT ![u] = t]
        /\ live' = live /\ n # nick[u]
    BY DEF NickChange
  <1>3. /\ nick' \in [Users -> Nicks \union {NONE}] /\ age' \in [Users -> Nat]
        /\ clients' \in [Nicks -> Users \union {NONE}]
    BY <1>1, <1>2 DEF UserOK
  <1>4. NickIndex'
    <2>1. \A m \in Nicks : clients'[m] = IF m = n THEN u ELSE IF m = nick[u] THEN NONE ELSE clients[m]
      BY <1>1, <1>2 DEF UserOK
    <2>2. \A x \in Users : nick'[x] = IF x = u THEN n ELSE nick[x]
      BY <1>1, <1>2 DEF UserOK
    <2> QED BY <1>1, <1>2, <2>1, <2>2, NetworkAssumption DEF UserOK, NickIndex
  <1>5. LiveNamed'
    BY <1>1, <1>2, NetworkAssumption DEF UserOK, LiveNamed
  <1> QED BY <1>2, <1>3, <1>4, <1>5 DEF UserOK

\* Whoever a message is credited to exists.
LEMMA OriginLive ==
    ASSUME UserOK, NEW u \in Users, Origin(u) # NONE
    PROVE  Origin(u) \in live /\ Origin(u) \in Users
  BY DEF UserOK, Origin, NickIndex, LiveNamed
-----------------------------------------------------------------------------
(* One lemma per message with an argument of its own. *)

\* At the start only our services exist, each under its own nick (hash.c:44).
LEMMA InitOK == Init => Inv
  <1> SUFFICES ASSUME Init PROVE Inv
    OBVIOUS
  <1>1. ChanOK
    BY NetworkAssumption DEF Init, ChanOK, UnburstedExist, LockedKept
  <1>4. Present
    BY DEF Init, Present
  <1>5. crashed \in BOOLEAN
    BY DEF Init
  <1>2. TreeOK
    BY NetworkAssumption DEF Init, TreeOK, TreeWhole, Linked
  <1>3. UserOK
    <2>1. /\ live \subseteq Users /\ nick \in [Users -> Nicks \union {NONE}] /\ age \in [Users -> Nat]
      BY NetworkAssumption DEF Init
    <2>2. \A n \in Nicks : \/ clients[n] = NONE
                           \/ clients[n] \in Local /\ LocalNick[clients[n]] = n
      BY DEF Init
    <2>3. clients \in [Nicks -> Users \union {NONE}]
      <3>1. clients = [n \in Nicks |-> clients[n]]
        BY DEF Init
      <3> QED BY <2>2, <3>1, NetworkAssumption
    <2>4. NickIndex
      BY <2>2, NetworkAssumption DEF Init, NickIndex
    <2>5. LiveNamed
      <3>1. \A u \in Local : u \in Users /\ LocalNick[u] \in Nicks
        BY NetworkAssumption
      <3>2. \A u \in Users : nick[u] = IF u \in Local THEN LocalNick[u] ELSE NONE
        BY DEF Init
      <3>3. NONE \notin Nicks /\ live = Local
        BY NetworkAssumption DEF Init
      <3> QED BY <3>1, <3>2, <3>3 DEF LiveNamed
    <2> QED BY <2>1, <2>3, <2>4, <2>5 DEF UserOK
  <1> QED BY <1>1, <1>2, <1>3, <1>4, <1>5, InvParts

\* A server that comes back under another uplink brings nothing of its past along
\* (proto-p10.c:3223).
LEMMA ServerKeeps ==
    ASSUME Inv, NEW s \in Servers, NEW p \in Servers, cmd_server(s, p)
    PROVE  Inv'
  <1> DEFINE S == {u \in live \ Local : ServerOf[u] \in Behind(s)}
  <1>1. ChanOK /\ UserOK /\ TreeOK /\ Present /\ crashed \in BOOLEAN
    BY InvParts
  <1>2. ChanOK' /\ UserOK' /\ Present' /\ live' = live \ S
    <2>1. S \in SUBSET Users /\ DelUsers(S)
      BY <1>1 DEF UserOK, cmd_server
    <2> HIDE DEF S
    <2> QED BY <1>1, <2>1, DelUsersKeeps
  <1>3. /\ Behind(s) \subseteq Linked
        /\ s \in Linked => s \in Behind(s)
        /\ \A y \in Linked : uplink[y] \in Behind(s) => y \in Behind(s)
    BY <1>1, BehindClosed
  <1>4. /\ p \in Linked /\ p \notin Behind(s) /\ p # s
        /\ uplink' = [x \in Servers |-> IF x = s THEN p
                                        ELSE IF x \in Behind(s) THEN NONE ELSE uplink[x]]
        /\ crashed' = crashed
    BY DEF cmd_server
  <1>5. p # NONE
    BY NetworkAssumption
  <1>6. Linked' = (Linked \ Behind(s)) \union {s}
    BY <1>4, <1>5 DEF Linked
  <1>7. \A u \in live' \ Local : ServerOf[u] \in Linked'
    BY <1>1, <1>2, <1>6 DEF TreeOK, TreeWhole
  <1>8. \A x \in Linked' : uplink'[x] \in Linked' \union {SELF}
    <2> SUFFICES ASSUME NEW x \in Linked' PROVE uplink'[x] \in Linked' \union {SELF}
      OBVIOUS
    <2>1. CASE x = s
      BY <2>1, <1>4, <1>6
    <2>2. CASE x # s
      <3>1. x \in Linked /\ x \notin Behind(s) /\ x \in Servers
        BY <2>2, <1>6 DEF Linked
      <3>2. uplink'[x] = uplink[x]
        BY <2>2, <3>1, <1>4
      <3>3. uplink[x] \in Linked \union {SELF} /\ uplink[x] \notin Behind(s)
        BY <3>1, <1>1, <1>3 DEF TreeOK, TreeWhole
      <3> QED BY <3>2, <3>3, <1>6
    <2> QED BY <2>1, <2>2
  <1>9. TreeOK'
    <2>1. uplink' \in [Servers -> Servers \union {SELF, NONE}]
      BY <1>1, <1>4 DEF TreeOK
    <2> QED BY <2>1, <1>7, <1>8 DEF TreeOK, TreeWhole
  <1> QED BY <1>1, <1>2, <1>4, <1>9, InvPartsNext

\* A split (proto-p10.c:2489).
LEMMA SquitKeeps ==
    ASSUME Inv, NEW s \in Servers, cmd_squit(s)
    PROVE  Inv'
  <1> DEFINE S == {u \in live \ Local : ServerOf[u] \in Behind(s)}
  <1>1. ChanOK /\ UserOK /\ TreeOK /\ Present /\ crashed \in BOOLEAN
    BY InvParts
  <1>2. ChanOK' /\ UserOK' /\ Present' /\ live' = live \ S
    <2>1. S \in SUBSET Users /\ DelUsers(S)
      BY <1>1 DEF UserOK, cmd_squit, DelServer
    <2> HIDE DEF S
    <2> QED BY <1>1, <2>1, DelUsersKeeps
  <1>3. TreeOK'
    <2>1. live \subseteq Users
      BY <1>1 DEF UserOK
    <2>2. uplink' = [x \in Servers |-> IF x \in Behind(s) THEN NONE ELSE uplink[x]]
      BY DEF cmd_squit, DelServer
    <2> QED BY <1>1, <1>2, <2>1, <2>2, SplitKeeps
  <1>4. crashed' = crashed
    BY DEF cmd_squit
  <1> QED BY <1>1, <1>2, <1>3, <1>4, InvPartsNext

\* The uplink links, or ends its burst (proto-p10.c:1435, 1489).
LEMMA LinkKeeps ==
    ASSUME Inv, NEW s \in Servers, Link(s)
    PROVE  Inv'
  <1>1. ChanOK /\ UserOK /\ TreeOK /\ Present /\ crashed \in BOOLEAN
    BY InvParts
  <1>2. ChanOK'
    BY <1>1 DEF Link, ChanOK, UnburstedExist, LockedKept
  <1>3. UserOK'
    BY <1>1, UserFrame DEF Link
  <1>4. TreeOK'
    BY <1>1, NetworkAssumption DEF Link, TreeOK, TreeWhole, Linked, userVars
  <1>5. Present' /\ crashed' \in BOOLEAN
    BY <1>1 DEF Link, Present, userVars
  <1> QED BY <1>2, <1>3, <1>4, <1>5, InvPartsNext

\* The end of the burst empties the list (proto-p10.c:1489).
LEMMA EobKeeps ==
    ASSUME Inv, cmd_eob
    PROVE  Inv'
  <1>1. ChanOK /\ UserOK /\ TreeOK /\ Present /\ crashed \in BOOLEAN
    BY InvParts
  <1>2. ChanOK'
    BY <1>1 DEF cmd_eob, ChanOK, UnburstedExist, LockedKept
  <1>3. UserOK'
    BY <1>1, UserFrame DEF cmd_eob
  <1>4. TreeOK'
    BY <1>1, TreeFrame DEF cmd_eob, userVars
  <1>5. Present' /\ crashed' \in BOOLEAN
    BY <1>1 DEF cmd_eob, Present, userVars
  <1> QED BY <1>2, <1>3, <1>4, <1>5, InvPartsNext
\* AddUser, with a nick collision or without (proto-p10.c:3368).
LEMMA AddUserKeeps ==
    ASSUME Inv, NEW u \in Users, NEW n \in Nicks, NEW t \in Nat, AddUser(u, n, t)
    PROVE  Inv'
  <1> DEFINE w     == clients[n]
             loses == w # NONE /\ (w \in Local \/ age[w] <= t)
             out   == IF w = NONE \/ loses THEN {} ELSE {w}
  <1>1. ChanOK /\ UserOK /\ TreeOK /\ Present /\ crashed \in BOOLEAN
    BY InvParts
  <1>2. /\ u \notin live /\ u \notin Local /\ ServerOf[u] \in Linked
        /\ Out([c \in Channels |-> members[c] \intersect out])
        /\ live' = (live \ out) \union {u}
        /\ nick' = [x \in Users |-> IF x = u THEN n ELSE IF x \in out THEN NONE ELSE nick[x]]
        /\ age' = [x \in Users |-> IF x = u THEN t ELSE IF x \in out THEN 0 ELSE age[x]]
        /\ clients' = IF loses THEN clients ELSE [clients EXCEPT ![n] = u]
        /\ UNCHANGED <<uplink, crashed>>
    BY DEF AddUser
  <1>3. out \in SUBSET Users /\ u \notin out
    BY <1>1, <1>2 DEF UserOK, NickIndex
  <1>4. \A m \in Nicks : m # n => clients[m] \notin out
    BY <1>1, NetworkAssumption DEF UserOK, NickIndex
  <1>5. ~loses => \A x \in Users : x = w => x \in out
    BY NetworkAssumption
  <1>6. loses => out = {}
    OBVIOUS
  <1> HIDE DEF out
  <1>7. ChanOK' /\ \A c \in Channels : members'[c] \subseteq live \ out
    BY <1>1, <1>2, <1>3, LeaveAllKeeps
  <1>8. Present' /\ crashed' \in BOOLEAN
    BY <1>1, <1>2, <1>7 DEF Present
  <1>9. /\ live' \subseteq Users
        /\ nick' \in [Users -> Nicks \union {NONE}]
        /\ age' \in [Users -> Nat]
        /\ clients' \in [Nicks -> Users \union {NONE}]
    BY <1>1, <1>2 DEF UserOK
  <1>10. NickIndex'
    <2> SUFFICES ASSUME NEW m \in Nicks, clients'[m] # NONE
                 PROVE  clients'[m] \in live' /\ nick'[clients'[m]] = m
      BY DEF NickIndex
    <2>1. CASE m = n /\ ~loses
      <3>1. clients'[m] = u
        BY <2>1, <1>1, <1>2 DEF UserOK
      <3> QED BY <2>1, <3>1, <1>2
    <2>2. CASE m # n \/ loses
      <3>1. clients'[m] = clients[m]
        BY <2>2, <1>1, <1>2 DEF UserOK
      <3>2. clients[m] \in live /\ nick[clients[m]] = m /\ clients[m] \in Users
        BY <3>1, <1>1 DEF UserOK, NickIndex
      <3>3. clients[m] \notin out /\ clients[m] # u
        BY <2>2, <3>2, <1>2, <1>4, <1>6
      <3> QED BY <3>1, <3>2, <3>3, <1>2
    <2> QED BY <2>1, <2>2
  <1>11. LiveNamed'
    BY <1>1, <1>2, <1>3, NetworkAssumption DEF UserOK, LiveNamed
  <1>12. UserOK'
    BY <1>9, <1>10, <1>11 DEF UserOK
  <1>13. TreeOK'
    BY <1>1, <1>2 DEF TreeOK, TreeWhole, Linked
  <1> QED BY <1>7, <1>8, <1>12, <1>13, InvPartsNext

\* A user goes, by KILL or by QUIT (proto-p10.c:2377, 2389).
LEMMA GoneKeeps ==
    ASSUME Inv, NEW u \in Users, DelUsers({u}), UNCHANGED <<uplink, crashed>>
    PROVE  Inv'
  <1>1. ChanOK /\ UserOK /\ TreeOK /\ Present /\ crashed \in BOOLEAN
    BY InvParts
  <1>2. ChanOK' /\ UserOK' /\ Present' /\ live' = live \ {u}
    <2>1. {u} \in SUBSET Users
      OBVIOUS
    <2> QED BY <1>1, <2>1, DelUsersKeeps
  <1>3. TreeOK'
    BY <1>1, <1>2, TreeFrame
  <1> QED BY <1>1, <1>2, <1>3, InvPartsNext

\* A user or a service changes its nick (proto-p10.c:1676, 2661).
LEMMA NickKeeps ==
    ASSUME Inv, NEW u \in live, NEW n \in Nicks, NEW t \in Nat, NickChange(u, n, t)
    PROVE  Inv'
  <1>1. ChanOK /\ UserOK /\ TreeOK /\ Present /\ crashed \in BOOLEAN
    BY InvParts
  <1>2. UNCHANGED <<uplink, live, chanVars, crashed>>
    BY DEF NickChange
  <1>3. UserOK'
    BY <1>1, NickChangeKeeps
  <1>4. ChanOK' /\ TreeOK'
    BY <1>1, <1>2, ChanFrame, TreeFrame
  <1>5. Present'
    BY <1>1, <1>2 DEF Present, chanVars
  <1> QED BY <1>1, <1>2, <1>3, <1>4, <1>5, InvPartsNext

\* A step on channels alone.
LEMMA ChannelStep ==
    ASSUME Inv, UNCHANGED <<uplink, userVars>>, ChanOK', Present', crashed' \in BOOLEAN
    PROVE  Inv'
  <1>1. UserOK /\ TreeOK
    BY InvParts
  <1>2. UserOK'
    BY <1>1, UserFrame
  <1>3. TreeOK'
    BY <1>1, TreeFrame DEF userVars
  <1> QED BY <1>2, <1>3, InvPartsNext
\* A burst adds members that exist to a channel it has just put into the dictionary
\* (proto-p10.c:1925).
LEMMA BurstKeeps ==
    ASSUME Inv, NEW c \in Channels, NEW t \in Nat, NEW M \in SUBSET Modes,
           NEW J \in SUBSET Users, NEW O \in SUBSET J, cmd_burst(c, t, M, J, O)
    PROVE  Inv'
  <1> DEFINE old == IF c \in unbursted THEN t ELSE created[c]
  <1>1. ChanOK /\ Present /\ crashed \in BOOLEAN
    BY InvParts
  <1>2. /\ J \subseteq live /\ AddChannel(c, old, t, M)
        /\ unbursted' = unbursted \ {c}
        /\ members' = [members EXCEPT ![c] = @ \union J]
        /\ userChannels' = [u \in Users |-> IF u \in J THEN userChannels[u] \union {c}
                                            ELSE userChannels[u]]
        /\ ops' = [ops EXCEPT ![c] = IF c \in channels /\ t > old THEN @ \ J
                                     ELSE (@ \ J) \union O]
        /\ UNCHANGED <<uplink, userVars, locks, crashed>>
    BY DEF cmd_burst
  <1>3. old \in Nat
    BY <1>1 DEF ChanOK
  <1>4. /\ channels' = channels \union {c} /\ channels' \subseteq Channels
        /\ created' \in [Channels -> Nat] /\ modes' \in [Channels -> SUBSET Modes]
    BY <1>1, <1>2, <1>3, AddChannelTypes
  <1> HIDE DEF old
  <1>5. \A d \in Channels : members'[d] = IF d = c THEN members[d] \union J ELSE members[d]
    BY <1>1, <1>2 DEF ChanOK
  <1>6. \A d \in Channels : ops'[d] \subseteq IF d = c THEN ops[d] \union J ELSE ops[d]
    BY <1>1, <1>2 DEF ChanOK
  <1>7. /\ members' \in [Channels -> SUBSET Users] /\ ops' \in [Channels -> SUBSET Users]
        /\ userChannels' \in [Users -> SUBSET Channels]
    BY <1>1, <1>2 DEF ChanOK
  <1>8. \A x \in Users, d \in Channels : x \in members'[d] <=> d \in userChannels'[x]
    BY <1>1, <1>2, <1>5 DEF ChanOK
  <1>9. \A d \in Channels : ops'[d] \subseteq members'[d]
    BY <1>1, <1>5, <1>6 DEF ChanOK
  <1>10. \A d \in Channels : members'[d] # {} => d \in channels'
    BY <1>1, <1>4, <1>5 DEF ChanOK
  <1>11. UnburstedExist' /\ LockedKept'
    BY <1>1, <1>2, <1>4 DEF ChanOK, UnburstedExist, LockedKept
  <1>12. ChanOK'
    BY <1>1, <1>2, <1>4, <1>7, <1>8, <1>9, <1>10, <1>11 DEF ChanOK
  <1>13. Present'
    BY <1>1, <1>2, <1>5 DEF Present, userVars
  <1> QED BY <1>1, <1>2, <1>12, <1>13, ChannelStep

\* A user joins, and makes the channel if it is not there (proto-p10.c:1631).
LEMMA JoinKeeps ==
    ASSUME Inv, NEW u \in Users, NEW c \in Channels, NEW t \in Nat, cmd_join(u, c, t)
    PROVE  Inv'
  <1>1. ChanOK /\ UserOK /\ Present /\ crashed \in BOOLEAN
    BY InvParts
  <1>2. Origin(u) \in live /\ live \subseteq Users
    BY <1>1, OriginLive DEF cmd_join, UserOK
  <1>3. /\ Enter(Origin(u), c)
        /\ UNCHANGED <<uplink, userVars, locks, unbursted, crashed>>
        /\ UNCHANGED live
    BY DEF cmd_join, userVars
  <1>4. /\ channels' = channels \union {c} /\ channels' \subseteq Channels
        /\ created' \in [Channels -> Nat] /\ modes' \in [Channels -> SUBSET Modes]
    <2>1. CASE c \in channels
      BY <1>1, <2>1 DEF cmd_join, ChanOK
    <2>2. CASE c \notin channels
      <3>1. AddChannel(c, 0, t, {}) /\ {} \in SUBSET Modes /\ 0 \in Nat
        BY <2>2 DEF cmd_join
      <3> QED BY <3>1, <1>1, AddChannelTypes
    <2> QED BY <2>1, <2>2
  <1>5. ChanOK' /\ Present'
    BY <1>1, <1>2, <1>3, <1>4, EnterKeeps
  <1> QED BY <1>1, <1>3, <1>5, ChannelStep

\* A user leaves one channel, by itself or kicked.
LEMMA LeftKeeps ==
    ASSUME Inv, NEW u \in Users, NEW c \in Channels, Out(Leaving(u, c)),
           UNCHANGED <<uplink, userVars>>, crashed' \in BOOLEAN
    PROVE  Inv'
  <1>1. ChanOK /\ Present
    BY InvParts
  <1>2. UNCHANGED live
    BY DEF userVars
  <1>3. ChanOK' /\ Present'
    BY <1>1, <1>2, LeaveKeeps
  <1> QED BY <1>3, ChannelStep

\* A user leaves all channels (proto-p10.c:1605).
LEMMA JoinZeroKeeps ==
    ASSUME Inv, NEW u \in Users, JoinZero(u)
    PROVE  Inv'
  <1>1. ChanOK /\ UserOK /\ Present /\ crashed \in BOOLEAN
    BY InvParts
  <1>2. {Origin(u)} \in SUBSET Users
    BY <1>1, OriginLive DEF JoinZero
  <1>3. Out([c \in Channels |-> members[c] \intersect {Origin(u)}])
    BY DEF JoinZero
  <1>4. ChanOK' /\ \A c \in Channels : members'[c] \subseteq live \ {Origin(u)}
    BY <1>1, <1>2, <1>3, LeaveAllKeeps
  <1>5. Present'
    BY <1>4 DEF JoinZero, Present, userVars
  <1> QED BY <1>1, <1>4, <1>5, ChannelStep DEF JoinZero

\* Operators change among the members only (proto-common.c:780).
LEMMA ModeKeeps ==
    ASSUME Inv, NEW c \in Channels, NEW t \in Nat, NEW U \in SUBSET members[c],
           NEW M \in SUBSET Modes, cmd_mode(c, t, U, M)
    PROVE  Inv'
  <1>1. ChanOK /\ Present /\ crashed \in BOOLEAN
    BY InvParts
  <1>2. \A d \in Channels : ops'[d] \subseteq IF d = c THEN ops[d] \union U ELSE ops[d]
    BY <1>1 DEF cmd_mode, ChanOK
  <1>3. /\ ops' \in [Channels -> SUBSET Users] /\ modes' \in [Channels -> SUBSET Modes]
        /\ created' \in [Channels -> Nat]
    BY <1>1 DEF cmd_mode, ChanOK
  <1>4. \A d \in Channels : ops'[d] \subseteq members'[d]
    BY <1>1, <1>2 DEF cmd_mode, ChanOK
  <1>5. ChanOK'
    BY <1>1, <1>3, <1>4 DEF cmd_mode, ChanOK, UnburstedExist, LockedKept
  <1>6. Present'
    BY <1>1 DEF cmd_mode, Present, userVars
  <1> QED BY <1>1, <1>5, <1>6, ChannelStep DEF cmd_mode

\* CLEARMODE only takes modes and operators away (proto-p10.c:4215).
LEMMA ClearmodeKeeps ==
    ASSUME Inv, NEW u, NEW c \in Channels, NEW M, NEW O, cmd_clearmode(u, c, M, O)
    PROVE  Inv'
  <1>1. ChanOK /\ Present /\ crashed \in BOOLEAN
    BY InvParts
  <1>2. ChanOK'
    BY <1>1 DEF cmd_clearmode, ChanOK, UnburstedExist, LockedKept
  <1>3. Present'
    BY <1>1 DEF cmd_clearmode, Present, userVars
  <1> QED BY <1>1, <1>2, <1>3, ChannelStep DEF cmd_clearmode

\* SACYCLE either frees the channel with its sole member or changes its operators
\* (proto-p10.c:2715).
LEMMA SacycleKeeps ==
    ASSUME Inv, NEW u \in Users, NEW c \in Channels, cmd_sacycle(u, c)
    PROVE  Inv'
  <1>1. ChanOK /\ Present /\ crashed \in BOOLEAN
    BY InvParts
  <1>2. CASE members[c] = {u} /\ ~Kept(c)
    <2>1. Out(Leaving(u, c)) /\ crashed' = TRUE /\ UNCHANGED <<uplink, userVars>>
      BY <1>2 DEF cmd_sacycle
    <2>2. crashed' \in BOOLEAN
      BY <2>1
    <2> QED BY <2>1, <2>2, LeftKeeps
  <1>3. CASE ~(members[c] = {u} /\ ~Kept(c))
    <2>1. /\ ops' = [ops EXCEPT ![c] = IF members[c] = {u} /\ modes[c] \intersect Keep = {}
                                       THEN {u} ELSE @ \ {u}]
          /\ UNCHANGED <<channels, created, modes, locks, members, userChannels, unbursted, crashed>>
          /\ UNCHANGED <<uplink, userVars>>
      BY <1>3 DEF cmd_sacycle
    <2>2. ops' \in [Channels -> SUBSET Users] /\ \A d \in Channels : ops'[d] \subseteq members[d]
      BY <1>1, <2>1 DEF ChanOK
    <2>3. ChanOK'
      BY <1>1, <2>1, <2>2 DEF ChanOK, UnburstedExist, LockedKept
    <2>4. Present'
      BY <1>1, <2>1 DEF Present, userVars
    <2> QED BY <1>1, <2>1, <2>3, <2>4, ChannelStep
  <1> QED BY <1>2, <1>3

-----------------------------------------------------------------------------
(* Our own services. *)

\* A lock makes the channel if it has to (hash.c:870).
LEMMA LockKeeps ==
    ASSUME Inv, NEW c \in Channels, NEW t \in Nat, LockChannel(c, t)
    PROVE  Inv'
  <1>1. ChanOK /\ Present /\ crashed \in BOOLEAN
    BY InvParts
  <1>2. /\ locks[c] < MaxLocks /\ locks' = [locks EXCEPT ![c] = @ + 1]
        /\ UNCHANGED <<uplink, userVars, members, userChannels, ops, unbursted, crashed>>
    BY DEF LockChannel
  <1>3. /\ channels' = channels \union {c} /\ channels' \subseteq Channels
        /\ created' \in [Channels -> Nat] /\ modes' \in [Channels -> SUBSET Modes]
    <2>1. CASE c \in channels
      BY <1>1, <2>1 DEF LockChannel, ChanOK
    <2>2. CASE c \notin channels
      <3>1. AddChannel(c, 0, t, {}) /\ {} \in SUBSET Modes /\ 0 \in Nat
        BY <2>2 DEF LockChannel
      <3> QED BY <3>1, <1>1, AddChannelTypes
    <2> QED BY <2>1, <2>2
  <1>4. locks' \in [Channels -> 0..MaxLocks]
    BY <1>1, <1>2, NetworkAssumption DEF ChanOK
  <1>5. LockedKept'
    BY <1>1, <1>2, <1>3 DEF ChanOK, LockedKept
  <1>6. UnburstedExist'
    BY <1>1, <1>2, <1>3 DEF ChanOK, UnburstedExist
  <1>7. ChanOK'
    BY <1>1, <1>2, <1>3, <1>4, <1>5, <1>6 DEF ChanOK
  <1>8. Present'
    BY <1>1, <1>2 DEF Present, userVars
  <1> QED BY <1>1, <1>2, <1>7, <1>8, ChannelStep

\* An unlock frees a channel only when it was the last lock and nobody is there.
LEMMA UnlockKeeps ==
    ASSUME Inv, NEW c \in Channels, UnlockChannel(c)
    PROVE  Inv'
  <1> DEFINE gone == IF locks[c] = 1 /\ members[c] = {} THEN {c} ELSE {}
  <1>1. ChanOK /\ Present /\ crashed \in BOOLEAN
    BY InvParts
  <1>2. /\ locks[c] > 0 /\ locks' = [locks EXCEPT ![c] = @ - 1]
        /\ channels' = channels \ gone /\ unbursted' = unbursted \ gone
        /\ modes' = [d \in Channels |-> IF d \in gone THEN {} ELSE modes[d]]
        /\ created' = [d \in Channels |-> IF d \in gone THEN 0 ELSE created[d]]
        /\ UNCHANGED <<uplink, userVars, members, userChannels, ops, crashed>>
    BY DEF UnlockChannel, DelChannels
  <1>3. /\ locks' \in [Channels -> 0..MaxLocks] /\ channels' \subseteq Channels
        /\ unbursted' \subseteq Channels
    BY <1>1, <1>2, NetworkAssumption DEF ChanOK
  <1>4. created' \in [Channels -> Nat] /\ modes' \in [Channels -> SUBSET Modes]
    BY <1>1, <1>2 DEF ChanOK
  <1>5. \A d \in Channels : members'[d] # {} => d \in channels'
    BY <1>1, <1>2 DEF ChanOK
  <1>6. LockedKept'
    <2>1. c \in gone => locks'[c] = 0
      BY <1>1, <1>2 DEF ChanOK
    <2>2. \A d \in Channels : d # c => d \notin gone /\ locks'[d] = locks[d]
      BY <1>1, <1>2 DEF ChanOK
    <2> HIDE DEF gone
    <2> QED BY <1>1, <1>2, <2>1, <2>2 DEF ChanOK, LockedKept
  <1>7. UnburstedExist'
    BY <1>1, <1>2 DEF ChanOK, UnburstedExist
  <1>8. ChanOK'
    BY <1>1, <1>2, <1>3, <1>4, <1>5, <1>6, <1>7 DEF ChanOK
  <1>9. Present'
    BY <1>1, <1>2 DEF Present, userVars
  <1> QED BY <1>1, <1>2, <1>8, <1>9, ChannelStep

\* A service joins a channel that exists (hash.c:794).
LEMMA ServiceJoinKeeps ==
    ASSUME Inv, NEW s \in Users, NEW c \in Channels, ServiceJoin(s, c)
    PROVE  Inv'
  <1>1. ChanOK /\ UserOK /\ Present /\ crashed \in BOOLEAN
    BY InvParts
  <1>2. /\ s \in live /\ c \in channels /\ Enter(s, c)
        /\ UNCHANGED <<uplink, userVars, channels, created, modes, locks, unbursted, crashed>>
        /\ UNCHANGED live
    BY DEF ServiceJoin, userVars
  <1>3. ChanOK' /\ Present'
    BY <1>1, <1>2, EnterKeeps DEF ChanOK, UserOK
  <1> QED BY <1>1, <1>2, <1>3, ChannelStep
-----------------------------------------------------------------------------
\* Every message of the uplink and every step of a service keeps the tables in
\* agreement.
LEMMA StepKeeps ==
    ASSUME Inv, Step
    PROVE  Inv'
  <1>1. ASSUME NEW s \in Servers, Link(s) PROVE Inv'
    BY <1>1, LinkKeeps
  <1>2. ASSUME NEW s \in Servers, cmd_squit(s) PROVE Inv'
    BY <1>2, SquitKeeps
  <1>3. ASSUME NEW s \in Servers, NEW p \in Servers, cmd_server(s, p) PROVE Inv'
    BY <1>3, ServerKeeps
  <1>4. ASSUME cmd_eob PROVE Inv'
    BY <1>4, EobKeeps
  <1>5. UserOK /\ Times \subseteq Nat
    BY InvParts, NetworkAssumption
  <1>6. ASSUME NEW u \in Users, NEW n \in Nicks, NEW t \in Times, AddUser(u, n, t) PROVE Inv'
    <2>1. t \in Nat
      BY <1>5
    <2> QED BY <1>6, <2>1, AddUserKeeps
  <1>7. ASSUME NEW u \in Users, NEW n \in Nicks, NEW t \in Times, cmd_nick(u, n, t) PROVE Inv'
    <2>1. t \in Nat /\ Origin(u) \in live /\ NickChange(Origin(u), n, t)
      BY <1>5, <1>7, OriginLive DEF cmd_nick
    <2> QED BY <2>1, NickKeeps
  <1>8. ASSUME NEW u \in Users, NEW n \in Nicks, NEW t \in Times, cmd_sanick(u, n, t) PROVE Inv'
    <2>1. t \in Nat /\ u \in live /\ NickChange(u, n, t)
      BY <1>5, <1>8 DEF cmd_sanick
    <2> QED BY <2>1, NickKeeps
  <1>9. ASSUME NEW u \in Users, cmd_kill(u) PROVE Inv'
    BY <1>9, GoneKeeps DEF cmd_kill
  <1>10. ASSUME NEW u \in Users, cmd_quit(u) PROVE Inv'
    <2>1. Origin(u) \in Users /\ DelUsers({Origin(u)}) /\ UNCHANGED <<uplink, crashed>>
      BY <1>5, <1>10, OriginLive DEF cmd_quit
    <2> QED BY <2>1, GoneKeeps
  <1>11. ASSUME NEW u \in Users, JoinZero(u) PROVE Inv'
    BY <1>11, JoinZeroKeeps
  <1>12. ASSUME NEW c \in Channels, NEW t \in Times, NEW M \in SUBSET Modes,
                cmd_burst(c, t, M, {}, {})
         PROVE  Inv'
    <2>1. t \in Nat /\ {} \in SUBSET Users /\ {} \in SUBSET {}
      BY <1>5
    <2> QED BY <1>12, <2>1, BurstKeeps
  <1>13. ASSUME NEW c \in Channels, NEW t \in Times, NEW u \in live \ Local,
                cmd_burst(c, t, {}, {u}, {}) \/ cmd_burst(c, t, {}, {u}, {u})
         PROVE  Inv'
    <2>1. /\ t \in Nat /\ {} \in SUBSET Modes /\ {u} \in SUBSET Users
          /\ {} \in SUBSET {u} /\ {u} \in SUBSET {u}
      BY <1>5 DEF UserOK
    <2> QED BY <1>13, <2>1, BurstKeeps
  <1>14. ASSUME NEW u \in Users, NEW c \in Channels, NEW t \in Times, cmd_join(u, c, t) PROVE Inv'
    <2>1. t \in Nat
      BY <1>5
    <2> QED BY <1>14, <2>1, JoinKeeps
  <1>15. ASSUME NEW u \in Users, NEW c \in Channels,
                cmd_part(u, c) \/ cmd_kick(u, c) \/ ServicePart(u, c)
         PROVE  Inv'
    <2>1. PICK x \in Users : Out(Leaving(x, c))
      BY <1>5, <1>15, OriginLive DEF cmd_part, cmd_kick, ServicePart
    <2>2. UNCHANGED <<uplink, userVars, crashed>>
      BY <1>15 DEF cmd_part, cmd_kick, ServicePart
    <2>3. crashed' \in BOOLEAN
      BY <2>2, InvParts
    <2> QED BY <2>1, <2>2, <2>3, LeftKeeps
  <1>16. ASSUME NEW u \in Users, NEW c \in Channels, cmd_sacycle(u, c) PROVE Inv'
    BY <1>16, SacycleKeeps
  <1>17. ASSUME NEW u \in Users, NEW c \in Channels, ServiceJoin(u, c) PROVE Inv'
    BY <1>17, ServiceJoinKeeps
  <1>18. ASSUME NEW u \in Users, NEW c \in Channels, NEW M \in SUBSET Modes,
                cmd_clearmode(u, c, M, {}) \/ cmd_clearmode(u, c, M, ops[c])
         PROVE  Inv'
    BY <1>18, ClearmodeKeeps
  <1>19. channels \subseteq Channels /\ modes \in [Channels -> SUBSET Modes]
    BY InvParts DEF ChanOK
  <1>20. ASSUME NEW c \in channels, NEW t \in Times, NEW M \in SUBSET Modes, cmd_mode(c, t, {}, M)
         PROVE  Inv'
    <2>1. t \in Nat /\ c \in Channels /\ {} \in SUBSET members[c]
      BY <1>5, <1>19
    <2> QED BY <1>20, <2>1, ModeKeeps
  <1>21. ASSUME NEW c \in channels, NEW t \in Times, NEW u \in members[c],
                cmd_mode(c, t, {u}, modes[c])
         PROVE  Inv'
    <2>1. t \in Nat /\ c \in Channels /\ {u} \in SUBSET members[c] /\ modes[c] \in SUBSET Modes
      BY <1>5, <1>19
    <2> QED BY <1>21, <2>1, ModeKeeps
  <1>22. ASSUME NEW c \in Channels, NEW t \in Times, LockChannel(c, t) PROVE Inv'
    <2>1. t \in Nat
      BY <1>5
    <2> QED BY <1>22, <2>1, LockKeeps
  <1>23. ASSUME NEW c \in Channels, UnlockChannel(c) PROVE Inv'
    BY <1>23, UnlockKeeps
  <1> QED BY <1>1, <1>2, <1>3, <1>4, <1>6, <1>7, <1>8, <1>9, <1>10, <1>11, <1>12, <1>13, <1>14,
             <1>15, <1>16, <1>17, <1>18, <1>20, <1>21, <1>22, <1>23 DEF Step

\* For every network the tables of users, nicks, servers and channels agree in every
\* reachable state: members and user->channels mirror each other and lead to users
\* that exist, nicks to the user that bears them, the list of unbursted channels and
\* every lock to a channel in the dictionary, and every server and user hangs in the
\* tree (hash.c, proto-p10.c).
THEOREM TablesAgree == Spec => []Inv
  <1>1. Init => Inv
    BY InitOK
  <1>2. Inv /\ [Next]_vars => Inv'
    <2> SUFFICES ASSUME Inv, [Next]_vars PROVE Inv'
      OBVIOUS
    <2>1. CASE ~crashed /\ Step
      BY <2>1, StepKeeps
    <2>2. CASE UNCHANGED vars
      <3>1. ChanOK /\ UserOK /\ TreeOK /\ Present /\ crashed \in BOOLEAN
        BY InvParts
      <3>2. UNCHANGED <<uplink, userVars>> /\ UNCHANGED chanVars /\ UNCHANGED crashed
        BY <2>2 DEF vars, userVars, chanVars
      <3>3. ChanOK'
        BY <3>1, <3>2, ChanFrame
      <3>4. Present'
        BY <3>1, <3>2 DEF Present, userVars, chanVars
      <3> QED BY <3>1, <3>2, <3>3, <3>4, ChannelStep
    <2> QED BY <2>1, <2>2 DEF Next
  <1> QED BY <1>1, <1>2, PTL DEF Spec
=============================================================================
