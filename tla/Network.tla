------------------------------ MODULE Network ------------------------------
(***************************************************************************)
(* The network as services sees it (src/src/hash.c, src/src/proto-p10.c):  *)
(* servers, users, nicks and channels, changed by the messages of a P10    *)
(* uplink that may go away and come back.                                  *)
(*                                                                         *)
(* A user is its numeric, which names its server.  The loser of a nick     *)
(* collision stays in its server's table without an entry in `clients'     *)
(* until its server kills it.  parse_line turns the numeric of a sender    *)
(* into a nick, and most handlers look that nick up again.                 *)
(*                                                                         *)
(* Hooks of ChanServ and others, topics, bans, keys, voices and oplevels   *)
(* are left out: no property here tells them apart.                        *)
(***************************************************************************)
EXTENDS Naturals

CONSTANTS
    Users,          \* numerics
    Local,          \* those of our own services
    Servers,        \* the other servers
    ServerOf,       \* the server each remote numeric belongs to
    Nicks,
    LocalNick,      \* the nicks of our services
    Channels,
    Modes,          \* channel modes
    Keep,           \* those that keep an empty channel: MODE_REGISTERED, MODE_APASS
    Times,          \* timestamps
    MaxLocks,       \* bound on locks held at once on one channel
    SELF, NONE

ASSUME NetworkAssumption ==
    /\ Local \subseteq Users /\ Keep \subseteq Modes
    /\ ServerOf \in [Users \ Local -> Servers]
    /\ LocalNick \in [Local -> Nicks] /\ \A s, t \in Local : LocalNick[s] = LocalNick[t] => s = t
    /\ SELF \notin Servers /\ NONE \notin Users \union Servers \union Nicks \union {SELF}
    /\ Times \subseteq Nat /\ MaxLocks \in Nat

VARIABLES
    uplink,         \* server->uplink; NONE: not linked
    live, nick, age,    \* the server's user tables, user->nick, user->timestamp (compared
                        \* for remote users only, so a service's stays 0)
    clients,        \* the dictionary of nicks
    channels, created, modes, locks,    \* the dictionary of channels and their fields
    members, userChannels, ops,         \* channel->members, user->channels, MODE_CHANOP
    unbursted,      \* unbursted_channels, between the link and its end of burst
    crashed         \* memory was used after it was freed

userVars == <<live, nick, age, clients>>
chanVars == <<channels, created, modes, locks, members, userChannels, ops, unbursted>>
vars == <<uplink, live, nick, age, clients, channels, created, modes, locks, members, userChannels,
          ops, unbursted, crashed>>

\* The shape of the tables of hash.c.
TypeOK ==
    /\ uplink \in [Servers -> Servers \union {SELF, NONE}]
    /\ live \subseteq Users
    /\ nick \in [Users -> Nicks \union {NONE}]
    /\ age \in [Users -> Nat]
    /\ clients \in [Nicks -> Users \union {NONE}]
    /\ channels \subseteq Channels /\ unbursted \subseteq Channels
    /\ created \in [Channels -> Nat]
    /\ modes \in [Channels -> SUBSET Modes]
    /\ locks \in [Channels -> 0..MaxLocks]
    /\ members \in [Channels -> SUBSET Users] /\ ops \in [Channels -> SUBSET Users]
    /\ userChannels \in [Users -> SUBSET Channels]
    /\ crashed \in BOOLEAN

Init ==
    /\ uplink = [s \in Servers |-> NONE]
    /\ live = Local
    /\ nick = [u \in Users |-> IF u \in Local THEN LocalNick[u] ELSE NONE]
    /\ age = [u \in Users |-> 0]
    /\ clients = [n \in Nicks |-> IF \E u \in Local : LocalNick[u] = n
                                  THEN CHOOSE u \in Local : LocalNick[u] = n ELSE NONE]
    /\ channels = {} /\ unbursted = {}
    /\ created = [c \in Channels |-> 0] /\ modes = [c \in Channels |-> {}]
    /\ locks = [c \in Channels |-> 0]
    /\ members = [c \in Channels |-> {}] /\ ops = [c \in Channels |-> {}]
    /\ userChannels = [u \in Users |-> {}]
    /\ crashed = FALSE

-----------------------------------------------------------------------------
Linked == {s \in Servers : uplink[s] # NONE}

\* s and the servers behind it.
Behind(s) ==
    {x \in Linked : \A C \in SUBSET Servers :
        s \in C /\ (\A y \in Linked : uplink[y] \in C => y \in C) => x \in C}

\* Whom a message of numeric u is credited to: parse_line and GetUserH.
Origin(u) == IF u \in live THEN clients[nick[u]] ELSE NONE

Kept(c) == locks[c] > 0 \/ modes[c] \intersect Keep # {}

-----------------------------------------------------------------------------
(* Channels. *)

\* Mutant: the channels leave the dictionary and not the list of unbursted ones.
DelChannelsKeepingUnbursted(gone) ==
    /\ channels' = channels \ gone
    /\ modes' = [c \in Channels |-> IF c \in gone THEN {} ELSE modes[c]]
    /\ created' = [c \in Channels |-> IF c \in gone THEN 0 ELSE created[c]]
    /\ UNCHANGED unbursted

\* DelChannel for the channels `gone': out of the dictionary and, by a hook, off the
\* list of unbursted channels.
DelChannels(gone) ==
    /\ channels' = channels \ gone /\ unbursted' = unbursted \ gone
    /\ modes' = [c \in Channels |-> IF c \in gone THEN {} ELSE modes[c]]
    /\ created' = [c \in Channels |-> IF c \in gone THEN 0 ELSE created[c]]

\* Mutant: the locks are not looked at.
OutIgnoringLocks(L) ==
    LET gone == {c \in channels : L[c] # {} /\ L[c] = members[c] /\ modes[c] \intersect Keep = {}}
    IN  /\ members' = [c \in Channels |-> members[c] \ L[c]]
        /\ ops' = [c \in Channels |-> ops[c] \ L[c]]
        /\ userChannels' = [u \in Users |-> {c \in userChannels[u] : u \notin L[c]}]
        /\ DelChannels(gone)
        /\ UNCHANGED locks

\* DelChannelUser for the members L[c] of each channel c.  A channel goes with its
\* last member unless it is locked or one of its modes keeps it.
Out(L) ==
    LET gone == {c \in channels : L[c] # {} /\ L[c] = members[c] /\ ~Kept(c)}
    IN  /\ members' = [c \in Channels |-> members[c] \ L[c]]
        /\ ops' = [c \in Channels |-> ops[c] \ L[c]]
        /\ userChannels' = [u \in Users |-> {c \in userChannels[u] : u \notin L[c]}]
        /\ DelChannels(gone)
        /\ UNCHANGED locks

\* The members a PART or KICK of u takes off c: none when u is not there.
Leaving(u, c) == [d \in Channels |-> IF d = c THEN {u} \intersect members[c] ELSE {}]

\* AddChannelUser: u joins c, and is taken for an operator when it is the first.
Enter(u, c) ==
    /\ members' = [members EXCEPT ![c] = @ \union {u}]
    /\ userChannels' = [userChannels EXCEPT ![u] = @ \union {c}]
    /\ ops' = IF members[c] = {} /\ modes[c] \intersect Keep = {}
              THEN [ops EXCEPT ![c] = {u}] ELSE ops

\* AddChannel for c with timestamp t and modes M, when the timestamp known for c is
\* `old': an older burst replaces what is known (wipeout_channel, which sets the modes
\* again when one of our services is an operator), an equal one is merged, a younger
\* one ignored.
AddChannel(c, old, t, M) ==
    /\ channels' = channels \union {c}
    /\ created' = [created EXCEPT ![c] = IF c \notin channels \/ t < old THEN t ELSE old]
    /\ modes' = [modes EXCEPT ![c] =
                    IF c \notin channels THEN M
                    ELSE IF t < old THEN IF ops[c] \intersect Local # {} THEN @ \union M ELSE M
                    ELSE IF t = old THEN @ \union M ELSE @]

-----------------------------------------------------------------------------
(* Users and servers. *)

\* Mutant: the channels are not told.
DelUsersKeepingChannels(S) ==
    /\ live' = live \ S
    /\ nick' = [u \in Users |-> IF u \in S THEN NONE ELSE nick[u]]
    /\ age' = [u \in Users |-> IF u \in S THEN 0 ELSE age[u]]
    /\ clients' = [n \in Nicks |-> IF clients[n] \in S THEN NONE ELSE clients[n]]
    /\ UNCHANGED chanVars

\* DelUser for each of S: off the channels, the server's table and, where it holds it,
\* the nick.
DelUsers(S) ==
    /\ Out([c \in Channels |-> members[c] \intersect S])
    /\ live' = live \ S
    /\ nick' = [u \in Users |-> IF u \in S THEN NONE ELSE nick[u]]
    /\ age' = [u \in Users |-> IF u \in S THEN 0 ELSE age[u]]
    /\ clients' = [n \in Nicks |-> IF clients[n] \in S /\ nick[clients[n]] = n
                                   THEN NONE ELSE clients[n]]

\* Mutant: the servers behind s stay.
DelServerAlone(s) ==
    /\ uplink' = [uplink EXCEPT ![s] = NONE]
    /\ DelUsers({u \in live \ Local : ServerOf[u] = s})

\* DelServer: s, the servers behind it and all their users go.
DelServer(s) ==
    /\ uplink' = [x \in Servers |-> IF x \in Behind(s) THEN NONE ELSE uplink[x]]
    /\ DelUsers({u \in live \ Local : ServerOf[u] \in Behind(s)})

\* cmd_server of a new uplink: our burst begins (send_burst).
Link(s) ==
    /\ Linked = {}
    /\ uplink' = [uplink EXCEPT ![s] = SELF]
    /\ unbursted' = channels
    /\ UNCHANGED <<userVars, channels, created, modes, locks, members, userChannels, ops, crashed>>

\* cmd_server of a server behind the uplink.  A numeric that is known already is a
\* server whose end was missed: it is forgotten first.
cmd_server(s, p) ==
    /\ p \in Linked /\ p \notin Behind(s) /\ p # s
    /\ uplink' = [x \in Servers |-> IF x = s THEN p
                                    ELSE IF x \in Behind(s) THEN NONE ELSE uplink[x]]
    /\ DelUsers({u \in live \ Local : ServerOf[u] \in Behind(s)})
    /\ UNCHANGED crashed

\* cmd_squit, or the connection to the uplink is lost (socket_destroyed).
cmd_squit(s) ==
    /\ s \in Linked
    /\ DelServer(s)
    /\ UNCHANGED crashed

\* cmd_eob of the uplink: the channels it did not mention are burst and forgotten.
cmd_eob ==
    /\ Linked # {} /\ unbursted # {}
    /\ unbursted' = {}
    /\ UNCHANGED <<uplink, userVars, channels, created, modes, locks, members, userChannels, ops, crashed>>

\* AddUser: a nick in use goes to the older user; a service keeps it anyway.  The
\* loser that is already known is deleted, the one that is new is only put into its
\* server's table.
AddUser(u, n, t) ==
    /\ u \notin live \union Local /\ ServerOf[u] \in Linked
    /\ LET w     == clients[n]
           loses == w # NONE /\ (w \in Local \/ age[w] <= t)
           out   == IF w = NONE \/ loses THEN {} ELSE {w}
       IN  /\ Out([c \in Channels |-> members[c] \intersect out])
           /\ live' = (live \ out) \union {u}
           /\ nick' = [x \in Users |-> IF x = u THEN n ELSE IF x \in out THEN NONE ELSE nick[x]]
           /\ age' = [x \in Users |-> IF x = u THEN t ELSE IF x \in out THEN 0 ELSE age[x]]
           /\ clients' = IF loses THEN clients ELSE [clients EXCEPT ![n] = u]
    /\ UNCHANGED <<uplink, crashed>>

\* cmd_kill names its victim by numeric; our services are introduced again.
cmd_kill(u) ==
    /\ u \in live \ Local
    /\ DelUsers({u})
    /\ UNCHANGED <<uplink, crashed>>

\* cmd_quit is credited to a nick.
cmd_quit(u) ==
    /\ u \notin Local /\ Origin(u) # NONE
    /\ DelUsers({Origin(u)})
    /\ UNCHANGED <<uplink, crashed>>

\* Mutant: the old nick still leads to the user.
NickChangeKeepingOld(u, n, t) ==
    /\ n # nick[u]
    /\ clients' = [clients EXCEPT ![n] = u]
    /\ nick' = [nick EXCEPT ![u] = n]
    /\ age' = IF u \in Local THEN age ELSE [age EXCEPT ![u] = t]
    /\ UNCHANGED <<uplink, live, chanVars, crashed>>

\* NickChange at time t: the new nick leads to the user, whoever had it before.
NickChange(u, n, t) ==
    /\ n # nick[u]
    /\ clients' = [clients EXCEPT ![nick[u]] = NONE, ![n] = u]
    /\ nick' = [nick EXCEPT ![u] = n]
    /\ age' = IF u \in Local THEN age ELSE [age EXCEPT ![u] = t]
    /\ UNCHANGED <<uplink, live, chanVars, crashed>>

\* cmd_nick of a user.
cmd_nick(u, n, t) == u \notin Local /\ Origin(u) # NONE /\ NickChange(Origin(u), n, t)

\* cmd_sanick renames one of our services, to a free nick.
cmd_sanick(s, n, t) == s \in live \intersect Local /\ clients[n] = NONE /\ NickChange(s, n, t)

-----------------------------------------------------------------------------
(* Channel messages. *)

\* cmd_burst for channel c: timestamp t, modes M, members J, of whom O as operators.
\* A channel we had not burst yet takes the network's timestamp first.  Members are
\* named by numeric; unknown ones are skipped, so that J are users of the tables.
cmd_burst(c, t, M, J, O) ==
    LET old == IF c \in unbursted THEN t ELSE created[c]
    IN  /\ Linked # {} /\ J \subseteq live
        /\ AddChannel(c, old, t, M)
        /\ unbursted' = unbursted \ {c}
        /\ members' = [members EXCEPT ![c] = @ \union J]
        /\ userChannels' = [u \in Users |-> IF u \in J THEN userChannels[u] \union {c}
                                            ELSE userChannels[u]]
        /\ ops' = [ops EXCEPT ![c] = IF c \in channels /\ t > old THEN @ \ J
                                     ELSE (@ \ J) \union O]
        /\ UNCHANGED <<uplink, userVars, locks, crashed>>

\* cmd_join, cmd_create and cmd_sajoin, all by nick: the channel is made if need be.
cmd_join(u, c, t) ==
    /\ u \notin Local /\ Origin(u) # NONE
    /\ c \notin userChannels[Origin(u)]
    /\ IF c \in channels THEN UNCHANGED <<channels, created, modes>> ELSE AddChannel(c, 0, t, {})
    /\ Enter(Origin(u), c)
    /\ UNCHANGED <<uplink, userVars, locks, unbursted, crashed>>

\* JOIN 0: off all channels.
JoinZero(u) ==
    /\ u \notin Local /\ Origin(u) # NONE
    /\ Out([c \in Channels |-> members[c] \intersect {Origin(u)}])
    /\ UNCHANGED <<uplink, userVars, crashed>>

cmd_part(u, c) ==
    /\ u \notin Local /\ Origin(u) # NONE /\ c \in channels
    /\ Out(Leaving(Origin(u), c))
    /\ UNCHANGED <<uplink, userVars, crashed>>

\* cmd_kick names its victim by numeric, which may be one of our services.
cmd_kick(u, c) ==
    /\ Linked # {} /\ u \in live /\ c \in userChannels[u]
    /\ Out(Leaving(u, c))
    /\ UNCHANGED <<uplink, userVars, crashed>>

\* cmd_mode and cmd_opmode: the members U are opped or deopped, the modes become M, and
\* a server's MODE sets the timestamp.
cmd_mode(c, t, U, M) ==
    /\ Linked # {} /\ c \in channels
    /\ ops' = [ops EXCEPT ![c] = (@ \ U) \union (U \ @)]
    /\ modes' = [modes EXCEPT ![c] = M]
    /\ created' = [created EXCEPT ![c] = t]
    /\ UNCHANGED <<uplink, userVars, channels, locks, members, userChannels, unbursted, crashed>>

\* cmd_clearmode: an operator u of the network clears the modes M and the channel
\* operators O, all of them or none.
cmd_clearmode(u, c, M, O) ==
    /\ u \notin Local /\ Origin(u) # NONE /\ c \in channels
    /\ modes' = [modes EXCEPT ![c] = @ \ M]
    /\ ops' = [ops EXCEPT ![c] = @ \ O]
    /\ UNCHANGED <<uplink, userVars, channels, created, locks, members, userChannels, unbursted, crashed>>

\* cmd_sacycle: u leaves c and enters it again; when the channel went with u, what
\* it enters is freed memory.
cmd_sacycle(u, c) ==
    /\ Linked # {} /\ u \in live /\ c \in userChannels[u]
    /\ IF members[c] = {u} /\ ~Kept(c)
       THEN Out(Leaving(u, c)) /\ crashed' = TRUE
       ELSE /\ ops' = [ops EXCEPT ![c] = IF members[c] = {u} /\ modes[c] \intersect Keep = {}
                                         THEN {u} ELSE @ \ {u}]
            /\ UNCHANGED <<channels, created, modes, locks, members, userChannels, unbursted, crashed>>
    /\ UNCHANGED <<uplink, userVars>>

-----------------------------------------------------------------------------
(* What our own services do to channels. *)

\* ChanServ registers c or takes a support channel: AddChannel, LockChannel.
LockChannel(c, t) ==
    /\ locks[c] < MaxLocks
    /\ IF c \in channels THEN UNCHANGED <<channels, created, modes>> ELSE AddChannel(c, 0, t, {})
    /\ locks' = [locks EXCEPT ![c] = @ + 1]
    /\ UNCHANGED <<uplink, userVars, members, userChannels, ops, unbursted, crashed>>

\* UnlockChannel: the last lock on an empty channel takes the channel along.
UnlockChannel(c) ==
    /\ locks[c] > 0
    /\ locks' = [locks EXCEPT ![c] = @ - 1]
    /\ DelChannels(IF locks[c] = 1 /\ members[c] = {} THEN {c} ELSE {})
    /\ UNCHANGED <<uplink, userVars, members, userChannels, ops, crashed>>

\* A service joins (AddChannelUser) or parts (DelChannelUser).
ServiceJoin(s, c) ==
    /\ s \in live \intersect Local /\ c \in channels \ userChannels[s]
    /\ Enter(s, c)
    /\ UNCHANGED <<uplink, userVars, channels, created, modes, locks, unbursted, crashed>>

ServicePart(s, c) ==
    /\ s \in live \intersect Local /\ c \in userChannels[s]
    /\ Out(Leaving(s, c))
    /\ UNCHANGED <<uplink, userVars, crashed>>

-----------------------------------------------------------------------------
\* A burst or a MODE with modes and several users has the effect of several, one with
\* the modes and one for each user: so servers send long ones.
Step ==
    \/ \E s \in Servers : Link(s) \/ cmd_squit(s)
    \/ \E s, p \in Servers : cmd_server(s, p)
    \/ cmd_eob
    \/ \E u \in Users, n \in Nicks, t \in Times :
          AddUser(u, n, t) \/ cmd_nick(u, n, t) \/ cmd_sanick(u, n, t)
    \/ \E u \in Users : cmd_kill(u) \/ cmd_quit(u) \/ JoinZero(u)
    \/ \E c \in Channels, t \in Times :
          \/ \E M \in SUBSET Modes : cmd_burst(c, t, M, {}, {})
          \/ \E u \in live \ Local : cmd_burst(c, t, {}, {u}, {}) \/ cmd_burst(c, t, {}, {u}, {u})
    \/ \E u \in Users, c \in Channels, t \in Times : cmd_join(u, c, t)
    \/ \E u \in Users, c \in Channels :
          \/ cmd_part(u, c) \/ cmd_kick(u, c) \/ cmd_sacycle(u, c)
          \/ ServiceJoin(u, c) \/ ServicePart(u, c)
    \/ \E u \in Users, c \in Channels, M \in SUBSET Modes :
          cmd_clearmode(u, c, M, {}) \/ cmd_clearmode(u, c, M, ops[c])
    \/ \E c \in channels, t \in Times :
          \/ \E M \in SUBSET Modes : cmd_mode(c, t, {}, M)
          \/ \E u \in members[c] : cmd_mode(c, t, {u}, modes[c])
    \/ \E c \in Channels, t \in Times : LockChannel(c, t)
    \/ \E c \in Channels : UnlockChannel(c)

\* Nothing runs after a crash: recovery is a new process.
Next == (~crashed /\ Step) \/ (crashed /\ UNCHANGED vars)

Spec == Init /\ [][Next]_vars

-----------------------------------------------------------------------------
\* channel->members and user->channels are two views of one relation between channels
\* in the dictionary and users in a server's table, and operators are members: no
\* split, collision, kick or burst leaves a pointer to freed memory (hash.c:884).
MembersAgree ==
    /\ \A u \in Users, c \in Channels : u \in members[c] <=> c \in userChannels[u]
    /\ \A c \in Channels : members[c] \subseteq live /\ ops[c] \subseteq members[c]
    /\ \A c \in Channels : members[c] # {} => c \in channels

\* The end of the uplink's burst finds only channels that still exist on its list
\* (proto-p10.c:1498, 2704).
UnburstedExist == unbursted \subseteq channels

\* A lock keeps its channel: ChanServ's pointer to it is good until the unlock
\* (hash.c:870, 912).
LockedKept == \A c \in Channels : locks[c] > 0 => c \in channels

\* A nick leads to a user that exists and has that nick, through collisions resolved
\* either way and losers that linger (proto-p10.c:3397-3418, 3493, hash.c:288).
NickIndex == \A n \in Nicks : clients[n] # NONE => clients[n] \in live /\ nick[clients[n]] = n

\* Users and servers hang in the tree: after a split nothing behind the lost server is
\* left, however deep it was (proto-p10.c:3269-3303).
TreeWhole ==
    /\ \A u \in live \ Local : ServerOf[u] \in Linked
    /\ \A s \in Linked : uplink[s] \in Linked \union {SELF}

\* The users of the tables have nicks: parse_line can name every sender.
LiveNamed == \A u \in Users : u \in live <=> nick[u] # NONE

Inv == TypeOK /\ MembersAgree /\ UnburstedExist /\ LockedKept /\ NickIndex /\ TreeWhole /\ LiveNamed

-----------------------------------------------------------------------------
(* What comments of the repository say, and the code does not do. *)

\* "Sometimes we get a KILL then a QUIT or the like, so we don't want to call DelUser
\* unless we have the user in our grasp" (proto-p10.c:2382): a QUIT removes nobody but
\* its sender.
QuitOwn == [][\A u \in Users : cmd_quit(u) => live \ live' \subseteq {u}]_vars

\* "Remove and re-add the user to the channel" (proto-p10.c:2724): a cycled user is in
\* the channel afterwards.
CycledStays == [][\A u \in Users, c \in Channels : cmd_sacycle(u, c) => u \in members'[c]]_vars

-----------------------------------------------------------------------------
\* For model checking: every user on a server of its own, and any nicks for the services.
OneServerEach ==
    CHOOSE f \in [Users \ Local -> Servers] : \A u, v \in Users \ Local : f[u] = f[v] => u = v
AnyNickEach ==
    CHOOSE f \in [Local -> Nicks] : \A s, t \in Local : f[s] = f[t] => s = t
=============================================================================
