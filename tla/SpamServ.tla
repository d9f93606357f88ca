------------------------------ MODULE SpamServ ------------------------------
(***************************************************************************)
(* SpamServ (src/src/spamserv.c): the channels it watches, what it counts  *)
(* of every client there, its warnings and punishments, and what it        *)
(* remembers of the clients it killed.  ChanServ's registrations are the   *)
(* variable csChannels and its calls into SpamServ are part of the actions *)
(* for its commands.  A line is the set of the pieces it contains; "caps"  *)
(* and "adv" stand for what check_caps and check_advertising look for.     *)
(* Access to a channel is two-valued: a ranked user reaches the levels in  *)
(* "except".  The entry of a client moves with its nick, so a client       *)
(* stands for its entry, and for its address.  A kick, a ban and a G-line  *)
(* are only sent: the client goes when the network says so.                *)
(***************************************************************************)
EXTENDS Integers, FiniteSets

CONSTANTS
    Users, Ranked,          \* Ranked \subseteq Users: with access to every channel
    Channels, Words,
    Texts,                  \* lines, each a set of words, "caps" and "adv"
    Defaults,               \* CHAN_FLAGS_DEFAULT: the scans of a new registration
    Scans, Levels,          \* the scans and levels that SET is used on here
    Durations,              \* of suspensions, 0 without end
    Reactions,              \* the reactions that SET is used with here
    Limits,                 \* numbers of equal lines a channel may allow
    FLOOD_MAX_LINES, FLOOD_EXPIRE, JOINFLOOD_MAX, JOINFLOOD_EXPIRE,
    WARN_EXPIRE,            \* ADV_EXPIRE, BAD_EXPIRE, CAPS_EXPIRE
    MAX_WARNLEVEL, KILL_WARNLEVEL, KILL_EXPIRE,
    WordMax,                \* exception_max, badword_max
    Trusts,                 \* accounts that trust is given to here
    AllowMoveMerge,         \* spamserv_conf.allow_move_merge
    StaffActs,              \* staff merge suspended channels and change suspensions
    OffChannels,            \* off_channel > 1
    Outside,                \* channels are not +n
    MaxWarn, MaxTime        \* bounds on the warning level and the clock

VARIABLES
    now,
    csChannels,     \* ChanServ's registrations: "off", "on", "suspended"
    offChannel,     \* CHANNEL_OFFCHANNEL: registrations that ChanServ does not idle in
    astray,         \* history: channels of which the two disagreed about a suspension
    registered,     \* registered_channels_dict
    bots,           \* the channels SpamServ is in
    members,
    infos,          \* connected_users_dict
    killed,         \* killed_users_dict
    trusted, lent   \* trusted accounts: the channels kept, and whether a list holds a
                    \* pointer into the command line that has since been used again

spVars == <<csChannels, offChannel, astray, registered, bots, members, infos, killed, trusted, lent>>
vars == <<now, spVars>>

Put(f, x, y) == [z \in DOMAIN f \union {x} |-> IF z = x THEN y ELSE f[z]]
Drop(f, S) == [z \in DOMAIN f \ S |-> f[z]]
Nothing == [x \in {} |-> 0]

Kinds == {"caps", "bad", "adv"}
Flags == {"k", "b", "s", "l", "kill", "gline", "warned", "killed"} \union Kinds
Everywhere == "global"

\* The shape of the tables.
TypeOK ==
    /\ csChannels \in [Channels -> {"off", "on", "suspended"}]
    /\ offChannel \subseteq Channels /\ astray \subseteq Channels
    /\ DOMAIN registered \subseteq Channels /\ bots \subseteq Channels
    /\ members \in [Channels -> SUBSET Users]
    /\ DOMAIN infos \subseteq Users /\ DOMAIN killed \subseteq Users
    /\ \A u \in DOMAIN infos :
        /\ infos[u].flags \subseteq Flags /\ infos[u].warn \in Nat
        /\ infos[u].last \in [Kinds -> 0..now]
        /\ \A n \in {"spam", "flood", "joins"} : DOMAIN infos[u][n] \subseteq Channels
    /\ trusted \in [Users -> SUBSET (Channels \union {Everywhere})]

Init ==
    /\ now = 1
    /\ csChannels = [c \in Channels |-> "on"]
    /\ offChannel = Channels /\ astray = {}
    /\ registered = Nothing /\ bots = {} /\ members = [c \in Channels |-> {}]
    /\ infos = Nothing /\ killed = Nothing
    /\ trusted = [u \in Users |-> {}] /\ lent = [u \in Users |-> FALSE]

-----------------------------------------------------------------------------
\* Channels.

\* spamserv_register_channel, with the defaults of cmd_register.
spamserv_register_channel ==
    [susp |-> FALSE, expiry |-> 0, scans |-> Defaults,
     except |-> {}, limit |-> 3, exceptions |-> {}, badwords |-> {},
     react |-> [k \in Kinds \union {"warn"} |-> IF k = "adv" THEN "l" ELSE "s"]]

\* Mutant: nothing is cleared when SpamServ leaves.
SpamNodesStay(c) == infos

\* spamserv_clear_spamNodes: the members' entries only.
spamserv_clear_spamNodes(c) ==
    [u \in DOMAIN infos |->
        IF u \in members[c] THEN [infos[u] EXCEPT !.spam = Drop(@, {c})] ELSE infos[u]]

\* spamserv_part_channel, where the condition holds.
PartIf(cond, c) ==
    [bots  |-> IF cond THEN bots \ {c} ELSE bots,
     infos |-> IF cond THEN spamserv_clear_spamNodes(c) ELSE infos]

\* The REGISTER command.
cmd_register(c) ==
    /\ csChannels[c] = "on" /\ c \notin DOMAIN registered
    /\ registered' = Put(registered, c, spamserv_register_channel)
    /\ bots' = bots \union {c}
    /\ UNCHANGED <<now, csChannels, offChannel, astray, members, infos, killed, trusted, lent>>

\* cmd_unregister of SpamServ, and spamserv_cs_unregister.
Unregister(c) ==
    LET p == PartIf(c \in DOMAIN registered /\ ~registered[c].susp, c)
    IN  registered' = Drop(registered, {c}) /\ bots' = p.bots /\ infos' = p.infos

cmd_unregister(c) ==
    /\ c \in DOMAIN registered /\ csChannels[c] # "off"
    /\ Unregister(c)
    /\ UNCHANGED <<now, csChannels, offChannel, astray, members, killed, trusted, lent>>

\* ChanServ drops a registration: a command, the expiry, or its last user is deleted.
spamserv_cs_unregister(c) ==
    /\ csChannels[c] # "off" /\ csChannels' = [csChannels EXCEPT ![c] = "off"]
    /\ offChannel' = offChannel \ {c}
    /\ Unregister(c)
    /\ UNCHANGED <<now, astray, members, killed, trusted, lent>>

\* ChanServ's REGISTER: off-channel, by CHANNEL_DEFAULT_FLAGS.
CsRegister(c) ==
    /\ csChannels[c] = "off" /\ csChannels' = [csChannels EXCEPT ![c] = "on"]
    /\ offChannel' = offChannel \union {c}
    /\ UNCHANGED <<now, astray, registered, bots, members, infos, killed, trusted, lent>>

\* SET OFFCHANNEL: ChanServ comes or goes, SpamServ is not told.
chan_opt_offchannel(c) ==
    /\ OffChannels /\ csChannels[c] # "off"
    /\ offChannel' = IF c \in offChannel THEN offChannel \ {c} ELSE offChannel \union {c}
    /\ UNCHANGED <<now, csChannels, astray, registered, bots, members, infos, killed, trusted, lent>>

\* spamserv_cs_suspend with suspend set, from cmd_csuspend.
Suspend(c, expiry) ==
    LET known == c \in DOMAIN registered
        p == PartIf(known, c)
    IN  /\ csChannels[c] = "on" /\ csChannels' = [csChannels EXCEPT ![c] = "suspended"]
        /\ registered' = IF known THEN [registered EXCEPT ![c].susp = TRUE, ![c].expiry = expiry]
                         ELSE registered
        /\ bots' = p.bots /\ infos' = p.infos
        /\ UNCHANGED <<now, offChannel, astray, members, killed, trusted, lent>>

\* spamserv_cs_suspend with suspend clear.
Lifted(c) ==
    IF c \in DOMAIN registered THEN [registered EXCEPT ![c].susp = FALSE, ![c].expiry = 0]
    ELSE registered

IsOffChannel(c) == OffChannels /\ c \in offChannel

\* Mutant: the flag is taken off and SpamServ stays out.
UnsuspendOutside(c) ==
    /\ csChannels[c] = "suspended" /\ csChannels' = [csChannels EXCEPT ![c] = "on"]
    /\ IF IsOffChannel(c)
       THEN astray' = astray \union ({c} \intersect DOMAIN registered) /\ UNCHANGED <<registered, bots>>
       ELSE registered' = Lifted(c) /\ UNCHANGED <<bots, astray>>
    /\ UNCHANGED <<now, offChannel, members, infos, killed, trusted, lent>>

\* chanserv_expire_suspension: spamserv_cs_suspend, then ss_cs_join_channel; but for a
\* registration off-channel neither, and what SpamServ watches there stays suspended.
Unsuspend(c) ==
    /\ csChannels[c] = "suspended" /\ csChannels' = [csChannels EXCEPT ![c] = "on"]
    /\ IF IsOffChannel(c)
       THEN astray' = astray \union ({c} \intersect DOMAIN registered) /\ UNCHANGED <<registered, bots>>
       ELSE /\ registered' = Lifted(c) /\ bots' = bots \union ({c} \intersect DOMAIN registered)
            /\ UNCHANGED astray
    /\ UNCHANGED <<now, offChannel, members, infos, killed, trusted, lent>>

\* spamserv_cs_move_merge: the entry goes along if the configuration and the target allow,
\* suspended or not.
MoveMerge(c, target, joins) ==
    LET info  == registered[c]
        goes  == AllowMoveMerge /\ target \notin DOMAIN registered
        p     == PartIf(~info.susp, c)
    IN  IF c \notin DOMAIN registered THEN UNCHANGED <<registered, bots, infos, astray>>
        ELSE IF ~goes THEN Unregister(c) /\ UNCHANGED astray
        ELSE /\ registered' = Put(Drop(registered, {c}), target, info)
             /\ bots' = p.bots \union (IF joins THEN {target} ELSE {})
             /\ infos' = p.infos
             /\ astray' = IF c \in astray \/ csChannels'[target] # csChannels[c]
                          THEN astray \union {target} ELSE astray

\* ChanServ's MOVE: SpamServ joins the target together with ChanServ.
CsMove(c, target) ==
    /\ csChannels[c] # "off" /\ csChannels[target] = "off"
    /\ csChannels' = [csChannels EXCEPT ![c] = "off", ![target] = csChannels[c]]
    /\ offChannel' = (offChannel \ {c}) \union (IF c \in offChannel THEN {target} ELSE {})
    /\ MoveMerge(c, target, csChannels[c] = "on")
    /\ UNCHANGED <<now, members, killed, trusted, lent>>

\* ChanServ's MERGE: SpamServ joins the target, which staff may give what is suspended.
\* With "nodelete" the source stays registered.
CsMerge(c, target, nodelete) ==
    /\ c # target /\ csChannels[target] = "on"
    /\ csChannels[c] = "on" \/ (csChannels[c] = "suspended" /\ StaffActs)
    /\ csChannels' = IF nodelete THEN csChannels ELSE [csChannels EXCEPT ![c] = "off"]
    /\ offChannel' = IF nodelete THEN offChannel ELSE offChannel \ {c}
    /\ MoveMerge(c, target, TRUE)
    /\ UNCHANGED <<now, members, killed, trusted, lent>>

\* The commands that change an entry: not when it is suspended, and not without access.
Change(c, info) ==
    /\ c \in DOMAIN registered /\ ~registered[c].susp /\ csChannels[c] # "off"
    /\ registered' = [registered EXCEPT ![c] = info]
    /\ UNCHANGED <<now, csChannels, offChannel, astray, bots, members, infos, killed, trusted, lent>>

\* A full list takes no more words, but for an operator.
cmd_addexception(c, w, oper) ==
    /\ w \notin registered[c].exceptions
    /\ Cardinality(registered[c].exceptions) # WordMax \/ oper
    /\ Change(c, [registered[c] EXCEPT !.exceptions = @ \union {w}])

cmd_delexception(c, w) ==
    w \in registered[c].exceptions /\ Change(c, [registered[c] EXCEPT !.exceptions = @ \ {w}])

cmd_addbadword(c, w, oper) ==
    /\ w \notin registered[c].badwords
    /\ Cardinality(registered[c].badwords) # WordMax \/ oper
    /\ Change(c, [registered[c] EXCEPT !.badwords = @ \union {w}])

cmd_delbadword(c, w) ==
    w \in registered[c].badwords /\ Change(c, [registered[c] EXCEPT !.badwords = @ \ {w}])

\* SET: the levels, the scans, the reactions and the limit.
channel_except_level(c, s) ==
    Change(c, [registered[c] EXCEPT !.except = IF s \in @ THEN @ \ {s} ELSE @ \union {s}])

binary_option(c, s) ==
    Change(c, [registered[c] EXCEPT !.scans = IF s \in @ THEN @ \ {s} ELSE @ \union {s}])

multiple_option(c, k, r) ==
    Change(c, [registered[c] EXCEPT !.react[k] = r])

opt_spamlimit(c, n) == Change(c, [registered[c] EXCEPT !.limit = n])

-----------------------------------------------------------------------------
\* Trusted accounts.

\* cmd_addtrust and, for everywhere, cmd_oaddtrust: a new entry is copied; a further
\* channel of an entry is kept as a pointer to the argument.  Whoever is named by nick is
\* not found, and the new entry replaces the old one.
cmd_addtrust(u, c, byNick) ==
    /\ c = Everywhere \/ c \in {d \in DOMAIN registered : csChannels[d] # "off" /\ ~registered[d].susp}
    /\ IF (trusted[u] = {} /\ ~lent[u]) \/ byNick
       THEN trusted' = [trusted EXCEPT ![u] = {c}] /\ lent' = [lent EXCEPT ![u] = FALSE]
       ELSE c \notin trusted[u] /\ lent' = [lent EXCEPT ![u] = TRUE] /\ UNCHANGED trusted
    /\ UNCHANGED <<now, csChannels, offChannel, astray, registered, bots, members, infos, killed>>

\* cmd_deltrust and cmd_odeltrust.
cmd_deltrust(u, c) ==
    /\ c = Everywhere \/ c \in {d \in DOMAIN registered : csChannels[d] # "off" /\ ~registered[d].susp}
    /\ c \in trusted[u]
    /\ trusted' = [trusted EXCEPT ![u] = @ \ {c}]
    /\ UNCHANGED <<now, csChannels, offChannel, astray, registered, bots, members, infos, killed, lent>>

-----------------------------------------------------------------------------
\* Clients.

\* spamserv_create_user: who was killed is known by the address.
spamserv_create_user(u) ==
    /\ u \notin DOMAIN infos
    /\ infos' = Put(infos, u,
        [flags |-> IF u \in DOMAIN killed THEN {"killed"} ELSE {},
         warn  |-> IF u \in DOMAIN killed THEN killed[u].warn ELSE 0,
         last  |-> [k \in Kinds |-> 0], spam |-> Nothing, flood |-> Nothing, joins |-> Nothing])
    /\ killed' = Drop(killed, {u})
    /\ UNCHANGED <<now, csChannels, offChannel, astray, registered, bots, members, trusted, lent>>

\* spamserv_del_user_func for somebody else's doing: a quit.
Quit(u) ==
    /\ u \in DOMAIN infos
    /\ infos' = Drop(infos, {u})
    /\ members' = [c \in Channels |-> members[c] \ {u}]
    /\ UNCHANGED <<now, csChannels, offChannel, astray, registered, bots, killed, trusted, lent>>

\* spamserv_user_join: every join within the time counts.
spamserv_user_join(u, c) ==
    LET old  == infos[u].joins
        n    == IF c \in DOMAIN old THEN old[c].count + 1 ELSE 1
        seen == c \in DOMAIN registered /\ "joinflood" \in registered[c].scans
    IN  /\ u \in DOMAIN infos /\ u \notin members[c]
        /\ members' = [members EXCEPT ![c] = @ \union {u}]
        /\ infos' = IF ~seen THEN infos
                    ELSE [infos EXCEPT ![u].joins =
                            IF n > JOINFLOOD_MAX THEN Drop(old, {c})
                            ELSE Put(old, c, [count |-> n, time |-> now])]
        /\ UNCHANGED <<now, csChannels, offChannel, astray, registered, bots, killed, trusted, lent>>

\* spamserv_user_part.
spamserv_user_part(u, c) ==
    /\ u \in members[c]
    /\ members' = [members EXCEPT ![c] = @ \ {u}]
    /\ infos' = IF c \notin DOMAIN registered THEN infos
                ELSE [infos EXCEPT ![u].spam = Drop(@, {c}), ![u].flood = Drop(@, {c})]
    /\ UNCHANGED <<now, csChannels, offChannel, astray, registered, bots, killed, trusted, lent>>

-----------------------------------------------------------------------------
\* A line in a channel: spamserv_channel_message.  The scans run one after the other on
\* [info, violation, over]; a scan that the user is exempt from ends the whole, whatever
\* the scans before it found.

\* Mutant: whoever was killed is killed again.
ReactionKill(info, r) ==
    [info EXCEPT !.flags = @ \union {IF r = "d" THEN "kill" ELSE r}]

\* The flag that a reaction sets.
Reaction(info, r) ==
    [info EXCEPT !.flags = @ \union
        {IF r = "d" THEN (IF "killed" \in info.flags THEN "gline" ELSE "kill") ELSE r}]

Warned(info, n) == [info EXCEPT !.warn = @ + n]

\* Capitals, bad words and advertising: the first time is a warning.
\* Advertising is exempt by the level for spam.
WarnScan(st, chan, u, kind, level, hit) ==
    IF st.over \/ ~hit \/ kind \notin chan.scans THEN st
    ELSE IF u \in Ranked /\ level \in chan.except THEN [st EXCEPT !.over = TRUE]
    ELSE IF kind \in st.info.flags
         THEN [st EXCEPT !.info = Warned(Reaction(@, chan.react[kind]), 2), !.violation = TRUE]
         ELSE [st EXCEPT !.info = [Warned(st.info, 2) EXCEPT !.flags = @ \union {kind}, !.last[kind] = now]]

\* Equal lines.
SpamScan(st, chan, u, c, text) ==
    LET nodes == st.info.spam
        n     == nodes[c].count + 1
    IN  IF st.over \/ "spam" \notin chan.scans THEN st
        ELSE IF u \in Ranked /\ "spam" \in chan.except THEN [st EXCEPT !.over = TRUE]
        ELSE IF c \notin DOMAIN nodes \/ nodes[c].text # text
             THEN [st EXCEPT !.info.spam = Put(@, c, [text |-> text, count |-> 1])]
        ELSE IF n > chan.limit
             THEN [st EXCEPT !.info = [Warned(Reaction(st.info, chan.react["warn"]), 1)
                                        EXCEPT !.spam = Drop(@, {c})],
                             !.violation = TRUE]
        ELSE [st EXCEPT !.info = [Warned(st.info, IF n = chan.limit THEN 1 ELSE 0)
                                    EXCEPT !.spam[c].count = n]]

\* Many lines.
FloodScan(st, chan, u, c) ==
    LET nodes == st.info.flood
        n     == nodes[c].count + 1
    IN  IF st.over \/ "flood" \notin chan.scans THEN st
        ELSE IF u \in Ranked /\ "flood" \in chan.except THEN [st EXCEPT !.over = TRUE]
        ELSE IF c \notin DOMAIN nodes
             THEN [st EXCEPT !.info.flood = Put(@, c, [count |-> 1, time |-> now])]
        ELSE IF now - nodes[c].time >= FLOOD_EXPIRE THEN [st EXCEPT !.info.flood[c].time = now]
        ELSE IF n > FLOOD_MAX_LINES
             THEN [st EXCEPT !.info = [Warned(Reaction(st.info, chan.react["warn"]), 1)
                                        EXCEPT !.flood = Drop(@, {c})],
                             !.violation = TRUE]
        ELSE IF n = FLOOD_MAX_LINES - 1
             THEN [st EXCEPT !.info = [Warned(st.info, 1) EXCEPT !.flood[c] = [count |-> n, time |-> now]]]
        ELSE [st EXCEPT !.info.flood[c].count = n]

\* The warning level: a last warning at the maximum, worse beyond it.
LevelScan(st) ==
    LET i == st.info
    IN  IF st.over THEN st
        ELSE IF i.flags \intersect {"warned", "kill", "gline"} = {} /\ i.warn = MAX_WARNLEVEL
             THEN [st EXCEPT !.info.flags = @ \union {"warned"}]
        ELSE IF i.warn > MAX_WARNLEVEL
             THEN [st EXCEPT !.info = Reaction(@, "d"), !.violation = TRUE]
        ELSE st

\* check_badwords and check_advertising: an exception anywhere in the line clears it.
Scanned(u, c, text) ==
    LET chan  == registered[c]
        plain == text \intersect chan.exceptions = {}
        lower == text \ {"caps"}
        s0 == [info |-> infos[u], violation |-> FALSE, over |-> FALSE]
        s1 == WarnScan(s0, chan, u, "caps", "caps", "caps" \in text)
        s2 == SpamScan(s1, chan, u, c, lower)
        s3 == FloodScan(s2, chan, u, c)
        s4 == WarnScan(s3, chan, u, "bad", "bad", plain /\ text \intersect chan.badwords # {})
        s5 == WarnScan(s4, chan, u, "adv", "spam", plain /\ "adv" \in text)
    IN  LevelScan(s5)

\* Trusted accounts and whoever reaches the general level are not looked at.
\* An entry that only lends its memory matches or does not.
Exempt(u, c, chance) ==
    \/ trusted[u] \intersect {c, Everywhere} # {} \/ (lent[u] /\ chance)
    \/ u \in Ranked /\ "all" \in registered[c].except

\* The punishment is the worst ever earned; a killed client is gone and remembered.
spamserv_channel_message(u, c, text, chance) ==
    /\ u \in DOMAIN infos /\ (u \in members[c] \/ Outside)
    /\ c \in bots /\ c \in DOMAIN registered
    /\ ~Exempt(u, c, chance)
    /\ LET st   == Scanned(u, c, text)
           kill == st.violation /\ ~st.over /\ "gline" \notin st.info.flags /\ "kill" \in st.info.flags
       IN  /\ infos[u].warn <= MaxWarn
           /\ infos' = IF kill THEN Drop(infos, {u}) ELSE [infos EXCEPT ![u] = st.info]
           /\ members' = IF kill THEN [d \in Channels |-> members[d] \ {u}] ELSE members
           /\ killed' = IF ~kill THEN killed
                        ELSE Put(killed, u, [warn |-> IF st.info.warn > KILL_WARNLEVEL
                                                      THEN st.info.warn - KILL_WARNLEVEL ELSE 0,
                                             time |-> now])
    /\ UNCHANGED <<now, csChannels, offChannel, astray, registered, bots, trusted, lent>>

-----------------------------------------------------------------------------
\* The timers; each queues itself again.

Tick ==
    /\ now < MaxTime /\ now' = now + 1
    /\ UNCHANGED spVars

Aged(nodes, expire) ==
    LET left(c) == IF now - nodes[c].time > expire THEN nodes[c].count - 1 ELSE nodes[c].count
    IN  [c \in {d \in DOMAIN nodes : left(d) > 0} |-> [nodes[c] EXCEPT !.count = left(c)]]

OnInfos(new) ==
    /\ infos' = new
    /\ UNCHANGED <<now, csChannels, offChannel, astray, registered, bots, members, killed, trusted, lent>>

timeq_flood ==
    OnInfos([u \in DOMAIN infos |-> [infos[u] EXCEPT !.flood = Aged(@, FLOOD_EXPIRE)]])

timeq_joinflood ==
    OnInfos([u \in DOMAIN infos |-> [infos[u] EXCEPT !.joins = Aged(@, JOINFLOOD_EXPIRE)]])

\* timeq_bad, timeq_caps, timeq_adv.  The difference is taken the wrong way round, and
\* nothing ever passes the test.
timeq_warned(kind) ==
    OnInfos([u \in DOMAIN infos |->
        IF infos[u].last[kind] # 0 /\ infos[u].last[kind] - now > WARN_EXPIRE
        THEN [infos[u] EXCEPT !.last[kind] = 0, !.flags = @ \ {kind}] ELSE infos[u]])

timeq_warnlevel ==
    OnInfos([u \in DOMAIN infos |-> [infos[u] EXCEPT !.warn = IF @ > 0 THEN @ - 1 ELSE 0]])

\* Every run forgets one address at most.
timeq_kill ==
    LET old == {u \in DOMAIN killed : now - killed[u].time > KILL_EXPIRE}
    IN  /\ IF old = {} THEN UNCHANGED killed ELSE \E u \in old : killed' = Drop(killed, {u})
        /\ UNCHANGED <<now, csChannels, offChannel, astray, registered, bots, members, infos, trusted, lent>>

\* spamserv_saxdb_write and spamserv_saxdb_read: the registrations and the trusted accounts
\* are kept, what was counted is not.  SpamServ comes back into the channels that are not
\* suspended, or no longer.  ChanServ finds suspensions over by times of its own, which
\* CSUSPEND changes without a call; and it takes the last second for over.
Restart(ended) ==
    LET timed(c) == registered[c].susp /\ registered[c].expiry # 0
        over(c)  == timed(c) /\ registered[c].expiry < now
    IN  /\ StaffActs \/ \A c \in DOMAIN registered : c \in ended <=> timed(c) /\ registered[c].expiry <= now
        /\ registered' = [c \in DOMAIN registered |->
                            IF over(c) THEN [registered[c] EXCEPT !.susp = FALSE, !.expiry = 0]
                            ELSE registered[c]]
        /\ csChannels' = [c \in Channels |->
                            IF c \in ended /\ csChannels[c] = "suspended" THEN "on" ELSE csChannels[c]]
        /\ bots' = {c \in DOMAIN registered : ~registered'[c].susp}
        /\ astray' = {c \in DOMAIN registered : registered'[c].susp # (csChannels'[c] = "suspended")}
        /\ infos' = Nothing /\ killed' = Nothing /\ members' = [c \in Channels |-> {}]
        /\ lent' = [u \in Users |-> FALSE]
        /\ UNCHANGED <<now, offChannel, trusted>>

ChanServCalls ==
    \/ \E c \in Channels : CsRegister(c) \/ spamserv_cs_unregister(c) \/ Unsuspend(c) \/ chan_opt_offchannel(c)
    \/ \E c \in Channels, d \in Durations : Suspend(c, IF d = 0 THEN 0 ELSE now + d)
    \/ \E c, d \in Channels : CsMove(c, d) \/ \E nodelete \in BOOLEAN : CsMerge(c, d, nodelete)

Commands ==
    \/ \E c \in Channels : cmd_register(c) \/ cmd_unregister(c)
    \/ \E c \in DOMAIN registered :
        \/ \E w \in Words, oper \in BOOLEAN : cmd_addexception(c, w, oper) \/ cmd_addbadword(c, w, oper)
        \/ \E w \in Words : cmd_delexception(c, w) \/ cmd_delbadword(c, w)
        \/ \E l \in Levels : channel_except_level(c, l)
        \/ \E s \in Scans : binary_option(c, s)
        \/ \E k \in {"warn", "caps"}, r \in Reactions : multiple_option(c, k, r)
        \/ \E n \in Limits : opt_spamlimit(c, n)
    \/ \E u \in Trusts, c \in Channels \union {Everywhere} :
        cmd_deltrust(u, c) \/ \E byNick \in BOOLEAN : cmd_addtrust(u, c, byNick)

Clients ==
    \/ \E u \in Users : spamserv_create_user(u) \/ Quit(u)
    \/ \E u \in Users, c \in Channels :
        \/ spamserv_user_join(u, c) \/ spamserv_user_part(u, c)
        \/ \E text \in Texts, chance \in BOOLEAN : spamserv_channel_message(u, c, text, chance)

Timers ==
    \/ Tick \/ timeq_flood \/ timeq_joinflood \/ timeq_warnlevel \/ timeq_kill
    \/ \E ended \in SUBSET Channels : Restart(ended)
    \/ \E kind \in Kinds : timeq_warned(kind)

Next == ChanServCalls \/ Commands \/ Clients \/ Timers

Spec == Init /\ [][Next]_vars

-----------------------------------------------------------------------------
\* SpamServ is in every channel it watches and in no other, and is suspended where ChanServ
\* is, through suspensions, moves, merges and restarts; it watches registered channels only
\* (spamserv_cs_suspend, spamserv_cs_move_merge, ss_cs_join_channel, spamserv_saxdb_read).
\* The exception, until the next restart, is a channel whose suspension ended for one of
\* the two only: off-channel, in a merge, or by a time that CSUSPEND had changed.
BotPresent ==
    /\ \A c \in DOMAIN registered : csChannels[c] # "off"
    /\ \A c \in Channels \ astray : c \in bots <=> c \in DOMAIN registered /\ ~registered[c].susp
    /\ \A c \in DOMAIN registered \ astray : registered[c].susp <=> csChannels[c] = "suspended"

\* The count of equal lines belongs to a member of a channel that is being watched, so a
\* later registration or a later visit starts from nothing (spamserv_part_channel: "we only
\* have to clear the spamNodes because every other node expires on it's own"); the same
\* exception.
SpamNodesLive ==
    \A u \in DOMAIN infos : \A c \in DOMAIN infos[u].spam \ astray :
        u \in members[c] /\ c \in DOMAIN registered /\ c \in bots

\* Both: spamserv_cs_suspend, spamserv_cs_move_merge and spamserv_part_channel keep the
\* channels, the bot and the counts in step.
WatchedExactly == BotPresent /\ SpamNodesLive

\* A client that comes back after SpamServ killed it is G-lined the next time, never killed
\* again (spamserv_create_user's USER_KILLED and the choice of the punishment).
NotKilledAgain ==
    [][\A u \in DOMAIN infos :
        (u \in DOMAIN killed' /\ u \notin DOMAIN killed) => "killed" \notin infos[u].flags]_vars
=============================================================================
