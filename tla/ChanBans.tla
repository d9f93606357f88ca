------------------------------ MODULE ChanBans ------------------------------
(* The bans ChanServ keeps for a registered channel ("lamers", chanserv.c),   *)
(* with the timer of each, and the channel's own ban list, which ChanServ     *)
(* writes when it enforces them.  A mask is the set of nicks and hosts it     *)
(* matches, so match_ircglobs is the inclusion of both.  Users are remote:    *)
(* KickChannelUser only sends the kick, and the member leaves when the        *)
(* network answers.  Access lists and channel options are given.              *)
EXTENDS Integers, Sequences, FiniteSets, SequencesExt

CONSTANTS
    Channels, Users, Nicks,
    Officers,           \* users who give commands from outside the channels, logged in
    Host, Account,      \* of each user: its host and its account's hidden host
    Access,             \* channel -> user -> access of the user's account, 0 for none
    Protect,            \* channel -> chProtect: "n", "l", "e" or "a"
    Reaction,           \* channel -> chCTCPReaction: "n", "k", "b" or "t"
    Exempts,            \* channel -> masks that exempt from bans
    Masks,              \* masks given to commands and set by users
    Merges,             \* pairs of channels MERGE may be given
    inviteme, manager,  \* lvlInviteMe, UL_MANAGER
    Durations, MAXBANS, max_chan_bans, bantimeout,
    MaxBans, MaxTime    \* bounds on the bans ever made and on the clock

VARIABLES
    registered, suspended,  \* channels
    bans,       \* channel -> sequence of ChanServ's bans
    timers,     \* set of [ban, when]
    made,       \* number of bans made
    banlist,    \* channel -> set of [mask, set]
    members,    \* channel -> its members
    moded,      \* channel -> members with op, halfop or voice
    kicked,     \* pairs <<channel, user>> with a kick on its way
    authed, nick, now

vars == <<registered, suspended, bans, timers, made, banlist, members, moded, kicked, authed, nick, now>>
banVars == <<bans, timers, made>>
userVars == <<members, moded, kicked, authed, nick>>

Init ==
    /\ registered = Channels /\ suspended = {}
    /\ bans = [c \in Channels |-> <<>>] /\ timers = {} /\ made = 0
    /\ banlist = [c \in Channels |-> {}]
    /\ members = [c \in Channels |-> {}] /\ moded = [c \in Channels |-> {}] /\ kicked = {}
    /\ authed = {} /\ nick \in [Users -> {CHOOSE n \in Nicks : TRUE}]
    /\ now = 1

AllHosts == {Host[u] : u \in Users} \union {Account[u] : u \in Users}

\* match_ircglobs.
Covers(m, n) == n.nicks \subseteq m.nicks /\ n.hosts \subseteq m.hosts

\* user_matches_glob for a user with that nick, logged in or not; the host is hidden behind the account,
\* and MATCH_VISIBLE leaves it out.
MatchesAs(u, n, in, m, visible) ==
    /\ n \in m.nicks
    /\ ((IF in THEN {Account[u]} ELSE {}) \union (IF visible /\ in THEN {} ELSE {Host[u]})) \intersect m.hosts # {}
Matches(u, m, visible) == MatchesAs(u, nick[u], u \in authed, m, visible)

\* generate_hostmask(victim, GENMASK_STRICT_HOST|GENMASK_ANY_IDENT).
HostMask(u) == [nicks |-> Nicks, hosts |-> {IF u \in authed THEN Account[u] ELSE Host[u]}]

GetChannelAccess(c, u) == IF u \in authed \union Officers THEN Access[c][u] ELSE 0

\* protect_user, for a victim and an aggressor that are not the same; by is a user or "chanserv".
protect_user(c, u, by, invitables) ==
    LET victim    == GetChannelAccess(c, u)
        aggressor == IF by = "chanserv" THEN 0 ELSE GetChannelAccess(c, by)
    IN  /\ u # by
        /\ \/ invitables /\ victim > 0 /\ victim >= inviteme
           \/ /\ Protect[c] # "n" /\ (Protect[c] = "a" \/ victim > 0) /\ by # "chanserv"
              /\ \/ aggressor = 0
                 \/ victim > 0 /\ Protect[c] = "l" /\ victim > aggressor
                 \/ victim > 0 /\ Protect[c] \in {"a", "e"} /\ victim >= aggressor

\* mod_chanmode_apply for a ban that is set: it takes the place of those it covers.
SetBan(list, m) == {b \in list : ~Covers(m, b.mask)} \union {[mask |-> m, set |-> now]}
UnsetBans(list, ms) == {b \in list : b.mask \notin ms}

TimerOf(b) == IF b.expires = 0 THEN {} ELSE {[ban |-> b.id, when |-> b.expires]}
TimersOf(ids) == {t \in timers : t.ban \in ids}

\* add_channel_ban.
NewBan(m, triggered, expires) ==
    [id |-> made + 1, mask |-> m, set |-> now, triggered |-> triggered, expires |-> expires]

\* del_channel_ban for the bans of a channel whose numbers are given.
DelBans(list, ids) == SelectSeq(list, LAMBDA b : b.id \notin ids)
Ids(list) == {list[i].id : i \in DOMAIN list}

\* What is in the channel's list when the new ban has been compared with every one: those it covers
\* are deleted, up to the first that covers it, where the loop ends.
Stop(list, m) == {i \in DOMAIN list : Covers(list[i].mask, m) /\ \A j \in 1..i-1 : ~Covers(list[j].mask, m)}
CoveredNever(list, m, stop) == {}

CoveredBefore(list, m, stop) ==
    {list[i].id : i \in {j \in DOMAIN list : Covers(m, list[j].mask) /\ \A s \in stop : j < s}}

\* The part of eject_user that adds a ban to ChanServ's list; "redundant" ends the command there.
AddLamer(c, m, triggered, duration) ==
    LET list    == bans[c]
        stop    == Stop(list, m)
        gone    == CoveredBefore(list, m, stop)
        exact   == stop # {} /\ \A i \in stop : list[i].mask = m
        old     == list[CHOOSE i \in stop : TRUE]
        longer  == duration = 0 \/ now + duration > old.expires
        until   == IF duration = 0 THEN 0 ELSE now + duration
        fresh   == NewBan(m, triggered, until)
        left    == DelBans(list, gone)
        dropped == timers \ TimersOf(gone)
    IN  IF stop = {}
        THEN [list |-> <<fresh>> \o left, timers |-> dropped \union TimerOf(fresh), made |-> made + 1, redundant |-> FALSE]
        ELSE IF exact /\ (old.expires = 0 \/ longer)
        THEN LET ext == IF old.expires = 0 THEN old ELSE [old EXCEPT !.expires = until]
             IN  [list |-> [i \in DOMAIN left |-> IF left[i].id = old.id THEN ext ELSE left[i]],
                  timers |-> (dropped \ TimersOf({old.id})) \union TimerOf(ext), made |-> made, redundant |-> FALSE]
        ELSE [list |-> left, timers |-> dropped, made |-> made, redundant |-> TRUE]

\* eject_user: the ban, those it throws out, what it does; duration 0 is no end.
eject_user(c, by, m, victims, action, duration) ==
    LET add == IF "ADD_LAMER" \in action
               THEN AddLamer(c, m, IF victims # {} THEN now ELSE 0, duration)
               ELSE [list |-> bans[c], timers |-> timers, made |-> made, redundant |-> FALSE]
        full   == Cardinality(banlist[c]) >= MAXBANS
        exists == \E b \in banlist[c] : Covers(b.mask, m)
        goes   == ~add.redundant /\ ("BAN" \notin action \/ ~full)
    IN  /\ "ADD_LAMER" \in action => Len(bans[c]) < max_chan_bans
        /\ "KICK" \in action /\ "BAN" \notin action => victims # {}
        /\ add.made <= MaxBans
        /\ bans' = [bans EXCEPT ![c] = add.list] /\ timers' = add.timers /\ made' = add.made
        /\ banlist' = IF goes /\ "BAN" \in action /\ ~exists
                      THEN [banlist EXCEPT ![c] = SetBan(@, m)] ELSE banlist
        /\ moded' = IF goes /\ "BAN" \in action THEN [moded EXCEPT ![c] = @ \ victims] ELSE moded
        /\ kicked' = IF ~goes \/ (exists /\ action = {"BAN"}) THEN kicked
                     ELSE kicked \union
                         {<<c, u>> : u \in {v \in victims :
                             IF "ADD_LAMER" \in action THEN ~protect_user(c, v, by, TRUE) ELSE "KICK" \in action}}
        /\ UNCHANGED <<registered, suspended, members, authed, nick, now>>

Active(c) == c \in registered \ suspended
Staff(c, u) == GetChannelAccess(c, u) > 0
Commanders == Users \union Officers
Actions == {{"KICK"}, {"BAN"}, {"KICK", "BAN"}, {"KICK", "BAN", "ADD_LAMER"}}

\* KICK, BAN, KICKBAN, ADDLAMER and ADDTIMEDLAMER of a user.
EjectUser(c, by, u, action, duration) ==
    /\ Active(c) /\ Staff(c, by) /\ ~protect_user(c, u, by, FALSE)
    /\ eject_user(c, by, HostMask(u), {u} \intersect members[c], action, duration)

\* The same of a mask: no member it matches may be protected (bad_channel_ban).
EjectMask(c, by, m, action, duration) ==
    LET victims == {u \in members[c] : Matches(u, m, TRUE)}
    IN  /\ Active(c) /\ Staff(c, by) /\ \A u \in victims : ~protect_user(c, u, by, FALSE)
        /\ eject_user(c, by, m, victims, action, duration)

\* chanserv_ctcp_check: the channel's reaction to a CTCP of someone who is not on its list.
chanserv_ctcp_check(c, u, duration) ==
    /\ Active(c) /\ GetChannelAccess(c, u) = 0 /\ Reaction[c] # "n" /\ duration > 0
    /\ eject_user(c, "chanserv", HostMask(u), {u} \intersect members[c],
           (IF u \in members[c] \/ Reaction[c] = "k" THEN {"KICK"} ELSE {})
           \union (IF Reaction[c] \in {"b", "t"} THEN {"BAN"} ELSE {})
           \union (IF Reaction[c] = "t" THEN {"ADD_LAMER"} ELSE {}), duration)

\* unban_user: the channel's bans go, and ChanServ's with the action DEL_LAMER.
unban_user(c, hit(_), lamers) ==
    LET ids == IF lamers THEN {bans[c][i].id : i \in {j \in DOMAIN bans[c] : hit(bans[c][j].mask)}} ELSE {}
    IN  /\ Active(c)
        /\ banlist' = [banlist EXCEPT ![c] = {b \in @ : ~hit(b.mask)}]
        /\ bans' = [bans EXCEPT ![c] = DelBans(@, ids)] /\ timers' = timers \ TimersOf(ids)
        /\ UNCHANGED <<registered, suspended, made, userVars, now>>

\* UNBAN and DELLAMER, of a user and of a mask, and UNBANME.
UnbanUser(c, by, u, lamers) == Staff(c, by) /\ unban_user(c, LAMBDA m : Matches(u, m, TRUE), lamers)
UnbanMask(c, by, mask, lamers) == Staff(c, by) /\ unban_user(c, LAMBDA m : Covers(mask, m), lamers)
cmd_unbanme(c, u) == Staff(c, u) /\ unban_user(c, LAMBDA m : Matches(u, m, TRUE), Access[c][u] >= manager)

cmd_unbanall(c, by) ==
    /\ Active(c) /\ Staff(c, by) /\ banlist[c] # {}
    /\ banlist' = [banlist EXCEPT ![c] = {}]
    /\ UNCHANGED <<registered, suspended, banVars, userVars, now>>

\* TRIM bans: those neither set nor triggered in the time given.
cmd_trim_bans(c, by, duration) ==
    LET ids == {b.id : b \in {x \in ToSet(bans[c]) : ~(x.triggered > 0 /\ x.triggered >= now - duration)
                                                     /\ x.set < now - duration}}
    IN  /\ Active(c) /\ Staff(c, by)
        /\ bans' = [bans EXCEPT ![c] = DelBans(@, ids)] /\ timers' = timers \ TimersOf(ids)
        /\ UNCHANGED <<registered, suspended, made, banlist, userVars, now>>

\* expire_ban, from its timer.
expire_ban(t) ==
    LET of == {c \in registered : t.ban \in Ids(bans[c])}
    IN  /\ t \in timers /\ t.when <= now
        /\ timers' = timers \ {t}
        /\ bans' = [c \in Channels |-> DelBans(bans[c], {t.ban})]
        /\ banlist' = [c \in Channels |-> IF c \in of \ suspended
               THEN UnsetBans(banlist[c], {b.mask : b \in {x \in ToSet(bans[c]) : x.id = t.ban}})
               ELSE banlist[c]]
        /\ UNCHANGED <<registered, suspended, made, userVars, now>>

\* expire_bans: the channel's own bans that are older than its chBanTimeout.
expire_bans ==
    /\ bantimeout > 0
    /\ banlist' = [c \in Channels |-> IF c \in registered
                       THEN {b \in banlist[c] : b.set >= now - bantimeout} ELSE banlist[c]]
    /\ UNCHANGED <<registered, suspended, banVars, userVars, now>>

\* The first of ChanServ's bans that matches, moved to the front, enforced.
Triggered(list, i) ==
    <<[list[i] EXCEPT !.triggered = now]>> \o SelectSeq(list, LAMBDA b : b.id # list[i].id)
FirstMatch(c, u, visible) ==
    {i \in DOMAIN bans[c] : Matches(u, bans[c][i].mask, visible)
                            /\ \A j \in 1..i-1 : ~Matches(u, bans[c][j].mask, visible)}

\* handle_join: a ban is enforced against those without access, the others get their mode.
handle_join(c, u) ==
    LET hit == IF GetChannelAccess(c, u) = 0 /\ (\A m \in Exempts[c] : ~Matches(u, m, FALSE))
                  /\ Cardinality(banlist[c]) < MAXBANS /\ Active(c)
               THEN FirstMatch(c, u, FALSE) ELSE {}
    IN  /\ u \notin members[c]
        /\ members' = [members EXCEPT ![c] = @ \union {u}]
        /\ moded' = IF Active(c) /\ GetChannelAccess(c, u) > 0 THEN [moded EXCEPT ![c] = @ \union {u}] ELSE moded
        /\ IF hit = {} THEN UNCHANGED <<bans, banlist, kicked>>
           ELSE \E i \in hit :
                /\ bans' = [bans EXCEPT ![c] = Triggered(@, i)]
                /\ banlist' = [banlist EXCEPT ![c] = SetBan(@, bans[c][i].mask)]
                /\ kicked' = kicked \union {<<c, u>>}
        /\ UNCHANGED <<registered, suspended, timers, made, authed, nick, now>>

\* check_bans, when irc_mark has marked the members of a class: no access is looked at.
check_bans(c, u) ==
    /\ c \in registered /\ u \in members[c] /\ Cardinality(banlist[c]) < MAXBANS
    /\ \E i \in FirstMatch(c, u, FALSE) :
        /\ bans' = [bans EXCEPT ![c] = Triggered(@, i)]
        /\ banlist' = [banlist EXCEPT ![c] = SetBan(@, bans[c][i].mask)]
    /\ kicked' = kicked \union {<<c, u>>}
    /\ UNCHANGED <<registered, suspended, timers, made, members, moded, authed, nick, now>>

\* handle_auth and handle_nick_change: every channel of the user in turn, with the nick, the login and
\* the modes it has now.  Those who may invite themselves are left alone, and those a channel ban matches.
Enforced(u, n, in, mods) ==
    LET hits == [c \in Channels |->
            IF /\ Active(c) /\ u \in members[c] \ mods[c] /\ ~(in /\ Access[c][u] > 0 /\ Access[c][u] >= inviteme)
               /\ \A b \in banlist[c] : ~MatchesAs(u, n, in, b.mask, FALSE)
            THEN {i \in DOMAIN bans[c] : MatchesAs(u, n, in, bans[c][i].mask, TRUE)
                                         /\ \A j \in 1..i-1 : ~MatchesAs(u, n, in, bans[c][j].mask, TRUE)}
            ELSE {}]
        hit(c) == CHOOSE i \in hits[c] : TRUE
        struck == {c \in Channels : hits[c] # {}}
    IN  /\ bans' = [c \in Channels |-> IF c \in struck THEN [bans[c] EXCEPT ![hit(c)].triggered = now] ELSE bans[c]]
        /\ banlist' = [c \in Channels |-> IF c \in struck THEN SetBan(banlist[c], bans[c][hit(c)].mask) ELSE banlist[c]]
        /\ kicked' = kicked \union {<<c, u>> : c \in struck}
        /\ moded' = mods
        /\ UNCHANGED <<registered, suspended, timers, made, members, now>>

handle_nick_change(u, n) ==
    /\ n # nick[u] /\ nick' = [nick EXCEPT ![u] = n] /\ UNCHANGED authed
    /\ Enforced(u, n, u \in authed, moded)

\* handle_auth gives those on a channel's list their mode first; LOGOUT is seen by nobody here.
handle_auth(u) ==
    /\ u \notin authed /\ authed' = authed \union {u} /\ UNCHANGED nick
    /\ Enforced(u, nick[u], TRUE,
           [c \in Channels |-> IF Active(c) /\ u \in members[c] /\ Access[c][u] > 0 THEN moded[c] \union {u} ELSE moded[c]])
LogOut(u) ==
    /\ u \in authed /\ authed' = authed \ {u}
    /\ UNCHANGED <<registered, suspended, banVars, banlist, members, moded, kicked, nick, now>>

-----------------------------------------------------------------------------
\* merge_bans.  A ban of the source is compared with the target's first bans one by one: a broader one
\* takes it over, a narrower one is deleted; it is moved at the first comparison.  With none to compare
\* it with it is not moved at all and is on no list afterwards.
MergeOne(st, s) ==
    LET n     == Len(st.front)
        stops == {i \in 1..n : Covers(st.front[i].mask, s.mask)}
        upto  == IF stops = {} THEN n ELSE Min(stops) - 1
        narrow == {i \in 1..upto : Covers(s.mask, st.front[i].mask)}
        later(a, b) == IF a > b THEN a ELSE b
        expires == Max({s.expires} \union {st.front[i].expires : i \in narrow})
        moved == [s EXCEPT !.expires = expires]
        front == SelectSeq([i \in 1..n |-> IF i \in stops /\ i = upto + 1
                                           THEN [st.front[i] EXCEPT !.expires = later(@, expires)] ELSE st.front[i]],
                           LAMBDA b : \A i \in narrow : b.id # st.front[i].id)
        gone  == {st.front[i].id : i \in narrow} \union (IF stops = {} THEN {} ELSE {s.id})
    IN  [front |-> front, timers |-> {t \in st.timers : t.ban \notin gone},
         head |-> IF n > 0 /\ stops = {} THEN <<moved>> \o st.head ELSE st.head]

merge_bans(from, to) ==
    LET st == FoldLeft(MergeOne, [front |-> bans[to], timers |-> timers, head |-> <<>>], bans[from])
    IN  /\ bans' = [bans EXCEPT ![from] = <<>>, ![to] = st.head \o st.front]
        /\ timers' = st.timers

\* MERGE: the source's registration ends.
cmd_merge(from, to, by) ==
    /\ <<from, to>> \in Merges /\ {from, to} \subseteq registered \ suspended /\ Staff(from, by) /\ Staff(to, by)
    /\ merge_bans(from, to)
    /\ registered' = registered \ {from}
    /\ UNCHANGED <<suspended, made, banlist, userVars, now>>

\* unregister_channel.
unregister_channel(c) ==
    /\ c \in registered
    /\ registered' = registered \ {c} /\ suspended' = suspended \ {c}
    /\ bans' = [bans EXCEPT ![c] = <<>>] /\ timers' = timers \ TimersOf(Ids(bans[c]))
    /\ UNCHANGED <<made, banlist, userVars, now>>

\* A channel without a registration is registered; CSUSPEND and its end.
register_channel(c) ==
    /\ c \notin registered /\ registered' = registered \union {c}
    /\ UNCHANGED <<suspended, banVars, banlist, userVars, now>>
cmd_csuspend(c) ==
    /\ c \in registered /\ suspended' = IF c \in suspended THEN suspended \ {c} ELSE suspended \union {c}
    /\ UNCHANGED <<registered, banVars, banlist, userVars, now>>

\* ban_read_helper for what chanserv_write_bans saved, in the order of the file.
Restart ==
    LET kept(c) == {b \in ToSet(bans[c]) : b.expires = 0 \/ b.expires >= now}
    IN  /\ \E order \in [Channels -> SetToSeqs(UNION {kept(c) : c \in Channels})] :
            bans' = [c \in Channels |-> SelectSeq(order[c], LAMBDA b : b \in kept(c))]
        /\ timers' = UNION {TimerOf(b) : b \in UNION {kept(c) : c \in Channels}}
        /\ UNCHANGED <<registered, suspended, made, banlist, userVars, now>>

-----------------------------------------------------------------------------
\* The network: a kick takes effect, a member leaves or gets a mode, a user sets or lifts a ban, logs out.
Leave(c, u) ==
    /\ u \in members[c]
    /\ members' = [members EXCEPT ![c] = @ \ {u}] /\ moded' = [moded EXCEPT ![c] = @ \ {u}]
    /\ kicked' = kicked \ {<<c, u>>}
    /\ UNCHANGED <<registered, suspended, banVars, banlist, authed, nick, now>>
Moded(c, u) ==
    /\ u \in members[c] \ moded[c] /\ moded' = [moded EXCEPT ![c] = @ \union {u}]
    /\ UNCHANGED <<registered, suspended, banVars, banlist, members, kicked, authed, nick, now>>

\* A ban a member sets is taken back when it matches someone who is protected from them (handle_mode).
handle_mode(c, by, m) ==
    LET bad == Active(c) /\ \E u \in members[c] : Matches(u, m, TRUE) /\ protect_user(c, u, by, FALSE)
    IN  /\ by \in moded[c]
        /\ banlist' = [banlist EXCEPT ![c] = IF bad THEN UnsetBans(SetBan(@, m), {m}) ELSE SetBan(@, m)]
        /\ UNCHANGED <<registered, suspended, banVars, userVars, now>>

Tick == now < MaxTime /\ now' = now + 1
        /\ UNCHANGED <<registered, suspended, banVars, banlist, userVars>>

Next ==
    \/ \E c \in Channels, by \in Commanders, a \in Actions, d \in {0} \union Durations :
        /\ d # 0 => "ADD_LAMER" \in a
        /\ \/ \E u \in Users : EjectUser(c, by, u, a, d)
           \/ \E m \in Masks : EjectMask(c, by, m, a, d)
    \/ \E c \in Channels, u \in Users, d \in Durations : chanserv_ctcp_check(c, u, d)
    \/ \E c \in Channels, by \in Commanders, lamers \in BOOLEAN :
        \/ \E u \in Users : UnbanUser(c, by, u, lamers)
        \/ \E m \in Masks : UnbanMask(c, by, m, lamers)
    \/ \E c \in Channels, by \in Commanders :
        \/ cmd_unbanall(c, by)
        \/ \E d \in Durations : cmd_trim_bans(c, by, d)
        \/ \E to \in Channels : cmd_merge(c, to, by)
    \/ \E c \in Channels, u \in Users :
        \/ cmd_unbanme(c, u)
        \/ handle_join(c, u)
        \/ check_bans(c, u)
        \/ Leave(c, u)
        \/ Moded(c, u)
        \/ \E m \in Masks : handle_mode(c, u, m)
    \/ \E t \in timers : expire_ban(t)
    \/ expire_bans
    \/ \E u \in Users : handle_auth(u)
    \/ \E u \in Users : LogOut(u)
    \/ \E u \in Users, n \in Nicks : handle_nick_change(u, n)
    \/ \E c \in Channels : unregister_channel(c)
    \/ \E c \in Channels : register_channel(c)
    \/ \E c \in Channels : cmd_csuspend(c)
    \/ Restart
    \/ Tick

Spec == Init /\ [][Next]_vars

-----------------------------------------------------------------------------
\* Each of ChanServ's bans that ends has its timer, at the time it ends, and every timer belongs to a ban
\* on the list of a registered channel: expire_ban follows its pointer without a test (chanserv.c:1653).
\* No ban of a list covers another of the same list, so lifting one lifts all it stands for (eject_user).
BansTimed ==
    /\ timers = UNION {TimerOf(b) : b \in UNION {ToSet(bans[c]) : c \in registered}}
    /\ \A c \in Channels : \A i, j \in DOMAIN bans[c] :
           i # j => ~Covers(bans[c][i].mask, bans[c][j].mask)
=============================================================================
