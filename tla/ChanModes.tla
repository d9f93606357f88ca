----------------------------- MODULE ChanModes ------------------------------
(* What ChanServ enforces in one registered channel (chanserv.c): the modes   *)
(* of its members, the mode lock, the dynamic limit, the topic and the        *)
(* options that govern them.  A user's account is its own.                    *)
EXTENDS Integers, FiniteSetTheorems, TLAPS

CONSTANTS
    Users,
    Officers,           \* owners of the channel who give commands from outside, logged in
    Accesses,           \* access a user may be given, 0 for none
    UserSuspended,      \* users whose access is suspended
    NoAutoOp,           \* users who want no automatic modes
    Automodes,          \* values SET AUTOMODE may be given: "y", "n", "v", "h", "o", "m", "l"
    Protect,            \* chProtect
    Settable, Levels,   \* level options and switches SET is used for, and values of the level options
    MemberModes,        \* modes OP, VOICE and the like are used for
    Flags, Limits,      \* channel modes without a parameter, and limits, MODE may be given
    Topics, TopicMasks, \* topics; topic masks
    Fits, Conform,      \* topic mask -> the topics it matches, topic -> what conform_topic makes, "" for none
    adjust_threshold, adjust_delay,
    Word,               \* an unsigned int counts modulo this (2^32)
    MaxTime

UL_PEON == 1
UL_HALFOP == 150
UL_OP == 200
UL_COOWNER == 400
UL_OWNER == 500

VARIABLES
    registered, suspended,
    automode, level,    \* chOpts[chAutomode]; level option -> value
    lock,               \* [set, clear, limit]: cData->modes
    modes, limit,       \* of the channel
    dynlimit, offchannel, may_opchan,   \* flags of the registration
    topic, default, topic_mask,         \* "" for none
    members,            \* member -> its modes, of "q", "a", "o", "h", "v"
    authed, access,     \* users logged in; user -> access of its account
    limitTimers,        \* times chanserv_adjust_limit is queued for, one entry each
    fresh,              \* members whose modes are those their join gave them
    now

vars == <<registered, suspended, automode, level, lock, modes, limit, dynlimit, offchannel, may_opchan,
          topic, default, topic_mask, members, authed, access, limitTimers, fresh, now>>
regVars == <<registered, suspended>>
optVars == <<automode, level, dynlimit, offchannel, may_opchan>>
topicVars == <<topic, default, topic_mask>>
modeVars == <<lock, modes, limit>>
userVars == <<members, authed, access, fresh>>

Options == {"enfops", "enfhalfops", "enfmodes", "enftopic", "topicsnarf", "setters"}
Defaults == [o \in Options |-> CASE o \in {"enfops", "enfhalfops"} -> 300 [] o = "setters" -> 400
                                 [] o = "topicsnarf" -> 501 [] OTHER -> 200]
NoLock == [set |-> {}, clear |-> {}, limit |-> 0]

Init ==
    /\ registered = TRUE /\ suspended = FALSE
    /\ automode = "y" /\ level = Defaults
    /\ lock = NoLock /\ modes = {} /\ limit = 0
    /\ dynlimit = FALSE /\ offchannel = FALSE /\ may_opchan = FALSE
    /\ topic = "" /\ default = "" /\ topic_mask = ""
    /\ members = [u \in {} |-> {}] /\ authed = {} /\ access = [u \in Users |-> 0] /\ limitTimers = {} /\ fresh = {} /\ now = 0

Active == registered /\ ~suspended
Present == DOMAIN members
Count == Cardinality(Present) + (IF offchannel THEN 0 ELSE 1)

\* GetTrueChannelAccess, and GetChannelAccess, which leaves out suspended access.
TrueAccess(u) == IF u \in Officers THEN UL_OWNER ELSE IF u \in authed THEN access[u] ELSE 0
GetChannelAccess(u) == IF u \in UserSuspended THEN 0 ELSE TrueAccess(u)

check_user_level(u, o) == level[o] = 0 \/ (GetChannelAccess(u) > 0 /\ level[o] <= GetChannelAccess(u))

\* protect_user for an aggressor that is a user.
protect_user(v, by) ==
    /\ v # by /\ Protect # "n" /\ (Protect = "a" \/ GetChannelAccess(v) > 0)
    /\ \/ GetChannelAccess(by) = 0
       \/ Protect = "l" /\ GetChannelAccess(v) > GetChannelAccess(by)
       \/ Protect \in {"a", "e"} /\ GetChannelAccess(v) > 0 /\ GetChannelAccess(v) >= GetChannelAccess(by)

Gets(ms, u, add) == [ms EXCEPT ![u] = @ \union add]
Loses(ms, u, del) == [ms EXCEPT ![u] = @ \ del]

\* A change of the channel's modes; a limit of 0 is none (mod_chanmode_apply).
NoChange == [set |-> {}, clear |-> {}, limit |-> 0]
ModesAfter(ms, ch) == (ms \ ch.clear) \union ch.set
LimitAfter(l, ch) == IF "l" \in ch.set THEN ch.limit ELSE l

\* mod_chanmode_parse for changes without members; one letter is set or cleared, secret and private
\* exclude each other.
Changes ==
    {[set |-> {f}, clear |-> IF f = "s" THEN {"p"} ELSE IF f = "p" THEN {"s"} ELSE {}, limit |-> 0] : f \in Flags}
    \union {[set |-> {}, clear |-> {f}, limit |-> 0] : f \in Flags \union (IF Limits = {} THEN {} ELSE {"l"})}
    \union {[set |-> {"l"}, clear |-> {}, limit |-> l] : l \in Limits}

mode_lock_violated(ch) ==
    \/ lock.set \intersect ch.clear # {} \/ lock.clear \intersect ch.set # {}
    \/ "l" \in lock.set \intersect ch.set /\ lock.limit # ch.limit

-----------------------------------------------------------------------------
\* The mode a user's access gives on a join or a login (handle_join, handle_auth).
AccessModes(u, acc, voiceInM) ==
    IF automode = "n" \/ u \in NoAutoOp THEN {}
    ELSE IF acc >= UL_PEON /\ automode = "l" THEN {"v"}
    ELSE IF acc >= UL_OWNER THEN {"q", "o"}
    ELSE IF acc >= UL_COOWNER THEN {"a", "o"}
    ELSE IF acc >= UL_OP THEN {"o"}
    ELSE IF acc >= UL_HALFOP THEN {"h"}
    ELSE IF acc >= UL_PEON /\ (automode # "m" \/ voiceInM) THEN {"v"}
    ELSE {}
Everyones == IF automode \in {"v", "h", "o"} THEN {automode} ELSE {}

Requeued == {now + adjust_delay}
QueuedAgain == limitTimers \union Requeued

\* chanserv_adjust_limit's timer is queued anew: any earlier one is removed.
Queued == Requeued

\* What resync_channel leaves of a member's modes.
Resynced(u, has) ==
    LET acc == GetChannelAccess(u)
    IN  IF automode = "n" THEN {}
        ELSE IF acc > 0 /\ u \in NoAutoOp THEN has
        ELSE IF acc >= UL_PEON /\ automode = "l" THEN has \union {"v"}
        ELSE IF acc >= UL_OP THEN has \union {"o"}
        ELSE IF acc >= UL_HALFOP THEN (has \ {"o"}) \union {"h"}
        ELSE IF acc >= UL_PEON THEN IF automode = "m" THEN has \ {"o", "h", "v"} ELSE (has \ {"o", "h"}) \union {"v"}
        ELSE Everyones

JoinVoiced(u, flooded) ==
    (IF flooded THEN {} ELSE Everyones) \union (IF TrueAccess(u) > 0 THEN AccessModes(u, TrueAccess(u), TRUE) ELSE {})

\* The modes handle_join gives: everyone's in a channel that is not flooded, and those of the access.
JoinModes(u, flooded) ==
    (IF flooded THEN {} ELSE Everyones)
    \union (IF GetChannelAccess(u) > 0 THEN AccessModes(u, GetChannelAccess(u), FALSE) ELSE {})

\* handle_join, in a burst or not.  The limit is unsigned: below the number of members there is much room.
handle_join(u, burst, flooded) ==
    LET gets == IF Active /\ ~burst THEN JoinModes(u, flooded) ELSE {}
        room == (limit - (Count + 1)) % Word
    IN  /\ u \notin Present
        /\ members' = [v \in Present \union {u} |-> IF v = u THEN gets ELSE members[v]]
        /\ fresh' = IF Active /\ ~burst /\ ~flooded THEN fresh \union {u} ELSE fresh
        /\ limitTimers' = IF Active /\ dynlimit /\ ~burst /\ ~flooded /\ room < adjust_threshold THEN Queued ELSE limitTimers
        /\ UNCHANGED <<regVars, optVars, topicVars, modeVars, authed, access, now>>

handle_part(u, flooded) ==
    LET room == (limit - (Count - 1)) % Word
    IN  /\ u \in Present
        /\ members' = [v \in Present \ {u} |-> members[v]] /\ fresh' = fresh \ {u}
        /\ limitTimers' = IF Active /\ dynlimit /\ ~flooded /\ room > adjust_threshold + 5 THEN Queued ELSE limitTimers
        /\ UNCHANGED <<regVars, optVars, topicVars, modeVars, authed, access, now>>

\* handle_auth gives a member the modes of its access; LOGOUT leaves them.
handle_auth(u) ==
    /\ u \notin authed /\ authed' = authed \union {u} /\ fresh' = fresh \ {u}
    /\ members' = IF u \in Present /\ Active /\ u \notin UserSuspended /\ access[u] > 0
                  THEN Gets(members, u, AccessModes(u, access[u], TRUE)) ELSE members
    /\ UNCHANGED <<regVars, optVars, topicVars, modeVars, access, limitTimers, now>>
LogOut(u) ==
    /\ u \in authed /\ authed' = authed \ {u} /\ fresh' = fresh \ {u}
    /\ UNCHANGED <<regVars, optVars, topicVars, modeVars, members, access, limitTimers, now>>

\* CLVL, ADDUSER and DELUSER change an access and no mode.
SetAccess(u, a) ==
    /\ registered /\ a # access[u] /\ access' = [access EXCEPT ![u] = a] /\ fresh' = fresh \ {u}
    /\ UNCHANGED <<regVars, optVars, topicVars, modeVars, members, authed, limitTimers, now>>

MembersChange(ms) ==
    /\ members' = ms /\ fresh' = {u \in fresh : ms[u] = members[u]}
    /\ UNCHANGED <<regVars, optVars, topicVars, modeVars, authed, access, limitTimers, now>>

\* UP and DOWN (UPALL and DOWNALL are these for each channel of the user).
cmd_up(u) ==
    LET acc == GetChannelAccess(u)
        gets == IF acc >= UL_OP THEN {"o"} ELSE IF acc >= UL_HALFOP THEN {"h"}
                ELSE IF acc >= UL_PEON /\ automode # "m" THEN {"v"} ELSE {}
    IN  Active /\ u \in Present /\ ~(gets \subseteq members[u]) /\ MembersChange(Gets(members, u, gets))
cmd_down(u) == Active /\ u \in Present /\ members[u] # {} /\ MembersChange(Loses(members, u, members[u]))

\* OP, HOP, PROTECT, OWNER, VOICE and their opposites, with the test each one has (modify_users).
modify_users(by, v, m, add) ==
    LET least == CASE m = "o" -> UL_OP [] m = "h" -> UL_HALFOP [] m = "a" -> UL_COOWNER [] m = "q" -> UL_OWNER [] OTHER -> 0
        enf   == IF m = "h" THEN "enfhalfops" ELSE "enfops"
        valid == IF m = "v" THEN TRUE
                 ELSE IF add THEN GetChannelAccess(v) >= least \/ check_user_level(by, enf)
                 ELSE ~protect_user(v, by)
    IN  /\ Active /\ GetChannelAccess(by) > 0 /\ v \in Present /\ valid
        /\ MembersChange(IF add THEN Gets(members, v, {m}) ELSE Loses(members, v, {m}))

\* resync_channel, by RESYNC or chanserv_auto_resync.
resync_channel == Active /\ MembersChange([u \in Present |-> Resynced(u, members[u])])

-----------------------------------------------------------------------------
\* A user with op changes the modes of the channel or of a member, and handle_mode bounces what the lock,
\* the protection of the victim or the right to give op does not allow.
handle_mode(by, ch) ==
    LET bounce == Active /\ ~check_user_level(by, "enfmodes") /\ mode_lock_violated(ch)
        after  == ModesAfter(modes, ch)
        lim    == LimitAfter(limit, ch)
    IN  /\ by \in Present /\ "o" \in members[by]
        /\ modes' = IF bounce THEN ModesAfter(after, lock) ELSE after
        /\ limit' = IF bounce THEN LimitAfter(lim, lock) ELSE lim
        /\ UNCHANGED <<regVars, optVars, topicVars, lock, userVars, limitTimers, now>>
handle_mode_op(by, v) ==
    /\ by \in Present /\ "o" \in members[by] /\ v \in Present
    /\ MembersChange(IF ~Active \/ GetChannelAccess(v) >= UL_OP \/ check_user_level(by, "enfops")
                     THEN Gets(members, v, {"o"}) ELSE Loses(members, v, {"o"}))
handle_mode_deop(by, v) ==
    /\ by \in Present /\ "o" \in members[by] /\ v \in Present
    /\ MembersChange(IF Active /\ protect_user(v, by)
                     THEN Gets(Loses(members, by, {"o"}), v, {"o"}) ELSE Loses(members, v, {"o"}))

\* MODE with a change, and without one, which sets what is locked; no lock, nothing to set.
cmd_mode(by, ch) ==
    /\ Active /\ GetChannelAccess(by) > 0 /\ (check_user_level(by, "enfmodes") \/ ~mode_lock_violated(ch))
    /\ modes' = ModesAfter(modes, ch) /\ limit' = LimitAfter(limit, ch)
    /\ UNCHANGED <<regVars, optVars, topicVars, lock, userVars, limitTimers, now>>
cmd_mode_default ==
    /\ Active /\ lock.set \union lock.clear # {}
    /\ modes' = ModesAfter(modes, lock) /\ limit' = LimitAfter(limit, lock)
    /\ UNCHANGED <<regVars, optVars, topicVars, lock, userVars, limitTimers, now>>

\* SET MODES: the new lock takes effect at once; "*" ends it.
chan_opt_modes(by, ch) ==
    /\ Active /\ check_user_level(by, "setters") /\ check_user_level(by, "enfmodes")
    /\ lock' = IF ch = NoChange THEN NoLock ELSE ch
    /\ modes' = ModesAfter(modes, ch) /\ limit' = LimitAfter(limit, ch)
    /\ UNCHANGED <<regVars, optVars, topicVars, userVars, limitTimers, now>>

\* chanserv_adjust_limit: the flag is not looked at again.
chanserv_adjust_limit(t) ==
    LET wanted == Count + adjust_threshold + 5
        locked == "l" \in lock.set
    IN  /\ t \in limitTimers /\ t <= now
        /\ limitTimers' = limitTimers \ {t}
        /\ IF suspended \/ (locked /\ wanted = lock.limit) THEN UNCHANGED <<modes, limit>>
           ELSE /\ modes' = modes \union {"l"}
                /\ limit' = IF locked /\ wanted > lock.limit THEN lock.limit ELSE wanted
        /\ UNCHANGED <<regVars, optVars, topicVars, lock, userVars, now>>

\* SET DYNLIMIT: switched off, the limit goes and the timer stays.
chan_opt_dynlimit(by, on) ==
    /\ Active /\ check_user_level(by, "setters")
    /\ dynlimit' = on /\ modes' = IF on THEN modes ELSE modes \ {"l"}
    /\ UNCHANGED <<regVars, automode, level, offchannel, may_opchan, topicVars, lock, limit, userVars, limitTimers, now>>

\* handle_server_link: another server joins the network.
handle_server_link ==
    /\ registered
    /\ may_opchan' = (may_opchan \/ ~suspended)
    /\ limitTimers' = IF dynlimit /\ (limit - Count) % Word < adjust_threshold THEN Queued ELSE limitTimers
    /\ UNCHANGED <<regVars, automode, level, dynlimit, offchannel, topicVars, modeVars, userVars, now>>
cmd_opchan ==
    /\ Active /\ may_opchan /\ ~offchannel /\ may_opchan' = FALSE
    /\ UNCHANGED <<regVars, automode, level, dynlimit, offchannel, topicVars, modeVars, userVars, limitTimers, now>>

-----------------------------------------------------------------------------
\* SET of a level: to at most the setter's own access unless it owns the channel, and SETTERS to at most
\* the owner's.
channel_level_option(by, o, v) ==
    /\ Active /\ check_user_level(by, "setters") /\ GetChannelAccess(by) > 0
    /\ check_user_level(by, o) \/ (level[o] > UL_OWNER /\ GetChannelAccess(by) = UL_OWNER)
    /\ GetChannelAccess(by) >= UL_OWNER \/ v <= GetChannelAccess(by)
    /\ o = "setters" => v <= GetChannelAccess(by)
    /\ level' = [level EXCEPT ![o] = v]
    /\ UNCHANGED <<regVars, automode, dynlimit, offchannel, may_opchan, topicVars, modeVars, userVars, limitTimers, now>>

\* SET AUTOMODE (channel_multiple_option) gives nobody a mode by itself.
channel_multiple_option(by, v) ==
    /\ Active /\ check_user_level(by, "setters")
    /\ automode' = v /\ fresh' = {}
    /\ UNCHANGED <<regVars, level, dynlimit, offchannel, may_opchan, topicVars, modeVars, members, authed, access, limitTimers, now>>

\* SET DEFAULTS, by an owner: flags, lock, levels and options.
chan_opt_defaults(by) ==
    /\ Active /\ check_user_level(by, "setters") /\ GetChannelAccess(by) >= UL_OWNER
    /\ automode' = "y" /\ level' = Defaults /\ dynlimit' = FALSE /\ lock' = NoLock /\ fresh' = {}
    /\ UNCHANGED <<regVars, offchannel, may_opchan, topicVars, modes, limit, members, authed, access, limitTimers, now>>

\* SET OFFCHANNEL: ChanServ leaves or joins.
chan_opt_offchannel(by, on) ==
    /\ Active /\ check_user_level(by, "setters") /\ offchannel # on
    /\ offchannel' = on
    /\ UNCHANGED <<regVars, automode, level, dynlimit, may_opchan, topicVars, modeVars, userVars, limitTimers, now>>

-----------------------------------------------------------------------------
bad_topic(u, t) == ~check_user_level(u, "enftopic") /\ default # "" /\ t # default
Conformed(t) == IF topic_mask = "" \/ t \in Fits[topic_mask] THEN t ELSE Conform[topic_mask][t]

\* TOPIC: the topic, made to fit the mask, which may fail; without one the default topic.
cmd_topic(u, t) ==
    /\ Active /\ GetChannelAccess(u) > 0 /\ ~bad_topic(u, t) /\ (Conformed(t) # "" \/ t = "")
    /\ topic' = Conformed(t)
    /\ default' = IF check_user_level(u, "topicsnarf") THEN Conformed(t) ELSE default
    /\ UNCHANGED <<regVars, optVars, topic_mask, modeVars, userVars, limitTimers, now>>
cmd_topic_default ==
    /\ Active /\ default # "" /\ topic' = default
    /\ UNCHANGED <<regVars, optVars, default, topic_mask, modeVars, userVars, limitTimers, now>>

\* handle_topic: a user sets the topic; ChanServ sets it back, makes it fit or saves it.
handle_topic(u, t) ==
    LET undone == Active /\ (bad_topic(u, t) \/ (Conformed(t) = "" /\ t # ""))
    IN  /\ u \in Present
        /\ topic' = IF undone THEN topic ELSE IF Active THEN Conformed(t) ELSE t
        /\ default' = IF Active /\ ~undone /\ check_user_level(u, "topicsnarf") THEN Conformed(t) ELSE default
        /\ UNCHANGED <<regVars, optVars, topic_mask, modeVars, userVars, limitTimers, now>>

\* SET DEFAULTTOPIC and SET TOPICMASK warn when the two do not agree, and go on.
chan_opt_defaulttopic(by, t) ==
    /\ Active /\ check_user_level(by, "setters") /\ check_user_level(by, "enftopic")
    /\ default' = t /\ topic' = t
    /\ UNCHANGED <<regVars, optVars, topic_mask, modeVars, userVars, limitTimers, now>>
chan_opt_topicmask(by, m) ==
    /\ Active /\ check_user_level(by, "setters") /\ check_user_level(by, "enftopic")
    /\ topic_mask' = m
    /\ UNCHANGED <<regVars, optVars, topic, default, modeVars, userVars, limitTimers, now>>

-----------------------------------------------------------------------------
\* The registration is suspended, comes back, ends (unregister_channel deletes every timer of it) or begins.
cmd_csuspend ==
    /\ registered /\ suspended' = ~suspended /\ fresh' = {}
    /\ UNCHANGED <<registered, optVars, topicVars, modeVars, members, authed, access, limitTimers, now>>
unregister_channel ==
    /\ registered /\ registered' = FALSE /\ suspended' = FALSE /\ limitTimers' = {} /\ fresh' = {}
    /\ dynlimit' = FALSE /\ offchannel' = FALSE /\ may_opchan' = FALSE /\ automode' = "y" /\ level' = Defaults
    /\ lock' = NoLock /\ default' = "" /\ topic_mask' = ""
    /\ UNCHANGED <<modes, limit, topic, members, authed, access, now>>
register_channel ==
    /\ ~registered /\ registered' = TRUE /\ fresh' = {}
    /\ UNCHANGED <<suspended, optVars, topicVars, modeVars, members, authed, access, limitTimers, now>>

Tick ==
    /\ now < MaxTime /\ \A t \in limitTimers : t > now
    /\ now' = now + 1 /\ UNCHANGED <<regVars, optVars, topicVars, modeVars, userVars, limitTimers>>

Commanders == Users \union Officers

NextMembers ==
    \/ \E u \in Users, burst, flooded \in BOOLEAN : handle_join(u, burst, flooded)
    \/ \E u \in Users, flooded \in BOOLEAN : handle_part(u, flooded)
    \/ \E u \in Users : handle_auth(u)
    \/ \E u \in Users : LogOut(u)
    \/ \E u \in Users, a \in Accesses : SetAccess(u, a)
    \/ \E u \in Users : cmd_up(u)
    \/ \E u \in Users : cmd_down(u)
    \/ \E by \in Commanders, v \in Users, m \in MemberModes, add \in BOOLEAN : modify_users(by, v, m, add)
    \/ resync_channel
    \/ \E by, v \in Users : handle_mode_op(by, v)
    \/ \E by, v \in Users : handle_mode_deop(by, v)

NextModes ==
    \/ \E by \in Users, ch \in Changes : handle_mode(by, ch)
    \/ \E by \in Commanders, ch \in Changes : cmd_mode(by, ch)
    \/ cmd_mode_default
    \/ \E by \in Commanders, ch \in Changes \union {NoChange} : chan_opt_modes(by, ch)
    \/ \E t \in limitTimers : chanserv_adjust_limit(t)
    \/ \E by \in Commanders, on \in BOOLEAN : "dynlimit" \in Settable /\ chan_opt_dynlimit(by, on)
    \/ handle_server_link
    \/ cmd_opchan

NextOptions ==
    \/ \E by \in Commanders, o \in Settable \intersect Options, v \in Levels : channel_level_option(by, o, v)
    \/ \E by \in Commanders, v \in Automodes : channel_multiple_option(by, v)
    \/ \E by \in Commanders : chan_opt_defaults(by)
    \/ \E by \in Commanders, on \in BOOLEAN : "offchannel" \in Settable /\ chan_opt_offchannel(by, on)
    \/ \E u \in Users, t \in Topics : cmd_topic(u, t)
    \/ cmd_topic_default
    \/ \E u \in Users, t \in Topics : handle_topic(u, t)
    \/ \E by \in Commanders, t \in Topics : chan_opt_defaulttopic(by, t)
    \/ \E by \in Commanders, m \in TopicMasks \union {""} : chan_opt_topicmask(by, m)
    \/ cmd_csuspend
    \/ unregister_channel
    \/ register_channel
    \/ Tick

Next == NextMembers \/ NextModes \/ NextOptions

Spec == Init /\ [][Next]_vars

-----------------------------------------------------------------------------
\* The modes a join gave are those a resync would leave, so that the two do not undo each other (handle_join,
\* resync_channel); in automodes "h" and "o" they disagree about users of low access.
\* However many joins, parts and links happen within the delay, one change of the limit is queued
\* (chanserv.c:8048), and none once the registration has ended.
ModesInSync ==
    /\ Active /\ automode \notin {"h", "o"} => \A u \in fresh : Resynced(u, members[u]) = members[u]
    /\ Cardinality(limitTimers) <= 1 /\ (~registered => limitTimers = {})
-----------------------------------------------------------------------------
\* The modes are those of members, the levels of access are numbers, and those whose modes are of
\* their join are members; one timer at most.
AccessKnown ==
    /\ access \in [Users -> Nat]
    /\ members = [u \in Present |-> members[u]]
    /\ fresh \subseteq Present /\ Present \subseteq Users

FreshAgree == Active /\ automode \notin {"h", "o"} => \A u \in fresh : Resynced(u, members[u]) = members[u]

OneTimer == (limitTimers = {} \/ \E t : limitTimers = {t}) /\ (~registered => limitTimers = {})

SyncInv == AccessKnown /\ FreshAgree /\ OneTimer

\* A join gives what a resync leaves, whatever the access and the automode, if the channel is calm.
LEMMA JoinAgrees ==
    ASSUME access \in [Users -> Nat], NEW u \in Users, automode \notin {"h", "o"},
           NEW has, has = JoinModes(u, FALSE)
    PROVE  Resynced(u, has) = has
<1>1. GetChannelAccess(u) \in Nat
  BY DEF GetChannelAccess, TrueAccess, UL_OWNER
<1> DEFINE some == GetChannelAccess(u)
<1>0. some = 0 \/ some > 0
  <2> HIDE DEF some
  <2>1. some \in Nat
    BY <1>1 DEF some
  <2> QED BY <2>1
<1>2. CASE GetChannelAccess(u) = 0
  BY <1>2 DEF Resynced, JoinModes, Everyones, AccessModes, UL_PEON, UL_HALFOP, UL_OP
<1>3. CASE GetChannelAccess(u) > 0
  <2> DEFINE acc == GetChannelAccess(u)
  <2>1. acc \in Nat /\ acc >= 1 /\ acc > 0
    BY <1>1, <1>3
  <2> HIDE DEF acc
  <2> DEFINE given == AccessModes(u, acc, FALSE)
  <2>2. has = Everyones \union given
    BY <1>3 DEF JoinModes, acc
  <2>3. Resynced(u, has) =
            IF automode = "n" THEN {}
            ELSE IF acc > 0 /\ u \in NoAutoOp THEN has
            ELSE IF acc >= UL_PEON /\ automode = "l" THEN has \union {"v"}
            ELSE IF acc >= UL_OP THEN has \union {"o"}
            ELSE IF acc >= UL_HALFOP THEN (has \ {"o"}) \union {"h"}
            ELSE IF acc >= UL_PEON THEN IF automode = "m" THEN has \ {"o", "h", "v"} ELSE (has \ {"o", "h"}) \union {"v"}
            ELSE Everyones
    BY DEF Resynced, acc
  <2>4. Everyones = IF automode = "v" THEN {"v"} ELSE {}
    BY DEF Everyones
  <2>5. CASE automode = "n" \/ u \in NoAutoOp
    <3>1. given = {}
      BY <2>5 DEF AccessModes
    <3>2. has = Everyones
      BY <2>2, <3>1
    <3>3. CASE automode = "n"
      <4>1. Everyones = {}
        BY <2>4, <3>3
      <4> QED BY <2>3, <3>2, <3>3, <4>1
    <3>4. CASE automode # "n" /\ u \in NoAutoOp
      <4> HIDE DEF given
      <4> QED BY <2>1, <2>3, <3>4
    <3> QED BY <2>5, <3>3, <3>4
  <2>6. CASE automode # "n" /\ u \notin NoAutoOp /\ automode = "l"
    BY <2>1, <2>2, <2>3, <2>4, <2>6 DEF AccessModes, UL_PEON
  <2>7. CASE automode # "n" /\ u \notin NoAutoOp /\ automode # "l"
    <3>1. CASE acc >= 200
      <4>1. "o" \in given
        <5>1. given \in {{"q", "o"}, {"a", "o"}, {"o"}}
          BY <2>1, <2>7, <3>1 DEF AccessModes, UL_PEON, UL_OWNER, UL_COOWNER, UL_OP
        <5> HIDE DEF given
        <5> QED BY <5>1
      <4> HIDE DEF given
      <4>2. has \union {"o"} = has
        BY <2>2, <4>1
      <4>3. Resynced(u, has) = has \union {"o"}
        BY <2>1, <2>3, <2>7, <3>1 DEF UL_OP, UL_PEON
      <4> QED BY <4>2, <4>3
    <3>2. CASE acc >= 150 /\ ~(acc >= 200)
      <4>1. given = {"h"}
        BY <2>1, <2>7, <3>2 DEF AccessModes, UL_PEON, UL_OWNER, UL_COOWNER, UL_OP, UL_HALFOP
      <4> HIDE DEF given
      <4>2. (has \ {"o"}) \union {"h"} = has
        <5>1. "o" \notin Everyones
          BY <2>4
        <5> QED BY <2>2, <4>1, <5>1
      <4>3. Resynced(u, has) = (has \ {"o"}) \union {"h"}
        BY <2>1, <2>3, <2>7, <3>2 DEF UL_OP, UL_HALFOP, UL_PEON
      <4> QED BY <4>2, <4>3
    <3>3. CASE ~(acc >= 150) /\ automode = "m"
      <4>1. given = {}
        BY <2>1, <2>7, <3>3 DEF AccessModes, UL_PEON, UL_OWNER, UL_COOWNER, UL_OP, UL_HALFOP
      <4>2. has = {}
        BY <2>4, <2>2, <3>3, <4>1
      <4> HIDE DEF given
      <4>3. ~(acc >= UL_OP) /\ ~(acc >= UL_HALFOP) /\ acc >= UL_PEON
        BY <2>1, <3>3 DEF UL_OP, UL_HALFOP, UL_PEON
      <4>4. Resynced(u, has) = has \ {"o", "h", "v"}
        BY <2>3, <2>7, <3>3, <4>3
      <4> QED BY <4>2, <4>4
    <3>4. CASE ~(acc >= 150) /\ automode # "m"
      <4>1. given = {"v"}
        BY <2>1, <2>7, <3>4 DEF AccessModes, UL_PEON, UL_OWNER, UL_COOWNER, UL_OP, UL_HALFOP
      <4> HIDE DEF given
      <4>2. has = {"v"}
        BY <2>4, <2>2, <4>1
      <4>3. ~(acc >= UL_OP) /\ ~(acc >= UL_HALFOP) /\ acc >= UL_PEON
        BY <2>1, <3>4 DEF UL_OP, UL_HALFOP, UL_PEON
      <4>4. Resynced(u, has) = (has \ {"o", "h"}) \union {"v"}
        BY <2>3, <2>7, <3>4, <4>3
      <4>5. "v" # "o" /\ "v" # "h"
        OBVIOUS
      <4> QED BY <4>2, <4>4, <4>5
    <3> QED BY <2>1, <3>1, <3>2, <3>3, <3>4
  <2> QED BY <2>5, <2>6, <2>7
<1> QED BY <1>0, <1>2, <1>3

\* Those whose modes and access a step leaves alone agree after it as before.
LEMMA FreshKept ==
    ASSUME FreshAgree, UNCHANGED automode, Active' => Active,
           \A u \in fresh' : /\ u \in fresh /\ members'[u] = members[u] /\ access'[u] = access[u]
                             /\ u \in authed' <=> u \in authed
    PROVE  FreshAgree'
<1> SUFFICES ASSUME Active', automode' \notin {"h", "o"}, NEW u \in fresh'
             PROVE  Resynced(u, members[u])' = members'[u]
  BY DEF FreshAgree
<1>1. Resynced(u, members[u]) = members[u]
  BY DEF FreshAgree
<1>2. GetChannelAccess(u)' = GetChannelAccess(u)
  BY DEF GetChannelAccess, TrueAccess
<1> QED BY <1>1, <1>2 DEF Resynced, Everyones

LEMMA FreshGone ==
    ASSUME fresh' = {}
    PROVE  FreshAgree'
BY DEF FreshAgree

\* One timer: the one there was, a new one in its place, or none.
LEMMA TimerKept ==
    ASSUME OneTimer, limitTimers' \in {limitTimers, Requeued, {}}, ~registered' => ~registered \/ limitTimers' = {},
           registered \/ limitTimers' = limitTimers
    PROVE  OneTimer'
BY DEF OneTimer, Requeued

\* The commands that change the modes of members.
LEMMA MembersChangeKeeps ==
    ASSUME SyncInv, NEW ms, MembersChange(ms), ms = [u \in Present |-> ms[u]]
    PROVE  SyncInv'
<1>1. AccessKnown'
  BY DEF SyncInv, AccessKnown, MembersChange, Present
<1>2. FreshAgree'
  BY FreshKept DEF SyncInv, MembersChange, optVars, regVars, Active
<1>3. OneTimer'
  BY TimerKept DEF SyncInv, MembersChange, regVars
<1> QED BY <1>1, <1>2, <1>3 DEF SyncInv

LEMMA JoinKeeps ==
    ASSUME SyncInv, NEW u \in Users, NEW burst \in BOOLEAN, NEW flooded \in BOOLEAN, handle_join(u, burst, flooded)
    PROVE  SyncInv'
<1>1. /\ u \notin Present /\ u \notin fresh
      /\ UNCHANGED <<registered, suspended, automode, authed, access>>
  BY DEF SyncInv, AccessKnown, handle_join, regVars, optVars
<1> DEFINE gets == IF Active /\ ~burst THEN JoinModes(u, flooded) ELSE {}
<1>2. /\ members' = [v \in Present \union {u} |-> IF v = u THEN gets ELSE members[v]]
      /\ fresh' = IF Active /\ ~burst /\ ~flooded THEN fresh \union {u} ELSE fresh
      /\ limitTimers' \in {limitTimers, Requeued} /\ (limitTimers' # limitTimers => Active)
  BY DEF handle_join, Queued
<1> HIDE DEF gets
<1>3. AccessKnown'
  BY <1>1, <1>2 DEF SyncInv, AccessKnown, Present
<1>4. OneTimer'
  BY <1>1, <1>2, TimerKept DEF SyncInv, Active
<1>5. FreshAgree'
  <2> SUFFICES ASSUME Active, automode \notin {"h", "o"}, NEW v \in fresh'
               PROVE  Resynced(v, members[v])' = members'[v]
    BY <1>1 DEF FreshAgree, Active
  <2>1. GetChannelAccess(v)' = GetChannelAccess(v)
    BY <1>1 DEF GetChannelAccess, TrueAccess
  <2>2. \A has : Resynced(v, has)' = Resynced(v, has')
    BY <1>1, <2>1 DEF Resynced, Everyones
  <2>3. Resynced(v, members'[v]) = members'[v]
    <3>1. CASE v = u
      <4>1. members'[v] = JoinModes(u, FALSE)
        BY <1>1, <1>2, <3>1 DEF gets
      <4> QED BY <3>1, <4>1, JoinAgrees DEF SyncInv, AccessKnown
    <3>2. CASE v # u
      <4>1. v \in fresh /\ members'[v] = members[v]
        BY <1>2, <3>2 DEF SyncInv, AccessKnown
      <4> QED BY <4>1 DEF SyncInv, FreshAgree
    <3> QED BY <3>1, <3>2
  <2> QED BY <1>1, <2>1, <2>3 DEF Resynced, Everyones
<1> QED BY <1>3, <1>4, <1>5 DEF SyncInv

LEMMA PartKeeps ==
    ASSUME SyncInv, NEW u, NEW flooded \in BOOLEAN, handle_part(u, flooded)
    PROVE  SyncInv'
<1>1. /\ UNCHANGED <<registered, suspended, automode, authed, access>>
      /\ members' = [v \in Present \ {u} |-> members[v]] /\ fresh' = fresh \ {u}
      /\ limitTimers' \in {limitTimers, Requeued} /\ (limitTimers' # limitTimers => Active)
  BY DEF handle_part, regVars, optVars, Queued
<1>2. AccessKnown'
  BY <1>1 DEF SyncInv, AccessKnown, Present
<1>3. FreshAgree'
  BY <1>1, FreshKept DEF SyncInv, AccessKnown, Active
<1>4. OneTimer'
  BY <1>1, TimerKept DEF SyncInv, Active
<1> QED BY <1>2, <1>3, <1>4 DEF SyncInv

\* Logins, logouts and new accesses: whose access changes is no longer fresh.
LEMMA LoginsKeep ==
    ASSUME SyncInv, NEW u, handle_auth(u) \/ LogOut(u)
    PROVE  SyncInv'
<1>1. /\ UNCHANGED <<registered, suspended, automode, access, limitTimers>>
      /\ fresh' = fresh \ {u} /\ authed' \in {authed \union {u}, authed \ {u}}
      /\ members' = members \/ members' = [members EXCEPT ![u] = @ \union AccessModes(u, access[u], TRUE)]
  BY DEF handle_auth, LogOut, regVars, optVars, Gets
<1>2. AccessKnown'
  BY <1>1 DEF SyncInv, AccessKnown, Present
<1>3. FreshAgree'
  BY <1>1, FreshKept DEF SyncInv, AccessKnown, Active
<1>4. OneTimer'
  BY <1>1, TimerKept DEF SyncInv
<1> QED BY <1>2, <1>3, <1>4 DEF SyncInv

LEMMA SetAccessKeeps ==
    ASSUME SyncInv, Accesses \subseteq Nat, NEW u \in Users, NEW a \in Accesses, SetAccess(u, a)
    PROVE  SyncInv'
<1>1. /\ UNCHANGED <<registered, suspended, automode, members, authed, limitTimers>>
      /\ fresh' = fresh \ {u} /\ access' = [access EXCEPT ![u] = a]
  BY DEF SetAccess, regVars, optVars
<1>2. AccessKnown'
  BY <1>1 DEF SyncInv, AccessKnown, Present
<1>3. FreshAgree'
  BY <1>1, FreshKept DEF SyncInv, AccessKnown, Active
<1>4. OneTimer'
  BY <1>1, TimerKept DEF SyncInv
<1> QED BY <1>2, <1>3, <1>4 DEF SyncInv

LEMMA NextMembersKeeps ==
    ASSUME SyncInv, Accesses \subseteq Nat, NextMembers
    PROVE  SyncInv'
<1>0. ASSUME NEW ms, ms = [x \in Present |-> ms[x]], NEW u, NEW s
      PROVE  /\ Gets(ms, u, s) = [x \in Present |-> Gets(ms, u, s)[x]]
             /\ Loses(ms, u, s) = [x \in Present |-> Loses(ms, u, s)[x]]
  BY <1>0 DEF Gets, Loses
<1>1. \A u, add : Gets(members, u, add) = [v \in Present |-> Gets(members, u, add)[v]]
  BY <1>0 DEF SyncInv, AccessKnown
<1>2. \A u, del : Loses(members, u, del) = [v \in Present |-> Loses(members, u, del)[v]]
  BY <1>0 DEF SyncInv, AccessKnown
<1>3. ASSUME NEW u, NEW del, NEW v, NEW add
      PROVE  LET ms == Gets(Loses(members, u, del), v, add) IN ms = [x \in Present |-> ms[x]]
  BY <1>0, <1>2
<1>4. ASSUME NEW u, cmd_up(u) \/ cmd_down(u) PROVE SyncInv'
  BY <1>1, <1>2, <1>4, MembersChangeKeeps DEF cmd_up, cmd_down
<1>5. ASSUME NEW by, NEW v, NEW m, NEW add \in BOOLEAN, modify_users(by, v, m, add) PROVE SyncInv'
  <2>1. MembersChange(Gets(members, v, {m})) \/ MembersChange(Loses(members, v, {m}))
    BY <1>5 DEF modify_users
  <2> QED BY <1>1, <1>2, <2>1, MembersChangeKeeps
<1>6. CASE resync_channel
  BY <1>6, MembersChangeKeeps DEF resync_channel
<1>7. ASSUME NEW by, NEW v, handle_mode_op(by, v) PROVE SyncInv'
  <2>1. MembersChange(Gets(members, v, {"o"})) \/ MembersChange(Loses(members, v, {"o"}))
    BY <1>7 DEF handle_mode_op
  <2> QED BY <1>1, <1>2, <2>1, MembersChangeKeeps
<1>8. ASSUME NEW by, NEW v, handle_mode_deop(by, v) PROVE SyncInv'
  <2>1. MembersChange(Gets(Loses(members, by, {"o"}), v, {"o"})) \/ MembersChange(Loses(members, v, {"o"}))
    BY <1>8 DEF handle_mode_deop
  <2> QED BY <1>2, <1>3, <2>1, MembersChangeKeeps
<1> QED BY <1>4, <1>5, <1>6, <1>7, <1>8, JoinKeeps, PartKeeps, LoginsKeep, SetAccessKeeps DEF NextMembers

\* Of what the limit, the lock, the topic and the options are, nothing here depends but the timer.
LEMMA ApartKeeps ==
    ASSUME SyncInv, UNCHANGED <<registered, suspended, automode, members, authed, access, fresh>>,
           limitTimers' \in {limitTimers, Requeued, {}}, registered \/ limitTimers' = limitTimers
    PROVE  SyncInv'
<1>1. AccessKnown'
  BY DEF SyncInv, AccessKnown, Present
<1>2. FreshAgree'
  BY FreshKept DEF SyncInv, Active
<1>3. OneTimer'
  BY TimerKept DEF SyncInv
<1> QED BY <1>1, <1>2, <1>3 DEF SyncInv

LEMMA NextModesKeeps ==
    ASSUME SyncInv, NextModes
    PROVE  SyncInv'
<1>1. ASSUME NEW t, chanserv_adjust_limit(t) PROVE SyncInv'
  <2>1. limitTimers' = {}
    BY <1>1 DEF chanserv_adjust_limit, SyncInv, OneTimer
  <2>2. registered
    BY <1>1 DEF chanserv_adjust_limit, SyncInv, OneTimer
  <2> QED BY <1>1, <2>1, <2>2, ApartKeeps DEF chanserv_adjust_limit, regVars, optVars, userVars
<1>2. CASE handle_server_link
  BY <1>2, ApartKeeps DEF handle_server_link, regVars, userVars, Queued
<1>3. CASE cmd_opchan
  BY <1>3, ApartKeeps DEF cmd_opchan, regVars, userVars
<1>4. CASE cmd_mode_default
  BY <1>4, ApartKeeps DEF cmd_mode_default, regVars, optVars, userVars
<1>5. ASSUME NEW by, NEW ch, handle_mode(by, ch) \/ cmd_mode(by, ch) \/ chan_opt_modes(by, ch) PROVE SyncInv'
  BY <1>5, ApartKeeps DEF handle_mode, cmd_mode, chan_opt_modes, regVars, optVars, userVars
<1>6. ASSUME NEW by, NEW on, chan_opt_dynlimit(by, on) PROVE SyncInv'
  BY <1>6, ApartKeeps DEF chan_opt_dynlimit, regVars, userVars
<1> QED BY <1>1, <1>2, <1>3, <1>4, <1>5, <1>6 DEF NextModes

LEMMA NextOptionsKeeps ==
    ASSUME SyncInv, NextOptions
    PROVE  SyncInv'
<1>1. ASSUME NEW by, NEW o, NEW v, channel_level_option(by, o, v) PROVE SyncInv'
  BY <1>1, ApartKeeps DEF channel_level_option, regVars, userVars
<1>2. ASSUME NEW by, NEW on, chan_opt_offchannel(by, on) PROVE SyncInv'
  BY <1>2, ApartKeeps DEF chan_opt_offchannel, regVars, userVars
<1>3. ASSUME NEW u, NEW t, cmd_topic(u, t) \/ handle_topic(u, t) \/ chan_opt_defaulttopic(u, t) \/ cmd_topic_default
      PROVE  SyncInv'
  BY <1>3, ApartKeeps
     DEF cmd_topic, handle_topic, chan_opt_defaulttopic, cmd_topic_default, regVars, optVars, userVars
<1>4. ASSUME NEW by, NEW m, chan_opt_topicmask(by, m) PROVE SyncInv'
  BY <1>4, ApartKeeps DEF chan_opt_topicmask, regVars, optVars, userVars
<1>5. CASE Tick
  BY <1>5, ApartKeeps DEF Tick, regVars, optVars, userVars
<1>6. ASSUME fresh' = {}, UNCHANGED <<members, access>>,
             limitTimers' = {} \/ (limitTimers' = limitTimers /\ (registered' <=> registered))
                              \/ (limitTimers' = limitTimers /\ ~registered)
      PROVE  SyncInv'
  <2>1. AccessKnown'
    BY <1>6 DEF SyncInv, AccessKnown, Present
  <2>2. OneTimer'
    BY <1>6 DEF SyncInv, OneTimer
  <2> QED BY <1>6, <2>1, <2>2, FreshGone DEF SyncInv
<1>7. ASSUME NEW by, NEW v, channel_multiple_option(by, v) PROVE SyncInv'
  BY <1>6, <1>7 DEF channel_multiple_option, regVars
<1>8. ASSUME NEW by, chan_opt_defaults(by) PROVE SyncInv'
  BY <1>6, <1>8 DEF chan_opt_defaults, regVars
<1>9. CASE cmd_csuspend \/ unregister_channel \/ register_channel
  BY <1>6, <1>9 DEF cmd_csuspend, unregister_channel, register_channel
<1> QED BY <1>1, <1>2, <1>3, <1>4, <1>5, <1>7, <1>8, <1>9 DEF NextOptions

\* For any users, accesses, options and delays: a join in a calm channel gives the modes a resync
\* leaves, and however many joins, parts and links there are, one change of the limit is queued, and
\* none when the registration has ended (handle_join, resync_channel, handle_part, unregister_channel).
THEOREM JoinsStaySynced ==
    ASSUME Accesses \subseteq Nat
    PROVE  Spec => []ModesInSync
<1>1. Init => SyncInv
  <2> SUFFICES ASSUME Init PROVE SyncInv
    OBVIOUS
  <2>1. DOMAIN members = {} /\ members = [u \in Present |-> members[u]]
    BY DEF Init, Present
  <2>2. AccessKnown
    BY <2>1 DEF Init, AccessKnown, Present
  <2> QED BY <2>2 DEF Init, SyncInv, FreshAgree, OneTimer
<1>2. SyncInv /\ [Next]_vars => SyncInv'
  <2> SUFFICES ASSUME SyncInv, [Next]_vars PROVE SyncInv'
    OBVIOUS
  <2>1. CASE UNCHANGED vars
    BY <2>1, ApartKeeps DEF vars
  <2> QED BY <2>1, NextMembersKeeps, NextModesKeeps, NextOptionsKeeps DEF Next
<1>3. SyncInv => ModesInSync
  <2> SUFFICES ASSUME SyncInv PROVE ModesInSync
    OBVIOUS
  <2>1. Cardinality(limitTimers) <= 1
    <3>1. CASE limitTimers = {}
      BY <3>1, FS_EmptySet
    <3>2. CASE \E t : limitTimers = {t}
      BY <3>2, FS_Singleton
    <3> QED BY <3>1, <3>2 DEF SyncInv, OneTimer
  <2> QED BY <2>1 DEF SyncInv, OneTimer, FreshAgree, ModesInSync
<1> QED BY <1>1, <1>2, <1>3, PTL DEF Spec
=============================================================================
