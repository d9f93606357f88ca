----------------------------- MODULE ChanServ -----------------------------
(***************************************************************************)
(* Registered channels and their access lists (src/src/chanserv.c), with   *)
(* the timers that end temporary access, temporary levels and suspensions, *)
(* the access promised to users who have yet to log in, and the database.  *)
(*                                                                         *)
(* A registration (struct chanData) and an access entry (struct userData)  *)
(* are memory: timers and lists point to their addresses, and an address   *)
(* is used again once it is free.  MOVE takes a registration to another    *)
(* channel, MERGE and NickServ's merge take entries to another list, and   *)
(* the pointers stay.                                                      *)
(*                                                                         *)
(* Bans, modes and options, DNRs and notes are modules of their own        *)
(* (ChanBans, ChanModes, Dnrs, Notes).  Refusals that depend on them, on   *)
(* the network or on a waiting time are choices: the command may then be   *)
(* taken or not.                                                           *)
(* Time 0 means "never".                                                   *)
(***************************************************************************)
EXTENDS Naturals, FiniteSets, TLC

CONSTANTS
    Chans,          \* channels
    Handles,        \* accounts
    Staff,          \* accounts that may have the HELPING flag
    Users,          \* connections that are not logged in
    Data, Ids,      \* addresses of chanData and of userData
    Levels,         \* levels given in commands
    Durations,      \* durations given in commands on users; 0: none
    SuspDurations,  \* and in CSUSPEND
    MaxOwned,       \* chanserv_conf.max_owned
    MaxTime,        \* bound on the clock
    NONE

UL_PEON == 1
UL_HALFOP == 150
UL_OP == 200
UL_MANAGER == 300
UL_COOWNER == 400
UL_OWNER == 500
UL_HELPER == 600

ASSUME ChanServAssumption ==
    /\ Staff \subseteq Handles /\ NONE \notin Data
    /\ Levels \subseteq 1..UL_OWNER
    /\ Durations \subseteq Nat /\ SuspDurations \subseteq Nat
    /\ MaxOwned \in Nat /\ MaxTime \in Nat

VARIABLES
    now,
    info,           \* chanNode->channel_info
    data,           \* the registrations in memory
    ent,            \* the access entries in memory
    timers,         \* those of ChanServ in the timer queue; a set: of two alike the
                    \* second finds nothing left to do
    pend            \* adduser_pendings

vars == <<now, info, data, ent, timers, pend>>

Time == 0..(MaxTime + 1)
Level == 0..UL_OWNER

Entry == [channel : Data, handle : Handles, access : Level, lastaccess : Level,
          accessexpiry : Time, clvlexpiry : Time, suspended : BOOLEAN, expires : Time]

\* expires: of the suspension, if there is one.  staff is not in the code: it remembers
\* that staff, or a MERGE that keeps its source, has had a hand in the access list.
Registration == [channel : Chans, nodelete : BOOLEAN, suspended : BOOLEAN,
                 expires : Time, staff : BOOLEAN]

Timer == [fn : {"tempuser", "tempclvl", "user_suspension"}, data : Ids, when : Time]
         \union [fn : {"suspension"}, data : Data, when : Time]

Pending == [channel : Chans, user : Users, level : Level]

\* The shape of chanserv.c's structures.
TypeOK ==
    /\ now \in Time \ {0}
    /\ info \in [Chans -> Data \union {NONE}]
    /\ DOMAIN data \subseteq Data /\ data \in [DOMAIN data -> Registration]
    /\ DOMAIN ent \subseteq Ids /\ ent \in [DOMAIN ent -> Entry]
    /\ timers \subseteq Timer
    /\ pend \subseteq Pending

Init ==
    /\ now = 1
    /\ info = [c \in Chans |-> NONE]
    /\ data = [r \in {} |-> NONE]
    /\ ent = [i \in {} |-> NONE]
    /\ timers = {} /\ pend = {}

-----------------------------------------------------------------------------
(* Reading the structures. *)

UsersOf(r) == {i \in DOMAIN ent : ent[i].channel = r}

\* GetTrueChannelAccess finds one of these.
EntriesOf(r, h) == {i \in UsersOf(r) : ent[i].handle = h}

\* GetChannelAccess finds one of these.
ActiveOf(r, h) == {i \in EntriesOf(r, h) : ~ent[i].suspended}

Owned(h) == {i \in DOMAIN ent : ent[i].handle = h /\ ent[i].access = UL_OWNER}

\* How an account may act: as itself (0), HELPING (1), HELPING and at or above
\* nodelete_level (2).
Roles(h) == IF h \in Staff THEN 0..2 ELSE {0}

Override(r, role) == role > 0 /\ (role = 2 \/ ~data[r].nodelete)

\* GetChannelUser: the access an account acts with on r, if it has any.
Access(r, h, role) ==
    IF Override(r, role) THEN {UL_HELPER} ELSE {ent[i].access : i \in ActiveOf(r, h)}

\* svccmd_can_invoke for a command that needs a registered channel.
Usable(c, role) == info[c] # NONE /\ (data[info[c]].suspended => role > 0)

\* Bound: only what ends within the clock's range is asked for.
InTime(ds) == {d \in ds : now + d <= MaxTime}

Expiry(d) == IF d = 0 THEN 0 ELSE now + d

NewEntry(r, h, level, expiry) ==
    [channel |-> r, handle |-> h, access |-> level, lastaccess |-> 0, accessexpiry |-> expiry,
     clvlexpiry |-> 0, suspended |-> FALSE, expires |-> 0]

TimerOf(fn, x, when) == [fn |-> fn, data |-> x, when |-> when]

-----------------------------------------------------------------------------
(* Removing registrations R and access entries D from memory. *)

InfoWithout(R) == [c \in Chans |-> IF info[c] \in R THEN NONE ELSE info[c]]

DataWithout(R) == [r \in DOMAIN data \ R |-> data[r]]

EntWithout(D) == [i \in DOMAIN ent \ D |-> ent[i]]

\* wipe_adduser_pending for the channels of R.
PendWithout(R) == {p \in pend : info[p.channel] \notin R}

\* Mutant: del_channel_user forgets the timer of a temporary level.
DeadTimerButLevels(t, R, D) ==
    \/ t.fn = "tempuser" /\ t.data \in D
    \/ t.fn = "suspension" /\ t.data \in R /\ t.when = data[t.data].expires

\* del_channel_user and unregister_channel take these timers with them; the timer of a
\* user's suspension stays.
DeadTimer(t, R, D) ==
    \/ t.fn \in {"tempuser", "tempclvl"} /\ t.data \in D
    \/ t.fn = "suspension" /\ t.data \in R /\ t.when = data[t.data].expires

TimersWithout(R, D) == {t \in timers : ~DeadTimer(t, R, D)}

\* Mutant: do_gc is not looked at.
EmptiedNever(D) == {r \in {ent[i].channel : i \in D} : FALSE}

\* del_channel_user(..., 1) for each entry of D: a registration that has lost its last
\* user goes too, unless it is protected.
Emptied(D) ==
    {r \in {ent[i].channel : i \in D} : ~data[r].nodelete /\ UsersOf(r) \subseteq D}

DelUsers(D) ==
    LET R == Emptied(D)
    IN  /\ D # {}
        /\ info' = InfoWithout(R) /\ data' = DataWithout(R)
        /\ ent' = EntWithout(D)
        /\ timers' = TimersWithout(R, D)
        /\ pend' = PendWithout(R)
        /\ UNCHANGED <<now>>

Unregister(R) ==
    LET D == {i \in DOMAIN ent : ent[i].channel \in R}
    IN  /\ info' = InfoWithout(R) /\ data' = DataWithout(R)
        /\ ent' = EntWithout(D)
        /\ timers' = TimersWithout(R, D)
        /\ pend' = PendWithout(R)
        /\ UNCHANGED <<now>>

-----------------------------------------------------------------------------
(* Commands on registrations. *)

\* REGISTER by anyone, or by staff for an account they name; only then it can be forced.
Register(h, role, c, owner, force) ==
    /\ info[c] = NONE
    /\ owner # h => role > 0
    /\ force => role > 0
    /\ Cardinality(Owned(owner)) < MaxOwned \/ force
    /\ \E r \in Data \ DOMAIN data, i \in Ids \ DOMAIN ent :
        /\ info' = [info EXCEPT ![c] = r]
        /\ data' = [x \in DOMAIN data \union {r} |->
                        IF x = r THEN [channel |-> c, nodelete |-> FALSE, suspended |-> FALSE,
                                       expires |-> 0, staff |-> FALSE]
                                 ELSE data[x]]
        /\ ent' = [x \in DOMAIN ent \union {i} |->
                       IF x = i THEN NewEntry(r, owner, UL_OWNER, 0) ELSE ent[x]]
    /\ UNCHANGED <<now, timers, pend>>

\* UNREGISTER.
UnregisterCmd(h, role, c) ==
    /\ Usable(c, role)
    /\ ~data[info[c]].nodelete
    /\ \E a \in Access(info[c], h, role) : a >= UL_OWNER
    /\ Unregister({info[c]})

\* Mutant: the registration goes on naming its old channel.
MoveOneWay(role, c, target) ==
    /\ Usable(c, role)
    /\ ~data[info[c]].nodelete
    /\ info[target] = NONE
    /\ info' = [info EXCEPT ![target] = info[c], ![c] = NONE]
    /\ UNCHANGED <<now, data, ent, timers, pend>>

\* MOVE: whoever may use it on c, to a channel that is not registered.
Move(role, c, target) ==
    /\ Usable(c, role)
    /\ ~data[info[c]].nodelete
    /\ info[target] = NONE
    /\ info' = [info EXCEPT ![target] = info[c], ![c] = NONE]
    /\ data' = [data EXCEPT ![info[c]].channel = target]
    /\ UNCHANGED <<now, ent, timers, pend>>

\* One entry per account; MERGE is modelled for such lists only.
Single(r) == \A i, j \in UsersOf(r) : ent[i].handle = ent[j].handle => i = j

\* Mutant: merge_users does not look for accounts on both lists.
LosersNone(s, t) == {L \in SUBSET (UsersOf(s) \union UsersOf(t)) : L = {}}

\* merge_users: of two entries of one account the higher is kept, or the one seen later.
Losers(s, t) ==
    {L \in SUBSET (UsersOf(s) \union UsersOf(t)) :
        /\ \A i \in UsersOf(s), j \in UsersOf(t) :
            ent[i].handle = ent[j].handle =>
                /\ i \in L <=> j \notin L
                /\ ent[i].access > ent[j].access => j \in L
                /\ ent[i].access < ent[j].access => i \in L
        /\ \A i \in L : \E j \in (UsersOf(s) \union UsersOf(t)) \ L : ent[i].handle = ent[j].handle}

\* MERGE, with or without "nodelete".
Merge(h, role, c, target, keep) ==
    LET s == info[c]
        t == info[target]
        R == IF keep THEN {} ELSE {s}
    IN  /\ Usable(c, role) /\ t # NONE /\ c # target
        /\ ~data[s].nodelete /\ ~data[t].suspended
        /\ Single(s) /\ Single(t)
        /\ \E a \in Access(s, h, role), b \in Access(t, h, role), L \in Losers(s, t) :
            /\ a >= UL_OWNER /\ b >= UL_OWNER
            /\ info' = InfoWithout(R)
            /\ data' = [r \in DOMAIN data \ R |->
                            CASE r = s -> [data[s] EXCEPT !.staff = TRUE]
                              [] r = t -> [data[t] EXCEPT !.staff = @ \/ data[s].staff
                                                                     \/ UL_HELPER \in {a, b}]
                              [] OTHER -> data[r]]
            /\ ent' = [i \in DOMAIN ent \ L |->
                            IF ent[i].channel = s THEN [ent[i] EXCEPT !.channel = t] ELSE ent[i]]
            /\ timers' = TimersWithout(R, L)
            /\ pend' = PendWithout(R)
            /\ UNCHANGED <<now>>

\* SET NODELETE, by an oper at or above nodelete_level.
SetNodelete(h, role, c) ==
    /\ Usable(c, role) /\ Access(info[c], h, role) # {}
    /\ role = 2
    /\ data' = [data EXCEPT ![info[c]].nodelete = ~@, ![info[c]].staff = TRUE]
    /\ UNCHANGED <<now, info, ent, timers, pend>>

\* expire_channels: all that nobody has visited for long enough.
ExpireChannels(R) ==
    /\ R # {} /\ \A r \in R : ~data[r].nodelete
    /\ Unregister(R)

-----------------------------------------------------------------------------
(* Commands on access lists.  Each needs the access a command is bound to and is *)
(* refused on a suspended channel unless the sender is HELPING.                    *)

AddUser(h, role, c, handle, level, d) ==
    LET r == info[c]
    IN  /\ Usable(c, role)
        /\ EntriesOf(r, handle) = {}
        /\ \E a \in Access(r, h, role), i \in Ids \ DOMAIN ent :
            /\ a >= UL_MANAGER /\ a > level
            /\ ent' = [x \in DOMAIN ent \union {i} |->
                           IF x = i THEN NewEntry(r, handle, level, Expiry(d)) ELSE ent[x]]
            /\ data' = [data EXCEPT ![r].staff = @ \/ a = UL_HELPER]
            /\ timers' = IF d = 0 THEN timers
                         ELSE timers \union {TimerOf("tempuser", i, Expiry(d))}
        /\ UNCHANGED <<now, info, pend>>

\* ADDUSER for a user on the channel who is not logged in.
AddPending(h, role, c, user, level) ==
    /\ Usable(c, role)
    /\ \E a \in Access(info[c], h, role) : a >= UL_MANAGER /\ a > level
    /\ \A p \in pend : p.channel # c \/ p.user # user
    /\ pend' = pend \union {[channel |-> c, user |-> user, level |-> level]}
    /\ UNCHANGED <<now, info, data, ent, timers>>

\* The user leaves the network (DelUser), or expire_adduser_pending finds it too old.
DropPending(P) ==
    /\ P # {} /\ pend' = pend \ P
    /\ UNCHANGED <<now, info, data, ent, timers>>

\* Mutant: an account that has an entry already gets another.
PromisesToAll(P, h) == P

\* The promises that make a new entry for h.
Promises(P, h) == {p \in P : EntriesOf(info[p.channel], h) = {}}

\* process_adduser_pending: the user logs in to h.  Nothing looks whether the channel is
\* still registered; see PendingCrash.  Only staff can have promised the owner's level.
ProcessPending(user, h) ==
    LET P == {p \in pend : p.user = user}
        N == Promises(P, h)
    IN  /\ P # {} /\ \A p \in P : info[p.channel] # NONE
        /\ \E at \in [N -> Ids \ DOMAIN ent] :
            /\ \A p, q \in N : at[p] = at[q] => p = q
            /\ ent' = [x \in DOMAIN ent \union {at[p] : p \in N} |->
                           IF x \in DOMAIN ent THEN ent[x]
                           ELSE LET p == CHOOSE q \in N : at[q] = x
                                IN  NewEntry(info[p.channel], h, p.level, 0)]
        /\ data' = [r \in DOMAIN data |->
                        [data[r] EXCEPT !.staff = @ \/ \E p \in N :
                            info[p.channel] = r /\ p.level = UL_OWNER]]
        /\ pend' = pend \ P
        /\ UNCHANGED <<now, info, timers>>

\* Mutant: the new level is not compared with the sender's.
MayClvlAny(a, h, i, level) == ent[i].handle # h /\ a > ent[i].access

\* Whom one who acts with access a may change, and to which levels.
MayClvl(a, h, i, level) == ent[i].handle # h /\ a > ent[i].access /\ a > level

\* CLVL.  A temporary change remembers the level to go back to; any change leaves the
\* timer of an earlier one in the queue.
Clvl(h, role, c, i, level, d) ==
    LET r == info[c]
    IN  /\ Usable(c, role) /\ i \in UsersOf(r)
        /\ \E a \in Access(r, h, role) :
            /\ a >= UL_MANAGER
            /\ Override(r, role) \/ MayClvl(a, h, i, level)
            /\ d > 0 => ent[i].accessexpiry = 0
            /\ data' = [data EXCEPT ![r].staff = @ \/ a = UL_HELPER]
        /\ ent' = [ent EXCEPT ![i].access = level,
                              ![i].clvlexpiry = IF d = 0 THEN @ ELSE Expiry(d),
                              ![i].lastaccess = IF d = 0 THEN @ ELSE ent[i].access]
        /\ timers' = IF d = 0 THEN timers
                     ELSE timers \union {TimerOf("tempclvl", i, Expiry(d))}
        /\ UNCHANGED <<now, info, pend>>

\* DELUSER.
DelUser(h, role, c, i) ==
    /\ Usable(c, role) /\ i \in UsersOf(info[c])
    /\ \E a \in Access(info[c], h, role) : a >= UL_MANAGER /\ (a > ent[i].access \/ role > 0)
    /\ DelUsers({i})

\* The levels MDELOWNER, MDELCOOWNER, MDELMANAGER, MDELOP, MDELHALFOP and MDELPEON delete,
\* and the access each is bound to.
MDelRanges == {<<UL_OWNER, UL_OWNER, 1>>, <<UL_COOWNER, UL_OWNER - 1, UL_OWNER>>,
               <<UL_MANAGER, UL_COOWNER - 1, UL_COOWNER>>, <<UL_OP, UL_MANAGER - 1, UL_MANAGER>>,
               <<UL_HALFOP, UL_OP - 1, UL_MANAGER>>, <<UL_PEON, UL_HALFOP - 1, UL_MANAGER>>}

\* The entries in a range of levels whose accounts match a mask.
MDelUser(h, role, c, range, mask) ==
    LET low == range[1]  high == range[2]  min == range[3]
    IN  /\ Usable(c, role)
        /\ low = UL_OWNER => role > 0
        /\ \E a \in Access(info[c], h, role) : a >= min /\ (a > high \/ role > 0)
        /\ DelUsers({i \in UsersOf(info[c]) :
                        ent[i].access \in low..high /\ ent[i].handle \in mask})

\* TRIM USERS: those below the sender that were not seen lately.
TrimUsers(h, role, c, D) ==
    /\ Usable(c, role)
    /\ \E a \in Access(info[c], h, role) : a >= UL_MANAGER
    /\ D \subseteq UsersOf(info[c])
    /\ \E x \in ActiveOf(info[c], h) : \A i \in D : ent[i].access < ent[x].access
    /\ DelUsers(D)

\* DELETEME.
DeleteMe(h, role, c, i) ==
    /\ Usable(c, role) /\ Access(info[c], h, role) # {}
    /\ i \in EntriesOf(info[c], h) /\ ent[i].access # UL_OWNER
    /\ DelUsers({i})

\* GIVEOWNERSHIP: the sender's, or the only owner's.
GiveFrom(r, h) ==
    LET mine   == {i \in ActiveOf(r, h) : ent[i].access = UL_OWNER}
        owners == {i \in UsersOf(r) : ent[i].access = UL_OWNER}
    IN  IF mine # {} THEN mine ELSE IF Cardinality(owners) = 1 THEN owners ELSE {}

\* The new owner, at address j, gets the owner's level, and the old one, at i, the new
\* owner's or co-owner's.
GiveTo(r, i, j, new, old) ==
    [x \in DOMAIN ent \union {j} |->
        LET e == IF x = j THEN [new EXCEPT !.access = UL_OWNER] ELSE ent[x]
        IN  IF x = i THEN [e EXCEPT !.access = IF old >= UL_COOWNER THEN old ELSE UL_COOWNER]
            ELSE e]

GiveOwnership(h, role, c, handle, force) ==
    LET r == info[c]
    IN  /\ Usable(c, role)
        /\ \E a \in Access(r, h, role) : a >= UL_OWNER
        /\ handle # h /\ (force => role > 0)
        /\ \E i \in GiveFrom(r, h) :
            \/ /\ force \/ Cardinality(Owned(handle)) < MaxOwned
               /\ \E j \in ActiveOf(r, handle) : ent' = GiveTo(r, i, j, ent[j], ent[j].access)
            \/ /\ force /\ ActiveOf(r, handle) = {}
               /\ \E j \in Ids \ DOMAIN ent :
                    ent' = GiveTo(r, i, j, NewEntry(r, handle, UL_OWNER - 1, 0), UL_OWNER - 1)
        /\ data' = [data EXCEPT ![r].staff = @ \/ force]
        /\ UNCHANGED <<now, info, timers, pend>>

\* SUSPEND and UNSUSPEND for a user.
Suspend(h, role, c, i, d) ==
    /\ Usable(c, role) /\ i \in UsersOf(info[c])
    /\ \E a \in Access(info[c], h, role) : a >= UL_MANAGER /\ a > ent[i].access
    /\ ~ent[i].suspended
    /\ ent' = [ent EXCEPT ![i].suspended = TRUE, ![i].expires = Expiry(d)]
    /\ timers' = IF d = 0 THEN timers
                 ELSE timers \union {TimerOf("user_suspension", i, Expiry(d))}
    /\ UNCHANGED <<now, info, data, pend>>

Unsuspend(h, role, c, i) ==
    /\ Usable(c, role) /\ i \in UsersOf(info[c])
    /\ \E a \in Access(info[c], h, role) : a >= UL_MANAGER /\ a > ent[i].access
    /\ ent[i].suspended
    /\ ent' = [ent EXCEPT ![i].suspended = FALSE, ![i].expires = 0]
    /\ timers' = timers \ {TimerOf("user_suspension", i, ent[i].expires)}
    /\ UNCHANGED <<now, info, data, pend>>

-----------------------------------------------------------------------------
(* Suspended channels. *)

\* CSUSPEND by staff, who need no access to the channel; with "!" it replaces the
\* suspension there is.
CSuspend(c, again, d) ==
    LET r == info[c]
    IN  /\ r # NONE /\ ~data[r].nodelete
        /\ again \/ ~data[r].suspended
        /\ data' = [data EXCEPT ![r].suspended = TRUE, ![r].expires = Expiry(d)]
        /\ timers' = (IF data[r].suspended
                      THEN timers \ {TimerOf("suspension", r, data[r].expires)} ELSE timers)
                     \union (IF d > 0 THEN {TimerOf("suspension", r, Expiry(d))} ELSE {})
        /\ UNCHANGED <<now, info, ent, pend>>

\* CUNSUSPEND by staff.
CUnsuspend(c) ==
    LET r == info[c]
    IN  /\ r # NONE /\ data[r].suspended
        /\ data' = [data EXCEPT ![r].suspended = FALSE, ![r].expires = 0]
        /\ timers' = timers \ {TimerOf("suspension", r, data[r].expires)}
        /\ UNCHANGED <<now, info, ent, pend>>

-----------------------------------------------------------------------------
(* Accounts: handle_unreg, and the access lists in NickServ's MERGE. *)

HandleUnreg(h) == DelUsers({i \in DOMAIN ent : ent[i].handle = h})

HandleMerge(from, to) ==
    LET old  == {i \in DOMAIN ent : ent[i].handle = from}
        Other(i) == EntriesOf(ent[i].channel, to)
        less == {i \in old : \E j \in Other(i) : ent[j].access >= ent[i].access}
        D    == less \union UNION {Other(i) : i \in old \ less}
    IN  /\ from # to /\ old # {}
        /\ \A i \in old : Single(ent[i].channel)
        /\ ent' = [i \in DOMAIN ent \ D |->
                       IF i \in old THEN [ent[i] EXCEPT !.handle = to] ELSE ent[i]]
        /\ timers' = TimersWithout({}, D)
        /\ UNCHANGED <<now, info, data, pend>>

-----------------------------------------------------------------------------
(* timeq_run takes the earliest timer that is due. *)

First(t) == t \in timers /\ t.when <= now /\ \A x \in timers : t.when <= x.when

ExpireTempUser(t) ==
    /\ First(t) /\ t.fn = "tempuser"
    /\ IF ent[t.data].accessexpiry > 0
       THEN DelUsers({t.data})
       ELSE timers' = timers \ {t} /\ UNCHANGED <<now, info, data, ent, pend>>

ExpireTempClvl(t) ==
    /\ First(t) /\ t.fn = "tempclvl"
    /\ timers' = timers \ {t}
    /\ ent' = IF ent[t.data].clvlexpiry > 0
              THEN [ent EXCEPT ![t.data].access = ent[t.data].lastaccess,
                               ![t.data].lastaccess = 0, ![t.data].clvlexpiry = 0]
              ELSE ent
    /\ UNCHANGED <<now, info, data, pend>>

\* It writes through the pointer, to whatever entry is there by now; if there is none the
\* write goes to free memory.
ExpireUserSuspension(t) ==
    /\ First(t) /\ t.fn = "user_suspension"
    /\ timers' = timers \ {t}
    /\ ent' = IF t.data \in DOMAIN ent
              THEN [ent EXCEPT ![t.data].suspended = FALSE, ![t.data].expires = 0]
              ELSE ent
    /\ UNCHANGED <<now, info, data, pend>>

ExpireSuspension(t) ==
    /\ First(t) /\ t.fn = "suspension"
    /\ timers' = timers \ {t}
    /\ data' = [data EXCEPT ![t.data].suspended = FALSE, ![t.data].expires = 0]
    /\ UNCHANGED <<now, info, ent, pend>>

Tick ==
    /\ now < MaxTime /\ now' = now + 1
    /\ UNCHANGED <<info, data, ent, timers, pend>>

-----------------------------------------------------------------------------
(* The database.  It is written, and some time later, after a restart, read.  A *)
(* crash loses what was not written: that is a restart from an earlier state.   *)

Lapsed(x, at) == x.expires # 0 /\ x.expires <= at

\* user_read_helper.
ReadUser(e, at) ==
    IF e.suspended /\ Lapsed(e, at) THEN [e EXCEPT !.suspended = FALSE, !.expires = 0] ELSE e

UserTimers(i, e) ==
    {TimerOf("tempuser", i, when) : when \in {e.accessexpiry} \ {0}}
    \union {TimerOf("tempclvl", i, when) : when \in {e.clvlexpiry} \ {0}}
    \union {TimerOf("user_suspension", i, when) :
                when \in IF e.suspended THEN {e.expires} \ {0} ELSE {}}

\* chanserv_channel_read.
ReadChannel(x, at) ==
    IF x.suspended /\ Lapsed(x, at) THEN [x EXCEPT !.suspended = FALSE, !.expires = 0] ELSE x

SuspensionTimers(r, x) ==
    {TimerOf("suspension", r, when) : when \in IF x.suspended THEN {x.expires} \ {0} ELSE {}}

\* Mutant: a channel without users is kept.
HeldEmpty(known) == DOMAIN data

\* The registrations read back when the accounts that exist are `known': a channel with no
\* user left is unregistered, unless it is protected.
Held(known) ==
    {r \in DOMAIN data : (\E i \in UsersOf(r) : ent[i].handle \in known) \/ data[r].nodelete}

\* Of two entries of an account on one channel one is kept: they have the same key.
\* Addresses are arbitrary; with no timer left the old ones are as good as any.
Restart(at, known) ==
    \E D \in SUBSET {i \in DOMAIN ent : ent[i].handle \in known} :
        /\ \A i \in DOMAIN ent : ent[i].handle \in known =>
                \E x \in D : EntriesOf(ent[i].channel, ent[i].handle) \intersect D = {x}
        /\ now' = at
        /\ info' = [c \in Chans |-> IF info[c] \in Held(known) THEN info[c] ELSE NONE]
        /\ data' = [r \in Held(known) |-> ReadChannel(data[r], at)]
        /\ ent' = [i \in D |-> ReadUser(ent[i], at)]
        /\ timers' = UNION ({UserTimers(i, ent'[i]) : i \in D}
                            \union {SuspensionTimers(r, data'[r]) : r \in Held(known)})
        /\ pend' = {}

\* process_adduser_pending for a channel that is no longer registered: add_channel_user
\* goes through a null pointer, and services has to be started again.
PendingCrash(user) ==
    /\ \E p \in pend : p.user = user /\ info[p.channel] = NONE
    /\ Restart(now, Handles)

-----------------------------------------------------------------------------
Next ==
    \/ \E c \in Chans :
        \/ CUnsuspend(c)
        \/ \E again \in BOOLEAN, d \in InTime(SuspDurations) : CSuspend(c, again, d)
        \/ \E h \in Handles : \E role \in Roles(h) :
            \/ \E owner \in Handles, force \in BOOLEAN : Register(h, role, c, owner, force)
            \/ UnregisterCmd(h, role, c)
            \/ SetNodelete(h, role, c)
            \/ \E target \in Chans : Move(role, c, target)
            \/ \E target \in Chans, keep \in BOOLEAN : Merge(h, role, c, target, keep)
            \/ \E x \in Handles, l \in Levels, d \in InTime(Durations) :
                    AddUser(h, role, c, x, l, d)
            \/ \E u \in Users, l \in Levels : AddPending(h, role, c, u, l)
            \/ \E i \in Ids, l \in Levels, d \in InTime(Durations) : Clvl(h, role, c, i, l, d)
            \/ \E i \in Ids : DelUser(h, role, c, i)
            \/ \E x \in MDelRanges, mask \in (SUBSET Handles) \ {{}} :
                    MDelUser(h, role, c, x, mask)
            \/ \E D \in SUBSET Ids : TrimUsers(h, role, c, D)
            \/ \E i \in Ids : DeleteMe(h, role, c, i)
            \/ \E x \in Handles, force \in BOOLEAN : GiveOwnership(h, role, c, x, force)
            \/ \E i \in Ids, d \in InTime(Durations) : Suspend(h, role, c, i, d)
            \/ \E i \in Ids : Unsuspend(h, role, c, i)
    \/ \E R \in SUBSET DOMAIN data : ExpireChannels(R)
    \/ \E P \in SUBSET pend : DropPending(P)
    \/ \E u \in Users, h \in Handles : ProcessPending(u, h)
    \/ \E h \in Handles : HandleUnreg(h)
    \/ \E from, to \in Handles : HandleMerge(from, to)
    \/ \E t \in timers :
        ExpireTempUser(t) \/ ExpireTempClvl(t) \/ ExpireUserSuspension(t) \/ ExpireSuspension(t)
    \/ Tick
    \/ \E at \in now..MaxTime, known \in SUBSET Handles : Restart(at, known)
    \/ \E u \in Users : PendingCrash(u)

Spec == Init /\ [][Next]_vars

-----------------------------------------------------------------------------
(* Properties. *)

Linked ==
    /\ \A c \in Chans : info[c] # NONE =>
            info[c] \in DOMAIN data /\ data[info[c]].channel = c
    /\ \A r \in DOMAIN data : info[data[r].channel] = r
    /\ \A i \in DOMAIN ent : ent[i].channel \in DOMAIN data

AccessTimed ==
    /\ \A t \in timers : t.fn = "tempuser" =>
            t.data \in DOMAIN ent /\ ent[t.data].accessexpiry = t.when
    /\ \A i \in DOMAIN ent : ent[i].accessexpiry > 0 =>
            TimerOf("tempuser", i, ent[i].accessexpiry) \in timers

LevelTimed ==
    /\ \A t \in timers : t.fn = "tempclvl" => t.data \in DOMAIN ent
    /\ \A i \in DOMAIN ent : ent[i].clvlexpiry > 0 =>
            TimerOf("tempclvl", i, ent[i].clvlexpiry) \in timers

UserSuspensionTimed ==
    \A i \in DOMAIN ent : ent[i].suspended /\ ent[i].expires > 0 =>
        TimerOf("user_suspension", i, ent[i].expires) \in timers

SuspensionTimed ==
    {t \in timers : t.fn = "suspension"} =
        UNION {SuspensionTimers(r, data[r]) : r \in DOMAIN data}

\* Whatever ends by itself will end, and the timer that ends it points to what it ends:
\* channel_info and chanData name each other; temporary access, a temporary level and a
\* user's suspension have their timer in the queue, at the right time, after merges, moves
\* and restarts too; timers of the first two point to entries in memory; a channel has
\* the timer of its present suspension and no other.
Inv == TypeOK /\ Linked /\ AccessTimed /\ LevelTimed /\ UserSuspensionTimed /\ SuspensionTimed

\* Unless staff saw to it, an account is on an access list once, though ADDUSER, promises
\* kept at login, merges of channels and of accounts and restarts all add entries.
OneEntry ==
    \A i, j \in DOMAIN ent :
        /\ ent[i].channel = ent[j].channel /\ ent[i].handle = ent[j].handle
        /\ ~data[ent[i].channel].staff
        => i = j

\* Unless staff saw to it, no channel has two owners: no temporary level that ends, no
\* merge, promise or transfer makes a second one.
OneOwner ==
    \A i, j \in DOMAIN ent :
        /\ ent[i].channel = ent[j].channel /\ ~data[ent[i].channel].staff
        /\ ent[i].access = UL_OWNER /\ ent[j].access = UL_OWNER
        => i = j

\* A registration that is not protected and that staff left alone has a user: it ends with
\* its last one, whichever command, timer, account or restart takes that one away.
NoneEmpty == \A r \in DOMAIN data : data[r].staff \/ data[r].nodelete \/ UsersOf(r) # {}

\* What the comment of unregister_channel says must be cleaned up: no timer points to a
\* registration or an entry that is gone.
TimersLive ==
    \A t \in timers : IF t.fn = "suspension" THEN t.data \in DOMAIN data ELSE t.data \in DOMAIN ent

-----------------------------------------------------------------------------
\* For model checking: addresses and channels are interchangeable.
Memory == Permutations(Data) \union Permutations(Ids) \union Permutations(Chans)

\* So are accounts, where none is staff.
MemoryAndAccounts == Memory \union Permutations(Handles)
=============================================================================
