--------------------------- MODULE ChanServProofs ---------------------------
(***************************************************************************)
(* The structures of module ChanServ stay whole for every number of        *)
(* channels, accounts and addresses: Inv is an invariant, and so are       *)
(* OneEntry, OneOwner and NoneEmpty.                                       *)
(*                                                                         *)
(* Inv is inductive as it stands.  Most steps either take registrations    *)
(* and entries out of memory, with the timers that point to them (Removal),*)
(* or leave what timers look at as it was (Quiet); the rest set a timer or *)
(* take one away.  OneEntry, OneOwner and NoneEmpty need two facts more    *)
(* (PromisedOnce and NoOwnerAgain below).                                  *)
(***************************************************************************)
EXTENDS ChanServ, TLAPS

-----------------------------------------------------------------------------
(* Timers and types. *)

\* What SuspensionTimed says of single timers and registrations.
SuspensionsAgree(T, d) ==
    /\ \A t \in T : t.fn = "suspension" =>
        \E r \in DOMAIN d : /\ d[r].suspended /\ d[r].expires # 0
                            /\ t = TimerOf("suspension", r, d[r].expires)
    /\ \A r \in DOMAIN d : d[r].suspended /\ d[r].expires # 0 =>
        TimerOf("suspension", r, d[r].expires) \in T

LEMMA SuspensionsOneByOne ==
    ASSUME NEW T, NEW d
    PROVE  {t \in T : t.fn = "suspension"} = UNION {SuspensionTimers(r, d[r]) : r \in DOMAIN d}
           <=> SuspensionsAgree(T, d)
  <1>1. \A r : SuspensionTimers(r, d[r]) =
            IF d[r].suspended /\ d[r].expires # 0
            THEN {TimerOf("suspension", r, d[r].expires)} ELSE {}
    BY DEF SuspensionTimers
  <1>2. \A t : t \in UNION {SuspensionTimers(r, d[r]) : r \in DOMAIN d} <=>
               \E r \in DOMAIN d : /\ d[r].suspended /\ d[r].expires # 0
                                   /\ t = TimerOf("suspension", r, d[r].expires)
    BY <1>1
  <1>3. \A r, w : TimerOf("suspension", r, w).fn = "suspension"
    BY DEF TimerOf
  <1> QED BY <1>2, <1>3 DEF SuspensionsAgree

LEMMA SuspensionsNow ==
    /\ SuspensionTimed <=> SuspensionsAgree(timers, data)
    /\ SuspensionTimed' <=> SuspensionsAgree(timers', data')
  <1>1. SuspensionTimed <=> SuspensionsAgree(timers, data)
    BY SuspensionsOneByOne DEF SuspensionTimed
  <1>2. {t \in timers' : t.fn = "suspension"}
            = UNION {SuspensionTimers(r, data'[r]) : r \in DOMAIN data'}
        <=> SuspensionsAgree(timers', data')
    BY SuspensionsOneByOne
  <1> QED BY <1>1, <1>2 DEF SuspensionTimed

\* What a timer is made of.
LEMMA TimerFields ==
    ASSUME NEW fn, NEW x, NEW w
    PROVE  TimerOf(fn, x, w).fn = fn /\ TimerOf(fn, x, w).data = x /\ TimerOf(fn, x, w).when = w
  BY DEF TimerOf

LEMMA TimerType ==
    ASSUME NEW x \in Ids, NEW w \in Time, NEW fn \in {"tempuser", "tempclvl", "user_suspension"}
    PROVE  TimerOf(fn, x, w) \in Timer
  BY DEF TimerOf, Timer

LEMMA SuspensionType ==
    ASSUME NEW r \in Data, NEW w \in Time
    PROVE  TimerOf("suspension", r, w) \in Timer
  BY DEF TimerOf, Timer

LEMMA ExpiryType ==
    ASSUME now \in Time \ {0}, NEW ds \in SUBSET Nat, NEW d \in InTime(ds)
    PROVE  Expiry(d) \in Time /\ (d # 0 => Expiry(d) # 0) /\ d \in Nat
  BY ChanServAssumption DEF Expiry, InTime, Time

LEMMA NewEntryType ==
    ASSUME NEW r \in Data, NEW h \in Handles, NEW l \in Level, NEW w \in Time
    PROVE  NewEntry(r, h, l, w) \in Entry
  BY ChanServAssumption DEF NewEntry, Entry, Time, Level, UL_OWNER

-----------------------------------------------------------------------------
(* Removal. *)

\* DelUsers and Unregister: nothing in memory and no timer names what they take away.
LEMMA RemovalKeeps ==
    ASSUME Inv, NEW R \in SUBSET DOMAIN data, NEW D \in SUBSET DOMAIN ent,
           \A i \in DOMAIN ent : ent[i].channel \in R => i \in D,
           info' = InfoWithout(R), data' = DataWithout(R), ent' = EntWithout(D),
           timers' = TimersWithout(R, D), pend' = PendWithout(R), now' = now
    PROVE  Inv'
  <1> USE DEF Inv
  <1>1. DOMAIN data' = DOMAIN data \ R /\ \A r \in DOMAIN data \ R : data'[r] = data[r]
    BY DEF DataWithout
  <1>2. DOMAIN ent' = DOMAIN ent \ D /\ \A i \in DOMAIN ent \ D : ent'[i] = ent[i]
    BY DEF EntWithout
  <1>3. TypeOK'
    <2>1. info' \in [Chans -> Data \union {NONE}]
      BY DEF InfoWithout, TypeOK
    <2>2. data' \in [DOMAIN data' -> Registration] /\ ent' \in [DOMAIN ent' -> Entry]
      BY <1>1, <1>2 DEF TypeOK, DataWithout, EntWithout
    <2>3. timers' \subseteq Timer /\ pend' \subseteq Pending
      BY DEF TypeOK, TimersWithout, PendWithout
    <2> QED BY <2>1, <2>2, <2>3, <1>1, <1>2 DEF TypeOK
  <1>4. Linked'
    BY <1>1, <1>2, ChanServAssumption DEF Linked, InfoWithout, TypeOK, Entry, Registration
  <1>5. \A t : t \in timers' <=> t \in timers /\ ~DeadTimer(t, R, D)
    BY DEF TimersWithout
  <1>6. AccessTimed' /\ LevelTimed' /\ UserSuspensionTimed'
    BY <1>2, <1>5, TimerFields DEF AccessTimed, LevelTimed, UserSuspensionTimed, DeadTimer
  <1>7. SuspensionTimed'
    <2>1. SuspensionsAgree(timers, data)
      BY SuspensionsNow
    <2>2. SuspensionsAgree(timers', data')
      BY <2>1, <1>1, <1>5, TimerFields DEF SuspensionsAgree, DeadTimer
    <2> QED BY <2>2, SuspensionsNow
  <1> QED BY <1>3, <1>4, <1>6, <1>7

LEMMA DelUsersKeeps ==
    ASSUME Inv, NEW D \in SUBSET DOMAIN ent, DelUsers(D)
    PROVE  Inv'
  <1>1. Emptied(D) \in SUBSET DOMAIN data
    BY DEF Emptied, Inv, Linked
  <1>2. \A i \in DOMAIN ent : ent[i].channel \in Emptied(D) => i \in D
    BY DEF Emptied, UsersOf
  <1> QED BY <1>1, <1>2, RemovalKeeps DEF DelUsers

LEMMA UnregisterKeeps ==
    ASSUME Inv, NEW R \in SUBSET DOMAIN data, Unregister(R)
    PROVE  Inv'
  <1> DEFINE D == {i \in DOMAIN ent : ent[i].channel \in R}
  <1>1. D \in SUBSET DOMAIN ent /\ \A i \in DOMAIN ent : ent[i].channel \in R => i \in D
    OBVIOUS
  <1>2. /\ info' = InfoWithout(R) /\ data' = DataWithout(R) /\ ent' = EntWithout(D)
        /\ timers' = TimersWithout(R, D) /\ pend' = PendWithout(R) /\ now' = now
    BY DEF Unregister
  <1> QED BY <1>1, <1>2, RemovalKeeps

-----------------------------------------------------------------------------
(* Steps that leave alone what timers look at. *)

\* The registrations are those there were, up to what no timer looks at.
SameRegs ==
    /\ info' = info /\ DOMAIN data' = DOMAIN data
    /\ \A r \in DOMAIN data : /\ data'[r].channel = data[r].channel
                              /\ data'[r].suspended = data[r].suspended
                              /\ data'[r].expires = data[r].expires

\* No entry is gone, none has moved, and new ones are neither temporary nor suspended.
SameEntries ==
    /\ DOMAIN ent \subseteq DOMAIN ent'
    /\ \A i \in DOMAIN ent : /\ ent'[i].channel = ent[i].channel
                             /\ ent'[i].accessexpiry = ent[i].accessexpiry
                             /\ ent'[i].clvlexpiry = ent[i].clvlexpiry
                             /\ ent'[i].suspended = ent[i].suspended
                             /\ ent'[i].expires = ent[i].expires
    /\ \A i \in DOMAIN ent' \ DOMAIN ent : /\ ent'[i].channel \in DOMAIN data
                                           /\ ent'[i].accessexpiry = 0
                                           /\ ent'[i].clvlexpiry = 0
                                           /\ ~ent'[i].suspended

LEMMA RegsKeep ==
    ASSUME Linked, SuspensionTimed, SameRegs,
           \A t : t.fn = "suspension" => (t \in timers' <=> t \in timers),
           \A i \in DOMAIN ent' : ent'[i].channel \in DOMAIN data
    PROVE  Linked' /\ SuspensionTimed'
  <1>1. Linked'
    BY DEF Linked, SameRegs
  <1>2. SuspensionsAgree(timers', data')
    BY SuspensionsNow, TimerFields DEF SuspensionsAgree, SameRegs
  <1> QED BY <1>1, <1>2, SuspensionsNow

LEMMA QuietKeeps ==
    ASSUME Inv, TypeOK', SameRegs, SameEntries, timers' = timers
    PROVE  Inv'
  <1> USE DEF Inv
  <1>1. Linked' /\ SuspensionTimed'
    BY RegsKeep DEF SameEntries, Linked
  <1>2. AccessTimed' /\ LevelTimed' /\ UserSuspensionTimed'
    BY DEF SameEntries, AccessTimed, LevelTimed, UserSuspensionTimed
  <1> QED BY <1>1, <1>2

-----------------------------------------------------------------------------
(* Commands on registrations. *)

\* A command that Usable lets through is about a registration in memory.
LEMMA UsableThere ==
    ASSUME Inv, NEW c \in Chans, info[c] # NONE
    PROVE  info[c] \in DOMAIN data /\ data[info[c]].channel = c /\ info[c] \in Data
  BY DEF Inv, Linked, TypeOK

LEMMA RegisterKeeps ==
    ASSUME Inv, NEW h \in Handles, NEW role \in Roles(h), NEW c \in Chans,
           NEW owner \in Handles, NEW force \in BOOLEAN, Register(h, role, c, owner, force)
    PROVE  Inv'
  <1> USE DEF Inv
  <1> DEFINE new == [channel |-> c, nodelete |-> FALSE, suspended |-> FALSE,
                     expires |-> 0, staff |-> FALSE]
  <1>1. PICK r \in Data \ DOMAIN data, i \in Ids \ DOMAIN ent :
            /\ info' = [info EXCEPT ![c] = r]
            /\ data' = [x \in DOMAIN data \union {r} |-> IF x = r THEN new ELSE data[x]]
            /\ ent' = [x \in DOMAIN ent \union {i} |->
                           IF x = i THEN NewEntry(r, owner, UL_OWNER, 0) ELSE ent[x]]
    BY DEF Register
  <1>2. info[c] = NONE /\ UNCHANGED <<now, timers, pend>>
    BY DEF Register
  <1>3. new \in Registration /\ NewEntry(r, owner, UL_OWNER, 0) \in Entry
    <2>1. 0 \in Time /\ UL_OWNER \in Level
      BY ChanServAssumption DEF Time, Level, UL_OWNER
    <2>2. new \in Registration
      BY <2>1 DEF Registration
    <2> QED BY <2>1, <2>2, NewEntryType
  <1>4. TypeOK'
    <2>1. info' \in [Chans -> Data \union {NONE}]
      BY <1>1 DEF TypeOK
    <2>2. DOMAIN data' \subseteq Data /\ data' \in [DOMAIN data' -> Registration]
      BY <1>1, <1>3 DEF TypeOK
    <2>3. DOMAIN ent' \subseteq Ids /\ ent' \in [DOMAIN ent' -> Entry]
      BY <1>1, <1>3 DEF TypeOK
    <2> QED BY <2>1, <2>2, <2>3, <1>2 DEF TypeOK
  <1>5. Linked'
    BY <1>1, <1>2, ChanServAssumption DEF Linked, TypeOK, NewEntry
  <1>6. AccessTimed' /\ LevelTimed' /\ UserSuspensionTimed'
    BY <1>1, <1>2 DEF AccessTimed, LevelTimed, UserSuspensionTimed, NewEntry
  <1>7. SuspensionsAgree(timers', data')
    BY <1>1, <1>2, SuspensionsNow DEF SuspensionsAgree
  <1> QED BY <1>4, <1>5, <1>6, <1>7, SuspensionsNow

LEMMA MoveKeeps ==
    ASSUME Inv, NEW role, NEW c \in Chans, NEW target \in Chans, Move(role, c, target)
    PROVE  Inv'
  <1> USE DEF Inv
  <1> DEFINE r == info[c]
  <1>1. info[c] # NONE /\ info[target] = NONE /\ UNCHANGED <<now, ent, timers, pend>>
    BY DEF Move, Usable
  <1>2. r \in DOMAIN data /\ data[r].channel = c /\ r \in Data
    BY <1>1, UsableThere
  <1>3. info' = [info EXCEPT ![target] = r, ![c] = NONE]
        /\ data' = [data EXCEPT ![r].channel = target]
    BY DEF Move
  <1>4. TypeOK'
    BY <1>1, <1>2, <1>3 DEF TypeOK, Registration
  <1>5. DOMAIN data' = DOMAIN data /\ \A x \in DOMAIN data :
            /\ data'[x].channel = IF x = r THEN target ELSE data[x].channel
            /\ data'[x].suspended = data[x].suspended /\ data'[x].expires = data[x].expires
    BY <1>2, <1>3 DEF TypeOK, Registration
  <1>6. Linked'
    <2>1. \A x \in Chans : info'[x] = IF x = c THEN NONE ELSE IF x = target THEN r ELSE info[x]
      BY <1>3 DEF TypeOK
    <2>2. r # NONE /\ c # target
      BY <1>1
    <2>3. \A x \in Chans : info'[x] # NONE =>
              info'[x] \in DOMAIN data' /\ data'[info'[x]].channel = x
      BY <2>1, <2>2, <1>2, <1>5 DEF Linked
    <2>4. \A x \in DOMAIN data : data[x].channel \in Chans
      BY DEF TypeOK, Registration
    <2>5. \A x \in DOMAIN data' : info'[data'[x].channel] = x
      <3>1. NONE \notin DOMAIN data
        BY ChanServAssumption DEF TypeOK
      <3> QED BY <3>1, <2>1, <2>2, <2>4, <1>1, <1>2, <1>5 DEF Linked
    <2> QED BY <2>3, <2>5, <1>1, <1>5 DEF Linked
  <1>7. AccessTimed' /\ LevelTimed' /\ UserSuspensionTimed'
    BY <1>1 DEF AccessTimed, LevelTimed, UserSuspensionTimed
  <1>8. SuspensionsAgree(timers', data')
    BY <1>1, <1>5, SuspensionsNow DEF SuspensionsAgree
  <1> QED BY <1>4, <1>6, <1>7, <1>8, SuspensionsNow

LEMMA SetNodeleteKeeps ==
    ASSUME Inv, NEW h, NEW role, NEW c \in Chans, SetNodelete(h, role, c)
    PROVE  Inv'
  <1>1. info[c] \in DOMAIN data
    BY UsableThere DEF SetNodelete, Usable
  <1> DEFINE old == data[info[c]]
             new == [old EXCEPT !.nodelete = ~@, !.staff = TRUE]
  <1>2. /\ UNCHANGED <<now, info, ent, timers, pend>>
        /\ data' = [data EXCEPT ![info[c]] = new]
    BY DEF SetNodelete
  <1>3. old \in Registration
    BY <1>1 DEF Inv, TypeOK
  <1>4. /\ new \in Registration /\ new.channel = old.channel
        /\ new.suspended = old.suspended /\ new.expires = old.expires
    BY <1>3 DEF Registration
  <1>5. data' \in [DOMAIN data -> Registration] /\ DOMAIN data' = DOMAIN data
    BY <1>1, <1>2, <1>4 DEF Inv, TypeOK
  <1>6. SameRegs
    BY <1>1, <1>2, <1>4, <1>5 DEF SameRegs
  <1> QED BY <1>5, <1>6, <1>2, <1>3, QuietKeeps DEF Inv, TypeOK, SameEntries

-----------------------------------------------------------------------------
(* Commands on access lists. *)

LEMMA StaffMarked ==
    ASSUME TypeOK, NEW r \in DOMAIN data, NEW b \in BOOLEAN, info' = info,
           data' = [data EXCEPT ![r].staff = b]
    PROVE  /\ SameRegs
           /\ DOMAIN data' \subseteq Data /\ data' \in [DOMAIN data' -> Registration]
  <1>1. data[r] \in Registration
    BY DEF TypeOK
  <1> DEFINE new == [data[r] EXCEPT !.staff = b]
  <1>2. /\ new \in Registration /\ new.channel = data[r].channel
        /\ new.suspended = data[r].suspended /\ new.expires = data[r].expires
    BY <1>1 DEF Registration
  <1>3. data' = [data EXCEPT ![r] = new]
    OBVIOUS
  <1>4. data' \in [DOMAIN data -> Registration] /\ DOMAIN data' = DOMAIN data
    BY <1>2, <1>3 DEF TypeOK
  <1> QED BY <1>2, <1>3, <1>4 DEF SameRegs, TypeOK

LEMMA AddUserKeeps ==
    ASSUME Inv, NEW h \in Handles, NEW role \in Roles(h), NEW c \in Chans, NEW handle \in Handles,
           NEW level \in Levels, NEW d \in InTime(Durations), AddUser(h, role, c, handle, level, d)
    PROVE  Inv'
  <1> USE DEF Inv
  <1> DEFINE r == info[c]
  <1>1. r \in DOMAIN data /\ r \in Data /\ UNCHANGED <<now, info, pend>>
    BY UsableThere DEF AddUser, Usable
  <1>2. PICK a \in Access(r, h, role), i \in Ids \ DOMAIN ent :
            /\ ent' = [x \in DOMAIN ent \union {i} |->
                           IF x = i THEN NewEntry(r, handle, level, Expiry(d)) ELSE ent[x]]
            /\ data' = [data EXCEPT ![r].staff = @ \/ a = UL_HELPER]
            /\ timers' = IF d = 0 THEN timers
                         ELSE timers \union {TimerOf("tempuser", i, Expiry(d))}
    BY DEF AddUser
  <1>3. Expiry(d) \in Time /\ level \in Level /\ (d # 0 => Expiry(d) # 0)
    BY ExpiryType, ChanServAssumption DEF TypeOK, Level, UL_OWNER
  <1>4. SameRegs /\ DOMAIN data' \subseteq Data /\ data' \in [DOMAIN data' -> Registration]
    <2>1. (data[r].staff \/ a = UL_HELPER) \in BOOLEAN
      OBVIOUS
    <2> QED BY <2>1, <1>1, <1>2, StaffMarked
  <1>5. NewEntry(r, handle, level, Expiry(d)) \in Entry
    BY <1>1, <1>3, NewEntryType
  <1>6. DOMAIN ent' \subseteq Ids /\ ent' \in [DOMAIN ent' -> Entry]
    BY <1>2, <1>5 DEF TypeOK
  <1>7. timers' \subseteq Timer
    BY <1>2, <1>3, TimerType DEF TypeOK
  <1>8. TypeOK'
    BY <1>1, <1>4, <1>6, <1>7 DEF TypeOK
  <1>9. Linked' /\ SuspensionTimed'
    <2>1. \A x \in DOMAIN ent' : ent'[x].channel \in DOMAIN data
      BY <1>1, <1>2 DEF NewEntry, Linked
    <2>2. \A t : t.fn = "suspension" => (t \in timers' <=> t \in timers)
      BY <1>2, TimerFields
    <2> QED BY <2>1, <2>2, <1>4, RegsKeep
  <1>10. AccessTimed'
    BY <1>2, <1>3, TimerFields DEF AccessTimed, NewEntry, Expiry
  <1>11. LevelTimed' /\ UserSuspensionTimed'
    BY <1>2, TimerFields DEF LevelTimed, UserSuspensionTimed, NewEntry
  <1> QED BY <1>8, <1>9, <1>10, <1>11

LEMMA PendKeeps ==
    ASSUME Inv, pend' \subseteq Pending, UNCHANGED <<now, info, data, ent, timers>>
    PROVE  Inv'
  BY QuietKeeps DEF Inv, TypeOK, SameRegs, SameEntries

LEMMA AddPendingKeeps ==
    ASSUME Inv, NEW h, NEW role, NEW c \in Chans, NEW user \in Users, NEW level \in Levels,
           AddPending(h, role, c, user, level)
    PROVE  Inv'
  <1>1. level \in Level
    BY ChanServAssumption DEF Level, UL_OWNER
  <1>2. pend' \subseteq Pending
    BY <1>1 DEF AddPending, Pending, Inv, TypeOK
  <1> QED BY <1>2, PendKeeps DEF AddPending

LEMMA ProcessPendingKeeps ==
    ASSUME Inv, NEW user \in Users, NEW h \in Handles, ProcessPending(user, h)
    PROVE  Inv'
  <1> USE DEF Inv
  <1> DEFINE P == {p \in pend : p.user = user}
             N == Promises(P, h)
             Made(p) == NewEntry(info[p.channel], h, p.level, 0)
  <1>1. \A p \in P : p \in Pending /\ info[p.channel] # NONE
    BY DEF ProcessPending, TypeOK
  <1>2. PICK at \in [N -> Ids \ DOMAIN ent] :
            ent' = [x \in DOMAIN ent \union {at[p] : p \in N} |->
                        IF x \in DOMAIN ent THEN ent[x] ELSE Made(CHOOSE q \in N : at[q] = x)]
    BY DEF ProcessPending
  <1>3. /\ data' = [r \in DOMAIN data |->
                        [data[r] EXCEPT !.staff = @ \/ \E p \in N :
                            info[p.channel] = r /\ p.level = UL_OWNER]]
        /\ pend' = pend \ P /\ UNCHANGED <<now, info, timers>>
    BY DEF ProcessPending
  <1>4. \A p \in N : /\ info[p.channel] \in DOMAIN data /\ info[p.channel] \in Data
                     /\ Made(p) \in Entry
    <2>1. 0 \in Time
      BY ChanServAssumption DEF Time
    <2>2. N \subseteq P
      BY DEF Promises
    <2>3. \A p \in N : p.channel \in Chans /\ p.level \in Level
      BY <2>2, <1>1 DEF Pending
    <2>4. \A p \in N : info[p.channel] \in DOMAIN data /\ info[p.channel] \in Data
      BY <2>2, <2>3, <1>1, UsableThere
    <2> QED BY <2>1, <2>3, <2>4, NewEntryType
  <1>5. \A x \in DOMAIN ent' \ DOMAIN ent : \E p \in N : ent'[x] = Made(p) /\ x \in Ids
    BY <1>2
  <1>6. DOMAIN ent \subseteq DOMAIN ent' /\ \A x \in DOMAIN ent : ent'[x] = ent[x]
    BY <1>2
  <1>7. DOMAIN ent' \subseteq Ids /\ ent' \in [DOMAIN ent' -> Entry]
    <2>1. \A x \in DOMAIN ent' : ent'[x] \in Entry /\ x \in Ids
      BY <1>4, <1>5, <1>6 DEF TypeOK
    <2>2. ent' = [x \in DOMAIN ent' |-> ent'[x]]
      BY <1>2
    <2> QED BY <2>1, <2>2
  <1>8. SameRegs /\ data' \in [DOMAIN data -> Registration]
    <2>1. \A r \in DOMAIN data : data[r] \in Registration
      BY DEF TypeOK
    <2>2. \A r \in DOMAIN data, b \in BOOLEAN :
              LET new == [data[r] EXCEPT !.staff = b]
              IN  /\ new \in Registration /\ new.channel = data[r].channel
                  /\ new.suspended = data[r].suspended /\ new.expires = data[r].expires
      BY <2>1 DEF Registration
    <2>3. \A r \in DOMAIN data : \E b \in BOOLEAN : data'[r] = [data[r] EXCEPT !.staff = b]
      <3> SUFFICES ASSUME NEW r \in DOMAIN data
                   PROVE  \E b \in BOOLEAN : data'[r] = [data[r] EXCEPT !.staff = b]
        OBVIOUS
      <3>1. (data[r].staff \/ \E p \in N : info[p.channel] = r /\ p.level = UL_OWNER) \in BOOLEAN
        OBVIOUS
      <3> QED BY <3>1, <1>3
    <2> QED BY <2>2, <2>3, <1>3 DEF SameRegs
  <1>9. SameEntries
    BY <1>4, <1>5, <1>6 DEF SameEntries, NewEntry
  <1>10. TypeOK'
    BY <1>3, <1>7, <1>8 DEF TypeOK
  <1> QED BY <1>3, <1>8, <1>9, <1>10, QuietKeeps

\* An entry is written in place.
LEMMA EntryWritten ==
    ASSUME TypeOK, NEW i \in DOMAIN ent, NEW e \in Entry, ent' = [ent EXCEPT ![i] = e]
    PROVE  /\ DOMAIN ent' = DOMAIN ent /\ ent'[i] = e
           /\ \A x \in DOMAIN ent : x # i => ent'[x] = ent[x]
           /\ DOMAIN ent' \subseteq Ids /\ ent' \in [DOMAIN ent' -> Entry]
  BY DEF TypeOK

LEMMA ClvlKeeps ==
    ASSUME Inv, NEW h \in Handles, NEW role \in Roles(h), NEW c \in Chans, NEW i \in Ids,
           NEW level \in Levels, NEW d \in InTime(Durations), Clvl(h, role, c, i, level, d)
    PROVE  Inv'
  <1> USE DEF Inv
  <1> DEFINE r == info[c]
             e == [ent[i] EXCEPT !.access = level,
                                 !.clvlexpiry = IF d = 0 THEN @ ELSE Expiry(d),
                                 !.lastaccess = IF d = 0 THEN @ ELSE ent[i].access]
  <1>1. r \in DOMAIN data /\ i \in DOMAIN ent /\ UNCHANGED <<now, info, pend>>
    BY UsableThere DEF Clvl, Usable, UsersOf
  <1>2. /\ ent' = [ent EXCEPT ![i] = e]
        /\ timers' = IF d = 0 THEN timers
                     ELSE timers \union {TimerOf("tempclvl", i, Expiry(d))}
    BY DEF Clvl
  <1>3. SameRegs /\ DOMAIN data' \subseteq Data /\ data' \in [DOMAIN data' -> Registration]
    <2>1. PICK a : data' = [data EXCEPT ![r].staff = @ \/ a = UL_HELPER]
      BY DEF Clvl
    <2>2. (data[r].staff \/ a = UL_HELPER) \in BOOLEAN
      OBVIOUS
    <2> QED BY <2>1, <2>2, <1>1, StaffMarked
  <1>4. Expiry(d) \in Time /\ level \in Level
    BY ExpiryType, ChanServAssumption DEF TypeOK, Level, UL_OWNER
  <1>5. ent[i] \in Entry
    BY <1>1 DEF TypeOK
  <1>6. e \in Entry /\ e.channel = ent[i].channel /\ e.accessexpiry = ent[i].accessexpiry
        /\ e.suspended = ent[i].suspended /\ e.expires = ent[i].expires
        /\ e.clvlexpiry = IF d = 0 THEN ent[i].clvlexpiry ELSE Expiry(d)
    BY <1>4, <1>5 DEF Entry
  <1>7. /\ DOMAIN ent' = DOMAIN ent /\ ent'[i] = e
        /\ \A x \in DOMAIN ent : x # i => ent'[x] = ent[x]
        /\ DOMAIN ent' \subseteq Ids /\ ent' \in [DOMAIN ent' -> Entry]
    BY <1>1, <1>2, <1>6, EntryWritten
  <1> HIDE DEF e
  <1>8. timers' \subseteq Timer
    BY <1>2, <1>4, TimerType DEF TypeOK
  <1>9. TypeOK'
    BY <1>1, <1>3, <1>7, <1>8 DEF TypeOK
  <1>10. Linked' /\ SuspensionTimed'
    <2>1. \A x \in DOMAIN ent' : ent'[x].channel \in DOMAIN data
      BY <1>1, <1>6, <1>7 DEF Linked
    <2>2. \A t : t.fn = "suspension" => (t \in timers' <=> t \in timers)
      BY <1>2, TimerFields
    <2> QED BY <2>1, <2>2, <1>3, RegsKeep
  <1>11. AccessTimed' /\ LevelTimed' /\ UserSuspensionTimed'
    BY <1>1, <1>2, <1>6, <1>7, TimerFields DEF AccessTimed, LevelTimed, UserSuspensionTimed
  <1> QED BY <1>9, <1>10, <1>11

\* The new owner's entry, found or made, and the old owner's get their levels.
LEMMA GiveToType ==
    ASSUME Inv, NEW r \in DOMAIN data, NEW i \in DOMAIN ent, NEW j \in Ids, NEW new \in Entry,
           NEW old \in Level, ent' = GiveTo(r, i, j, new, old),
           j \in DOMAIN ent => new = ent[j],
           j \notin DOMAIN ent => \E h : new = NewEntry(r, h, UL_OWNER - 1, 0)
    PROVE  SameEntries /\ DOMAIN ent' \subseteq Ids /\ ent' \in [DOMAIN ent' -> Entry]
  <1> DEFINE level == IF old >= UL_COOWNER THEN old ELSE UL_COOWNER
             up == [new EXCEPT !.access = UL_OWNER]
  <1>1. level \in Level /\ UL_OWNER \in Level
    BY DEF Level, UL_OWNER, UL_COOWNER
  <1>2. up \in Entry /\ up.channel = new.channel /\ up.accessexpiry = new.accessexpiry
        /\ up.clvlexpiry = new.clvlexpiry /\ up.suspended = new.suspended
        /\ up.expires = new.expires
    BY <1>1 DEF Entry
  <1>3. \A e \in Entry :
            LET low == [e EXCEPT !.access = level]
            IN  /\ low \in Entry /\ low.channel = e.channel /\ low.accessexpiry = e.accessexpiry
                /\ low.clvlexpiry = e.clvlexpiry /\ low.suspended = e.suspended
                /\ low.expires = e.expires
    BY <1>1 DEF Entry
  <1>4. DOMAIN ent' = DOMAIN ent \union {j} /\ DOMAIN ent \subseteq Ids
    BY DEF GiveTo, Inv, TypeOK
  <1>5. \A x \in DOMAIN ent : ent[x] \in Entry
    BY DEF Inv, TypeOK
  <1> DEFINE was == IF i = j THEN up ELSE ent[i]
             low == [was EXCEPT !.access = level]
  <1>6. /\ \A x \in DOMAIN ent' : x # i /\ x # j => ent'[x] = ent[x]
        /\ j # i => ent'[j] = up
        /\ ent'[i] = low
    BY <1>4 DEF GiveTo
  <1>7. was \in Entry /\ was.channel = ent[i].channel /\ was.accessexpiry = ent[i].accessexpiry
        /\ was.clvlexpiry = ent[i].clvlexpiry /\ was.suspended = ent[i].suspended
        /\ was.expires = ent[i].expires
    BY <1>2, <1>5
  <1> HIDE DEF up, level, was
  <1>8. low \in Entry /\ low.channel = was.channel /\ low.accessexpiry = was.accessexpiry
        /\ low.clvlexpiry = was.clvlexpiry /\ low.suspended = was.suspended
        /\ low.expires = was.expires
    BY <1>3, <1>7
  <1> HIDE DEF low
  <1>9. \A x \in DOMAIN ent' : ent'[x] \in Entry
    BY <1>2, <1>4, <1>5, <1>6, <1>8
  <1>10. ent' \in [DOMAIN ent' -> Entry]
    BY <1>9 DEF GiveTo
  <1>11. \A x \in DOMAIN ent : /\ ent'[x].channel = ent[x].channel
                               /\ ent'[x].accessexpiry = ent[x].accessexpiry
                               /\ ent'[x].clvlexpiry = ent[x].clvlexpiry
                               /\ ent'[x].suspended = ent[x].suspended
                               /\ ent'[x].expires = ent[x].expires
    BY <1>2, <1>4, <1>6, <1>7, <1>8
  <1>12. \A x \in DOMAIN ent' \ DOMAIN ent :
            /\ ent'[x].channel = r /\ ent'[x].accessexpiry = 0 /\ ent'[x].clvlexpiry = 0
            /\ ~ent'[x].suspended
    <2>1. j \notin DOMAIN ent =>
              new.channel = r /\ new.accessexpiry = 0 /\ new.clvlexpiry = 0 /\ ~new.suspended
      BY DEF NewEntry
    <2> QED BY <2>1, <1>2, <1>4, <1>6
  <1> QED BY <1>4, <1>10, <1>11, <1>12 DEF SameEntries

LEMMA GiveOwnershipKeeps ==
    ASSUME Inv, NEW h \in Handles, NEW role \in Roles(h), NEW c \in Chans, NEW handle \in Handles,
           NEW force \in BOOLEAN, GiveOwnership(h, role, c, handle, force)
    PROVE  Inv'
  <1> USE DEF Inv
  <1> DEFINE r == info[c]
  <1>1. r \in DOMAIN data /\ r \in Data /\ UNCHANGED <<now, info, timers, pend>>
    BY UsableThere DEF GiveOwnership, Usable
  <1>2. SameRegs /\ DOMAIN data' \subseteq Data /\ data' \in [DOMAIN data' -> Registration]
    <2>1. data' = [data EXCEPT ![r].staff = @ \/ force] /\ (data[r].staff \/ force) \in BOOLEAN
      BY DEF GiveOwnership
    <2> QED BY <2>1, <1>1, StaffMarked
  <1>3. PICK i \in GiveFrom(r, h) :
            \/ \E j \in ActiveOf(r, handle) : ent' = GiveTo(r, i, j, ent[j], ent[j].access)
            \/ \E j \in Ids \ DOMAIN ent :
                    ent' = GiveTo(r, i, j, NewEntry(r, handle, UL_OWNER - 1, 0), UL_OWNER - 1)
    BY DEF GiveOwnership
  <1>4. i \in DOMAIN ent
    BY DEF GiveFrom, ActiveOf, EntriesOf, UsersOf
  <1>5. SameEntries /\ DOMAIN ent' \subseteq Ids /\ ent' \in [DOMAIN ent' -> Entry]
    <2>1. ASSUME NEW j \in ActiveOf(r, handle), ent' = GiveTo(r, i, j, ent[j], ent[j].access)
          PROVE  SameEntries /\ DOMAIN ent' \subseteq Ids /\ ent' \in [DOMAIN ent' -> Entry]
      <3>1. j \in DOMAIN ent /\ j \in Ids /\ ent[j] \in Entry
        BY DEF ActiveOf, EntriesOf, UsersOf, TypeOK
      <3>2. ent[j].access \in Level
        BY <3>1 DEF Entry
      <3> QED BY <2>1, <3>1, <3>2, <1>1, <1>4, GiveToType
    <2>2. ASSUME NEW j \in Ids \ DOMAIN ent,
                 ent' = GiveTo(r, i, j, NewEntry(r, handle, UL_OWNER - 1, 0), UL_OWNER - 1)
          PROVE  SameEntries /\ DOMAIN ent' \subseteq Ids /\ ent' \in [DOMAIN ent' -> Entry]
      <3>1. UL_OWNER - 1 \in Level /\ 0 \in Time
        BY ChanServAssumption DEF Level, UL_OWNER, Time
      <3>2. NewEntry(r, handle, UL_OWNER - 1, 0) \in Entry
        BY <3>1, <1>1, NewEntryType
      <3> QED BY <2>2, <3>1, <3>2, <1>1, <1>4, GiveToType
    <2> QED BY <1>3, <2>1, <2>2
  <1>6. TypeOK'
    BY <1>1, <1>2, <1>5 DEF TypeOK
  <1> QED BY <1>1, <1>2, <1>5, <1>6, QuietKeeps

LEMMA SuspendKeeps ==
    ASSUME Inv, NEW h, NEW role, NEW c \in Chans, NEW i \in Ids, NEW d \in InTime(Durations),
           Suspend(h, role, c, i, d)
    PROVE  Inv'
  <1> USE DEF Inv
  <1> DEFINE e == [ent[i] EXCEPT !.suspended = TRUE, !.expires = Expiry(d)]
  <1>1. i \in DOMAIN ent /\ UNCHANGED <<now, info, data, pend>>
    BY DEF Suspend, UsersOf
  <1>2. /\ ent' = [ent EXCEPT ![i] = e]
        /\ timers' = IF d = 0 THEN timers
                     ELSE timers \union {TimerOf("user_suspension", i, Expiry(d))}
    BY DEF Suspend
  <1>3. Expiry(d) \in Time /\ (d = 0 => Expiry(d) = 0)
    BY ExpiryType, ChanServAssumption DEF TypeOK, Expiry
  <1>4. ent[i] \in Entry
    BY <1>1 DEF TypeOK
  <1>5. e \in Entry /\ e.channel = ent[i].channel /\ e.accessexpiry = ent[i].accessexpiry
        /\ e.clvlexpiry = ent[i].clvlexpiry /\ e.expires = Expiry(d)
    BY <1>3, <1>4 DEF Entry
  <1> HIDE DEF e
  <1>6. /\ DOMAIN ent' = DOMAIN ent /\ ent'[i] = e
        /\ \A x \in DOMAIN ent : x # i => ent'[x] = ent[x]
        /\ DOMAIN ent' \subseteq Ids /\ ent' \in [DOMAIN ent' -> Entry]
    BY <1>1, <1>2, <1>5, EntryWritten
  <1>7. timers' \subseteq Timer
    BY <1>2, <1>3, TimerType DEF TypeOK
  <1>8. TypeOK'
    BY <1>1, <1>6, <1>7 DEF TypeOK
  <1>9. Linked' /\ SuspensionTimed'
    <2>1. \A x \in DOMAIN ent' : ent'[x].channel \in DOMAIN data
      <3>1. \A x \in DOMAIN ent : ent[x].channel \in DOMAIN data
        BY DEF Linked
      <3>2. \A x \in DOMAIN ent : ent'[x].channel = ent[x].channel
        BY <1>5, <1>6
      <3> QED BY <1>6, <3>1, <3>2
    <2>2. SameRegs /\ \A t : t.fn = "suspension" => (t \in timers' <=> t \in timers)
      BY <1>1, <1>2, TimerFields DEF SameRegs
    <2> QED BY <2>1, <2>2, RegsKeep
  <1>10. AccessTimed' /\ LevelTimed' /\ UserSuspensionTimed'
    BY <1>1, <1>2, <1>3, <1>5, <1>6, TimerFields DEF AccessTimed, LevelTimed, UserSuspensionTimed
  <1> QED BY <1>8, <1>9, <1>10

\* Unsuspend and ExpireUserSuspension: one entry is no longer suspended and one timer of
\* user suspensions, not that of another entry, is gone.
LEMMA UnsuspendedKeeps ==
    ASSUME Inv, NEW i \in DOMAIN ent, NEW t, t.fn = "user_suspension", t.data = i,
           ent' = [ent EXCEPT ![i].suspended = FALSE, ![i].expires = 0],
           timers' = timers \ {t}, UNCHANGED <<now, info, data, pend>>
    PROVE  Inv'
  <1> USE DEF Inv
  <1> DEFINE e == [ent[i] EXCEPT !.suspended = FALSE, !.expires = 0]
  <1>1. ent' = [ent EXCEPT ![i] = e]
    OBVIOUS
  <1>2. ent[i] \in Entry /\ 0 \in Time
    BY ChanServAssumption DEF TypeOK, Time
  <1>3. e \in Entry /\ e.channel = ent[i].channel /\ e.accessexpiry = ent[i].accessexpiry
        /\ e.clvlexpiry = ent[i].clvlexpiry /\ ~e.suspended
    BY <1>2 DEF Entry
  <1> HIDE DEF e
  <1>4. /\ DOMAIN ent' = DOMAIN ent /\ ent'[i] = e
        /\ \A x \in DOMAIN ent : x # i => ent'[x] = ent[x]
        /\ DOMAIN ent' \subseteq Ids /\ ent' \in [DOMAIN ent' -> Entry]
    BY <1>1, <1>3, EntryWritten
  <1>5. TypeOK'
    BY <1>4 DEF TypeOK
  <1>6. Linked' /\ SuspensionTimed'
    <2>1. \A x \in DOMAIN ent' : ent'[x].channel \in DOMAIN data
      BY <1>3, <1>4 DEF Linked
    <2>2. SameRegs /\ \A x : x.fn = "suspension" => (x \in timers' <=> x \in timers)
      BY DEF SameRegs
    <2> QED BY <2>1, <2>2, RegsKeep
  <1>7. AccessTimed' /\ LevelTimed' /\ UserSuspensionTimed'
    BY <1>3, <1>4, TimerFields DEF AccessTimed, LevelTimed, UserSuspensionTimed
  <1> QED BY <1>5, <1>6, <1>7

LEMMA UnsuspendKeeps ==
    ASSUME Inv, NEW h, NEW role, NEW c, NEW i, Unsuspend(h, role, c, i)
    PROVE  Inv'
  <1>1. i \in DOMAIN ent
    BY DEF Unsuspend, UsersOf
  <1> DEFINE t == TimerOf("user_suspension", i, ent[i].expires)
  <1>2. t.fn = "user_suspension" /\ t.data = i
    BY TimerFields
  <1>3. /\ ent' = [ent EXCEPT ![i].suspended = FALSE, ![i].expires = 0]
        /\ timers' = timers \ {t} /\ UNCHANGED <<now, info, data, pend>>
    BY DEF Unsuspend
  <1> HIDE DEF t
  <1> QED BY <1>1, <1>2, <1>3, UnsuspendedKeeps

-----------------------------------------------------------------------------
(* Suspended channels. *)

\* A registration is suspended or no longer suspended, and the timers follow.
LEMMA ResuspendedKeeps ==
    ASSUME Inv, NEW r \in DOMAIN data, NEW b \in BOOLEAN, NEW w \in Time,
           data' = [data EXCEPT ![r].suspended = b, ![r].expires = w],
           timers' \subseteq Timer,
           \A t : t.fn # "suspension" \/ t.data # r => (t \in timers' <=> t \in timers),
           \A t \in timers' : t.fn = "suspension" /\ t.data = r =>
                b /\ w # 0 /\ t = TimerOf("suspension", r, w),
           b /\ w # 0 => TimerOf("suspension", r, w) \in timers',
           UNCHANGED <<now, info, ent, pend>>
    PROVE  Inv'
  <1> USE DEF Inv
  <1> DEFINE new == [data[r] EXCEPT !.suspended = b, !.expires = w]
  <1>1. data' = [data EXCEPT ![r] = new]
    OBVIOUS
  <1>2. data[r] \in Registration
    BY DEF TypeOK
  <1>3. /\ new \in Registration /\ new.channel = data[r].channel
        /\ new.suspended = b /\ new.expires = w
    BY <1>2 DEF Registration
  <1> HIDE DEF new
  <1>4. /\ DOMAIN data' = DOMAIN data /\ data' \in [DOMAIN data -> Registration] /\ data'[r] = new
        /\ \A x \in DOMAIN data : x # r => data'[x] = data[x]
    BY <1>1, <1>3 DEF TypeOK
  <1>5. TypeOK'
    BY <1>4 DEF TypeOK
  <1>6. \A x \in DOMAIN data : data'[x].channel = data[x].channel
    BY <1>3, <1>4
  <1>7. Linked'
    BY <1>4, <1>6 DEF Linked
  <1>8. AccessTimed' /\ LevelTimed' /\ UserSuspensionTimed'
    BY TimerFields DEF AccessTimed, LevelTimed, UserSuspensionTimed
  <1>9. SuspensionsAgree(timers', data')
    BY <1>3, <1>4, SuspensionsNow, TimerFields DEF SuspensionsAgree
  <1> QED BY <1>5, <1>7, <1>8, <1>9, SuspensionsNow

\* A registration has no timer but that of its suspension.
LEMMA OneSuspension ==
    ASSUME Inv, NEW t \in timers, t.fn = "suspension"
    PROVE  /\ t.data \in DOMAIN data /\ data[t.data].suspended
           /\ t = TimerOf("suspension", t.data, data[t.data].expires)
  BY SuspensionsNow, TimerFields DEF Inv, SuspensionsAgree

LEMMA CSuspendKeeps ==
    ASSUME Inv, NEW c \in Chans, NEW again, NEW d \in InTime(SuspDurations), CSuspend(c, again, d)
    PROVE  Inv'
  <1> DEFINE r == info[c]
  <1>1. r \in DOMAIN data /\ r \in Data
    BY UsableThere DEF CSuspend
  <1>2. Expiry(d) \in Time /\ (d # 0 => Expiry(d) # 0) /\ (d = 0 => Expiry(d) = 0) /\ d \in Nat
    BY ExpiryType, ChanServAssumption DEF Inv, TypeOK, Expiry
  <1>3. timers' = (IF data[r].suspended
                   THEN timers \ {TimerOf("suspension", r, data[r].expires)} ELSE timers)
                  \union (IF d > 0 THEN {TimerOf("suspension", r, Expiry(d))} ELSE {})
    BY DEF CSuspend
  <1>4. timers' \subseteq Timer
    BY <1>1, <1>2, <1>3, SuspensionType DEF Inv, TypeOK
  <1>5. \A t : t.fn # "suspension" \/ t.data # r => (t \in timers' <=> t \in timers)
    BY <1>3, TimerFields
  <1>6. \A t \in timers' : t.fn = "suspension" /\ t.data = r =>
            Expiry(d) # 0 /\ t = TimerOf("suspension", r, Expiry(d))
    BY <1>2, <1>3, OneSuspension
  <1>7. Expiry(d) # 0 => TimerOf("suspension", r, Expiry(d)) \in timers'
    BY <1>2, <1>3
  <1>8. /\ data' = [data EXCEPT ![r].suspended = TRUE, ![r].expires = Expiry(d)]
        /\ UNCHANGED <<now, info, ent, pend>>
    BY DEF CSuspend
  <1> QED BY <1>1, <1>2, <1>4, <1>5, <1>6, <1>7, <1>8, ResuspendedKeeps

\* CUNSUSPEND and expire_suspension: the registration's timer goes with the suspension.
LEMMA SuspensionEnds ==
    ASSUME Inv, NEW r \in DOMAIN data, data[r].suspended,
           data' = [data EXCEPT ![r].suspended = FALSE, ![r].expires = 0],
           timers' = timers \ {TimerOf("suspension", r, data[r].expires)},
           UNCHANGED <<now, info, ent, pend>>
    PROVE  Inv'
  <1>1. 0 \in Time
    BY ChanServAssumption DEF Time
  <1>2. \A t : t.fn # "suspension" \/ t.data # r => (t \in timers' <=> t \in timers)
    BY TimerFields
  <1>3. \A t \in timers' : ~(t.fn = "suspension" /\ t.data = r)
    BY OneSuspension
  <1>4. timers' \subseteq Timer
    BY DEF Inv, TypeOK
  <1> QED BY <1>1, <1>2, <1>3, <1>4, ResuspendedKeeps

LEMMA CUnsuspendKeeps ==
    ASSUME Inv, NEW c \in Chans, CUnsuspend(c)
    PROVE  Inv'
  <1>1. info[c] \in DOMAIN data
    BY UsableThere DEF CUnsuspend
  <1> QED BY <1>1, SuspensionEnds DEF CUnsuspend

-----------------------------------------------------------------------------
(* Timers. *)

LEMMA ExpireTempUserKeeps ==
    ASSUME Inv, NEW t \in timers, ExpireTempUser(t)
    PROVE  Inv'
  <1> USE DEF Inv
  <1>1. t.fn = "tempuser" /\ t.data \in DOMAIN ent /\ ent[t.data].accessexpiry = t.when
    BY DEF ExpireTempUser, AccessTimed
  <1>2. CASE ent[t.data].accessexpiry > 0
    BY <1>1, <1>2, DelUsersKeeps DEF ExpireTempUser
  <1>3. CASE ~(ent[t.data].accessexpiry > 0)
    <2>1. timers' = timers \ {t} /\ UNCHANGED <<now, info, data, ent, pend>>
      BY <1>3 DEF ExpireTempUser
    <2>2. TypeOK' /\ Linked' /\ SuspensionTimed'
      <3>1. SameRegs /\ \A x : x.fn = "suspension" => (x \in timers' <=> x \in timers)
        BY <1>1, <2>1 DEF SameRegs
      <3>2. \A x \in DOMAIN ent' : ent'[x].channel \in DOMAIN data
        BY <2>1 DEF Linked
      <3>3. TypeOK'
        BY <2>1 DEF TypeOK
      <3> QED BY <3>1, <3>2, <3>3, RegsKeep
    <2>3. AccessTimed' /\ LevelTimed' /\ UserSuspensionTimed'
      BY <1>1, <1>3, <2>1, TimerFields DEF AccessTimed, LevelTimed, UserSuspensionTimed
    <2> QED BY <2>2, <2>3
  <1> QED BY <1>2, <1>3

LEMMA ExpireTempClvlKeeps ==
    ASSUME Inv, NEW t \in timers, ExpireTempClvl(t)
    PROVE  Inv'
  <1> USE DEF Inv
  <1> DEFINE i == t.data
             e == [ent[i] EXCEPT !.access = ent[i].lastaccess, !.lastaccess = 0, !.clvlexpiry = 0]
  <1>1. /\ t.fn = "tempclvl" /\ i \in DOMAIN ent
        /\ timers' = timers \ {t} /\ UNCHANGED <<now, info, data, pend>>
        /\ ent' = IF ent[i].clvlexpiry > 0 THEN [ent EXCEPT ![i] = e] ELSE ent
    BY DEF ExpireTempClvl, LevelTimed
  <1>2. ent[i] \in Entry /\ 0 \in Time /\ 0 \in Level
    BY <1>1, ChanServAssumption DEF TypeOK, Time, Level, UL_OWNER
  <1>3. e \in Entry /\ e.channel = ent[i].channel /\ e.accessexpiry = ent[i].accessexpiry
        /\ e.clvlexpiry = 0 /\ e.suspended = ent[i].suspended /\ e.expires = ent[i].expires
    BY <1>2 DEF Entry
  <1> HIDE DEF e
  <1>4. /\ DOMAIN ent' = DOMAIN ent
        /\ DOMAIN ent' \subseteq Ids /\ ent' \in [DOMAIN ent' -> Entry]
        /\ \A x \in DOMAIN ent : x # i => ent'[x] = ent[x]
        /\ ent'[i] = IF ent[i].clvlexpiry > 0 THEN e ELSE ent[i]
    BY <1>1, <1>3, EntryWritten DEF TypeOK
  <1>5. ent[i].clvlexpiry \in Nat
    BY <1>2, ChanServAssumption DEF Entry, Time
  <1>6. TypeOK'
    BY <1>1, <1>4 DEF TypeOK
  <1>7. Linked' /\ SuspensionTimed'
    <2>1. SameRegs /\ \A x : x.fn = "suspension" => (x \in timers' <=> x \in timers)
      BY <1>1 DEF SameRegs
    <2>2. \A x \in DOMAIN ent' : ent'[x].channel \in DOMAIN data
      BY <1>1, <1>3, <1>4 DEF Linked
    <2> QED BY <2>1, <2>2, RegsKeep
  <1>8. AccessTimed' /\ LevelTimed' /\ UserSuspensionTimed'
    BY <1>1, <1>3, <1>4, <1>5, TimerFields DEF AccessTimed, LevelTimed, UserSuspensionTimed
  <1> QED BY <1>6, <1>7, <1>8

LEMMA ExpireUserSuspensionKeeps ==
    ASSUME Inv, NEW t \in timers, ExpireUserSuspension(t)
    PROVE  Inv'
  <1>1. CASE t.data \in DOMAIN ent
    BY <1>1, UnsuspendedKeeps DEF ExpireUserSuspension
  <1>2. CASE t.data \notin DOMAIN ent
    <2> USE DEF Inv
    <2>1. t.fn = "user_suspension" /\ timers' = timers \ {t} /\ UNCHANGED <<now, info, data, ent, pend>>
      BY <1>2 DEF ExpireUserSuspension
    <2>2. SameRegs /\ \A x : x.fn = "suspension" => (x \in timers' <=> x \in timers)
      BY <2>1 DEF SameRegs
    <2>3. \A x \in DOMAIN ent' : ent'[x].channel \in DOMAIN data
      BY <2>1 DEF Linked
    <2>4. TypeOK'
      BY <2>1 DEF TypeOK
    <2>5. AccessTimed' /\ LevelTimed' /\ UserSuspensionTimed'
      BY <1>2, <2>1, TimerFields DEF AccessTimed, LevelTimed, UserSuspensionTimed
    <2> QED BY <2>2, <2>3, <2>4, <2>5, RegsKeep
  <1> QED BY <1>1, <1>2

LEMMA ExpireSuspensionKeeps ==
    ASSUME Inv, NEW t \in timers, ExpireSuspension(t)
    PROVE  Inv'
  BY OneSuspension, SuspensionEnds DEF ExpireSuspension

LEMMA TickKeeps ==
    ASSUME Inv, Tick
    PROVE  Inv'
  <1>1. now' \in Time \ {0}
    BY ChanServAssumption DEF Tick, Inv, TypeOK, Time
  <1>2. TypeOK' /\ SameRegs /\ SameEntries
    BY <1>1 DEF Tick, Inv, TypeOK, SameRegs, SameEntries
  <1> QED BY <1>2, QuietKeeps DEF Tick

-----------------------------------------------------------------------------
(* Merges. *)

\* The timers of what stays are those there were; DeadTimer takes the rest.
LEMMA TimersOfTheRest ==
    ASSUME Inv, NEW R \in SUBSET DOMAIN data, NEW D \in SUBSET DOMAIN ent,
           timers' = TimersWithout(R, D), DOMAIN ent' = DOMAIN ent \ D,
           DOMAIN data' = DOMAIN data \ R,
           \A r \in DOMAIN data' : /\ data'[r].suspended = data[r].suspended
                                   /\ data'[r].expires = data[r].expires,
           \A i \in DOMAIN ent' : /\ ent'[i].accessexpiry = ent[i].accessexpiry
                                  /\ ent'[i].clvlexpiry = ent[i].clvlexpiry
                                  /\ ent'[i].suspended = ent[i].suspended
                                  /\ ent'[i].expires = ent[i].expires
    PROVE  /\ AccessTimed' /\ LevelTimed' /\ UserSuspensionTimed' /\ SuspensionTimed'
           /\ timers' \subseteq Timer
  <1> USE DEF Inv
  <1>1. \A t : t \in timers' <=> t \in timers /\ ~DeadTimer(t, R, D)
    BY DEF TimersWithout
  <1>2. AccessTimed' /\ LevelTimed' /\ UserSuspensionTimed'
    BY <1>1, TimerFields DEF AccessTimed, LevelTimed, UserSuspensionTimed, DeadTimer
  <1>3. SuspensionsAgree(timers', data')
    BY <1>1, SuspensionsNow, TimerFields DEF SuspensionsAgree, DeadTimer
  <1>4. timers' \subseteq Timer
    BY <1>1 DEF TypeOK
  <1> QED BY <1>2, <1>3, <1>4, SuspensionsNow

\* What MERGE of registration s into t does, when it drops R and the entries L and the
\* sender acts with access a on s and b on t.
Merged(s, t, R, L, a, b) ==
    /\ s \in DOMAIN data /\ t \in DOMAIN data /\ s # t
    /\ R \in {{}, {s}} /\ L \in Losers(s, t)
    /\ data' = [r \in DOMAIN data \ R |->
                    CASE r = s -> [data[s] EXCEPT !.staff = TRUE]
                      [] r = t -> [data[t] EXCEPT !.staff = @ \/ data[s].staff
                                                             \/ UL_HELPER \in {a, b}]
                      [] OTHER -> data[r]]
    /\ ent' = [i \in DOMAIN ent \ L |->
                    IF ent[i].channel = s THEN [ent[i] EXCEPT !.channel = t] ELSE ent[i]]
    /\ timers' = TimersWithout(R, L) /\ pend' = PendWithout(R) /\ info' = InfoWithout(R)
    /\ UNCHANGED now

LEMMA MergeParts ==
    ASSUME Inv, NEW h, NEW role, NEW c \in Chans, NEW target \in Chans, NEW keep \in BOOLEAN,
           Merge(h, role, c, target, keep)
    PROVE  \E s, t, R, L, a, b :
               /\ Merged(s, t, R, L, a, b) /\ Single(s) /\ Single(t)
               /\ a \in Access(s, h, role) /\ b \in Access(t, h, role)
               /\ a >= UL_OWNER /\ b >= UL_OWNER
  <1>1. info[c] # NONE /\ info[target] # NONE /\ c # target
    BY DEF Merge, Usable
  <1>2. /\ info[c] \in DOMAIN data /\ data[info[c]].channel = c
        /\ info[target] \in DOMAIN data /\ data[info[target]].channel = target
    BY <1>1, UsableThere
  <1>3. PICK s, t, R : /\ s \in DOMAIN data /\ t \in DOMAIN data
                       /\ s = info[c] /\ t = info[target]
                       /\ R = IF keep THEN {} ELSE {s}
    BY <1>2
  <1>4. s # t /\ R \in {{}, {s}}
    BY <1>1, <1>2, <1>3
  <1>5. /\ Single(s) /\ Single(t)
        /\ \E a \in Access(s, h, role), b \in Access(t, h, role), L \in Losers(s, t) :
            a >= UL_OWNER /\ b >= UL_OWNER /\ Merged(s, t, R, L, a, b)
    BY <1>3, <1>4 DEF Merge, Merged
  <1> QED BY <1>5

\* What becomes of the registrations.
RegsMerged(s, t, R, L, a, b) ==
    /\ L \in SUBSET DOMAIN ent /\ R \in SUBSET DOMAIN data
    /\ DOMAIN data' = DOMAIN data \ R /\ data' \in [DOMAIN data' -> Registration]
    /\ \A r \in DOMAIN data' : /\ data'[r].channel = data[r].channel
                               /\ data'[r].nodelete = data[r].nodelete
                               /\ data'[r].suspended = data[r].suspended
                               /\ data'[r].expires = data[r].expires
                               /\ r \notin {s, t} => data'[r].staff = data[r].staff
    /\ s \in DOMAIN data' => data'[s].staff
    /\ data[t].staff \/ data[s].staff \/ UL_HELPER \in {a, b} => data'[t].staff

LEMMA MergedRegs ==
    ASSUME Inv, NEW s, NEW t, NEW R, NEW L, NEW a, NEW b, Merged(s, t, R, L, a, b)
    PROVE  RegsMerged(s, t, R, L, a, b)
  <1> USE DEF Inv
  <1>0. s \in DOMAIN data /\ t \in DOMAIN data /\ s # t /\ R \in {{}, {s}} /\ L \in Losers(s, t)
    BY DEF Merged
  <1>1. L \in SUBSET DOMAIN ent /\ R \in SUBSET DOMAIN data
    BY <1>0 DEF Losers, UsersOf
  <1>2. \A r \in DOMAIN data : data[r] \in Registration
    BY DEF TypeOK
  <1>3. \A r \in DOMAIN data : \A x \in BOOLEAN :
            /\ [data[r] EXCEPT !.staff = x] \in Registration
            /\ [data[r] EXCEPT !.staff = x].channel = data[r].channel
            /\ [data[r] EXCEPT !.staff = x].nodelete = data[r].nodelete
            /\ [data[r] EXCEPT !.staff = x].suspended = data[r].suspended
            /\ [data[r] EXCEPT !.staff = x].expires = data[r].expires
            /\ [data[r] EXCEPT !.staff = x].staff = x
    BY <1>2 DEF Registration
  <1>4. PICK x \in BOOLEAN : x = (data[t].staff \/ data[s].staff \/ UL_HELPER \in {a, b})
    OBVIOUS
  <1>5. /\ DOMAIN data' = DOMAIN data \ R
        /\ s \in DOMAIN data' => data'[s] = [data[s] EXCEPT !.staff = TRUE]
        /\ data'[t] = [data[t] EXCEPT !.staff = x]
        /\ \A r \in DOMAIN data' : r \notin {s, t} => data'[r] = data[r]
    BY <1>0, <1>4 DEF Merged
  <1>6. \A r \in DOMAIN data' : /\ data'[r] \in Registration
                                /\ data'[r].channel = data[r].channel
                                /\ data'[r].nodelete = data[r].nodelete
                                /\ data'[r].suspended = data[r].suspended
                                /\ data'[r].expires = data[r].expires
                                /\ r \notin {s, t} => data'[r].staff = data[r].staff
    <2> SUFFICES ASSUME NEW r \in DOMAIN data'
                 PROVE  /\ data'[r] \in Registration
                        /\ data'[r].channel = data[r].channel
                        /\ data'[r].nodelete = data[r].nodelete
                        /\ data'[r].suspended = data[r].suspended
                        /\ data'[r].expires = data[r].expires
                        /\ r \notin {s, t} => data'[r].staff = data[r].staff
      OBVIOUS
    <2>1. r \in DOMAIN data /\ TRUE \in BOOLEAN
      BY <1>5
    <2>2. CASE r = s
      BY <2>1, <2>2, <1>0, <1>3, <1>5
    <2>3. CASE r = t
      BY <2>1, <2>3, <1>0, <1>3, <1>5
    <2>4. CASE r \notin {s, t}
      BY <2>1, <2>4, <1>2, <1>5
    <2> QED BY <2>2, <2>3, <2>4
  <1>7. (s \in DOMAIN data' => data'[s].staff) /\ (x => data'[t].staff)
    BY <1>0, <1>3, <1>5
  <1>8. data' \in [DOMAIN data' -> Registration]
    BY <1>6 DEF Merged
  <1> QED BY <1>1, <1>4, <1>5, <1>6, <1>7, <1>8 DEF RegsMerged

\* And of the entries.
Moved(r, s, t) == IF r = s THEN t ELSE r

EntriesMerged(s, t, L) ==
    /\ DOMAIN ent' = DOMAIN ent \ L /\ ent' \in [DOMAIN ent' -> Entry]
    /\ \A i \in DOMAIN ent' :
          /\ ent'[i].channel = Moved(ent[i].channel, s, t)
          /\ ent'[i].handle = ent[i].handle /\ ent'[i].access = ent[i].access
          /\ ent'[i].lastaccess = ent[i].lastaccess
          /\ ent'[i].accessexpiry = ent[i].accessexpiry
          /\ ent'[i].clvlexpiry = ent[i].clvlexpiry
          /\ ent'[i].suspended = ent[i].suspended /\ ent'[i].expires = ent[i].expires

LEMMA MergedEntries ==
    ASSUME Inv, NEW s, NEW t, NEW R, NEW L, NEW a, NEW b, Merged(s, t, R, L, a, b)
    PROVE  EntriesMerged(s, t, L)
  <1> USE DEF Inv
  <1>0. t \in DOMAIN data
    BY DEF Merged
  <1>1. \A i \in DOMAIN ent : ent[i] \in Entry
    BY DEF TypeOK
  <1>2. t \in Data
    BY <1>0 DEF TypeOK
  <1>3. \A i \in DOMAIN ent :
            LET e == [ent[i] EXCEPT !.channel = t]
            IN  /\ e \in Entry /\ e.channel = t
                /\ e.handle = ent[i].handle /\ e.access = ent[i].access
                /\ e.lastaccess = ent[i].lastaccess
                /\ e.accessexpiry = ent[i].accessexpiry /\ e.clvlexpiry = ent[i].clvlexpiry
                /\ e.suspended = ent[i].suspended /\ e.expires = ent[i].expires
    BY <1>1, <1>2 DEF Entry
  <1>4. DOMAIN ent' = DOMAIN ent \ L
    BY DEF Merged
  <1>5. \A i \in DOMAIN ent' :
            /\ ent[i].channel = s => ent'[i] = [ent[i] EXCEPT !.channel = t]
            /\ ent[i].channel # s => ent'[i] = ent[i]
    BY DEF Merged
  <1>6. \A i \in DOMAIN ent' :
            /\ ent'[i] \in Entry
            /\ ent'[i].channel = Moved(ent[i].channel, s, t)
            /\ ent'[i].handle = ent[i].handle /\ ent'[i].access = ent[i].access
            /\ ent'[i].lastaccess = ent[i].lastaccess
            /\ ent'[i].accessexpiry = ent[i].accessexpiry
            /\ ent'[i].clvlexpiry = ent[i].clvlexpiry
            /\ ent'[i].suspended = ent[i].suspended /\ ent'[i].expires = ent[i].expires
    BY <1>1, <1>3, <1>4, <1>5 DEF Moved
  <1>7. ent' \in [DOMAIN ent' -> Entry]
    BY <1>6 DEF Merged
  <1> QED BY <1>4, <1>6, <1>7 DEF EntriesMerged

LEMMA MergeKeeps ==
    ASSUME Inv, NEW h, NEW role, NEW c \in Chans, NEW target \in Chans, NEW keep \in BOOLEAN,
           Merge(h, role, c, target, keep)
    PROVE  Inv'
  <1>1. PICK s, t, R, L, a, b : Merged(s, t, R, L, a, b)
    BY MergeParts
  <1>2. L \in SUBSET DOMAIN ent /\ R \in SUBSET DOMAIN data
    BY <1>1, MergedRegs DEF RegsMerged
  <1>3. DOMAIN data' = DOMAIN data \ R /\ data' \in [DOMAIN data' -> Registration]
        /\ \A r \in DOMAIN data' : /\ data'[r].channel = data[r].channel
                                   /\ data'[r].suspended = data[r].suspended
                                   /\ data'[r].expires = data[r].expires
    BY <1>1, MergedRegs DEF RegsMerged
  <1>4. DOMAIN ent' = DOMAIN ent \ L /\ ent' \in [DOMAIN ent' -> Entry]
        /\ \A i \in DOMAIN ent' :
              /\ ent'[i].channel = Moved(ent[i].channel, s, t)
              /\ ent'[i].accessexpiry = ent[i].accessexpiry
              /\ ent'[i].clvlexpiry = ent[i].clvlexpiry
              /\ ent'[i].suspended = ent[i].suspended /\ ent'[i].expires = ent[i].expires
    <2>1. EntriesMerged(s, t, L)
      BY <1>1, MergedEntries
    <2> QED BY <2>1 DEF EntriesMerged
  <1> USE DEF Inv
  <1>5. /\ timers' = TimersWithout(R, L) /\ pend' = PendWithout(R)
        /\ info' = InfoWithout(R) /\ UNCHANGED now
    BY <1>1 DEF Merged
  <1>6. /\ AccessTimed' /\ LevelTimed' /\ UserSuspensionTimed' /\ SuspensionTimed'
        /\ timers' \subseteq Timer
    BY <1>2, <1>3, <1>4, <1>5, TimersOfTheRest
  <1>7. TypeOK'
    <2>1. info' \in [Chans -> Data \union {NONE}]
      BY <1>5 DEF InfoWithout, TypeOK
    <2>2. pend' \subseteq Pending
      BY <1>5 DEF PendWithout, TypeOK
    <2> QED BY <2>1, <2>2, <1>2, <1>3, <1>4, <1>5, <1>6 DEF TypeOK
  <1>8. Linked'
    <2>1. \A x \in Chans : info'[x] = IF info[x] \in R THEN NONE ELSE info[x]
      BY <1>5 DEF InfoWithout
    <2>2. \A r \in DOMAIN data : data[r].channel \in Chans
      BY DEF TypeOK, Registration
    <2>3. \A x \in Chans : info'[x] # NONE =>
              info'[x] \in DOMAIN data' /\ data'[info'[x]].channel = x
      BY <2>1, <1>3 DEF Linked
    <2>4. \A r \in DOMAIN data' : info'[data'[r].channel] = r
      BY <2>1, <2>2, <1>3 DEF Linked
    <2>5. \A i \in DOMAIN ent' : ent'[i].channel \in DOMAIN data'
      BY <1>1, <1>3, <1>4 DEF Linked, Merged, Moved
    <2> QED BY <2>3, <2>4, <2>5 DEF Linked
  <1> QED BY <1>6, <1>7, <1>8

LEMMA HandleMergeKeeps ==
    ASSUME Inv, NEW from \in Handles, NEW to \in Handles, HandleMerge(from, to)
    PROVE  Inv'
  <1> USE DEF Inv
  <1>1. PICK D \in SUBSET DOMAIN ent, old \in SUBSET DOMAIN ent :
            /\ ent' = [i \in DOMAIN ent \ D |->
                           IF i \in old THEN [ent[i] EXCEPT !.handle = to] ELSE ent[i]]
            /\ timers' = TimersWithout({}, D)
            /\ UNCHANGED <<now, info, data, pend>>
    BY DEF HandleMerge, EntriesOf, UsersOf
  <1>2. DOMAIN ent' = DOMAIN ent \ D /\ ent' \in [DOMAIN ent' -> Entry]
        /\ \A i \in DOMAIN ent' :
              /\ ent'[i].channel = ent[i].channel
              /\ ent'[i].accessexpiry = ent[i].accessexpiry
              /\ ent'[i].clvlexpiry = ent[i].clvlexpiry
              /\ ent'[i].suspended = ent[i].suspended /\ ent'[i].expires = ent[i].expires
    <2>1. \A i \in DOMAIN ent : ent[i] \in Entry
      BY DEF TypeOK
    <2>2. \A i \in DOMAIN ent :
              LET e == [ent[i] EXCEPT !.handle = to]
              IN  /\ e \in Entry /\ e.channel = ent[i].channel
                  /\ e.accessexpiry = ent[i].accessexpiry /\ e.clvlexpiry = ent[i].clvlexpiry
                  /\ e.suspended = ent[i].suspended /\ e.expires = ent[i].expires
      BY <2>1 DEF Entry
    <2>3. DOMAIN ent' = DOMAIN ent \ D
      BY <1>1
    <2>4. \A i \in DOMAIN ent' : ent'[i] = ent[i] \/ ent'[i] = [ent[i] EXCEPT !.handle = to]
      BY <1>1
    <2>5. \A i \in DOMAIN ent' :
              /\ ent'[i] \in Entry /\ ent'[i].channel = ent[i].channel
              /\ ent'[i].accessexpiry = ent[i].accessexpiry
              /\ ent'[i].clvlexpiry = ent[i].clvlexpiry
              /\ ent'[i].suspended = ent[i].suspended /\ ent'[i].expires = ent[i].expires
      BY <2>1, <2>2, <2>3, <2>4
    <2> QED BY <2>3, <2>5, <1>1
  <1>3. /\ AccessTimed' /\ LevelTimed' /\ UserSuspensionTimed' /\ SuspensionTimed'
        /\ timers' \subseteq Timer
    <2>1. {} \in SUBSET DOMAIN data /\ DOMAIN data' = DOMAIN data \ {} /\ data' = data
      BY <1>1
    <2> QED BY <2>1, <1>1, <1>2, TimersOfTheRest
  <1>4. TypeOK' /\ Linked'
    BY <1>1, <1>2, <1>3 DEF TypeOK, Linked
  <1> QED BY <1>3, <1>4

-----------------------------------------------------------------------------
(* The database. *)

LEMMA UserTimersAre ==
    ASSUME NEW i, NEW e, NEW t
    PROVE  t \in UserTimers(i, e) <=>
             \/ e.accessexpiry # 0 /\ t = TimerOf("tempuser", i, e.accessexpiry)
             \/ e.clvlexpiry # 0 /\ t = TimerOf("tempclvl", i, e.clvlexpiry)
             \/ e.suspended /\ e.expires # 0 /\ t = TimerOf("user_suspension", i, e.expires)
  BY DEF UserTimers

LEMMA SuspensionTimersAre ==
    ASSUME NEW r, NEW x, NEW t
    PROVE  t \in SuspensionTimers(r, x) <=>
             x.suspended /\ x.expires # 0 /\ t = TimerOf("suspension", r, x.expires)
  BY DEF SuspensionTimers

\* What is read is what was written, but for a suspension that has lapsed.
LEMMA ReadUserType ==
    ASSUME NEW e \in Entry, NEW at
    PROVE  /\ ReadUser(e, at) \in Entry
           /\ ReadUser(e, at).channel = e.channel /\ ReadUser(e, at).handle = e.handle
           /\ ReadUser(e, at).access = e.access /\ ReadUser(e, at).lastaccess = e.lastaccess
  <1> DEFINE y == [e EXCEPT !.suspended = FALSE, !.expires = 0]
  <1>1. 0 \in Time
    BY ChanServAssumption DEF Time
  <1>2. /\ y \in Entry /\ y.channel = e.channel /\ y.handle = e.handle
        /\ y.access = e.access /\ y.lastaccess = e.lastaccess
    BY <1>1 DEF Entry
  <1>3. ReadUser(e, at) = y \/ ReadUser(e, at) = e
    BY DEF ReadUser
  <1> HIDE DEF y
  <1> QED BY <1>2, <1>3

LEMMA ReadChannelType ==
    ASSUME NEW x \in Registration, NEW at
    PROVE  /\ ReadChannel(x, at) \in Registration
           /\ ReadChannel(x, at).channel = x.channel /\ ReadChannel(x, at).nodelete = x.nodelete
           /\ ReadChannel(x, at).staff = x.staff
  <1> DEFINE y == [x EXCEPT !.suspended = FALSE, !.expires = 0]
  <1>1. 0 \in Time
    BY ChanServAssumption DEF Time
  <1>2. /\ y \in Registration /\ y.channel = x.channel
        /\ y.nodelete = x.nodelete /\ y.staff = x.staff
    BY <1>1 DEF Registration
  <1>3. ReadChannel(x, at) = y \/ ReadChannel(x, at) = x
    BY DEF ReadChannel
  <1> HIDE DEF y
  <1> QED BY <1>2, <1>3

\* What a restart leaves, when it reads back the entries D.
Reread(at, known, D) ==
    /\ D \subseteq {i \in DOMAIN ent : ent[i].handle \in known}
    /\ \A i \in DOMAIN ent : ent[i].handle \in known =>
            \E x \in D : EntriesOf(ent[i].channel, ent[i].handle) \intersect D = {x}
    /\ DOMAIN data' = Held(known) /\ DOMAIN ent' = D
    /\ \A r \in Held(known) : data'[r] = ReadChannel(data[r], at)
    /\ \A i \in D : ent'[i] = ReadUser(ent[i], at)

LEMMA RestartReads ==
    ASSUME NEW at, NEW known, Restart(at, known)
    PROVE  \E D : Reread(at, known, D)
  BY DEF Restart, Reread

LEMMA RestartKeeps ==
    ASSUME Inv, NEW at \in Time \ {0}, NEW known \in SUBSET Handles, Restart(at, known)
    PROVE  Inv'
  <1> USE DEF Inv
  <1> DEFINE H == Held(known)
  <1>1. PICK D \in SUBSET {i \in DOMAIN ent : ent[i].handle \in known} :
            /\ now' = at
            /\ info' = [c \in Chans |-> IF info[c] \in H THEN info[c] ELSE NONE]
            /\ data' = [r \in H |-> ReadChannel(data[r], at)]
            /\ ent' = [i \in D |-> ReadUser(ent[i], at)]
            /\ timers' = UNION ({UserTimers(i, ent'[i]) : i \in D}
                                \union {SuspensionTimers(r, data'[r]) : r \in H})
            /\ pend' = {}
    BY DEF Restart
  <1>2. H \subseteq DOMAIN data /\ D \subseteq DOMAIN ent
        /\ \A i \in D : ent[i].channel \in H
    BY DEF Held, UsersOf, Linked
  <1> HIDE DEF H
  <1>3. DOMAIN data' = H /\ \A r \in H : data'[r] \in Registration /\ data'[r].channel = data[r].channel
    BY <1>1, <1>2, ReadChannelType DEF TypeOK
  <1>4. DOMAIN ent' = D /\ \A i \in D : ent'[i] \in Entry /\ ent'[i].channel = ent[i].channel
    BY <1>1, <1>2, ReadUserType DEF TypeOK
  <1>5. /\ data' \in [DOMAIN data' -> Registration] /\ DOMAIN data' \subseteq Data
        /\ ent' \in [DOMAIN ent' -> Entry] /\ DOMAIN ent' \subseteq Ids
    BY <1>1, <1>2, <1>3, <1>4 DEF TypeOK
  <1>6. \A t : t \in timers' <=> \/ \E i \in D : t \in UserTimers(i, ent'[i])
                                 \/ \E r \in H : t \in SuspensionTimers(r, data'[r])
    BY <1>1
  <1>7. timers' \subseteq Timer
    <2>1. \A i \in D : /\ i \in Ids /\ ent'[i].accessexpiry \in Time
                       /\ ent'[i].clvlexpiry \in Time /\ ent'[i].expires \in Time
      BY <1>4, <1>5 DEF Entry
    <2>2. \A r \in H : r \in Data /\ data'[r].expires \in Time
      BY <1>3, <1>5 DEF Registration
    <2>3. ASSUME NEW i \in D, NEW t \in UserTimers(i, ent'[i]) PROVE t \in Timer
      BY <2>1, UserTimersAre, TimerType
    <2>4. ASSUME NEW r \in H, NEW t \in SuspensionTimers(r, data'[r]) PROVE t \in Timer
      BY <2>2, SuspensionTimersAre, SuspensionType
    <2> QED BY <1>6, <2>3, <2>4
  <1>8. TypeOK'
    BY <1>1, <1>5, <1>7 DEF TypeOK
  <1>9. Linked'
    <2>1. \A r \in DOMAIN data : data[r].channel \in Chans
      BY DEF TypeOK, Registration
    <2> QED BY <2>1, <1>1, <1>2, <1>3, <1>4 DEF Linked
  <1>10. \A i \in D : \A t : t \in UserTimers(i, ent'[i]) <=>
            \/ ent'[i].accessexpiry # 0 /\ t = TimerOf("tempuser", i, ent'[i].accessexpiry)
            \/ ent'[i].clvlexpiry # 0 /\ t = TimerOf("tempclvl", i, ent'[i].clvlexpiry)
            \/ /\ ent'[i].suspended /\ ent'[i].expires # 0
               /\ t = TimerOf("user_suspension", i, ent'[i].expires)
    BY UserTimersAre
  <1>11. \A r \in H : \A t : t \in SuspensionTimers(r, data'[r]) <=>
            /\ data'[r].suspended /\ data'[r].expires # 0
            /\ t = TimerOf("suspension", r, data'[r].expires)
    BY SuspensionTimersAre
  <1>12. AccessTimed' /\ LevelTimed'
    <2>1. \A t \in timers' : t.fn = "tempuser" =>
              \E i \in D : t = TimerOf("tempuser", i, ent'[i].accessexpiry)
      BY <1>6, <1>10, <1>11, TimerFields
    <2>2. \A t \in timers' : t.fn = "tempclvl" =>
              \E i \in D : t = TimerOf("tempclvl", i, ent'[i].clvlexpiry)
      BY <1>6, <1>10, <1>11, TimerFields
    <2>3. \A i \in D : ent'[i].accessexpiry > 0 =>
              TimerOf("tempuser", i, ent'[i].accessexpiry) \in timers'
      BY <1>6, <1>10
    <2>4. \A i \in D : ent'[i].clvlexpiry > 0 =>
              TimerOf("tempclvl", i, ent'[i].clvlexpiry) \in timers'
      BY <1>6, <1>10
    <2> QED BY <1>4, <2>1, <2>2, <2>3, <2>4, TimerFields DEF AccessTimed, LevelTimed
  <1>13. UserSuspensionTimed'
    BY <1>4, <1>6, <1>10 DEF UserSuspensionTimed
  <1>14. SuspensionsAgree(timers', data')
    BY <1>3, <1>6, <1>10, <1>11, TimerFields DEF SuspensionsAgree
  <1> QED BY <1>8, <1>9, <1>12, <1>13, <1>14, SuspensionsNow

LEMMA NextKeeps ==
    ASSUME Inv, Next
    PROVE  Inv'
  <1>1. ASSUME NEW c \in Chans, CUnsuspend(c)
       PROVE  Inv'
    BY <1>1, CUnsuspendKeeps
  <1>2. ASSUME NEW c \in Chans, NEW again \in BOOLEAN, NEW d \in InTime(SuspDurations), CSuspend(c, again, d)
       PROVE  Inv'
    BY <1>2, CSuspendKeeps
  <1>3. ASSUME NEW c \in Chans, NEW h \in Handles, NEW role \in Roles(h),
             NEW owner \in Handles, NEW force \in BOOLEAN,
             Register(h, role, c, owner, force)
       PROVE  Inv'
    BY <1>3, RegisterKeeps
  <1>4. ASSUME NEW c \in Chans, NEW h \in Handles, NEW role \in Roles(h), UnregisterCmd(h, role, c)
       PROVE  Inv'
    <2>1. info[c] \in DOMAIN data
      BY <1>4, UsableThere DEF UnregisterCmd, Usable
    <2> QED BY <1>4, <2>1, UnregisterKeeps DEF UnregisterCmd
  <1>5. ASSUME NEW c \in Chans, NEW h \in Handles, NEW role \in Roles(h), SetNodelete(h, role, c)
       PROVE  Inv'
    BY <1>5, SetNodeleteKeeps
  <1>6. ASSUME NEW c \in Chans, NEW h \in Handles, NEW role \in Roles(h), NEW target \in Chans, Move(role, c, target)
       PROVE  Inv'
    BY <1>6, MoveKeeps
  <1>7. ASSUME NEW c \in Chans, NEW h \in Handles, NEW role \in Roles(h),
             NEW target \in Chans, NEW keep \in BOOLEAN,
             Merge(h, role, c, target, keep)
       PROVE  Inv'
    BY <1>7, MergeKeeps
  <1>8. ASSUME NEW c \in Chans, NEW h \in Handles, NEW role \in Roles(h),
             NEW x \in Handles, NEW l \in Levels, NEW d \in InTime(Durations),
             AddUser(h, role, c, x, l, d)
       PROVE  Inv'
    BY <1>8, AddUserKeeps
  <1>9. ASSUME NEW c \in Chans, NEW h \in Handles, NEW role \in Roles(h),
             NEW u \in Users, NEW l \in Levels,
             AddPending(h, role, c, u, l)
       PROVE  Inv'
    BY <1>9, AddPendingKeeps
  <1>10. ASSUME NEW c \in Chans, NEW h \in Handles, NEW role \in Roles(h),
             NEW i \in Ids, NEW l \in Levels, NEW d \in InTime(Durations),
             Clvl(h, role, c, i, l, d)
       PROVE  Inv'
    BY <1>10, ClvlKeeps
  <1>11. ASSUME NEW c \in Chans, NEW h \in Handles, NEW role \in Roles(h), NEW i \in Ids, DelUser(h, role, c, i)
       PROVE  Inv'
    BY <1>11, DelUsersKeeps DEF DelUser, EntriesOf, UsersOf
  <1>12. ASSUME NEW c \in Chans, NEW h \in Handles, NEW role \in Roles(h),
             NEW x \in MDelRanges, NEW mask \in (SUBSET Handles) \ {{}},
             MDelUser(h, role, c, x, mask)
       PROVE  Inv'
    BY <1>12, DelUsersKeeps DEF MDelUser, UsersOf
  <1>13. ASSUME NEW c \in Chans, NEW h \in Handles, NEW role \in Roles(h), NEW D \in SUBSET Ids, TrimUsers(h, role, c, D)
       PROVE  Inv'
    BY <1>13, DelUsersKeeps DEF TrimUsers, UsersOf
  <1>14. ASSUME NEW c \in Chans, NEW h \in Handles, NEW role \in Roles(h), NEW i \in Ids, DeleteMe(h, role, c, i)
       PROVE  Inv'
    BY <1>14, DelUsersKeeps DEF DeleteMe, EntriesOf, UsersOf
  <1>15. ASSUME NEW c \in Chans, NEW h \in Handles, NEW role \in Roles(h),
             NEW x \in Handles, NEW force \in BOOLEAN,
             GiveOwnership(h, role, c, x, force)
       PROVE  Inv'
    BY <1>15, GiveOwnershipKeeps
  <1>16. ASSUME NEW c \in Chans, NEW h \in Handles, NEW role \in Roles(h),
             NEW i \in Ids, NEW d \in InTime(Durations),
             Suspend(h, role, c, i, d)
       PROVE  Inv'
    BY <1>16, SuspendKeeps
  <1>17. ASSUME NEW c \in Chans, NEW h \in Handles, NEW role \in Roles(h), NEW i \in Ids, Unsuspend(h, role, c, i)
       PROVE  Inv'
    BY <1>17, UnsuspendKeeps
  <1>18. ASSUME NEW R \in SUBSET DOMAIN data, ExpireChannels(R)
       PROVE  Inv'
    BY <1>18, UnregisterKeeps DEF ExpireChannels
  <1>19. ASSUME NEW P \in SUBSET pend, DropPending(P)
       PROVE  Inv'
    BY <1>19, PendKeeps DEF DropPending, Inv, TypeOK
  <1>20. ASSUME NEW u \in Users, NEW h \in Handles, ProcessPending(u, h)
       PROVE  Inv'
    BY <1>20, ProcessPendingKeeps
  <1>21. ASSUME NEW h \in Handles, HandleUnreg(h)
       PROVE  Inv'
    BY <1>21, DelUsersKeeps DEF HandleUnreg
  <1>22. ASSUME NEW from \in Handles, NEW to \in Handles, HandleMerge(from, to)
       PROVE  Inv'
    BY <1>22, HandleMergeKeeps
  <1>23. ASSUME NEW t \in timers, ExpireTempUser(t)
       PROVE  Inv'
    BY <1>23, ExpireTempUserKeeps
  <1>24. ASSUME NEW t \in timers, ExpireTempClvl(t)
       PROVE  Inv'
    BY <1>24, ExpireTempClvlKeeps
  <1>25. ASSUME NEW t \in timers, ExpireUserSuspension(t)
       PROVE  Inv'
    BY <1>25, ExpireUserSuspensionKeeps
  <1>26. ASSUME NEW t \in timers, ExpireSuspension(t)
       PROVE  Inv'
    BY <1>26, ExpireSuspensionKeeps
  <1>27. ASSUME Tick
       PROVE  Inv'
    BY <1>27, TickKeeps
  <1>28. ASSUME NEW at \in now..MaxTime, NEW known \in SUBSET Handles, Restart(at, known)
       PROVE  Inv'
    <2>1. at \in Time \ {0}
      BY ChanServAssumption DEF Inv, TypeOK, Time
    <2> QED BY <1>28, <2>1, RestartKeeps
  <1>29. ASSUME NEW u \in Users, PendingCrash(u)
       PROVE  Inv'
    <2>1. now \in Time \ {0}
      BY DEF Inv, TypeOK
    <2> QED BY <1>29, <2>1, RestartKeeps DEF PendingCrash
  <1> QED BY <1>1, <1>2, <1>3, <1>4, <1>5, <1>6, <1>7, <1>8, <1>9, <1>10, <1>11, <1>12, <1>13, <1>14,
      <1>15, <1>16, <1>17, <1>18, <1>19, <1>20, <1>21, <1>22, <1>23, <1>24, <1>25, <1>26, <1>27, <1>28, <1>29 DEF Next

-----------------------------------------------------------------------------
(* Theorems. *)

LEMMA InitKeeps ==
    ASSUME Init
    PROVE  Inv
  <1> USE DEF Init
  <1>1. TypeOK
    BY ChanServAssumption DEF TypeOK, Time
  <1>2. Linked /\ AccessTimed /\ LevelTimed /\ UserSuspensionTimed
    BY DEF Linked, AccessTimed, LevelTimed, UserSuspensionTimed
  <1>3. SuspensionsAgree(timers, data)
    BY DEF SuspensionsAgree
  <1> QED BY <1>1, <1>2, <1>3, SuspensionsNow DEF Inv

\* For every number of channels, accounts and addresses, whatever ends by itself will end
\* and its timer points to it: channel_info and chanData name each other, entries belong
\* to registrations in memory, temporary access, temporary levels and suspensions have
\* their timers, after removals, moves, both merges and restarts too (chanserv.c).
THEOREM TimersAgree == Spec => []Inv
  <1>1. Init => Inv
    BY InitKeeps
  <1>2. Inv /\ [Next]_vars => Inv'
    <2> SUFFICES ASSUME Inv, [Next]_vars PROVE Inv'
      OBVIOUS
    <2>1. CASE Next
      BY <2>1, NextKeeps
    <2>2. CASE UNCHANGED vars
      <3>1. TypeOK' /\ SameRegs /\ SameEntries
        BY <2>2 DEF vars, Inv, TypeOK, SameRegs, SameEntries
      <3> QED BY <2>2, <3>1, QuietKeeps DEF vars
    <2> QED BY <2>1, <2>2
  <1> QED BY <1>1, <1>2, PTL DEF Spec

-----------------------------------------------------------------------------
(* Access lists.  OneEntry, OneOwner and NoneEmpty hold together with these two facts. *)

\* A user is promised access to a channel once.
PromisedOnce == \A p, q \in pend : p.channel = q.channel /\ p.user = q.user => p = q

\* No temporary level goes back to the owner's, unless staff gave it.
NoOwnerAgain ==
    \A i \in DOMAIN ent : ~data[ent[i].channel].staff => ent[i].lastaccess # UL_OWNER

Lists == PromisedOnce /\ NoOwnerAgain /\ OneEntry /\ OneOwner /\ NoneEmpty

\* No list changes, and what staff did is remembered.
LEMMA ListsFrame ==
    ASSUME Linked, Lists, PromisedOnce', DOMAIN ent' = DOMAIN ent, DOMAIN data' = DOMAIN data,
           \A i \in DOMAIN ent : /\ ent'[i].channel = ent[i].channel
                                 /\ ent'[i].handle = ent[i].handle
                                 /\ ent'[i].access = ent[i].access
                                 /\ ent'[i].lastaccess = ent[i].lastaccess,
           \A r \in DOMAIN data : /\ data[r].staff => data'[r].staff
                                  /\ data[r].nodelete => data'[r].nodelete \/ data'[r].staff
    PROVE  Lists'
  <1> USE DEF Lists
  <1>1. \A i \in DOMAIN ent : ent[i].channel \in DOMAIN data
    BY DEF Linked
  <1>2. NoOwnerAgain'
    BY <1>1 DEF NoOwnerAgain
  <1>3. OneEntry' /\ OneOwner'
    BY <1>1 DEF OneEntry, OneOwner
  <1>4. NoneEmpty'
    BY <1>1 DEF NoneEmpty, UsersOf
  <1> QED BY <1>2, <1>3, <1>4

\* Registrations R and entries D are gone: a list that lost its last entry goes too,
\* unless it is protected.
LEMMA ListsRemoval ==
    ASSUME Linked, Lists, NEW R, NEW D, pend' \subseteq pend,
           data' = DataWithout(R), ent' = EntWithout(D),
           \A i \in DOMAIN ent \ D : ent[i].channel \notin R,
           \A i \in D : \/ ent[i].channel \in R \/ data[ent[i].channel].nodelete
                        \/ \E j \in DOMAIN ent \ D : ent[j].channel = ent[i].channel
    PROVE  Lists'
  <1> USE DEF Lists
  <1>1. DOMAIN data' = DOMAIN data \ R /\ \A r \in DOMAIN data' : data'[r] = data[r]
    BY DEF DataWithout
  <1>2. DOMAIN ent' = DOMAIN ent \ D /\ \A i \in DOMAIN ent' : ent'[i] = ent[i]
    BY DEF EntWithout
  <1>3. \A i \in DOMAIN ent' : ent[i].channel \in DOMAIN data'
    BY <1>1, <1>2 DEF Linked
  <1>4. PromisedOnce' /\ NoOwnerAgain'
    BY <1>1, <1>2, <1>3 DEF PromisedOnce, NoOwnerAgain
  <1>5. OneEntry' /\ OneOwner'
    BY <1>1, <1>2, <1>3 DEF OneEntry, OneOwner
  <1>6. NoneEmpty'
    BY <1>1, <1>2, <1>3 DEF NoneEmpty, UsersOf
  <1> QED BY <1>4, <1>5, <1>6

LEMMA DelUsersLists ==
    ASSUME Inv, Lists, NEW D \in SUBSET DOMAIN ent, DelUsers(D)
    PROVE  Lists'
  <1> DEFINE R == Emptied(D)
  <1>1. pend' \subseteq pend /\ data' = DataWithout(R) /\ ent' = EntWithout(D)
    BY DEF DelUsers, PendWithout
  <1>2. \A i \in DOMAIN ent \ D : ent[i].channel \notin R
    BY DEF Emptied, UsersOf
  <1>3. \A i \in D : \/ ent[i].channel \in R \/ data[ent[i].channel].nodelete
                     \/ \E j \in DOMAIN ent \ D : ent[j].channel = ent[i].channel
    BY DEF Emptied, UsersOf
  <1> HIDE DEF R
  <1> QED BY <1>1, <1>2, <1>3, ListsRemoval DEF Inv

LEMMA UnregisterLists ==
    ASSUME Inv, Lists, NEW R \in SUBSET DOMAIN data, Unregister(R)
    PROVE  Lists'
  <1> DEFINE D == {i \in DOMAIN ent : ent[i].channel \in R}
  <1>1. pend' \subseteq pend /\ data' = DataWithout(R) /\ ent' = EntWithout(D)
    BY DEF Unregister, PendWithout
  <1>2. \A i \in DOMAIN ent \ D : ent[i].channel \notin R
    OBVIOUS
  <1>3. \A i \in D : ent[i].channel \in R
    OBVIOUS
  <1> HIDE DEF D
  <1> QED BY <1>1, <1>2, <1>3, ListsRemoval DEF Inv

\* Nobody but HELPING staff acts with more than the level of an entry.
LEMMA AccessIs ==
    ASSUME Inv, NEW r, NEW h, NEW role, NEW a \in Access(r, h, role)
    PROVE  \/ a = UL_HELPER
           \/ a \in Level /\ \E i \in ActiveOf(r, h) : ent[i].access = a
  <1>1. \A i \in DOMAIN ent : ent[i].access \in Level
    BY DEF Inv, TypeOK, Entry
  <1> QED BY <1>1 DEF Access, ActiveOf, EntriesOf, UsersOf

\* A registration's mark, and nothing else of it.
LEMMA StaffMarks ==
    ASSUME TypeOK, NEW r \in DOMAIN data, NEW b \in BOOLEAN, data' = [data EXCEPT ![r].staff = b]
    PROVE  /\ DOMAIN data' = DOMAIN data /\ data'[r].staff = b
           /\ \A x \in DOMAIN data : /\ data'[x].nodelete = data[x].nodelete
                                     /\ x # r => data'[x] = data[x]
  <1>1. data[r] \in Registration
    BY DEF TypeOK
  <1> DEFINE new == [data[r] EXCEPT !.staff = b]
  <1>2. new.staff = b /\ new.nodelete = data[r].nodelete
    BY <1>1 DEF Registration
  <1>3. data' = [data EXCEPT ![r] = new]
    OBVIOUS
  <1> HIDE DEF new
  <1> QED BY <1>2, <1>3 DEF TypeOK

LEMMA AddUserLists ==
    ASSUME Inv, Lists, NEW h \in Handles, NEW role \in Roles(h), NEW c \in Chans,
           NEW handle \in Handles, NEW level \in Levels, NEW d,
           AddUser(h, role, c, handle, level, d)
    PROVE  Lists'
  <1> DEFINE r == info[c]
  <1>1. r \in DOMAIN data /\ EntriesOf(r, handle) = {} /\ pend' = pend
    BY UsableThere DEF AddUser, Usable
  <1>2. PICK a \in Access(r, h, role), i \in Ids \ DOMAIN ent :
            /\ a > level
            /\ ent' = [x \in DOMAIN ent \union {i} |->
                           IF x = i THEN NewEntry(r, handle, level, Expiry(d)) ELSE ent[x]]
            /\ data' = [data EXCEPT ![r].staff = @ \/ a = UL_HELPER]
    BY DEF AddUser
  <1>3. PICK b \in BOOLEAN : b = (data[r].staff \/ a = UL_HELPER)
    OBVIOUS
  <1>4. /\ DOMAIN data' = DOMAIN data /\ data'[r].staff = b
        /\ \A x \in DOMAIN data : /\ data'[x].nodelete = data[x].nodelete
                                  /\ x # r => data'[x] = data[x]
    BY <1>1, <1>2, <1>3, StaffMarks DEF Inv
  <1>5. /\ DOMAIN ent' = DOMAIN ent \union {i} /\ i \notin DOMAIN ent
        /\ \A x \in DOMAIN ent : ent'[x] = ent[x]
        /\ ent'[i].channel = r /\ ent'[i].handle = handle /\ ent'[i].access = level
        /\ ent'[i].lastaccess = 0
    BY <1>2 DEF NewEntry
  <1>6. level = UL_OWNER => b
    <2>1. a = UL_HELPER \/ a \in Level
      BY AccessIs
    <2>2. level = UL_OWNER => a \notin Level
      BY <1>2 DEF Level, UL_OWNER
    <2> QED BY <2>1, <2>2, <1>3
  <1>7. \A x \in DOMAIN data : data[x].staff => data'[x].staff
    BY <1>3, <1>4
  <1>8. \A x \in DOMAIN ent : ent[x].channel \in DOMAIN data
    BY DEF Inv, Linked
  <1>9. \A x \in DOMAIN ent : ~(ent[x].channel = r /\ ent[x].handle = handle)
    BY <1>1 DEF EntriesOf, UsersOf
  <1> USE DEF Lists
  <1>10. PromisedOnce'
    BY <1>1 DEF PromisedOnce
  <1>11. NoOwnerAgain'
    BY <1>5, <1>7, <1>8 DEF NoOwnerAgain, UL_OWNER
  <1>12. OneEntry'
    BY <1>5, <1>7, <1>8, <1>9 DEF OneEntry
  <1>13. NoneEmpty'
    BY <1>4, <1>5, <1>7, <1>8 DEF NoneEmpty, UsersOf
  <1>14. OneOwner'
    <2> SUFFICES ASSUME NEW x \in DOMAIN ent', NEW y \in DOMAIN ent',
                        ent'[x].channel = ent'[y].channel, ~data'[ent'[x].channel].staff,
                        ent'[x].access = UL_OWNER, ent'[y].access = UL_OWNER
                 PROVE  x = y
      BY DEF OneOwner
    <2>1. x # i /\ y # i
      BY <1>4, <1>5, <1>6
    <2> QED BY <2>1, <1>5, <1>7, <1>8 DEF OneOwner
  <1> QED BY <1>10, <1>11, <1>12, <1>13, <1>14

LEMMA RegisterLists ==
    ASSUME Inv, Lists, NEW h, NEW role, NEW c \in Chans, NEW owner, NEW force,
           Register(h, role, c, owner, force)
    PROVE  Lists'
  <1>1. PICK r \in Data \ DOMAIN data, i \in Ids \ DOMAIN ent :
            /\ data' = [x \in DOMAIN data \union {r} |->
                           IF x = r THEN [channel |-> c, nodelete |-> FALSE, suspended |-> FALSE,
                                          expires |-> 0, staff |-> FALSE]
                                    ELSE data[x]]
            /\ ent' = [x \in DOMAIN ent \union {i} |->
                           IF x = i THEN NewEntry(r, owner, UL_OWNER, 0) ELSE ent[x]]
    BY DEF Register
  <1>2. pend' = pend
    BY DEF Register
  <1>3. DOMAIN data' = DOMAIN data \union {r} /\ \A x \in DOMAIN data : data'[x] = data[x]
    BY <1>1
  <1>4. /\ DOMAIN ent' = DOMAIN ent \union {i} /\ i \notin DOMAIN ent
        /\ \A x \in DOMAIN ent : ent'[x] = ent[x]
        /\ ent'[i].channel = r /\ ent'[i].lastaccess = 0
    BY <1>1 DEF NewEntry
  <1>5. \A x \in DOMAIN ent : ent[x].channel \in DOMAIN data /\ ent[x].channel # r
    BY <1>1 DEF Inv, Linked
  <1> USE DEF Lists
  <1>6. PromisedOnce' /\ NoOwnerAgain'
    BY <1>2, <1>3, <1>4, <1>5 DEF PromisedOnce, NoOwnerAgain, UL_OWNER
  <1>7. OneEntry' /\ OneOwner'
    BY <1>3, <1>4, <1>5 DEF OneEntry, OneOwner
  <1>8. NoneEmpty'
    BY <1>3, <1>4, <1>5 DEF NoneEmpty, UsersOf
  <1> QED BY <1>6, <1>7, <1>8

LEMMA ProcessPendingLists ==
    ASSUME Inv, Lists, NEW user \in Users, NEW h \in Handles, ProcessPending(user, h)
    PROVE  Lists'
  <1> DEFINE P == {p \in pend : p.user = user}
             N == Promises(P, h)
             Made(p) == NewEntry(info[p.channel], h, p.level, 0)
             Raised(r) == data[r].staff \/ \E p \in N : info[p.channel] = r /\ p.level = UL_OWNER
  <1>1. \A p \in P : p.channel \in Chans /\ info[p.channel] # NONE
    BY DEF ProcessPending, Inv, TypeOK, Pending
  <1>2. PICK at \in [N -> Ids \ DOMAIN ent] :
            /\ \A p, q \in N : at[p] = at[q] => p = q
            /\ ent' = [x \in DOMAIN ent \union {at[p] : p \in N} |->
                        IF x \in DOMAIN ent THEN ent[x] ELSE Made(CHOOSE q \in N : at[q] = x)]
    BY DEF ProcessPending
  <1>3. /\ data' = [r \in DOMAIN data |-> [data[r] EXCEPT !.staff = Raised(r)]]
        /\ pend' = pend \ P
    BY DEF ProcessPending
  <1>4. N \subseteq P /\ \A p \in N : EntriesOf(info[p.channel], h) = {}
    BY DEF Promises
  <1>5. \A p, q \in N : info[p.channel] = info[q.channel] => p = q
    <2>1. \A p \in N : data[info[p.channel]].channel = p.channel
      BY <1>1, <1>4, UsableThere
    <2> QED BY <2>1, <1>4 DEF Lists, PromisedOnce
  <1>6. \A p \in N : info[p.channel] \in DOMAIN data
    BY <1>1, <1>4, UsableThere
  <1>7. DOMAIN ent \subseteq DOMAIN ent' /\ \A x \in DOMAIN ent : ent'[x] = ent[x]
    BY <1>2
  <1>8. \A x \in DOMAIN ent' \ DOMAIN ent : \E p \in N :
            /\ at[p] = x /\ ent'[x].channel = info[p.channel] /\ ent'[x].handle = h
            /\ ent'[x].access = p.level /\ ent'[x].lastaccess = 0
    <2> SUFFICES ASSUME NEW x \in DOMAIN ent' \ DOMAIN ent
                 PROVE  \E p \in N :
                          /\ at[p] = x /\ ent'[x].channel = info[p.channel] /\ ent'[x].handle = h
                          /\ ent'[x].access = p.level /\ ent'[x].lastaccess = 0
      OBVIOUS
    <2> DEFINE q == CHOOSE y \in N : at[y] = x
    <2>1. \E p \in N : at[p] = x
      BY <1>2
    <2>2. q \in N /\ at[q] = x
      BY <2>1
    <2>3. ent'[x] = Made(q)
      BY <1>2
    <2> HIDE DEF q
    <2>4. /\ ent'[x].channel = info[q.channel] /\ ent'[x].handle = h
          /\ ent'[x].access = q.level /\ ent'[x].lastaccess = 0
      BY <2>3 DEF NewEntry
    <2> QED BY <2>2, <2>4
  <1>9. DOMAIN data' = DOMAIN data
        /\ \A r \in DOMAIN data : /\ data'[r].nodelete = data[r].nodelete
                                  /\ Raised(r) => data'[r].staff
    <2>1. \A r \in DOMAIN data : data[r] \in Registration
      BY DEF Inv, TypeOK
    <2>2. \A r \in DOMAIN data, b \in BOOLEAN :
              /\ [data[r] EXCEPT !.staff = b].nodelete = data[r].nodelete
              /\ [data[r] EXCEPT !.staff = b].staff = b
      BY <2>1 DEF Registration
    <2>3. \A r \in DOMAIN data : Raised(r) \in BOOLEAN
      OBVIOUS
    <2> HIDE DEF Raised
    <2> QED BY <2>2, <2>3, <1>3
  <1>10. \A r \in DOMAIN data : data[r].staff => data'[r].staff
    BY <1>9
  <1>11. \A p \in N : p.level = UL_OWNER => data'[info[p.channel]].staff
    BY <1>6, <1>9
  <1>12. \A x \in DOMAIN ent : ent[x].channel \in DOMAIN data
    BY DEF Inv, Linked
  <1>13. \A x \in DOMAIN ent : \A p \in N : ~(ent[x].channel = info[p.channel] /\ ent[x].handle = h)
    BY <1>4 DEF EntriesOf, UsersOf
  <1> HIDE DEF N, P, Made, Raised
  <1> USE DEF Lists
  <1>14. PromisedOnce'
    BY <1>3 DEF PromisedOnce
  <1>15. NoOwnerAgain'
    BY <1>7, <1>8, <1>10, <1>12 DEF NoOwnerAgain, UL_OWNER
  <1>16. OneEntry'
    <2> SUFFICES ASSUME NEW x \in DOMAIN ent', NEW y \in DOMAIN ent',
                        ent'[x].channel = ent'[y].channel, ent'[x].handle = ent'[y].handle,
                        ~data'[ent'[x].channel].staff
                 PROVE  x = y
      BY DEF OneEntry
    <2>1. CASE x \in DOMAIN ent /\ y \in DOMAIN ent
      BY <2>1, <1>7, <1>10, <1>12 DEF OneEntry
    <2>2. CASE x \notin DOMAIN ent /\ y \notin DOMAIN ent
      BY <2>2, <1>5, <1>8
    <2>3. CASE x \in DOMAIN ent /\ y \notin DOMAIN ent
      BY <2>3, <1>7, <1>8, <1>13
    <2>4. CASE x \notin DOMAIN ent /\ y \in DOMAIN ent
      BY <2>4, <1>7, <1>8, <1>13
    <2> QED BY <2>1, <2>2, <2>3, <2>4
  <1>17. OneOwner'
    <2> SUFFICES ASSUME NEW x \in DOMAIN ent', NEW y \in DOMAIN ent',
                        ent'[x].channel = ent'[y].channel, ~data'[ent'[x].channel].staff,
                        ent'[x].access = UL_OWNER, ent'[y].access = UL_OWNER
                 PROVE  x = y
      BY DEF OneOwner
    <2>1. x \in DOMAIN ent /\ y \in DOMAIN ent
      BY <1>8, <1>11
    <2> QED BY <2>1, <1>7, <1>10, <1>12 DEF OneOwner
  <1>18. NoneEmpty'
    BY <1>7, <1>9, <1>10, <1>12 DEF NoneEmpty, UsersOf
  <1> QED BY <1>14, <1>15, <1>16, <1>17, <1>18

LEMMA ClvlLists ==
    ASSUME Inv, Lists, NEW h \in Handles, NEW role \in Roles(h), NEW c \in Chans, NEW i \in Ids,
           NEW level \in Levels, NEW d, Clvl(h, role, c, i, level, d)
    PROVE  Lists'
  <1> DEFINE r == info[c]
             e == [ent[i] EXCEPT !.access = level,
                                 !.clvlexpiry = IF d = 0 THEN @ ELSE Expiry(d),
                                 !.lastaccess = IF d = 0 THEN @ ELSE ent[i].access]
  <1>1. r \in DOMAIN data /\ i \in DOMAIN ent /\ ent[i].channel = r /\ pend' = pend
    BY UsableThere DEF Clvl, Usable, UsersOf
  <1>2. ent' = [ent EXCEPT ![i] = e]
    BY DEF Clvl
  <1>3. PICK a \in Access(r, h, role) :
            /\ Override(r, role) \/ MayClvl(a, h, i, level)
            /\ data' = [data EXCEPT ![r].staff = @ \/ a = UL_HELPER]
    BY DEF Clvl
  <1>4. PICK b \in BOOLEAN : b = (data[r].staff \/ a = UL_HELPER)
    OBVIOUS
  <1>5. /\ DOMAIN data' = DOMAIN data /\ data'[r].staff = b
        /\ \A x \in DOMAIN data : /\ data'[x].nodelete = data[x].nodelete
                                  /\ x # r => data'[x] = data[x]
    BY <1>1, <1>3, <1>4, StaffMarks DEF Inv
  <1>6. ent[i] \in Entry
    BY <1>1 DEF Inv, TypeOK
  <1>7. e.channel = r /\ e.handle = ent[i].handle /\ e.access = level
        /\ e.lastaccess \in {ent[i].lastaccess, ent[i].access}
    BY <1>1, <1>6 DEF Entry
  <1> HIDE DEF e
  <1>8. /\ DOMAIN ent' = DOMAIN ent /\ ent'[i] = e
        /\ \A x \in DOMAIN ent : x # i => ent'[x] = ent[x]
    BY <1>1, <1>2
  <1>9. ~b => level # UL_OWNER /\ ent[i].access # UL_OWNER
    <2> SUFFICES ASSUME ~b PROVE level # UL_OWNER /\ ent[i].access # UL_OWNER
      OBVIOUS
    <2>1. a \in Level
      BY <1>4, AccessIs
    <2>2. ~Override(r, role)
      BY <1>3, <1>4 DEF Access
    <2>3. a > level /\ a > ent[i].access
      BY <1>3, <2>2 DEF MayClvl
    <2>4. level \in Nat /\ ent[i].access \in Nat
      BY <1>6, ChanServAssumption DEF Entry, Level, UL_OWNER
    <2> QED BY <2>1, <2>3, <2>4 DEF Level, UL_OWNER
  <1>10. \A x \in DOMAIN data : data[x].staff => data'[x].staff
    BY <1>4, <1>5
  <1>11. \A x \in DOMAIN ent : ent[x].channel \in DOMAIN data
    BY DEF Inv, Linked
  <1> HIDE DEF r
  <1> USE DEF Lists
  <1>12. PromisedOnce'
    BY <1>1 DEF PromisedOnce
  <1>13. NoOwnerAgain'
    BY <1>1, <1>5, <1>7, <1>8, <1>9, <1>10, <1>11 DEF NoOwnerAgain
  <1>14. OneEntry'
    BY <1>1, <1>7, <1>8, <1>10, <1>11 DEF OneEntry
  <1>15. OneOwner'
    <2> SUFFICES ASSUME NEW x \in DOMAIN ent', NEW y \in DOMAIN ent',
                        ent'[x].channel = ent'[y].channel, ~data'[ent'[x].channel].staff,
                        ent'[x].access = UL_OWNER, ent'[y].access = UL_OWNER
                 PROVE  x = y
      BY DEF OneOwner
    <2>1. x # i /\ y # i
      BY <1>5, <1>7, <1>8, <1>9
    <2> QED BY <2>1, <1>8, <1>10, <1>11 DEF OneOwner
  <1>16. NoneEmpty'
    BY <1>1, <1>5, <1>7, <1>8, <1>10, <1>11 DEF NoneEmpty, UsersOf
  <1> QED BY <1>12, <1>13, <1>14, <1>15, <1>16

\* What a transfer leaves of the two entries, new or not, and of the others.
Given(i, j, new, old) ==
    /\ DOMAIN ent' = DOMAIN ent \union {j}
    /\ \A x \in DOMAIN ent : /\ ent'[x].channel = ent[x].channel
                             /\ ent'[x].handle = ent[x].handle
                             /\ ent'[x].lastaccess = ent[x].lastaccess
                             /\ x \notin {i, j} => ent'[x].access = ent[x].access
    /\ ent'[i].access = IF old >= UL_COOWNER THEN old ELSE UL_COOWNER
    /\ j \notin DOMAIN ent => ent'[j].channel = new.channel

LEMMA GivenLists ==
    ASSUME Inv, NEW r, NEW i \in DOMAIN ent, NEW j, NEW new \in Entry, NEW old,
           ent' = GiveTo(r, i, j, new, old), j \in DOMAIN ent => new = ent[j]
    PROVE  Given(i, j, new, old)
  <1> DEFINE level == IF old >= UL_COOWNER THEN old ELSE UL_COOWNER
             up == [new EXCEPT !.access = UL_OWNER]
             was == IF i = j THEN up ELSE ent[i]
             low == [was EXCEPT !.access = level]
  <1>1. DOMAIN ent' = DOMAIN ent \union {j}
    BY DEF GiveTo
  <1>2. /\ \A x \in DOMAIN ent' : x # i /\ x # j => ent'[x] = ent[x]
        /\ j # i => ent'[j] = up
        /\ ent'[i] = low
    BY <1>1 DEF GiveTo
  <1>3. /\ up.channel = new.channel /\ up.handle = new.handle /\ up.lastaccess = new.lastaccess
        /\ up.access = UL_OWNER
    BY DEF Entry
  <1>4. /\ was.channel = ent[i].channel /\ was.handle = ent[i].handle
        /\ was.lastaccess = ent[i].lastaccess
        /\ DOMAIN was = DOMAIN ent[i]
    <2>1. DOMAIN up = DOMAIN new
      OBVIOUS
    <2> HIDE DEF up
    <2> QED BY <1>3, <2>1
  <1>5. "access" \in DOMAIN was
    BY <1>4 DEF Inv, TypeOK, Entry
  <1> HIDE DEF was, level, up
  <1>6. /\ low.channel = was.channel /\ low.handle = was.handle
        /\ low.lastaccess = was.lastaccess /\ low.access = level
    <2>1. low = [f \in DOMAIN was |-> IF f = "access" THEN level ELSE was[f]]
      BY <1>5
    <2>2. {"channel", "handle", "lastaccess"} \subseteq DOMAIN was
      BY <1>4 DEF Inv, TypeOK, Entry
    <2> QED BY <1>5, <2>1, <2>2
  <1> HIDE DEF low
  <1>7. ent'[i].access = level
    BY <1>2, <1>6
  <1>8. \A x \in DOMAIN ent : /\ ent'[x].channel = ent[x].channel
                              /\ ent'[x].handle = ent[x].handle
                              /\ ent'[x].lastaccess = ent[x].lastaccess
                              /\ x \notin {i, j} => ent'[x].access = ent[x].access
    BY <1>1, <1>2, <1>3, <1>4, <1>6
  <1>9. j \notin DOMAIN ent => ent'[j].channel = new.channel
    BY <1>2, <1>3
  <1> QED BY <1>1, <1>7, <1>8, <1>9 DEF level, Given

LEMMA ExpireTempClvlLists ==
    ASSUME Inv, Lists, NEW t \in timers, ExpireTempClvl(t)
    PROVE  Lists'
  <1> DEFINE i == t.data
             e == [ent[i] EXCEPT !.access = ent[i].lastaccess, !.lastaccess = 0, !.clvlexpiry = 0]
  <1>1. /\ i \in DOMAIN ent /\ data' = data /\ pend' = pend
        /\ ent' = IF ent[i].clvlexpiry > 0 THEN [ent EXCEPT ![i] = e] ELSE ent
    BY DEF ExpireTempClvl, Inv, LevelTimed
  <1>2. ent[i] \in Entry
    BY <1>1 DEF Inv, TypeOK
  <1>3. /\ e.channel = ent[i].channel /\ e.handle = ent[i].handle
        /\ e.access = ent[i].lastaccess /\ e.lastaccess = 0
    BY <1>2 DEF Entry
  <1> HIDE DEF e
  <1>4. CASE ent' = ent
    BY <1>1, <1>4, ListsFrame DEF Inv, Lists, PromisedOnce
  <1>5. CASE ent' = [ent EXCEPT ![i] = e]
    <2>1. /\ DOMAIN ent' = DOMAIN ent /\ ent'[i] = e
          /\ \A x \in DOMAIN ent : x # i => ent'[x] = ent[x]
      BY <1>1, <1>5
    <2>2. ~data[ent[i].channel].staff => e.access # UL_OWNER
      BY <1>1, <1>3 DEF Lists, NoOwnerAgain
    <2> HIDE DEF i
    <2> USE DEF Lists
    <2>3. PromisedOnce' /\ NoOwnerAgain'
      BY <1>1, <1>3, <2>1 DEF PromisedOnce, NoOwnerAgain, UL_OWNER
    <2>4. OneEntry'
      BY <1>1, <1>3, <2>1 DEF OneEntry
    <2>5. OneOwner'
      BY <1>1, <1>3, <2>1, <2>2 DEF OneOwner
    <2>6. NoneEmpty'
      BY <1>1, <1>3, <2>1 DEF NoneEmpty, UsersOf
    <2> QED BY <2>3, <2>4, <2>5, <2>6
  <1> QED BY <1>1, <1>4, <1>5

LEMMA RestartLists ==
    ASSUME Inv, Lists, NEW at, NEW known, Restart(at, known)
    PROVE  Lists'
  <1>1. PICK D : Reread(at, known, D)
    BY RestartReads
  <1>2. /\ D \subseteq DOMAIN ent /\ \A i \in D : ent[i].handle \in known
        /\ \A i \in DOMAIN ent : ent[i].handle \in known =>
            \E x \in D : EntriesOf(ent[i].channel, ent[i].handle) \intersect D = {x}
        /\ DOMAIN data' = Held(known) /\ DOMAIN ent' = D
    BY <1>1 DEF Reread
  <1>3. \A i \in D : /\ ent'[i].channel = ent[i].channel /\ ent'[i].handle = ent[i].handle
                     /\ ent'[i].access = ent[i].access /\ ent'[i].lastaccess = ent[i].lastaccess
    BY <1>1, <1>2, ReadUserType DEF Reread, Inv, TypeOK
  <1>4. Held(known) \subseteq DOMAIN data
    BY DEF Held
  <1>5. \A r \in Held(known) : /\ data'[r].staff = data[r].staff
                               /\ data'[r].nodelete = data[r].nodelete
    BY <1>1, <1>4, ReadChannelType DEF Reread, Inv, TypeOK
  <1>6. \A i \in D : ent[i].channel \in Held(known)
    BY <1>2 DEF Held, UsersOf, Inv, Linked
  <1>7. pend' = {}
    BY DEF Restart
  <1> USE DEF Lists
  <1>8. PromisedOnce' /\ NoOwnerAgain'
    BY <1>2, <1>3, <1>5, <1>6, <1>7 DEF PromisedOnce, NoOwnerAgain
  <1>9. OneEntry' /\ OneOwner'
    BY <1>2, <1>3, <1>5, <1>6 DEF OneEntry, OneOwner
  <1>10. NoneEmpty'
    <2> SUFFICES ASSUME NEW r \in Held(known), ~data'[r].nodelete
                 PROVE  \E i \in D : ent'[i].channel = r
      BY <1>2 DEF NoneEmpty, UsersOf
    <2>1. PICK i \in DOMAIN ent : ent[i].channel = r /\ ent[i].handle \in known
      BY <1>5 DEF Held, UsersOf
    <2>2. PICK x \in D : x \in EntriesOf(r, ent[i].handle)
      BY <2>1, <1>2
    <2>3. ent[x].channel = r
      BY <2>2 DEF EntriesOf, UsersOf
    <2> QED BY <2>3, <1>3
  <1> QED BY <1>8, <1>9, <1>10

LEMMA GiveOwnershipLists ==
    ASSUME Inv, Lists, NEW h \in Handles, NEW role \in Roles(h), NEW c \in Chans,
           NEW handle \in Handles, NEW force \in BOOLEAN, GiveOwnership(h, role, c, handle, force)
    PROVE  Lists'
  <1>1. PICK r \in DOMAIN data : r = info[c] /\ r \in Data
    BY UsableThere DEF GiveOwnership, Usable
  <1>2. data' = [data EXCEPT ![r].staff = @ \/ force] /\ pend' = pend
    BY <1>1 DEF GiveOwnership
  <1>3. PICK b \in BOOLEAN : b = (data[r].staff \/ force)
    OBVIOUS
  <1>4. /\ DOMAIN data' = DOMAIN data /\ data'[r].staff = b
        /\ \A x \in DOMAIN data : /\ data'[x].nodelete = data[x].nodelete
                                  /\ x # r => data'[x] = data[x]
    BY <1>2, <1>3, StaffMarks DEF Inv
  <1>5. PICK i \in GiveFrom(r, h) :
            \/ \E j \in ActiveOf(r, handle) : ent' = GiveTo(r, i, j, ent[j], ent[j].access)
            \/ /\ force
               /\ \E j \in Ids \ DOMAIN ent :
                    ent' = GiveTo(r, i, j, NewEntry(r, handle, UL_OWNER - 1, 0), UL_OWNER - 1)
    BY <1>1 DEF GiveOwnership
  <1>6. i \in DOMAIN ent /\ ent[i].channel = r /\ ent[i].access = UL_OWNER
    BY DEF GiveFrom, ActiveOf, EntriesOf, UsersOf
  <1>7. PICK j, old : /\ j \in DOMAIN ent => /\ ent[j].channel = r
                                             /\ old = ent[j].access /\ old \in Level
                      /\ j \notin DOMAIN ent => b
                      /\ DOMAIN ent' = DOMAIN ent \union {j}
                      /\ \A x \in DOMAIN ent : /\ ent'[x].channel = ent[x].channel
                                               /\ ent'[x].handle = ent[x].handle
                                               /\ ent'[x].lastaccess = ent[x].lastaccess
                                               /\ x \notin {i, j} => ent'[x].access = ent[x].access
                      /\ ent'[i].access = (IF old >= UL_COOWNER THEN old ELSE UL_COOWNER)
                      /\ j \notin DOMAIN ent => ent'[j].channel = r
    <2>1. CASE \E j \in ActiveOf(r, handle) : ent' = GiveTo(r, i, j, ent[j], ent[j].access)
      <3>1. PICK j \in ActiveOf(r, handle) : ent' = GiveTo(r, i, j, ent[j], ent[j].access)
        BY <2>1
      <3>2. j \in DOMAIN ent /\ ent[j].channel = r /\ ent[j] \in Entry
        BY DEF ActiveOf, EntriesOf, UsersOf, Inv, TypeOK
      <3>3. ent[j].access \in Level
        BY <3>2 DEF Entry
      <3>4. PICK old : old = ent[j].access
        OBVIOUS
      <3>5. ent' = GiveTo(r, i, j, ent[j], old)
        BY <3>1, <3>4
      <3>6. Given(i, j, ent[j], old)
        BY <3>2, <3>5, <1>6, GivenLists
      <3> QED BY <3>2, <3>3, <3>4, <3>6 DEF Given
    <2>2. CASE /\ force
               /\ \E j \in Ids \ DOMAIN ent :
                    ent' = GiveTo(r, i, j, NewEntry(r, handle, UL_OWNER - 1, 0), UL_OWNER - 1)
      <3>1. PICK j \in Ids \ DOMAIN ent :
                ent' = GiveTo(r, i, j, NewEntry(r, handle, UL_OWNER - 1, 0), UL_OWNER - 1)
        BY <2>2
      <3>2. UL_OWNER - 1 \in Level /\ 0 \in Time
        BY ChanServAssumption DEF Level, UL_OWNER, Time
      <3>3. PICK new \in Entry : new = NewEntry(r, handle, UL_OWNER - 1, 0)
        BY <3>2, <1>1, NewEntryType
      <3>4. new.channel = r
        BY <3>3 DEF NewEntry
      <3>5. ent' = GiveTo(r, i, j, new, UL_OWNER - 1)
        BY <3>1, <3>3
      <3>6. Given(i, j, new, UL_OWNER - 1)
        BY <3>1, <3>5, <1>6, GivenLists
      <3> QED BY <2>2, <3>1, <3>4, <3>6, <1>3 DEF Given
    <2> QED BY <1>5, <2>1, <2>2
  <1>8. \A x \in DOMAIN data : data[x].staff => data'[x].staff
    BY <1>3, <1>4
  <1>9. \A x \in DOMAIN ent : ent[x].channel \in DOMAIN data
    BY DEF Inv, Linked
  <1>10. \A x \in DOMAIN ent' : ~data'[ent'[x].channel].staff => x \in DOMAIN ent
    BY <1>4, <1>7
  <1> USE DEF Lists
  <1>11. PromisedOnce' /\ NoOwnerAgain'
    BY <1>2, <1>7, <1>8, <1>9, <1>10 DEF PromisedOnce, NoOwnerAgain
  <1>12. OneEntry'
    BY <1>7, <1>8, <1>9, <1>10 DEF OneEntry
  <1>13. NoneEmpty'
    BY <1>4, <1>7, <1>8, <1>9 DEF NoneEmpty, UsersOf
  <1>14. OneOwner'
    <2> SUFFICES ASSUME NEW x \in DOMAIN ent', NEW y \in DOMAIN ent',
                        ent'[x].channel = ent'[y].channel, ~data'[ent'[x].channel].staff,
                        ent'[x].access = UL_OWNER, ent'[y].access = UL_OWNER
                 PROVE  x = y
      BY DEF OneOwner
    <2>1. x \in DOMAIN ent /\ y \in DOMAIN ent /\ ent[x].channel = ent[y].channel
          /\ ~data[ent[x].channel].staff
      BY <1>7, <1>8, <1>9, <1>10
    <2>2. CASE ent[x].channel # r
      BY <2>1, <2>2, <1>6, <1>7 DEF OneOwner
    <2>3. CASE ent[x].channel = r
      <3>1. j \in DOMAIN ent /\ old = ent[j].access /\ old \in Level
        BY <2>1, <2>3, <1>4, <1>7
      <3>2. \A z \in DOMAIN ent : ent[z].channel = r /\ ent[z].access = UL_OWNER => z = i
        BY <2>1, <2>3, <1>6 DEF OneOwner
      <3>3. CASE j = i
        BY <3>2, <3>3, <2>1, <2>3, <1>7
      <3>4. CASE j # i
        <4>1. old # UL_OWNER
          BY <3>1, <3>2, <3>4, <1>7
        <4>2. ent'[i].access # UL_OWNER
          BY <4>1, <3>1, <1>7 DEF Level, UL_OWNER, UL_COOWNER
        <4>3. x = j /\ y = j
          BY <4>2, <3>2, <2>1, <2>3, <1>7
        <4> QED BY <4>3
      <3> QED BY <3>3, <3>4
    <2> QED BY <2>2, <2>3
  <1> QED BY <1>11, <1>12, <1>13, <1>14

LEMMA MergeLists ==
    ASSUME Inv, Lists, NEW h, NEW role, NEW c \in Chans, NEW target \in Chans, NEW keep \in BOOLEAN,
           Merge(h, role, c, target, keep)
    PROVE  Lists'
  <1>1. PICK s, t, R, L, a, b :
            /\ Merged(s, t, R, L, a, b) /\ Single(s) /\ Single(t)
            /\ a \in Access(s, h, role) /\ b \in Access(t, h, role)
            /\ a >= UL_OWNER /\ b >= UL_OWNER
    BY MergeParts
  <1>2. /\ s \in DOMAIN data /\ t \in DOMAIN data /\ s # t /\ R \in {{}, {s}}
        /\ L \in Losers(s, t) /\ pend' \subseteq pend
    BY <1>1 DEF Merged, PendWithout
  <1>3. /\ DOMAIN data' = DOMAIN data \ R
        /\ \A r \in DOMAIN data' : /\ data'[r].nodelete = data[r].nodelete
                                   /\ r \notin {s, t} => data'[r].staff = data[r].staff
        /\ s \in DOMAIN data' => data'[s].staff
        /\ data[t].staff \/ data[s].staff \/ UL_HELPER \in {a, b} => data'[t].staff
    <2>1. RegsMerged(s, t, R, L, a, b)
      BY <1>1, MergedRegs DEF RegsMerged
    <2> QED BY <2>1 DEF RegsMerged
  <1>4. /\ DOMAIN ent' = DOMAIN ent \ L
        /\ \A i \in DOMAIN ent' :
              /\ ent'[i].channel = Moved(ent[i].channel, s, t)
              /\ ent'[i].handle = ent[i].handle /\ ent'[i].access = ent[i].access
              /\ ent'[i].lastaccess = ent[i].lastaccess
    <2>1. EntriesMerged(s, t, L)
      BY <1>1, MergedEntries
    <2> QED BY <2>1 DEF EntriesMerged
  <1>5. \A i \in DOMAIN ent : ent[i].channel \in DOMAIN data
    BY DEF Inv, Linked
  <1>6. \A i \in UsersOf(s), j \in UsersOf(t) :
            ent[i].handle = ent[j].handle => (i \in L <=> j \notin L)
    BY <1>2 DEF Losers
  <1>7. \A i \in L : /\ ent[i].channel \in {s, t}
                     /\ \E j \in DOMAIN ent \ L : ent[j].channel \in {s, t}
    BY <1>2 DEF Losers, UsersOf
  <1>8. \A i \in DOMAIN ent' : /\ ent'[i].channel # s
                               /\ ent'[i].channel = t => ent[i].channel \in {s, t}
                               /\ ent'[i].channel # t => /\ ent'[i].channel = ent[i].channel
                                                         /\ ent[i].channel \notin {s, t}
                               /\ ent[i].channel \in {s, t} => ent'[i].channel = t
                               /\ ent'[i].channel \in DOMAIN data'
    BY <1>2, <1>3, <1>4, <1>5 DEF Moved
  <1> USE DEF Lists
  <1>9. PromisedOnce'
    BY <1>2 DEF PromisedOnce
  <1>10. NoOwnerAgain'
    <2> SUFFICES ASSUME NEW i \in DOMAIN ent', ~data'[ent'[i].channel].staff
                 PROVE  ent'[i].lastaccess # UL_OWNER
      BY DEF NoOwnerAgain
    <2>1. ~data[ent[i].channel].staff
      BY <1>3, <1>8
    <2> QED BY <2>1, <1>4 DEF NoOwnerAgain
  <1>11. OneEntry'
    <2> SUFFICES ASSUME NEW x \in DOMAIN ent', NEW y \in DOMAIN ent',
                        ent'[x].channel = ent'[y].channel, ent'[x].handle = ent'[y].handle,
                        ~data'[ent'[x].channel].staff
                 PROVE  x = y
      BY DEF OneEntry
    <2>1. x \in DOMAIN ent \ L /\ y \in DOMAIN ent \ L /\ ent[x].handle = ent[y].handle
      BY <1>4
    <2>2. CASE ent'[x].channel # t
      <3>1. ent[x].channel = ent[y].channel /\ ~data[ent[x].channel].staff
        BY <2>2, <1>3, <1>8
      <3> QED BY <3>1, <2>1 DEF OneEntry
    <2>3. CASE ent'[x].channel = t
      <3>1. ent[x].channel \in {s, t} /\ ent[y].channel \in {s, t}
        BY <2>3, <1>8
      <3> QED BY <3>1, <2>1, <1>1, <1>6 DEF Single, UsersOf
    <2> QED BY <2>2, <2>3
  <1>12. OneOwner'
    <2> SUFFICES ASSUME NEW x \in DOMAIN ent', NEW y \in DOMAIN ent',
                        ent'[x].channel = ent'[y].channel, ~data'[ent'[x].channel].staff,
                        ent'[x].access = UL_OWNER, ent'[y].access = UL_OWNER
                 PROVE  x = y
      BY DEF OneOwner
    <2>1. /\ x \in DOMAIN ent \ L /\ y \in DOMAIN ent \ L
          /\ ent[x].access = UL_OWNER /\ ent[y].access = UL_OWNER
      BY <1>4
    <2>2. CASE ent'[x].channel # t
      <3>1. ent[x].channel = ent[y].channel /\ ~data[ent[x].channel].staff
        BY <2>2, <1>3, <1>8
      <3> QED BY <3>1, <2>1 DEF OneOwner
    <2>3. CASE ent'[x].channel = t
      <3>1. ent[x].channel \in {s, t} /\ ent[y].channel \in {s, t}
        BY <2>3, <1>8
      <3>2. ~data[s].staff /\ ~data[t].staff /\ a # UL_HELPER /\ b # UL_HELPER
        BY <2>3, <1>3
      <3>3. a \in Level /\ b \in Level
        BY <3>2, <1>1, AccessIs
      <3>4. a = UL_OWNER /\ b = UL_OWNER
        BY <3>3, <1>1 DEF Level, UL_OWNER
      <3>5. PICK i \in ActiveOf(s, h) : ent[i].access = UL_OWNER
        BY <3>2, <3>4, <1>1, AccessIs
      <3>6. PICK j \in ActiveOf(t, h) : ent[j].access = UL_OWNER
        BY <3>2, <3>4, <1>1, AccessIs
      <3>7. /\ i \in UsersOf(s) /\ j \in UsersOf(t) /\ ent[i].handle = ent[j].handle
            /\ i \in DOMAIN ent /\ ent[i].channel = s /\ j \in DOMAIN ent /\ ent[j].channel = t
        BY DEF ActiveOf, EntriesOf, UsersOf
      <3>8. \A z \in DOMAIN ent : ent[z].access = UL_OWNER =>
                (ent[z].channel = s => z = i) /\ (ent[z].channel = t => z = j)
        BY <3>2, <3>5, <3>6, <3>7 DEF OneOwner
      <3>9. i \in L <=> j \notin L
        BY <3>7, <1>6
      <3> QED BY <3>1, <3>8, <3>9, <2>1
    <2> QED BY <2>2, <2>3
  <1>13. NoneEmpty'
    <2> SUFFICES ASSUME NEW r \in DOMAIN data', ~data'[r].staff, ~data'[r].nodelete
                 PROVE  \E i \in DOMAIN ent' : ent'[i].channel = r
      BY DEF NoneEmpty, UsersOf
    <2>1. r # s /\ r \in DOMAIN data /\ ~data[r].staff /\ ~data[r].nodelete
      BY <1>3
    <2>2. PICK i \in DOMAIN ent : ent[i].channel = r
      BY <2>1 DEF NoneEmpty, UsersOf
    <2>3. CASE i \notin L
      BY <2>1, <2>2, <2>3, <1>4, <1>8
    <2>4. CASE i \in L
      <3>1. r = t
        BY <2>1, <2>2, <2>4, <1>7
      <3> QED BY <3>1, <2>4, <1>4, <1>7, <1>8
    <2> QED BY <2>3, <2>4
  <1> QED BY <1>9, <1>10, <1>11, <1>12, <1>13

LEMMA HandleMergeLists ==
    ASSUME Inv, Lists, NEW from \in Handles, NEW to \in Handles, HandleMerge(from, to)
    PROVE  Lists'
  <1> DEFINE old == {i \in DOMAIN ent : ent[i].handle = from}
             Other(i) == EntriesOf(ent[i].channel, to)
             less == {i \in old : \E j \in Other(i) : ent[j].access >= ent[i].access}
             D == less \union UNION {Other(i) : i \in old \ less}
  <1>1. /\ from # to /\ \A i \in old : Single(ent[i].channel)
        /\ ent' = [i \in DOMAIN ent \ D |->
                       IF i \in old THEN [ent[i] EXCEPT !.handle = to] ELSE ent[i]]
        /\ data' = data /\ pend' = pend
    BY DEF HandleMerge
  <1>2. \A i \in DOMAIN ent : i \in old <=> ent[i].handle = from
    OBVIOUS
  <1>3. \A i, j : j \in Other(i) <=>
            j \in DOMAIN ent /\ ent[j].channel = ent[i].channel /\ ent[j].handle = to
    BY DEF EntriesOf, UsersOf
  <1>4. less \subseteq old /\ old \subseteq DOMAIN ent /\ \A i \in less : \E j : j \in Other(i)
    OBVIOUS
  <1>5. \A i : i \in D <=> i \in less \/ \E k \in old \ less : i \in Other(k)
    OBVIOUS
  <1> HIDE DEF old, Other, less, D
  <1>6. DOMAIN ent' = DOMAIN ent \ D
        /\ \A i \in DOMAIN ent' :
              /\ ent'[i].channel = ent[i].channel /\ ent'[i].access = ent[i].access
              /\ ent'[i].lastaccess = ent[i].lastaccess
              /\ ent'[i].handle = IF i \in old THEN to ELSE ent[i].handle
    <2>1. \A i \in DOMAIN ent : ent[i] \in Entry
      BY DEF Inv, TypeOK
    <2>2. \A i \in DOMAIN ent :
              /\ [ent[i] EXCEPT !.handle = to].channel = ent[i].channel
              /\ [ent[i] EXCEPT !.handle = to].access = ent[i].access
              /\ [ent[i] EXCEPT !.handle = to].lastaccess = ent[i].lastaccess
              /\ [ent[i] EXCEPT !.handle = to].handle = to
      BY <2>1 DEF Entry
    <2>3. DOMAIN ent' = DOMAIN ent \ D
      BY <1>1
    <2>4. \A i \in DOMAIN ent' :
              /\ i \in old => ent'[i] = [ent[i] EXCEPT !.handle = to]
              /\ i \notin old => ent'[i] = ent[i]
      BY <1>1, <2>3
    <2> QED BY <2>2, <2>3, <2>4
  <1>7. \A i \in DOMAIN ent : ent[i].channel \in DOMAIN data
    BY DEF Inv, Linked
  <1> USE DEF Lists
  <1>8. PromisedOnce' /\ NoOwnerAgain'
    BY <1>1, <1>6 DEF PromisedOnce, NoOwnerAgain
  <1>9. OneOwner'
    BY <1>1, <1>6 DEF OneOwner
  <1>10. OneEntry'
    <2> SUFFICES ASSUME NEW x \in DOMAIN ent', NEW y \in DOMAIN ent',
                        ent'[x].channel = ent'[y].channel, ent'[x].handle = ent'[y].handle,
                        ~data'[ent'[x].channel].staff
                 PROVE  x = y
      BY DEF OneEntry
    <2>1. /\ x \in DOMAIN ent \ D /\ y \in DOMAIN ent \ D /\ ent[x].channel = ent[y].channel
          /\ ~data[ent[x].channel].staff
      BY <1>1, <1>6
    <2>2. CASE x \in old <=> y \in old
      <3>1. ent[x].handle = ent[y].handle
        BY <2>1, <2>2, <1>2, <1>6
      <3> QED BY <3>1, <2>1 DEF OneEntry
    <2>3. CASE x \in old /\ y \notin old
      <3>1. ent[y].handle = to
        BY <2>3, <1>6
      <3> QED BY <3>1, <2>1, <2>3, <1>3, <1>5
    <2>4. CASE y \in old /\ x \notin old
      <3>1. ent[x].handle = to
        BY <2>4, <1>6
      <3> QED BY <3>1, <2>1, <2>4, <1>3, <1>5
    <2> QED BY <2>2, <2>3, <2>4
  <1>11. \A i \in DOMAIN ent : \E j \in DOMAIN ent \ D : ent[j].channel = ent[i].channel
    <2> SUFFICES ASSUME NEW i \in DOMAIN ent, i \in D
                 PROVE  \E j \in DOMAIN ent \ D : ent[j].channel = ent[i].channel
      OBVIOUS
    <2>1. CASE i \in less
      <3>1. PICK j : j \in Other(i)
        BY <2>1, <1>4
      <3>2. j \in DOMAIN ent /\ ent[j].channel = ent[i].channel /\ ent[j].handle = to
        BY <3>1, <1>3
      <3>3. j \notin less
        BY <3>2, <1>1, <1>2, <1>4
      <3>4. ASSUME NEW k \in old \ less, j \in Other(k) PROVE FALSE
        <4>1. k \in DOMAIN ent /\ ent[k].channel = ent[i].channel /\ ent[k].handle = ent[i].handle
          BY <3>2, <3>4, <2>1, <1>2, <1>3, <1>4
        <4>2. k = i
          BY <4>1, <2>1, <1>1, <1>4 DEF Single, UsersOf
        <4> QED BY <4>2, <3>4, <2>1
      <3> QED BY <3>2, <3>3, <3>4, <1>5
    <2>2. CASE i \notin less
      <3>1. PICK k \in old \ less : i \in Other(k)
        BY <2>2, <1>5
      <3>2. k \in DOMAIN ent /\ ent[k].channel = ent[i].channel /\ ent[k].handle = from
        BY <3>1, <1>2, <1>3, <1>4
      <3>3. k \notin D
        BY <3>1, <3>2, <1>1, <1>3, <1>5
      <3> QED BY <3>2, <3>3
    <2> QED BY <2>1, <2>2
  <1>12. NoneEmpty'
    <2> SUFFICES ASSUME NEW r \in DOMAIN data, ~data[r].staff, ~data[r].nodelete
                 PROVE  \E i \in DOMAIN ent' : ent'[i].channel = r
      BY <1>1 DEF NoneEmpty, UsersOf
    <2>1. PICK i \in DOMAIN ent : ent[i].channel = r
      BY DEF NoneEmpty, UsersOf
    <2>2. PICK j \in DOMAIN ent \ D : ent[j].channel = r
      BY <2>1, <1>11
    <2> QED BY <2>2, <1>6
  <1> QED BY <1>8, <1>9, <1>10, <1>12

\* Commands and timers that leave every access list as it is: they write a suspension, ...
LEMMA SuspendedLists ==
    ASSUME Inv, Lists, NEW r, NEW x, NEW y, pend' = pend, ent' = ent,
           data' = [data EXCEPT ![r].suspended = x, ![r].expires = y]
    PROVE  Lists'
  <1>1. \A z \in DOMAIN data : data[z] \in Registration
    BY DEF Inv, TypeOK
  <1>2. DOMAIN data' = DOMAIN data
        /\ \A z \in DOMAIN data : /\ data'[z].staff = data[z].staff
                                 /\ data'[z].nodelete = data[z].nodelete
    BY <1>1 DEF Registration
  <1> QED BY <1>2, ListsFrame DEF Inv, Lists, PromisedOnce

\* ... or that of a user, ...
LEMMA UserSuspendedLists ==
    ASSUME Inv, Lists, NEW i, NEW x, NEW y, pend' = pend, data' = data,
           ent' = [ent EXCEPT ![i].suspended = x, ![i].expires = y]
    PROVE  Lists'
  <1>1. \A z \in DOMAIN ent : ent[z] \in Entry
    BY DEF Inv, TypeOK
  <1>2. DOMAIN ent' = DOMAIN ent
        /\ \A z \in DOMAIN ent : /\ ent'[z].channel = ent[z].channel
                                /\ ent'[z].handle = ent[z].handle
                                /\ ent'[z].access = ent[z].access
                                /\ ent'[z].lastaccess = ent[z].lastaccess
    BY <1>1 DEF Entry
  <1> QED BY <1>2, ListsFrame DEF Inv, Lists, PromisedOnce

\* ... or a registration's other fields.
LEMMA MoveLists ==
    ASSUME Inv, Lists, NEW role, NEW c \in Chans, NEW target \in Chans, Move(role, c, target)
    PROVE  Lists'
  <1>1. data' = [data EXCEPT ![info[c]].channel = target] /\ ent' = ent /\ pend' = pend
    BY DEF Move
  <1>2. \A r \in DOMAIN data : data[r] \in Registration
    BY DEF Inv, TypeOK
  <1>3. DOMAIN data' = DOMAIN data
        /\ \A r \in DOMAIN data : /\ data'[r].staff = data[r].staff
                                 /\ data'[r].nodelete = data[r].nodelete
    BY <1>1, <1>2 DEF Registration
  <1> QED BY <1>1, <1>3, ListsFrame DEF Inv, Lists, PromisedOnce

LEMMA SetNodeleteLists ==
    ASSUME Inv, Lists, NEW h, NEW role, NEW c \in Chans, SetNodelete(h, role, c)
    PROVE  Lists'
  <1>1. PICK r, b : /\ data' = [data EXCEPT ![r].nodelete = b, ![r].staff = TRUE]
                    /\ ent' = ent /\ pend' = pend
    BY DEF SetNodelete
  <1>2. \A z \in DOMAIN data : data[z] \in Registration
    BY DEF Inv, TypeOK
  <1>3. DOMAIN data' = DOMAIN data
        /\ \A z \in DOMAIN data : \/ data'[z].staff
                                 \/ data'[z] = data[z]
    BY <1>1, <1>2 DEF Registration
  <1> QED BY <1>1, <1>3, ListsFrame DEF Inv, Lists, PromisedOnce

LEMMA AddPendingLists ==
    ASSUME Inv, Lists, NEW h, NEW role, NEW c \in Chans, NEW u \in Users, NEW level,
           AddPending(h, role, c, u, level)
    PROVE  Lists'
  <1>1. PromisedOnce'
    BY DEF AddPending, Lists, PromisedOnce
  <1> QED BY <1>1, ListsFrame DEF AddPending, Inv

LEMMA ExpireTempUserLists ==
    ASSUME Inv, Lists, NEW t \in timers, ExpireTempUser(t)
    PROVE  Lists'
  <1>1. {t.data} \in SUBSET DOMAIN ent
    BY DEF ExpireTempUser, Inv, AccessTimed
  <1>2. CASE DelUsers({t.data})
    BY <1>1, <1>2, DelUsersLists
  <1>3. CASE UNCHANGED <<now, info, data, ent, pend>>
    BY <1>3, ListsFrame DEF Inv, Lists, PromisedOnce
  <1> QED BY <1>2, <1>3 DEF ExpireTempUser

LEMMA NextLists ==
    ASSUME Inv, Lists, Next
    PROVE  Lists'
  <1>1. ASSUME NEW c \in Chans, CUnsuspend(c)
       PROVE  Lists'
    BY <1>1, SuspendedLists DEF CUnsuspend
  <1>2. ASSUME NEW c \in Chans, NEW again \in BOOLEAN, NEW d \in InTime(SuspDurations), CSuspend(c, again, d)
       PROVE  Lists'
    BY <1>2, SuspendedLists DEF CSuspend
  <1>3. ASSUME NEW c \in Chans, NEW h \in Handles, NEW role \in Roles(h),
             NEW owner \in Handles, NEW force \in BOOLEAN,
             Register(h, role, c, owner, force)
       PROVE  Lists'
    BY <1>3, RegisterLists
  <1>4. ASSUME NEW c \in Chans, NEW h \in Handles, NEW role \in Roles(h), UnregisterCmd(h, role, c)
       PROVE  Lists'
    <2>1. info[c] \in DOMAIN data
      BY <1>4, UsableThere DEF UnregisterCmd, Usable
    <2> QED BY <1>4, <2>1, UnregisterLists DEF UnregisterCmd
  <1>5. ASSUME NEW c \in Chans, NEW h \in Handles, NEW role \in Roles(h), SetNodelete(h, role, c)
       PROVE  Lists'
    BY <1>5, SetNodeleteLists
  <1>6. ASSUME NEW c \in Chans, NEW h \in Handles, NEW role \in Roles(h), NEW target \in Chans, Move(role, c, target)
       PROVE  Lists'
    BY <1>6, MoveLists
  <1>7. ASSUME NEW c \in Chans, NEW h \in Handles, NEW role \in Roles(h),
             NEW target \in Chans, NEW keep \in BOOLEAN,
             Merge(h, role, c, target, keep)
       PROVE  Lists'
    BY <1>7, MergeLists
  <1>8. ASSUME NEW c \in Chans, NEW h \in Handles, NEW role \in Roles(h),
             NEW x \in Handles, NEW l \in Levels, NEW d \in InTime(Durations),
             AddUser(h, role, c, x, l, d)
       PROVE  Lists'
    BY <1>8, AddUserLists
  <1>9. ASSUME NEW c \in Chans, NEW h \in Handles, NEW role \in Roles(h),
             NEW u \in Users, NEW l \in Levels,
             AddPending(h, role, c, u, l)
       PROVE  Lists'
    BY <1>9, AddPendingLists
  <1>10. ASSUME NEW c \in Chans, NEW h \in Handles, NEW role \in Roles(h),
             NEW i \in Ids, NEW l \in Levels, NEW d \in InTime(Durations),
             Clvl(h, role, c, i, l, d)
       PROVE  Lists'
    BY <1>10, ClvlLists
  <1>11. ASSUME NEW c \in Chans, NEW h \in Handles, NEW role \in Roles(h), NEW i \in Ids, DelUser(h, role, c, i)
       PROVE  Lists'
    BY <1>11, DelUsersLists DEF DelUser, EntriesOf, UsersOf
  <1>12. ASSUME NEW c \in Chans, NEW h \in Handles, NEW role \in Roles(h),
             NEW x \in MDelRanges, NEW mask \in (SUBSET Handles) \ {{}},
             MDelUser(h, role, c, x, mask)
       PROVE  Lists'
    BY <1>12, DelUsersLists DEF MDelUser, UsersOf
  <1>13. ASSUME NEW c \in Chans, NEW h \in Handles, NEW role \in Roles(h), NEW D \in SUBSET Ids, TrimUsers(h, role, c, D)
       PROVE  Lists'
    BY <1>13, DelUsersLists DEF TrimUsers, UsersOf
  <1>14. ASSUME NEW c \in Chans, NEW h \in Handles, NEW role \in Roles(h), NEW i \in Ids, DeleteMe(h, role, c, i)
       PROVE  Lists'
    BY <1>14, DelUsersLists DEF DeleteMe, EntriesOf, UsersOf
  <1>15. ASSUME NEW c \in Chans, NEW h \in Handles, NEW role \in Roles(h),
             NEW x \in Handles, NEW force \in BOOLEAN,
             GiveOwnership(h, role, c, x, force)
       PROVE  Lists'
    BY <1>15, GiveOwnershipLists
  <1>16. ASSUME NEW c \in Chans, NEW h \in Handles, NEW role \in Roles(h),
             NEW i \in Ids, NEW d \in InTime(Durations),
             Suspend(h, role, c, i, d)
       PROVE  Lists'
    BY <1>16, UserSuspendedLists DEF Suspend
  <1>17. ASSUME NEW c \in Chans, NEW h \in Handles, NEW role \in Roles(h), NEW i \in Ids, Unsuspend(h, role, c, i)
       PROVE  Lists'
    BY <1>17, UserSuspendedLists DEF Unsuspend
  <1>18. ASSUME NEW R \in SUBSET DOMAIN data, ExpireChannels(R)
       PROVE  Lists'
    BY <1>18, UnregisterLists DEF ExpireChannels
  <1>19. ASSUME NEW P \in SUBSET pend, DropPending(P)
       PROVE  Lists'
    BY <1>19, ListsFrame DEF DropPending, Lists, PromisedOnce, Inv
  <1>20. ASSUME NEW u \in Users, NEW h \in Handles, ProcessPending(u, h)
       PROVE  Lists'
    BY <1>20, ProcessPendingLists
  <1>21. ASSUME NEW h \in Handles, HandleUnreg(h)
       PROVE  Lists'
    BY <1>21, DelUsersLists DEF HandleUnreg
  <1>22. ASSUME NEW from \in Handles, NEW to \in Handles, HandleMerge(from, to)
       PROVE  Lists'
    BY <1>22, HandleMergeLists
  <1>23. ASSUME NEW t \in timers, ExpireTempUser(t)
       PROVE  Lists'
    BY <1>23, ExpireTempUserLists
  <1>24. ASSUME NEW t \in timers, ExpireTempClvl(t)
       PROVE  Lists'
    BY <1>24, ExpireTempClvlLists
  <1>25. ASSUME NEW t \in timers, ExpireUserSuspension(t)
       PROVE  Lists'
    <2>1. CASE t.data \in DOMAIN ent
      BY <1>25, <2>1, UserSuspendedLists DEF ExpireUserSuspension
    <2>2. CASE t.data \notin DOMAIN ent
      BY <1>25, <2>2, ListsFrame DEF ExpireUserSuspension, Inv, Lists, PromisedOnce
    <2> QED BY <2>1, <2>2
  <1>26. ASSUME NEW t \in timers, ExpireSuspension(t)
       PROVE  Lists'
    BY <1>26, SuspendedLists DEF ExpireSuspension
  <1>27. ASSUME Tick
       PROVE  Lists'
    BY <1>27, ListsFrame DEF Tick, Inv, Lists, PromisedOnce
  <1>28. ASSUME NEW at \in now..MaxTime, NEW known \in SUBSET Handles, Restart(at, known)
       PROVE  Lists'
    BY <1>28, RestartLists
  <1>29. ASSUME NEW u \in Users, PendingCrash(u)
       PROVE  Lists'
    BY <1>29, RestartLists DEF PendingCrash
  <1> QED BY <1>1, <1>2, <1>3, <1>4, <1>5, <1>6, <1>7, <1>8, <1>9, <1>10, <1>11, <1>12, <1>13, <1>14,
      <1>15, <1>16, <1>17, <1>18, <1>19, <1>20, <1>21, <1>22, <1>23, <1>24, <1>25, <1>26, <1>27, <1>28, <1>29 DEF Next

-----------------------------------------------------------------------------
(* Theorems on access lists. *)

LEMMA ListsHold == Spec => []Lists
  <1>1. Init => Lists
    BY DEF Init, Lists, PromisedOnce, NoOwnerAgain, OneEntry, OneOwner, NoneEmpty
  <1>2. Inv /\ Lists /\ [Next]_vars => Lists'
    <2> SUFFICES ASSUME Inv, Lists, [Next]_vars PROVE Lists'
      OBVIOUS
    <2>1. CASE Next
      BY <2>1, NextLists
    <2>2. CASE UNCHANGED vars
      BY <2>2, ListsFrame DEF vars, Inv, Lists, PromisedOnce
    <2> QED BY <2>1, <2>2
  <1> QED BY <1>1, <1>2, TimersAgree, PTL DEF Spec

\* For every number of channels, accounts and addresses, an account is on an access list
\* once unless staff saw to it: ADDUSER, promises kept at login, both merges and restarts
\* never add a second entry (add_channel_user and its callers in chanserv.c).
THEOREM OneEntryEach == Spec => []OneEntry
  <1>1. Spec => []Lists
    BY ListsHold
  <1>2. Lists => OneEntry
    BY DEF Lists
  <1> QED BY <1>1, <1>2, PTL

\* For every number of them too, no channel has two owners unless staff saw to it: no
\* temporary level that ends, no merge, promise or GIVEOWNERSHIP makes a second one.
THEOREM OneOwnerEach == Spec => []OneOwner
  <1>1. Spec => []Lists
    BY ListsHold
  <1>2. Lists => OneOwner
    BY DEF Lists
  <1> QED BY <1>1, <1>2, PTL

\* A registration that is neither protected nor touched by staff has a user: it goes with
\* its last one, whoever or whatever takes that one away (del_channel_user's do_gc,
\* chanserv_channel_read).
THEOREM NoEmptyLists == Spec => []NoneEmpty
  <1>1. Spec => []Lists
    BY ListsHold
  <1>2. Lists => NoneEmpty
    BY DEF Lists
  <1> QED BY <1>1, <1>2, PTL
=============================================================================
