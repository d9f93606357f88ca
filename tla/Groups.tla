------------------------------- MODULE Groups --------------------------------
(***************************************************************************)
(* Groups of accounts (mod-groupserv.c).  A group's members are a          *)
(* dictionary whose keys are the names inside the account records: when an *)
(* account is renamed or unregistered its entries keep a key that was      *)
(* freed (nothing tells this module), and the group cannot be used without *)
(* reading it.  `staleMembers' holds those entries; the commands are       *)
(* modelled for groups without one.                                        *)
(***************************************************************************)
EXTENDS Naturals, FiniteSets

CONSTANTS GroupNames,   \* names of groups
          GroupHandles  \* account names

NoFounder == "none"

ASSUME FoundersNamed == NoFounder \notin GroupHandles

VARIABLES groups,         \* name -> founder, open, members (account -> flags)
          groupAccounts,  \* the accounts registered
          staleMembers,   \* <<group, account>>: member entries whose account is gone
          savedGroups     \* the groups in the database

groupVars == <<groups, groupAccounts, staleMembers, savedGroups>>

SetEntry(f, x, y) == [z \in DOMAIN f \union {x} |-> IF z = x THEN y ELSE f[z]]
DropEntries(f, S) == [z \in DOMAIN f \ S |-> f[z]]

GroupInit ==
    /\ groups = [g \in {} |-> 0] /\ savedGroups = groups
    /\ groupAccounts = GroupHandles
    /\ staleMembers = {}

GroupUsable(g) == g \in DOMAIN groups /\ ~\E h \in GroupHandles : <<g, h>> \in staleMembers
Member(g, h) == h \in DOMAIN groups[g].members
group_is_founder(g, h) == Member(g, h) /\ "FOUNDER" \in groups[g].members[h]
group_is_admin(g, h) == Member(g, h) /\ groups[g].members[h] \intersect {"ADMIN", "FOUNDER"} # {}

cmd_gcreate(user, g) ==
    /\ user \in groupAccounts /\ g \notin DOMAIN groups
    /\ groups' = SetEntry(groups, g, [founder |-> user, open |-> FALSE,
                                     members |-> [h \in {user} |-> {"FOUNDER", "ADMIN"}]])
    /\ UNCHANGED <<groupAccounts, staleMembers, savedGroups>>

cmd_gdrop(user, g) ==
    /\ user \in groupAccounts /\ GroupUsable(g) /\ group_is_founder(g, user)
    /\ groups' = DropEntries(groups, {g})
    /\ UNCHANGED <<groupAccounts, staleMembers, savedGroups>>

cmd_gjoin(user, g) ==
    /\ user \in groupAccounts /\ GroupUsable(g) /\ ~Member(g, user) /\ groups[g].open
    /\ groups' = [groups EXCEPT ![g].members = SetEntry(@, user, {})]
    /\ UNCHANGED <<groupAccounts, staleMembers, savedGroups>>

cmd_gleave(user, g) ==
    /\ user \in groupAccounts /\ GroupUsable(g) /\ Member(g, user) /\ ~group_is_founder(g, user)
    /\ groups' = [groups EXCEPT ![g].members = DropEntries(@, {user})]
    /\ UNCHANGED <<groupAccounts, staleMembers, savedGroups>>

cmd_ginvite(user, g, target) ==
    /\ {user, target} \subseteq groupAccounts /\ GroupUsable(g)
    /\ group_is_admin(g, user) /\ ~Member(g, target)
    /\ groups' = [groups EXCEPT ![g].members = SetEntry(@, target, {})]
    /\ UNCHANGED <<groupAccounts, staleMembers, savedGroups>>

(* As a mutant: an admin can remove the founder. *)
AnyoneKicked(user, g, target) ==
    /\ {user, target} \subseteq groupAccounts /\ GroupUsable(g)
    /\ group_is_admin(g, user) /\ Member(g, target)
    /\ groups' = [groups EXCEPT ![g].members = DropEntries(@, {target})]
    /\ UNCHANGED <<groupAccounts, staleMembers, savedGroups>>

cmd_gkick(user, g, target) ==
    /\ {user, target} \subseteq groupAccounts /\ GroupUsable(g) /\ group_is_admin(g, user)
    /\ Member(g, target) /\ ~group_is_founder(g, target)
    /\ groups' = [groups EXCEPT ![g].members = DropEntries(@, {target})]
    /\ UNCHANGED <<groupAccounts, staleMembers, savedGroups>>

(* The sign is set back to "+" at every character, so "-A" adds the flag as "+A" does. *)
cmd_gflags(user, g, target) ==
    /\ {user, target} \subseteq groupAccounts /\ GroupUsable(g)
    /\ group_is_admin(g, user) /\ Member(g, target)
    /\ groups' = [groups EXCEPT ![g].members[target] = @ \union {"ADMIN"}]
    /\ UNCHANGED <<groupAccounts, staleMembers, savedGroups>>

cmd_gset(user, g, open) ==
    /\ user \in groupAccounts /\ GroupUsable(g) /\ group_is_founder(g, user)
    /\ groups' = [groups EXCEPT ![g].open = open]
    /\ UNCHANGED <<groupAccounts, staleMembers, savedGroups>>

(* The account's end is not announced to this module. *)
UnregisterHandle(h) ==
    /\ h \in groupAccounts
    /\ groupAccounts' = groupAccounts \ {h}
    /\ staleMembers' = staleMembers \union {<<g, h>> : g \in {x \in DOMAIN groups : Member(x, h)}}
    /\ UNCHANGED <<groups, savedGroups>>

RegisterHandle(h) ==
    /\ h \notin groupAccounts /\ groupAccounts' = groupAccounts \union {h}
    /\ UNCHANGED <<groups, staleMembers, savedGroups>>

groupserv_saxdb_write ==
    /\ staleMembers = {}
    /\ savedGroups' = groups
    /\ UNCHANGED <<groups, groupAccounts, staleMembers>>

(* Members whose account is gone are skipped; so is a founder, and then nobody can drop the group. *)
groupserv_saxdb_read ==
    /\ groups' = [g \in DOMAIN savedGroups |->
                    [founder |-> IF savedGroups[g].founder \in groupAccounts THEN savedGroups[g].founder ELSE NoFounder,
                     open |-> savedGroups[g].open,
                     members |-> DropEntries(savedGroups[g].members, GroupHandles \ groupAccounts)]]
    /\ staleMembers' = {}
    /\ UNCHANGED <<groupAccounts, savedGroups>>

GroupNext ==
    \/ \E u \in GroupHandles, g \in GroupNames : cmd_gcreate(u, g) \/ cmd_gdrop(u, g) \/ cmd_gjoin(u, g) \/ cmd_gleave(u, g)
    \/ \E u, t \in GroupHandles, g \in GroupNames : cmd_ginvite(u, g, t) \/ cmd_gkick(u, g, t) \/ cmd_gflags(u, g, t)
    \/ \E u \in GroupHandles, g \in GroupNames, b \in BOOLEAN : cmd_gset(u, g, b)
    \/ \E h \in GroupHandles : UnregisterHandle(h) \/ RegisterHandle(h)
    \/ groupserv_saxdb_write
    \/ groupserv_saxdb_read

GroupSpec == GroupInit /\ [][GroupNext]_groupVars

(***************************************************************************)
(* The founder named in a group's record is the one member with the        *)
(* founder's flag, through kicks and flag changes by other admins, saves   *)
(* and restarts; a group without one (its account was gone when the        *)
(* database was read) has no member with the flag.  And members are        *)
(* registered, unless their key dangles (groupserv_saxdb_read).            *)
(***************************************************************************)
Founders(g) == {h \in DOMAIN g.members : "FOUNDER" \in g.members[h]}

FounderHolds ==
    \A g \in DOMAIN groups :
       /\ Founders(groups[g]) = {groups[g].founder} \ {NoFounder}
       /\ \A h \in DOMAIN groups[g].members : h \in groupAccounts \/ <<g, h>> \in staleMembers
=============================================================================
