----------------------------- MODULE StaffLists -----------------------------
(***************************************************************************)
(* What staff keep about channels and accounts beside the registrations    *)
(* (src/src/chanserv.c): the do-not-register list and the notes.           *)
(*                                                                         *)
(* The list (expire_dnrs and chanserv_add_dnr to cmd_dnrsearch) has        *)
(* entries for channels, for masks of channels and for accounts, each for  *)
(* a time or for good, asked when a channel is registered.  The three      *)
(* dictionaries are one function; the key of an account's entry is the     *)
(* account.  expire_dnrs removes entries by the name without its first     *)
(* character, which is right for accounts only.  What saving writes of an  *)
(* entry it has just freed is whatever is left there.                      *)
(*                                                                         *)
(* A note of a registered channel is of a type that staff create           *)
(* (chanserv_create_note_type to cmd_removenote, cmd_note and              *)
(* cmd_delnote).  A type counts the notes that point to it, itself         *)
(* included, and is freed when the count is 0.  Of a note only its length  *)
(* matters.                                                                *)
(***************************************************************************)
EXTENDS Integers, FiniteSets

CONSTANTS
    PlainNames, DnrMasks,   \* names of channels, masks of such names
    AccountNames,           \* accounts, by the names they may have
    DnrCovers,              \* mask to the names it matches
    Behind,                 \* name or mask to what follows its first character
    DnrDurations,           \* of NOREGISTER; 0: for good
    dnr_expire_frequency,
    Garbage,                \* what may be read as the expiry of a freed entry
    MaxListTime

CONSTANTS
    Types, NoteChannels,    \* types of notes, channels that may be registered
    Lengths,                \* maximum lengths CREATENOTE accepts (20 .. 450)
    NoteTexts,              \* lengths of the notes people write
    NoteLevels              \* access of the users who set notes

\* An entry for an account is kept under "*" and its name, one for a channel or a mask under a name
\* of a channel (chanserv_add_dnr), and lengths are those of texts.
ASSUME KeysApart == AccountNames \intersect (PlainNames \union DnrMasks) = {}
ASSUME NotesNatural == Lengths \subseteq Nat /\ NoteTexts \subseteq Nat
ASSUME NoteChannelsFinite == IsFiniteSet(NoteChannels)

VARIABLES
    dnrs,                   \* key to expiry; 0: never
    dnrAccounts,            \* names in use
    nextExpire,             \* when expire_dnrs is due; -1: not queued
    owed,                   \* keys put on the list for good and not taken off
    listNow

VARIABLES
    note_types,             \* name to [refs, access, visible, max_length]
    notes,                  \* registered channel to name of a type to the length of the note
    noteFreed               \* a type was freed that a note or the dictionary still held

dnrVars == <<dnrs, dnrAccounts, nextExpire, owed, listNow>>
noteVars == <<note_types, notes, noteFreed>>
staffVars == <<dnrVars, noteVars>>

DnrKeys == PlainNames \union DnrMasks \union AccountNames
NoteAccesses == {[type |-> "PRIVILEGED", min |-> 0]} \union {[type |-> "CHANNEL", min |-> l] : l \in NoteLevels} \union {[type |-> "SETTER", min |-> 0]}
Visibilities == {"PRIVILEGED", "CHANNEL_USERS", "ALL"}

PutKey(f, x, y) == [z \in DOMAIN f \union {x} |-> IF z = x THEN y ELSE f[z]]
WithoutKeys(f, S) == [z \in DOMAIN f \ S |-> f[z]]
NoKeys == [x \in {} |-> 0]
Least(a, b) == IF a < b THEN a ELSE b

StaffInit ==
    /\ dnrs = NoKeys /\ dnrAccounts \in SUBSET AccountNames
    /\ owed = {}
    /\ nextExpire = IF dnr_expire_frequency > 0 THEN dnr_expire_frequency ELSE -1
    /\ listNow = 0
    /\ note_types = NoKeys
    /\ notes \in {[c \in {} |-> NoKeys], [c \in NoteChannels |-> NoKeys]}
    /\ noteFreed = FALSE

-----------------------------------------------------------------------------
(* The do-not-register list.                                                 *)

Lapsed(f) == {k \in DOMAIN f : f[k] > 0 /\ f[k] <= listNow}

\* chanserv_find_dnrs: the entries that stand against a channel and an account; those that
\* have lapsed are dropped on the way.
Asked(chan, handle) ==
    {k \in DOMAIN dnrs : k = handle \/ k = chan \/ (k \in DnrMasks /\ chan \in DnrCovers[k])}

\* chanserv_is_dnr wants one entry only: the loop over masks, in the order of the dictionary,
\* ends with the first that stands.
Dropped(chan, handle) ==
    LET direct == Asked(chan, handle) \ DnrMasks
        masks  == Asked(chan, handle) \intersect DnrMasks
    IN  {(direct \intersect Lapsed(dnrs)) \union M : M \in
            {M \in SUBSET (masks \intersect Lapsed(dnrs)) :
                IF direct \ Lapsed(dnrs) # {} THEN M = {}
                ELSE masks \subseteq Lapsed(dnrs) => M = masks}}

\* cmd_register, cmd_move, cmd_giveownership and cmd_info ask, of which the last two name only
\* the account or only the channel ("none" for the other); chanserv_show_dnrs sees them all.
AskDnrs(chan, handle) ==
    /\ \E gone \in Dropped(chan, handle) \union {Asked(chan, handle) \intersect Lapsed(dnrs)} :
           dnrs' = WithoutKeys(dnrs, gone)
    /\ UNCHANGED <<noteVars, dnrAccounts, nextExpire, owed, listNow>>

\* cmd_noregister with a reason.
cmd_noregister(k, duration) ==
    /\ k \in AccountNames => k \in dnrAccounts
    /\ dnrs' = PutKey(dnrs, k, IF duration = 0 THEN 0 ELSE listNow + duration)
    /\ owed' = IF duration = 0 THEN owed \union {k} ELSE owed \ {k}
    /\ UNCHANGED <<noteVars, dnrAccounts, nextExpire, listNow>>

\* cmd_noregister without arguments: send_dnrs drops what has lapsed.
send_dnrs ==
    /\ dnrs' = WithoutKeys(dnrs, Lapsed(dnrs))
    /\ UNCHANGED <<noteVars, dnrAccounts, nextExpire, owed, listNow>>

cmd_allowregister(k) ==
    /\ k \in DOMAIN dnrs
    /\ dnrs' = WithoutKeys(dnrs, {k}) /\ owed' = owed \ {k}
    /\ UNCHANGED <<noteVars, dnrAccounts, nextExpire, listNow>>

\* dnr_search_matches, for the limits on the expiry; 0 is no upper limit, and an entry
\* for good passes a lower limit only if that is 0.
dnr_search_matches(k, min, max) ==
    /\ dnrs[k] >= min
    /\ max > 0 => dnrs[k] # 0 /\ dnrs[k] <= max

\* cmd_dnrsearch REMOVE: a fixed target is looked up among accounts or plain names, any
\* other among all; the first "limit" matches are removed.
cmd_dnrsearch(target, min, max, limit) ==
    LET range   == IF target = "any" THEN DOMAIN dnrs ELSE ({target} \intersect DOMAIN dnrs) \ DnrMasks
        matches == {k \in range : dnr_search_matches(k, min, max)}
    IN  \E gone \in SUBSET matches :
            /\ Cardinality(gone) = IF Cardinality(matches) < limit THEN Cardinality(matches) ELSE limit
            /\ gone # {}
            /\ dnrs' = WithoutKeys(dnrs, gone) /\ owed' = owed \ gone
            /\ UNCHANGED <<noteVars, dnrAccounts, nextExpire, listNow>>

\* expire_dnrs.
expire_dnrs ==
    LET gone == (Lapsed(dnrs) \intersect AccountNames)
                \union ({Behind[k] : k \in Lapsed(dnrs) \intersect PlainNames} \intersect PlainNames)
                \union ({Behind[k] : k \in Lapsed(dnrs) \intersect DnrMasks} \intersect DnrMasks)
    IN  /\ nextExpire = listNow
        /\ dnrs' = WithoutKeys(dnrs, gone)
        /\ nextExpire' = IF dnr_expire_frequency > 0 THEN listNow + dnr_expire_frequency ELSE -1
        /\ UNCHANGED <<noteVars, dnrAccounts, owed, listNow>>

\* Mutant: the entry keeps its old key.
RenamedLeft(old, new) == dnrs

\* handle_rename takes the entry along, over one the new name may still have.
Renamed(old, new) ==
    IF old \in DOMAIN dnrs THEN PutKey(WithoutKeys(dnrs, {old}), new, dnrs[old]) ELSE dnrs

handle_rename(old, new) ==
    /\ old \in dnrAccounts /\ new \notin dnrAccounts
    /\ dnrAccounts' = (dnrAccounts \ {old}) \union {new}
    /\ dnrs' = Renamed(old, new)
    /\ owed' = IF old \in owed THEN (owed \ {old}) \union {new} ELSE owed
    /\ UNCHANGED <<noteVars, nextExpire, listNow>>

\* Nothing here hears of the end of an account: its entry waits for the next of that name,
\* and is claimed for nobody.
UnregisterName(h) ==
    /\ h \in dnrAccounts
    /\ dnrAccounts' = dnrAccounts \ {h} /\ owed' = owed \ {h}
    /\ UNCHANGED <<noteVars, dnrs, nextExpire, listNow>>

RegisterName(h) ==
    /\ h \notin dnrAccounts
    /\ dnrAccounts' = dnrAccounts \union {h}
    /\ UNCHANGED <<noteVars, dnrs, nextExpire, owed, listNow>>

\* chanserv_saxdb_write: write_dnrs_helper takes each entry with an expiry off the list, frees
\* it and then writes it.
Timed == {k \in DOMAIN dnrs \ Lapsed(dnrs) : dnrs[k] > 0}

write_dnrs_helper ==
    /\ dnrs' = WithoutKeys(dnrs, Timed)
    /\ UNCHANGED <<noteVars, dnrAccounts, nextExpire, owed, listNow>>

StaffTick ==
    /\ listNow < MaxListTime /\ nextExpire # listNow
    /\ listNow' = listNow + 1
    /\ UNCHANGED <<noteVars, dnrs, dnrAccounts, nextExpire, owed>>

-----------------------------------------------------------------------------
(* Notes.                                                                    *)

NoteUsers(name) == {c \in DOMAIN notes : name \in DOMAIN notes[c]}

\* chanserv_create_note_type; the memory is cleared.
NewType == [refs |-> 1, access |-> [type |-> "CHANNEL", min |-> 0], visible |-> "ALL", max_length |-> 0]

\* Mutant: notes that are now too long are left as they are.
TruncatedNot(name, max) == notes

\* chanserv_truncate_notes.
Truncated(name, max) ==
    [c \in DOMAIN notes |-> [t \in DOMAIN notes[c] |-> IF t = name THEN Least(notes[c][t], max) ELSE notes[c][t]]]

\* cmd_createnote: the arguments are taken one by one, up to the first bad one; a type that
\* was there before keeps what it was given until then.
cmd_createnote(name, access, visible, max) ==
    LET existed == name \in DOMAIN note_types
        old  == IF existed THEN note_types[name] ELSE NewType
        one  == IF access.type = "bad" THEN old ELSE [old EXCEPT !.access = access]
        two  == IF visible = "bad" THEN one ELSE [one EXCEPT !.visible = visible]
        ok   == access.type # "bad" /\ visible # "bad" /\ max # 0
    IN  /\ access.type = "bad" => visible = "bad"
        /\ visible = "bad" => max = 0
        /\ note_types' = IF ok THEN PutKey(note_types, name, [two EXCEPT !.max_length = max])
                         ELSE IF existed THEN PutKey(note_types, name, two) ELSE note_types
        /\ notes' = IF ok /\ existed /\ max < old.max_length THEN Truncated(name, max) ELSE notes
        /\ UNCHANGED <<dnrVars, noteFreed>>

\* chanserv_flush_note_type: each note lets go of the type (chanserv_free_note).
Flushed(name) == [c \in DOMAIN notes |-> WithoutKeys(notes[c], {name})]

cmd_removenote(name, force) ==
    LET used  == note_types[name].refs > 1
        after == note_types[name].refs - Cardinality(NoteUsers(name)) - 1
    IN  /\ name \in DOMAIN note_types
        /\ used => force
        /\ notes' = IF used THEN Flushed(name) ELSE notes
        /\ note_types' = WithoutKeys(note_types, {name})
        /\ noteFreed' = (noteFreed \/ (IF used THEN after # 0 ELSE NoteUsers(name) # {}))
        /\ UNCHANGED dnrVars

\* note_type_settable_by_user: level is the access in the channel, setter whether it has
\* lvlSetters, staff whether the user is helping with a level high enough.
note_type_settable_by_user(name, level, setter, staff) ==
    CASE note_types[name].access.type = "CHANNEL" -> level > 0 /\ level >= note_types[name].access.min
      [] note_types[name].access.type = "SETTER"  -> setter
      [] OTHER -> staff

\* chanserv_add_channel_note: a note that was there is freed by the dictionary first.
chanserv_add_channel_note(c, name, len) ==
    LET lost == IF name \in DOMAIN notes[c] THEN 1 ELSE 0
    IN  /\ notes' = [notes EXCEPT ![c] = PutKey(@, name, Least(len, note_types[name].max_length))]
        /\ note_types' = [note_types EXCEPT ![name].refs = (@ - lost) + 1]
        /\ noteFreed' = (noteFreed \/ note_types[name].refs - lost = 0)
        /\ UNCHANGED dnrVars

cmd_note(c, name, len, level, setter, staff) ==
    /\ c \in DOMAIN notes /\ name \in DOMAIN note_types
    /\ note_type_settable_by_user(name, level, setter, staff)
    /\ chanserv_add_channel_note(c, name, len)

\* chanserv_free_note; the type must outlive it ("must use delnote to remove the type").
RefsReleased(names) == [t \in DOMAIN note_types |-> [note_types[t] EXCEPT !.refs = IF t \in names THEN @ - 1 ELSE @]]

cmd_delnote(c, name, level, setter, staff) ==
    /\ c \in DOMAIN notes /\ name \in DOMAIN notes[c]
    /\ note_type_settable_by_user(name, level, setter, staff)
    /\ notes' = [notes EXCEPT ![c] = WithoutKeys(@, {name})]
    /\ note_types' = RefsReleased({name})
    /\ noteFreed' = (noteFreed \/ note_types[name].refs = 1)
    /\ UNCHANGED dnrVars

\* unregister_channel deletes the dictionary of notes.
unregister_channel(c) ==
    /\ c \in DOMAIN notes
    /\ note_types' = RefsReleased(DOMAIN notes[c])
    /\ notes' = WithoutKeys(notes, {c})
    /\ noteFreed' = (noteFreed \/ \E t \in DOMAIN notes[c] : note_types[t].refs = 1)
    /\ UNCHANGED dnrVars

register_channel(c) ==
    /\ c \notin DOMAIN notes
    /\ notes' = PutKey(notes, c, NoKeys)
    /\ UNCHANGED <<dnrVars, note_types, noteFreed>>

-----------------------------------------------------------------------------
\* chanserv_dnr_read: the entries with an expiry are back, with what was left of it.
chanserv_dnr_read ==
    /\ \E read \in [Timed -> {-1} \union Garbage] :
           LET file == [k \in DOMAIN dnrs |-> IF k \in Timed /\ read[k] # -1 THEN read[k] ELSE dnrs[k]]
           IN  dnrs' = WithoutKeys(file, Lapsed(file))
    /\ nextExpire' = IF dnr_expire_frequency > 0 THEN listNow + dnr_expire_frequency ELSE -1
    /\ UNCHANGED <<dnrAccounts, owed, listNow>>

\* chanserv_note_type_read makes the types anew, chanserv_channel_read adds the notes to them,
\* cut to the maximum length again.
chanserv_note_type_read ==
    /\ note_types' = [t \in DOMAIN note_types |-> [note_types[t] EXCEPT !.refs = 1 + Cardinality(NoteUsers(t))]]
    /\ notes' = [c \in DOMAIN notes |-> [t \in DOMAIN notes[c] |-> Least(notes[c][t], note_types[t].max_length)]]
    /\ UNCHANGED noteFreed

\* A restart saves and then reads.
StaffRestart == chanserv_dnr_read /\ chanserv_note_type_read

DnrsNext ==
    \/ \E c \in PlainNames \union {"none"}, h \in AccountNames \union {"none"} : AskDnrs(c, h)
    \/ \E k \in DnrKeys : cmd_allowregister(k) \/ \E d \in DnrDurations : cmd_noregister(k, d)
    \/ \E t \in DnrKeys \union {"any"}, min \in {0, listNow + 1}, max \in {0, listNow}, limit \in {1, 50} : cmd_dnrsearch(t, min, max, limit)
    \/ send_dnrs \/ expire_dnrs \/ write_dnrs_helper
    \/ \E h \in AccountNames : UnregisterName(h) \/ RegisterName(h) \/ \E new \in AccountNames : handle_rename(h, new)

NotesNext ==
    \/ \E t \in Types, a \in NoteAccesses \union {[type |-> "bad", min |-> 0]}, v \in Visibilities \union {"bad"}, max \in Lengths \union {0} :
          cmd_createnote(t, a, v, max)
    \/ \E t \in Types, force \in BOOLEAN : cmd_removenote(t, force)
    \/ \E c \in NoteChannels, t \in Types, level \in NoteLevels, setter, staff \in BOOLEAN :
          \/ cmd_delnote(c, t, level, setter, staff)
          \/ \E len \in NoteTexts : cmd_note(c, t, len, level, setter, staff)
    \/ \E c \in NoteChannels : unregister_channel(c) \/ register_channel(c)

StaffNext == DnrsNext \/ NotesNext \/ StaffRestart \/ StaffTick

StaffSpec == StaffInit /\ [][StaffNext]_staffVars

-----------------------------------------------------------------------------
\* What staff put on the list for good stands until staff take it off, through renames,
\* expiries of other entries, saving and restarts (chanserv_find_dnrs finds it), unless
\* expire_dnrs can mistake it for what follows the first character of another entry.
DnrsKept ==
    \A k \in owed \ {Behind[x] : x \in PlainNames \union DnrMasks} :
        k \in DOMAIN dnrs /\ (dnrs[k] = 0 \/ dnrs[k] > listNow)

\* A type counts exactly the notes that point to it and itself, so that none is freed under
\* a note, every note has its type, and no note is longer than that allows, whatever is
\* created, changed, removed by force or unregistered in between (chanserv_free_note).
NotesTyped ==
    /\ ~noteFreed
    /\ \A c \in DOMAIN notes : \A t \in DOMAIN notes[c] :
           t \in DOMAIN note_types /\ notes[c][t] <= note_types[t].max_length
    /\ \A t \in DOMAIN note_types : note_types[t].refs = 1 + Cardinality(NoteUsers(t))

\* Both lists of staff are in order (expire_dnrs, chanserv_truncate_notes).
StaffKept == DnrsKept /\ NotesTyped
=============================================================================
