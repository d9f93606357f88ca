----------------------------- MODULE OpChannels -----------------------------
(***************************************************************************)
(* OpServ's part in channels (src/src/opserv.c): bad words and exempt      *)
(* channels, the shutting of a channel for a while, join floods, and the   *)
(* users OpServ itself introduces (reserved nicks, clones).  The name of a *)
(* channel, like a bad word, is the set of the pieces it contains, and to  *)
(* occur in a name is to be a subset.  A kick is only sent: the member     *)
(* goes when the network says so.  Servers do not pass on channels whose   *)
(* name has another first letter than '#', and the branches for them are   *)
(* left out.  It is a specification of its own beside that of module       *)
(* OpServ, whose helpers and whose users it takes over: the two share no   *)
(* variable.                                                               *)
(***************************************************************************)
EXTENDS OpServ

CONSTANTS
    Channels, Words,
    Dummies,            \* nicks OpServ may introduce
    Threshold,          \* join_flood_moderate_threshold
    MaxTimers           \* bound on the timers queued for one channel

VARIABLES
    opserv_bad_words, opserv_exempt_channels,
    chanGlines,         \* channels with a G-line
    channels,           \* the channels that exist: [members, opserv, bad, flooded]
    partTimers,         \* how many opserv_part_channel are queued for each channel
    locals,             \* the users introduced: nick to "reserve", "collide" or "clone"
    reserved            \* opserv_reserved_nick_dict

chVars == <<opserv_bad_words, opserv_exempt_channels, chanGlines, channels, partTimers, locals, reserved>>

\* The shape of the tables.
ChannelsTypeOK ==
    /\ opserv_bad_words \subseteq Words /\ opserv_exempt_channels \subseteq Channels
    /\ DOMAIN channels \subseteq Channels /\ partTimers \in [Channels -> Nat]
    /\ \A c \in DOMAIN channels :
        channels[c] \in [members : SUBSET Users, opserv : BOOLEAN, bad : BOOLEAN, flooded : BOOLEAN]
    /\ DOMAIN locals \subseteq Dummies

ChannelsInit ==
    /\ opserv_bad_words = {} /\ opserv_exempt_channels = {} /\ chanGlines = {}
    /\ channels = Nothing /\ partTimers = [c \in Channels |-> 0]
    /\ locals = Nothing /\ reserved = {}

\* opserv_bad_channel, for the given words, exempt channels and G-lines.
BadChannel(words, exempt, glines, c) ==
    c \notin exempt /\ (c \in glines \/ \E w \in words : w \subseteq c)
opserv_bad_channel(c) == BadChannel(opserv_bad_words, opserv_exempt_channels, chanGlines, c)

\* opserv_add_bad_word: a word that holds a listed one is redundant, one that is held by
\* listed ones takes their place.
opserv_add_bad_word(w) ==
    IF \E o \in opserv_bad_words : o \subseteq w THEN opserv_bad_words
    ELSE {o \in opserv_bad_words : ~(w \subseteq o)} \union {w}

\* DelChannelUser for members and OpServ; the channel goes with its last member.
Settle(chans, keep) ==
    [c \in {d \in DOMAIN chans : d \in keep \/ chans[d].members # {} \/ chans[d].opserv} |-> chans[c]]

\* Mutant: the timers of a channel that is gone stay.
TimersKept(timers, chans) == timers

\* opserv_channel_delete.
TimersLeft(timers, chans) == [c \in Channels |-> IF c \in DOMAIN chans THEN timers[c] ELSE 0]

Same == UNCHANGED <<opserv_bad_words, opserv_exempt_channels, chanGlines, locals, reserved>>

\* Mutant: OpServ joins for good.
ShutForGood(c) == [timers |-> partTimers, chan |-> [channels[c] EXCEPT !.opserv = TRUE]]

\* opserv_shutdown_channel: OpServ comes in, sends kicks and leaves after purge_lock_delay.
opserv_shutdown_channel(c) ==
    [timers |-> [partTimers EXCEPT ![c] = @ + 1], chan |-> [channels[c] EXCEPT !.opserv = TRUE]]

-----------------------------------------------------------------------------
\* opserv_channel_check, then opserv_join_check for who creates the channel, or joins it.
\* Flooding joins are those its policer does not allow.
Entered(u, c) ==
    IF c \in DOMAIN channels THEN [channels[c] EXCEPT !.members = @ \union {u}]
    ELSE [members |-> {u}, opserv |-> FALSE, bad |-> opserv_bad_channel(c), flooded |-> FALSE]

JoinBad(u, c) ==
    LET e == Entered(u, c)
    IN  /\ (c \in DOMAIN channels => u \notin channels[c].members)
        /\ e.bad
        /\ channels' = Put(channels, c, [e EXCEPT !.opserv = TRUE])
        /\ partTimers' = IF e.opserv THEN partTimers ELSE [partTimers EXCEPT ![c] = @ + 1]
        /\ Same

JoinGood(u, c, flood) ==
    LET e == Entered(u, c)
        moderate == flood /\ ~e.flooded /\ Cardinality(e.members) > Threshold
    IN  /\ (c \in DOMAIN channels => u \notin channels[c].members)
        /\ ~e.bad
        /\ channels' = Put(channels, c, [e EXCEPT !.flooded = flood, !.opserv = @ \/ moderate])
        /\ UNCHANGED partTimers /\ Same

\* A member parts, was kicked or quits.
Leave(u, c) ==
    LET rest == Settle([channels EXCEPT ![c].members = @ \ {u}], DOMAIN channels \ {c})
    IN  /\ c \in DOMAIN channels /\ u \in channels[c].members
        /\ channels' = rest /\ partTimers' = TimersLeft(partTimers, rest)
        /\ Same

\* opserv_part_channel.
opserv_part_channel(c) ==
    LET rest == Settle([channels EXCEPT ![c].opserv = FALSE], DOMAIN channels \ {c})
    IN  /\ partTimers[c] > 0 /\ c \in DOMAIN channels
        /\ channels' = rest
        /\ partTimers' = TimersLeft([partTimers EXCEPT ![c] = @ - 1], rest)
        /\ Same

\* Mutant: channels that exist are left to the next join.
AddBadLater(w) ==
    /\ opserv_add_bad_word(w) # opserv_bad_words
    /\ opserv_bad_words' = opserv_add_bad_word(w)
    /\ channels' = [c \in DOMAIN channels |->
                    [channels[c] EXCEPT !.bad = @ \/ BadChannel(opserv_bad_words', opserv_exempt_channels, chanGlines, c)]]
    /\ UNCHANGED <<opserv_exempt_channels, chanGlines, locals, reserved, partTimers>>

\* cmd_addbad: channels that are bad now are shut.
cmd_addbad(w) ==
    LET words == opserv_add_bad_word(w)
        hit   == {c \in DOMAIN channels : BadChannel(words, opserv_exempt_channels, chanGlines, c)}
    IN  /\ words # opserv_bad_words
        /\ \A c \in hit : partTimers[c] < MaxTimers
        /\ opserv_bad_words' = words
        /\ channels' = [c \in DOMAIN channels |->
                            IF c \in hit THEN [opserv_shutdown_channel(c).chan EXCEPT !.bad = TRUE] ELSE channels[c]]
        /\ partTimers' = [c \in Channels |-> IF c \in hit THEN opserv_shutdown_channel(c).timers[c] ELSE partTimers[c]]
        /\ UNCHANGED <<opserv_exempt_channels, chanGlines, locals, reserved>>

\* DelChannelUser with "deleting" set, and the timers: the channel stays even when it is empty.
Reopen(S) ==
    /\ channels' = [c \in DOMAIN channels |-> IF c \in S THEN [channels[c] EXCEPT !.opserv = FALSE, !.bad = FALSE] ELSE channels[c]]
    /\ partTimers' = [c \in Channels |-> IF c \in S THEN 0 ELSE partTimers[c]]

cmd_delbad(w) ==
    LET words == opserv_bad_words \ {w}
    IN  /\ w \in opserv_bad_words
        /\ opserv_bad_words' = words
        /\ Reopen({c \in DOMAIN channels : w \subseteq c /\ ~BadChannel(words, opserv_exempt_channels, chanGlines, c)})
        /\ UNCHANGED <<opserv_exempt_channels, chanGlines, locals, reserved>>

cmd_addexempt(c) ==
    /\ opserv_exempt_channels' = opserv_exempt_channels \union {c}
    /\ Reopen({d \in DOMAIN channels : d = c /\ channels[c].bad})
    /\ UNCHANGED <<opserv_bad_words, chanGlines, locals, reserved>>

cmd_delexempt(c) ==
    /\ c \in opserv_exempt_channels
    /\ opserv_exempt_channels' = opserv_exempt_channels \ {c}
    /\ UNCHANGED <<opserv_bad_words, chanGlines, channels, partTimers, locals, reserved>>

\* A G-line on a channel comes and goes (module Gline).
ChannelGline(c) ==
    /\ chanGlines' = IF c \in chanGlines THEN chanGlines \ {c} ELSE chanGlines \union {c}
    /\ UNCHANGED <<opserv_bad_words, opserv_exempt_channels, channels, partTimers, locals, reserved>>

-----------------------------------------------------------------------------
OnlyLocals == UNCHANGED <<opserv_bad_words, opserv_exempt_channels, chanGlines, channels, partTimers>>

\* opserv_add_reserve for RESERVE and COLLIDE; CLONE ADD makes a user that is not listed.
\* A nick that is in use is taken over.
opserv_add_reserve(n, kind) ==
    /\ locals' = Put(locals, n, kind)
    /\ reserved' = reserved \union {n}
    /\ OnlyLocals

CloneAdd(n) ==
    /\ n \notin DOMAIN locals
    /\ locals' = Put(locals, n, "clone")
    /\ UNCHANGED reserved /\ OnlyLocals

\* Mutant: the entry is left to UNRESERVE.
LocalGoneOnly(n) == locals' = Drop(locals, n) /\ UNCHANGED reserved

\* opserv_user_cleanup for a local user.
LocalGone(n) == locals' = Drop(locals, n) /\ reserved' = reserved \ {n}

free_reserve(n) == n \in reserved /\ LocalGone(n) /\ OnlyLocals

CloneRemove(n) == n \in DOMAIN locals /\ LocalGone(n) /\ OnlyLocals

\* A collision or a KILL from the network takes the user; one that is not persistent stays away.
Killed(n) == n \in DOMAIN locals /\ locals[n] # "reserve" /\ LocalGone(n) /\ OnlyLocals

\* opserv_saxdb_write, a new process, opserv_saxdb_read with add_reserved: of the users introduced
\* only the persistent ones come back, and the channels are burst again.  Bad words are added one
\* by one as cmd_addbad adds them; none of them holds another, so all are taken.
RestartChannels ==
    LET kept == {n \in reserved : locals[n] = "reserve"}
    IN  /\ channels' = Nothing /\ partTimers' = [c \in Channels |-> 0]
        /\ locals' = [n \in kept |-> "reserve"] /\ reserved' = kept
        /\ UNCHANGED <<opserv_bad_words, opserv_exempt_channels, chanGlines>>

ChannelsNext ==
    \/ \E u \in Users, c \in Channels :
        JoinBad(u, c) \/ Leave(u, c) \/ \E flood \in BOOLEAN : JoinGood(u, c, flood)
    \/ \E c \in Channels :
        opserv_part_channel(c) \/ cmd_addexempt(c) \/ cmd_delexempt(c) \/ ChannelGline(c)
    \/ \E w \in Words : cmd_delbad(w) \/ cmd_addbad(w)
    \/ \E n \in Dummies :
        \/ CloneAdd(n) \/ free_reserve(n) \/ CloneRemove(n) \/ Killed(n)
        \/ \E kind \in {"reserve", "collide"} : opserv_add_reserve(n, kind)
    \/ RestartChannels

ChannelsSpec == ChannelsInit /\ [][ChannelsNext]_chVars

-----------------------------------------------------------------------------
\* A channel that OpServ shut is not shut for good: while OpServ is in a bad channel a
\* timer to leave it is queued, and no timer is queued for a channel that is gone
\* (opserv_shutdown_channel, opserv_channel_delete).
ShutTimed ==
    /\ \A c \in DOMAIN channels : channels[c].bad /\ channels[c].opserv => partTimers[c] > 0
    /\ \A c \in Channels : partTimers[c] > 0 => c \in DOMAIN channels

\* Every reserved nick is held by a user of ours, whatever took the user away
\* (opserv_user_cleanup: "Try to remove it from the reserved nick dict").
ReservedHeld == reserved \subseteq DOMAIN locals

\* No listed bad word holds another, so that the list is as short as it can be and one DELBAD
\* takes back what one ADDBAD forbade (opserv_add_bad_word: "removing redundant bad word").
WordsLean == \A v, w \in opserv_bad_words : v \subseteq w => v = w

\* All of it: a channel OpServ shut has a timer that opens it again, the nicks it reserved are
\* users it introduced, and its list of bad words holds no redundant one (opserv_shutdown_channel,
\* opserv_channel_delete, free_reserve, opserv_add_bad_word).
ChannelsHeld == ShutTimed /\ ReservedHeld /\ WordsLean
=============================================================================
