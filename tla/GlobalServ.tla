----------------------------- MODULE GlobalServ -----------------------------
(* Notices to everyone and the list of messages shown to those who arrive     *)
(* (global.c).  Texts and times of day are left out; "notices" is what the    *)
(* last step sent, by recipient.                                              *)
EXTENDS Integers, Sequences, FiniteSets, SequencesExt, Functions

CONSTANTS
    Users,          \* clients of other servers
    Opers, Helpers, Authed, \* those with the modes and those logged in
    Declining, Wanting,     \* those whose account refuses announcements, or asks for them
    announcements_default,
    Channels, RChannels,    \* channels, and the registered ones
    Targets,        \* sets of recipients a MESSAGE may name
    Durations,      \* 0 is for ever
    AlertPeriod,    \* seconds in which a record is news (30)
    MaxCount, MaxTime

VARIABLES
    messageList,    \* newest first
    timers,         \* set of [id, when]
    messageCount, notices, max_clients_time, last_max_alert, now

vars == <<messageList, timers, messageCount, notices, max_clients_time, last_max_alert, now>>

Everyone == Users \cup Channels \cup {"$*"}
Nobody == [r \in Everyone |-> 0]
Kinds == {{"LUSERS", "CHANNELS"}, {"OPERS", "HELPERS"}}
         \cup {{f} : f \in {"LUSERS", "OPERS", "HELPERS", "CHANNELS", "RCHANNELS", "ANNOUNCE", "AUTHED"}}

Init ==
    /\ messageList = <<>> /\ timers = {} /\ messageCount = 0 /\ notices = Nobody
    /\ max_clients_time = 0 /\ last_max_alert = -AlertPeriod - 1 /\ now = 0

-----------------------------------------------------------------------------
\* Who message_send notices, and how often.  A notice to $* ends it; an oper who
\* is a helper too is noticed once.
message_send(flags) ==
    [r \in Everyone |->
       LET has(f) == f \in flags
           goesOn == ~has("LUSERS")
           one(b) == IF b THEN 1 ELSE 0
       IN one(has("CHANNELS") /\ r \in Channels)
        + one(has("RCHANNELS") /\ r \in RChannels)
        + one(has("LUSERS") /\ r = "$*")
        + one(goesOn /\ has("ANNOUNCE") /\ r \in Users \ Declining /\ (r \in Wanting \/ announcements_default))
        + one(goesOn /\ has("OPERS") /\ r \in Opers)
        + one(goesOn /\ has("HELPERS") /\ r \in Helpers \ Opers)
        + one(goesOn /\ has("AUTHED") /\ r \in Authed)]

\* Mutant: an oper is not passed over when helpers are noticed too.
ArgsTwice(flags) ==
    [r \in Everyone |->
       (IF "OPERS" \in flags /\ r \in Opers THEN 1 ELSE 0) + (IF "HELPERS" \in flags /\ r \in Helpers THEN 1 ELSE 0)]

\* Who global_message_args notices: each client in its own language, by the
\* first of its ranks the message is for.
global_message_args(flags) ==
    [r \in Everyone |->
       LET oper == "OPERS" \in flags /\ r \in Opers
           helper == "HELPERS" \in flags /\ r \in Helpers /\ ~(oper /\ flags \cap {"LUSERS", "HELPERS", "AUTHED"} # {})
           authed == "AUTHED" \in flags /\ r \in Authed /\ ~oper /\ ~(helper /\ flags \cap {"LUSERS", "AUTHED"} # {})
           user == "LUSERS" \in flags /\ r \in Users /\ ~oper /\ ~helper /\ ~authed
       IN Cardinality({i \in 1 .. 4 : <<oper, helper, authed, user>>[i]})]

\* A message of its own that is sent and removed leaves nothing but its number.
Passing(n) == messageCount + n <= MaxCount /\ messageCount' = messageCount + n /\ UNCHANGED <<messageList, timers>>

\* NOTICE, and global_message for other modules.
cmd_notice(flags) ==
    /\ Passing(1) /\ notices' = message_send(flags)
    /\ UNCHANGED <<max_clients_time, last_max_alert, now>>

MessageArgs(flags) ==
    /\ Passing(Cardinality(Users)) /\ notices' = global_message_args(flags)
    /\ UNCHANGED <<max_clients_time, last_max_alert, now>>

-----------------------------------------------------------------------------
\* The message, in front of the list, and its timer, which runs from now even
\* for a message posted long ago.
message_add(list, run, n, flags, posted, duration) ==
    [list |-> <<[id |-> n, flags |-> flags, posted |-> posted, duration |-> duration]>> \o list,
     timers |-> IF duration = 0 THEN run ELSE run \cup {[id |-> n, when |-> now + duration]}]

cmd_message(flags, duration) ==
    LET st == message_add(messageList, timers, messageCount, flags, now, duration) IN
    /\ messageCount < MaxCount
    /\ messageList' = st.list /\ timers' = st.timers /\ messageCount' = messageCount + 1
    /\ notices' = Nobody
    /\ UNCHANGED <<max_clients_time, last_max_alert, now>>

\* Mutant: the timer of a removed message stays.
TimerLeft(m) == messageList' = SelectSeq(messageList, LAMBDA x : x.id # m.id) /\ timers' = timers

message_del(m) ==
    /\ messageList' = SelectSeq(messageList, LAMBDA x : x.id # m.id)
    /\ timers' = IF m.duration # 0 THEN {t \in timers : t.id # m.id} ELSE timers

cmd_remove(m) ==
    message_del(m) /\ notices' = Nobody /\ UNCHANGED <<messageCount, max_clients_time, last_max_alert, now>>

message_expire(t) ==
    /\ t.when <= now
    /\ messageList' = SelectSeq(messageList, LAMBDA x : x.id # t.id)
    /\ timers' = timers \ {t} /\ notices' = Nobody
    /\ UNCHANGED <<messageCount, max_clients_time, last_max_alert, now>>

\* How often send_messages notices user u for the messages of mask.
send_messages(u, mask) ==
    [Nobody EXCEPT ![u] = Len(SelectSeq(messageList, LAMBDA m : m.flags \cap mask # {}))]

cmd_messages(u) ==
    LET mask == {"AUTHED", "LUSERS", "CHANNELS", "RCHANNELS"}
                \cup (IF u \in Opers THEN {"OPERS"} ELSE {}) \cup (IF u \in Helpers THEN {"HELPERS"} ELSE {}) IN
    /\ notices' = send_messages(u, mask)
    /\ UNCHANGED <<messageList, timers, messageCount, max_clients_time, last_max_alert, now>>

\* A user arrives, perhaps the most there ever were: opers hear of it once in a while.
global_process_user(u, record) ==
    LET since == IF record THEN now ELSE max_clients_time
        shown == send_messages(u, {"LUSERS"})
    IN
    /\ max_clients_time' = since
    /\ IF now - since <= AlertPeriod /\ now - last_max_alert > AlertPeriod
       THEN /\ Passing(1) /\ last_max_alert' = now
            /\ notices' = [r \in Everyone |-> shown[r] + message_send({"OPERS"})[r]]
       ELSE notices' = shown /\ UNCHANGED <<messageList, timers, messageCount, last_max_alert>>
    /\ UNCHANGED now

global_process_auth(u) ==
    /\ u \in Helpers /\ notices' = send_messages(u, {"HELPERS"})
    /\ UNCHANGED <<messageList, timers, messageCount, max_clients_time, last_max_alert, now>>

global_process_oper(u) ==
    /\ u \in Opers /\ notices' = send_messages(u, {"OPERS"})
    /\ UNCHANGED <<messageList, timers, messageCount, max_clients_time, last_max_alert, now>>

-----------------------------------------------------------------------------
\* A restart reads the messages in the order of their record names and numbers
\* them again; each is put in front, and lives its whole duration once more.
global_saxdb_read ==
    LET old == Reverse(messageList)
        n == Len(old)
    IN
    /\ messageList' = [i \in 1 .. n |-> [old[n + 1 - i] EXCEPT !.id = n - i]]
    /\ timers' = {[id |-> i - 1, when |-> now + old[i].duration] : i \in {j \in 1 .. n : old[j].duration # 0}}
    /\ messageCount' = n /\ notices' = Nobody
    /\ max_clients_time' = now /\ last_max_alert' = -AlertPeriod - 1
    /\ UNCHANGED now

Tick == now < MaxTime /\ now' = now + 1 /\ notices' = Nobody
        /\ UNCHANGED <<messageList, timers, messageCount, max_clients_time, last_max_alert>>

Next ==
    \/ \E f \in SUBSET {"LUSERS", "OPERS", "HELPERS", "AUTHED"} : f # {} /\ MessageArgs(f)
    \/ \E f \in Kinds : cmd_notice(f)
    \/ \E f \in Targets, d \in Durations : cmd_message(f, d)
    \/ \E m \in Range(messageList) : cmd_remove(m)
    \/ \E t \in timers : message_expire(t)
    \/ \E u \in Users : cmd_messages(u) \/ global_process_auth(u) \/ global_process_oper(u)
    \/ \E u \in Users, b \in BOOLEAN : global_process_user(u, b)
    \/ global_saxdb_read \/ Tick

Spec == Init /\ [][Next]_vars

-----------------------------------------------------------------------------
\* A message that ends has its timer, and no timer is left for a message that is
\* gone and whose number may be given again (message_add, message_del,
\* message_expire, global_saxdb_read).
MessagesTimed ==
    /\ \A m \in Range(messageList) : m.id < messageCount /\ (m.duration # 0 => \E t \in timers : t.id = m.id)
    /\ \A t \in timers : \E m \in Range(messageList) : m.id = t.id
    /\ IsInjective([i \in DOMAIN messageList |-> messageList[i].id])

\* Whatever ranks a client has, one announcement reaches it once
\* (global_message_args, which passes over the ranks after the first).
OnceEach ==
    \A f \in SUBSET {"OPERS", "HELPERS", "AUTHED", "LUSERS"}, u \in Users : global_message_args(f)[u] <= 1
=============================================================================
