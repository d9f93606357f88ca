-------------------------------- MODULE Log ---------------------------------
(***************************************************************************)
(* Where messages are logged (src/src/log.c): every facility has, for each *)
(* severity, a list of destinations, which are shared and counted; a       *)
(* rehash closes all of them and reads the configuration again, one entry  *)
(* at a time.  Audited commands are also kept in memory, up to a number    *)
(* and an age.  A destination that is closed while an entry is read stays  *)
(* in log_dests, and is used again if a later entry names it.              *)
(***************************************************************************)
EXTENDS Integers, Sequences, FiniteSets

CONSTANTS
    Facilities,         \* facilities other than "*"
    Severities,         \* 0 is LOG_REPLAY
    Configs,            \* what the logs section may hold: sequences of entries
    DefaultLog,         \* facility to the destination its module registers it with
    AuditLimits,        \* values of max_count
    max_age, MaxLogTime

LogEntries ==
    [types : SUBSET (Facilities \union {"*"}), sevs : [op : {"*", "<", "<=", "=", ">=", ">"}, sev : Severities],
     dest : STRING]

\* There are a few facilities and severities, and the configuration names these (log_parse_cross).
ASSUME LogsNamed ==
    /\ IsFiniteSet(Facilities) /\ IsFiniteSet(Severities) /\ Severities \subseteq Nat
    /\ Configs \subseteq Seq(LogEntries)
ASSUME AuditsBounded == AuditLimits \subseteq Nat /\ max_age \in Nat

VARIABLES
    pending,            \* entries of the configuration still to be read
    dests,              \* log_dests: name to refcnt; 0: closed and freed
    logs,               \* <<facility, severity>> to its destinations
    log_types,          \* facilities known
    default_set,        \* those that were given their default
    log_debugged,
    audit,              \* times of the entries kept for one facility, oldest first
    max_count,
    misused,            \* a closed destination, or a freed entry, was used
    logNow

logVars == <<pending, dests, logs, log_types, default_set, log_debugged, audit, max_count, misused, logNow>>
LogLists == (Facilities \union {"*"}) \X Severities
NoLogs == [l \in LogLists |-> {}]
NoDests == [d \in {} |-> 0]

\* log_parse_sevset, of one pattern; "<" takes the bound itself, "<=" the severity above it,
\* and the place behind the last is written as well.
log_parse_sevset(p) ==
    CASE p.op = "*"  -> Severities \ {0}
      [] p.op = "<"  -> {s \in Severities : 0 < s /\ s <= p.sev}
      [] p.op = "<=" -> {s \in Severities : 0 < s /\ s <= p.sev + 1}
      [] p.op = ">"  -> {s \in Severities : s > p.sev}
      [] p.op = ">=" -> {s \in Severities : s >= p.sev}
      [] OTHER -> {p.sev}

Count(d, ls) == Cardinality({l \in LogLists : d \in ls[l]})
Refs(d, ds) == IF d \in DOMAIN ds THEN ds[d] ELSE 0
PutAt(f, x, y) == [z \in DOMAIN f \union {x} |-> IF z = x THEN y ELSE f[z]]

LogInit ==
    /\ pending \in Configs
    /\ dests = NoDests /\ logs = NoLogs
    /\ log_types = {"*"} /\ default_set = {} /\ log_debugged = FALSE
    /\ audit = <<>> /\ max_count \in AuditLimits
    /\ misused = FALSE /\ logNow = 0

ConfigRead == pending = <<>>

-----------------------------------------------------------------------------
\* Mutant: every list is counted, the ones that had the destination already too.
JoinedAll(d, lists, ls) == lists

\* logList_join: the lists that take the destination, and count it.
Joined(d, lists, ls) == {l \in lists : d \notin ls[l]}

\* The lists, and the destinations with their counts, once d is joined to some lists.
Join(d, lists, ls, ds) ==
    [logs  |-> [l \in LogLists |-> IF l \in lists THEN ls[l] \union {d} ELSE ls[l]],
     dests |-> PutAt(ds, d, Refs(d, ds) + Cardinality(Joined(d, lists, ls)))]

\* log_debug: the first facility takes standard output for every severity.
Debugged(ls, ds) == Join("std", {"*"} \X Severities, ls, ds)

LogTo(to) == logs' = to.logs /\ dests' = to.dests

\* log_conf_read, one entry: logList_open holds every destination until logList_close, so
\* that one which no list takes is closed again.  After the last, log_debug.
ReadEntry ==
    LET e    == Head(pending)
        took == Join(e.dest, e.types \X log_parse_sevset(e.sevs), logs, dests)
    IN  /\ pending # <<>> /\ pending' = Tail(pending)
        /\ log_types' = log_types \union e.types
        /\ LogTo(IF Tail(pending) = <<>> /\ log_debugged THEN Debugged(took.logs, took.dests) ELSE took)
        /\ misused' = (misused \/ (e.dest \in DOMAIN dests /\ dests[e.dest] = 0))
        /\ UNCHANGED <<default_set, log_debugged, audit, max_count, logNow>>

log_debug ==
    /\ ConfigRead /\ log_debugged' = TRUE
    /\ LogTo(Debugged(logs, dests))
    /\ misused' = (misused \/ ("std" \in DOMAIN dests /\ dests["std"] = 0))
    /\ UNCHANGED <<pending, log_types, default_set, audit, max_count, logNow>>

\* log_conf_read at a rehash: close_logs, a new log_dests, then the entries (or log_debug at once).  The defaults
\* do not come back.
log_conf_read(conf, limit) ==
    /\ ConfigRead
    /\ pending' = conf /\ max_count' = limit
    /\ LogTo(IF log_debugged /\ conf = <<>> THEN Debugged(NoLogs, NoDests) ELSE [logs |-> NoLogs, dests |-> NoDests])
    /\ UNCHANGED <<log_types, default_set, log_debugged, audit, misused, logNow>>

\* log_register_type, from a module's start: severities without a list get the default.
log_register_type(t) ==
    LET d     == DefaultLog[t]
        empty == {l \in {t} \X (Severities \ {0}) : logs[l] = {}}
        sets  == t \notin default_set /\ empty # {}
    IN  /\ ConfigRead
        /\ log_types' = log_types \union {t}
        /\ default_set' = default_set \union {t}
        /\ IF sets THEN LogTo(Join(d, empty, logs, dests)) ELSE UNCHANGED <<logs, dests>>
        /\ misused' = (misused \/ (sets /\ d \in DOMAIN dests /\ dests[d] = 0))
        /\ UNCHANGED <<pending, log_debugged, audit, max_count, logNow>>

-----------------------------------------------------------------------------
\* log_audit: the entry is kept, then the oldest go, the new one too when none may be kept;
\* then it is sent to the destinations.
log_audit ==
    LET all  == Append(audit, logNow)
        over == IF Len(all) > max_count THEN Len(all) - max_count ELSE 0
        some == SubSeq(all, over + 1, Len(all))
        old  == Cardinality({i \in DOMAIN some : some[i] + max_age < logNow})
    IN  /\ ConfigRead
        /\ audit' = SubSeq(some, old + 1, Len(some))
        /\ misused' = (misused \/ max_count = 0)
        /\ UNCHANGED <<pending, dests, logs, log_types, default_set, log_debugged, max_count, logNow>>

LogTick ==
    /\ ConfigRead /\ logNow < MaxLogTime /\ logNow' = logNow + 1
    /\ UNCHANGED <<pending, dests, logs, log_types, default_set, log_debugged, audit, max_count, misused>>

LogNext ==
    \/ ReadEntry \/ log_debug \/ log_audit \/ LogTick
    \/ \E conf \in Configs, limit \in AuditLimits : log_conf_read(conf, limit)
    \/ \E t \in Facilities : log_register_type(t)

LogSpec == LogInit /\ [][LogNext]_logVars

-----------------------------------------------------------------------------
\* Every destination is counted once for each list that holds it, through any order of
\* rehashes and modules that start, so that none is closed while a list points to it
\* (logList_join, logList_close, log_register_type); and what is kept of audited commands
\* is bounded and in order (log_audit).
LogsCounted ==
    /\ \A d \in DOMAIN dests : dests[d] = Count(d, logs)
    /\ \A l \in LogLists : logs[l] \subseteq DOMAIN dests
    /\ \A i, j \in DOMAIN audit : i < j => audit[i] <= audit[j]
    /\ audit # <<>> => audit[Len(audit)] <= audit[1] + max_age
=============================================================================
