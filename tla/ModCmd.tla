------------------------------- MODULE ModCmd -------------------------------
(***************************************************************************)
(* Services, the commands bound to them and who may use them               *)
(* (src/src/modcmd.c).  A binding carries its own rules, taken from the    *)
(* defaults of its command when it is made; MODCMD changes the rules of a  *)
(* binding or the defaults.  Whoever changes something here goes through a *)
(* binding he may use.  Help files, the expansion of aliases, counters of  *)
(* use and replies are left out; a channel is its standing with ChanServ.  *)
(***************************************************************************)
EXTENDS Integers, FiniteSets

CONSTANTS
    Nicks, Bots,
    Commands,           \* the commands modules registered; "bind", "modcmd", "unbind", "service", "god" act here
    Base,               \* the flags in a command's struct modcmd
    DefFlags, DefOper,  \* the flags and the level it is registered with
    Names,              \* what a command may be bound as
    Imports,            \* def_binds: what every default service binds, name to command
    Aliases,            \* the aliases create_default_binds makes, name to command
    Flags, Levels, Accesses,    \* what MODCMD may be given
    Triggers,
    Users, AccountOf, Opers, Level, ChanAccess,
    MaxBinds            \* bound on how often a command is bound

VARIABLES
    bots,               \* bots that are online: bot to nick
    services,           \* nick to [bot, trigger, privileged, commands]
    defaults,           \* command to its default rules
    bindCount,          \* bind_count of each command
    chanmsg,            \* chanmsg_funcs: trigger to bot
    cmdAuthed, helping, \* users with an account; accounts with security override
    godTimers           \* users timeout_god is queued for

\* modcmd_register is given levels of struct svccmd, unsigned, and modules bind what they registered.
ASSUME LevelsNatural == \A c \in Commands : DefOper[c] \in Nat
ASSUME BindsRegistered ==
    /\ \A x \in DOMAIN Imports : Imports[x] \in Commands
    /\ \A x \in DOMAIN Aliases : Aliases[x] \in Commands

mcVars == <<bots, services, defaults, bindCount, chanmsg, cmdAuthed, helping, godTimers>>

Empty == [x \in {} |-> 0]
Put(f, x, y) == [z \in DOMAIN f \union {x} |-> IF z = x THEN y ELSE f[z]]
Drop(f, S) == [z \in DOMAIN f \ S |-> f[z]]
Larger(a, b) == IF a > b THEN a ELSE b
StaffFlags == {"oper", "networkhelper", "supporthelper"}

-----------------------------------------------------------------------------
\* modcmd_set_effective_flags, for command c with flags f and levels o and a.
Effective(c, f, o, a) ==
    LET set   == f \union Base[c]
                     \union (IF o > 0 THEN {"oper"} ELSE {})
                     \union (IF a > 0 THEN {"chanuser"} ELSE {})
        reg   == set \union (IF "chanuser" \in set THEN {"regchan"} ELSE {})
        chan  == reg \union (IF "regchan" \in reg THEN {"channel"} ELSE {})
    IN  chan \union (IF chan \intersect (StaffFlags \union {"helping"}) # {} THEN {"authed"} ELSE {})

\* struct svccmd, with its effective flags.
Rule(c, f, o, a) == [cmd |-> c, flags |-> f, oper |-> o, access |-> a, eff |-> Effective(c, f, o, a)]
SetEffective(r) == Rule(r.cmd, r.flags, r.oper, r.access)

\* svccmd_copy_rules, to a new struct svccmd of command c.
CopyRules(c, src) == Rule(c, src.flags, Larger(0, src.oper), Larger(0, src.access))

\* modcmd_register.
Registered(c) ==
    LET channel == Base[c] \intersect {"regchan", "channel", "chanuser", "joinable"} # {}
        staff   == Base[c] \intersect StaffFlags # {}
    IN  Rule(c, DefFlags[c] \union (IF channel THEN {"acceptchan"} ELSE {})
                            \union (IF staff THEN {"authed"} ELSE {}), DefOper[c], 0)

\* service_bind_modcmd and service_bind_module: what is bound already stays.
BindAll(commands, names, defs) ==
    [x \in DOMAIN commands \union DOMAIN names |->
        IF x \in DOMAIN commands THEN commands[x] ELSE CopyRules(names[x], defs[names[x]])]

\* service_make_alias: dict_insert replaces whatever is there.
MakeAliases(commands, defs) ==
    [x \in DOMAIN commands \union DOMAIN Aliases |->
        IF x \in DOMAIN Aliases THEN CopyRules(Aliases[x], defs[Aliases[x]]) ELSE commands[x]]

\* create_default_binds, for one service.
DefaultBinds(commands, defs) == MakeAliases(BindAll(commands, Imports, defs), defs)

\* How often svccmd_insert counts command c when DefaultBinds starts from commands.
CountedBinds(commands, c) ==
    Cardinality({x \in DOMAIN Imports \ DOMAIN commands : Imports[x] = c})
        + Cardinality({x \in DOMAIN Aliases : Aliases[x] = c})

\* modcmd_init and modcmd_finalize on a new network: one default service, two without commands
\* of their own can be added.
CmdInit ==
    LET b == CHOOSE x \in Bots : TRUE
        n == CHOOSE x \in Nicks : TRUE
        d == [c \in Commands |-> Registered(c)]
    IN  /\ bots = [x \in {b} |-> n]
        /\ services = [x \in {n} |-> [bot |-> b, trigger |-> "none", privileged |-> FALSE,
                                       commands |-> DefaultBinds(Empty, d)]]
        /\ defaults = d
        /\ bindCount = [c \in Commands |-> CountedBinds(Empty, c)]
        /\ chanmsg = Empty
        /\ cmdAuthed = {} /\ helping = {} /\ godTimers = {}

-----------------------------------------------------------------------------
IsHelping(u) == u \in cmdAuthed /\ AccountOf[u] \in helping

\* oper_has_access.
oper_has_access(u, level) == u \in cmdAuthed /\ u \in Opers /\ Level[u] >= level

\* svccmd_can_invoke by user u, with the channel's standing ch: none, open (not registered),
\* regd or suspended; security override opens channels.
svccmd_can_invoke(u, r, ch) ==
    /\ "disabled" \notin r.eff
    /\ "authed" \in r.eff => u \in cmdAuthed
    /\ "channel" \in r.eff => ch # "none"
    /\ "regchan" \in r.eff => ch = "regd" \/ (ch = "suspended" /\ IsHelping(u))
    /\ "chanuser" \in r.eff => IsHelping(u) \/ (u \in cmdAuthed /\ ChanAccess[u] >= Larger(1, r.access))
    /\ r.eff \intersect StaffFlags # {} => "oper" \in r.eff /\ u \in Opers
    /\ "helping" \in r.eff => IsHelping(u)
    /\ r.oper > 0 => oper_has_access(u, r.oper)

\* svccmd_invoke and svccmd_invoke_argv: user u reaches command c through some binding.
MayRun(u, c) ==
    \E n \in DOMAIN services : \E x \in DOMAIN services[n].commands :
        LET r == services[n].commands[x]
        IN  /\ services[n].privileged => u \in Opers /\ u \in cmdAuthed
            /\ r.cmd = c
            /\ \E ch \in {"none", "open", "regd", "suspended"} : svccmd_can_invoke(u, r, ch)

SomeoneRuns(c) == \E u \in Users : MayRun(u, c)

People == <<cmdAuthed, helping, godTimers>>

\* cmd_bind of one command, by its name in a module or as another binding of the service.
cmd_bind(n, x, c, from) ==
    LET cs   == services[n].commands
        src  == IF from \in DOMAIN cs THEN cs[from] ELSE defaults[c]
    IN  /\ SomeoneRuns("bind")
        /\ x \notin DOMAIN cs
        /\ from \in DOMAIN cs => cs[from].cmd = c
        /\ bindCount[c] < MaxBinds
        /\ services' = [services EXCEPT ![n].commands = Put(cs, x, CopyRules(c, src))]
        /\ bindCount' = [bindCount EXCEPT ![c] = @ + 1]
        /\ UNCHANGED <<bots, defaults, chanmsg, People>>

\* cmd_rebindall.
cmd_rebindall(n) ==
    LET cs == services[n].commands
    IN  /\ SomeoneRuns("bind")
        /\ \A c \in Commands : bindCount[c] + CountedBinds(cs, c) <= MaxBinds
        /\ services' = [services EXCEPT ![n].commands = DefaultBinds(cs, defaults)]
        /\ bindCount' = [c \in Commands |-> bindCount[c] + CountedBinds(cs, c)]
        /\ UNCHANGED <<bots, defaults, chanmsg, People>>

\* cmd_unbind: nothing takes the binding off the command's count again.
cmd_unbind(n, x) ==
    LET r == services[n].commands[x]
    IN  /\ SomeoneRuns("unbind")
        /\ ~("keepbound" \in Base[r.cmd] /\ bindCount[r.cmd] = 1)
        /\ services' = [services EXCEPT ![n].commands = Drop(@, {x})]
        /\ UNCHANGED <<bots, defaults, bindCount, chanmsg, People>>

-----------------------------------------------------------------------------
\* svccmd_configure: the rules r after one option, as user u may set it.
Configured(u, r) ==
    {[r EXCEPT !.flags = @ \union {f}] : f \in Flags}
        \union {[r EXCEPT !.flags = @ \ {f}] : f \in Flags}
        \union {[r EXCEPT !.access = a] : a \in Accesses}
        \union {[r EXCEPT !.oper = l] : l \in {k \in Levels : r.oper <= Level[u] /\ k <= Level[u]}}

\* Mutant: the new rules are not worked out again.
ConfiguredOnly(r) == r

\* cmd_modcmd, after svccmd_configure has changed something.
Reconfigured(r) ==
    SetEffective(r)

cmd_modcmd(n, x, u) ==
    /\ MayRun(u, "modcmd") /\ u \in cmdAuthed
    /\ \E r \in Configured(u, services[n].commands[x]) :
           services' = [services EXCEPT ![n].commands[x] = Reconfigured(r)]
    /\ UNCHANGED <<bots, defaults, bindCount, chanmsg, People>>

ModcmdDefaults(c, u) ==
    /\ MayRun(u, "modcmd") /\ u \in cmdAuthed
    /\ \E r \in Configured(u, defaults[c]) : defaults' = [defaults EXCEPT ![c] = Reconfigured(r)]
    /\ UNCHANGED <<bots, services, bindCount, chanmsg, People>>

-----------------------------------------------------------------------------
\* cmd_god: the timer is the user's, the override the account's.
cmd_god(u) ==
    /\ MayRun(u, "god") /\ u \in cmdAuthed
    /\ IF IsHelping(u)
       THEN helping' = helping \ {AccountOf[u]} /\ godTimers' = godTimers \ {u}
       ELSE helping' = helping \union {AccountOf[u]} /\ godTimers' = godTimers \union {u}
    /\ UNCHANGED <<bots, services, defaults, bindCount, chanmsg, cmdAuthed>>

timeout_god(u) ==
    /\ u \in godTimers
    /\ godTimers' = godTimers \ {u}
    /\ helping' = IF IsHelping(u) THEN helping \ {AccountOf[u]} ELSE helping
    /\ UNCHANGED <<bots, services, defaults, bindCount, chanmsg, cmdAuthed>>

\* set_user_handle_info, as far as the override goes.
LogIn(u) ==
    /\ u \notin cmdAuthed
    /\ cmdAuthed' = cmdAuthed \union {u}
    /\ helping' = IF Level[u] = 0 /\ \A v \in cmdAuthed : AccountOf[v] # AccountOf[u]
                  THEN helping \ {AccountOf[u]} ELSE helping
    /\ UNCHANGED <<bots, services, defaults, bindCount, chanmsg, godTimers>>

LogOut(u) ==
    /\ u \in cmdAuthed
    /\ cmdAuthed' = cmdAuthed \ {u}
    /\ helping' = IF Level[u] = 0 /\ \A v \in cmdAuthed \ {u} : AccountOf[v] # AccountOf[u]
                  THEN helping \ {AccountOf[u]} ELSE helping
    /\ UNCHANGED <<bots, services, defaults, bindCount, chanmsg, godTimers>>

-----------------------------------------------------------------------------
Rules == <<defaults, bindCount, People>>

\* cmd_service_add, service_register.
cmd_service_add(n, b) ==
    /\ SomeoneRuns("service")
    /\ b \notin DOMAIN bots /\ \A x \in DOMAIN bots : bots[x] # n
    /\ bots' = Put(bots, b, n)
    /\ services' = IF n \in DOMAIN services THEN services
                   ELSE Put(services, n, [bot |-> b, trigger |-> "none", privileged |-> FALSE, commands |-> Empty])
    /\ UNCHANGED <<chanmsg, Rules>>

\* Mutant: the service is put under its new nick and not taken from under the old one.
NickChangeKept(n, m) == Put(services, m, services[n])

\* modcmd_nick_change; a service that has the new nick is replaced.
modcmd_nick_change(n, m) ==
    Put(Drop(services, {n}), m, services[n])

\* cmd_service_rename.
cmd_service_rename(n, m) ==
    /\ SomeoneRuns("service")
    /\ m # n
    /\ bots' = [bots EXCEPT ![services[n].bot] = m]
    /\ services' = modcmd_nick_change(n, m)
    /\ UNCHANGED <<chanmsg, Rules>>

\* cmd_service_trigger: the old trigger is given up before the new one is looked at.
cmd_service_trigger(n, t) ==
    LET free == Drop(chanmsg, {services[n].trigger})
    IN  /\ SomeoneRuns("service")
        /\ IF t \in DOMAIN free THEN chanmsg' = free /\ services' = services
           ELSE /\ chanmsg' = IF t = "none" THEN free ELSE Put(free, t, services[n].bot)
                /\ services' = [services EXCEPT ![n].trigger = t]
        /\ UNCHANGED <<bots, Rules>>

cmd_service_privileged(n) ==
    /\ SomeoneRuns("service")
    /\ services' = [services EXCEPT ![n].privileged = ~@]
    /\ UNCHANGED <<bots, chanmsg, Rules>>

\* cmd_service_remove: the trigger stays with the bot that is gone.
cmd_service_remove(n) ==
    /\ SomeoneRuns("service")
    /\ bots' = Drop(bots, {services[n].bot})
    /\ services' = Drop(services, {n})
    /\ UNCHANGED <<chanmsg, Rules>>

-----------------------------------------------------------------------------
\* Mutant: saved flags are added to those of the defaults.
LoadFlagsAdded(r, base) == IF r.flags # defaults[r.cmd].flags THEN base.flags \union r.flags ELSE base.flags

\* modcmd_saxdb_write_command writes what differs from the defaults of the day,
\* modcmd_db_load_command puts it on top of the defaults as they are registered.
LoadFlags(r, base) ==
    IF r.flags # defaults[r.cmd].flags THEN r.flags ELSE base.flags

LoadCommand(r) ==
    LET base == CopyRules(r.cmd, Registered(r.cmd))
    IN  Rule(r.cmd, LoadFlags(r, base),
             IF r.oper # defaults[r.cmd].oper THEN r.oper ELSE base.oper,
             IF r.access # defaults[r.cmd].access THEN r.access ELSE base.access)

LoadCommands(cs) == [x \in DOMAIN cs |-> LoadCommand(cs[x])]

\* modcmd_saxdb_write, a new process, modcmd_saxdb_read, modcmd_finalize, modcmd_late_bind.
\* One nick is the default service's; of two services with one trigger either registers last.
CmdRestart(order) ==
    LET d     == [c \in Commands |-> Registered(c)]
        main  == CHOOSE x \in Nicks : TRUE
        binds(n) == IF n = main THEN DefaultBinds(LoadCommands(services[n].commands), d)
                    ELSE LoadCommands(services[n].commands)
        total(c) == Cardinality({p \in (DOMAIN services) \X Names :
                        p[2] \in DOMAIN services[p[1]].commands /\ services[p[1]].commands[p[2]].cmd = c})
                    + (IF main \in DOMAIN services THEN CountedBinds(services[main].commands, c) ELSE 0)
        owners(t) == {n \in DOMAIN services : services[n].trigger = t}
        used  == {t \in Triggers : owners(t) # {}}
    IN  /\ \A c \in Commands : total(c) <= MaxBinds
        /\ order \in [used -> DOMAIN services] /\ \A t \in used : order[t] \in owners(t)
        /\ services' = [n \in DOMAIN services |-> [services[n] EXCEPT !.commands = binds(n)]]
        /\ bots' = [b \in {services[n].bot : n \in DOMAIN services} |->
                        CHOOSE n \in DOMAIN services : services[n].bot = b]
        /\ defaults' = d
        /\ bindCount' = [c \in Commands |-> total(c)]
        /\ chanmsg' = [t \in used |-> services[order[t]].bot]
        /\ cmdAuthed' = {} /\ helping' = {} /\ godTimers' = {}

CmdNext ==
    \/ \E n \in DOMAIN services :
          \/ \E x \in Names, c \in Commands, from \in Names : cmd_bind(n, x, c, from)
          \/ cmd_rebindall(n)
          \/ \E x \in DOMAIN services[n].commands : cmd_unbind(n, x)
          \/ \E x \in DOMAIN services[n].commands, u \in Users : cmd_modcmd(n, x, u)
          \/ \E m \in Nicks : cmd_service_rename(n, m)
          \/ \E t \in Triggers \union {"none"} : cmd_service_trigger(n, t)
          \/ cmd_service_privileged(n)
          \/ cmd_service_remove(n)
    \/ \E c \in Commands, u \in Users : ModcmdDefaults(c, u)
    \/ \E n \in Nicks, b \in Bots : cmd_service_add(n, b)
    \/ \E u \in Users : cmd_god(u) \/ timeout_god(u) \/ LogIn(u) \/ LogOut(u)
    \/ \E order \in UNION {[T -> DOMAIN services] : T \in SUBSET Triggers} : CmdRestart(order)

CmdSpec == CmdInit /\ [][CmdNext]_mcVars

-----------------------------------------------------------------------------
\* Rules in force are complete: a command that needs access in a channel demands the
\* registered channel that svccmd_can_invoke looks into, one for staff or helpers the
\* account it reads, and a level once set is tested.
RulesClosed ==
    \A n \in DOMAIN services : \A x \in DOMAIN services[n].commands :
        LET r == services[n].commands[x]
        IN  /\ r.access > 0 => "chanuser" \in r.eff
            /\ "chanuser" \in r.eff => "regchan" \in r.eff
            /\ "regchan" \in r.eff => "channel" \in r.eff
            /\ r.eff \intersect (StaffFlags \union {"helping"}) # {} => "authed" \in r.eff

\* A service is listed under the nick its bot has, so that what is said to the bot is
\* answered by that service (modcmd_privmsg, modcmd_nick_change).
ServiceKeyed ==
    \A n \in DOMAIN services : services[n].bot \in DOMAIN bots /\ bots[services[n].bot] = n

\* A restart changes the rules of no binding, unless MODCMD had changed the defaults they
\* were saved against, or the binding is an alias that create_default_binds makes anew.
RulesStay ==
    services' # services =>
    \A order \in UNION {[T -> DOMAIN services] : T \in SUBSET Triggers} : CmdRestart(order) =>
        \A n \in DOMAIN services : \A x \in DOMAIN services[n].commands \ DOMAIN Aliases :
            LET r == services[n].commands[x]
            IN  defaults[r.cmd] = Registered(r.cmd) => services'[n].commands[x] = r

RulesSurvive == [][RulesStay]_mcVars

\* A rule that reads a channel's access or an account demands the channel and the account first,
\* and a service is found under the nick its bot has (svccmd_configure, modcmd_nick_change).
CommandsRuled == RulesClosed /\ ServiceKeyed
=============================================================================
