----------------------------- MODULE MCServices -----------------------------
(* The help queue and spam control.  They share nothing here but the event    *)
(* loop, so every behaviour explores one of them, named by "part", while the  *)
(* other variables keep their first values.  Module HelpServ itself has two   *)
(* clients and a helper that comes and goes, module SpamServ two channels     *)
(* that are registered, suspended, moved and merged while a client talks;     *)
(* their other parts are instances.                                           *)
EXTENDS HelpServ, SpamServ

VARIABLE part

MCvars == <<part, vars, hsVars, clock>>

-----------------------------------------------------------------------------
\* A client that changes nicks and accounts.
HsAccounts == INSTANCE HelpServ WITH
    HelpUsers <- {"u1"}, Nicks <- {"n1", "n2"}, Handles <- {"h1", "h2"}, Bots <- {"b1"},
    Helpers <- {"h2"}, Settings <- {"request"}, HelperLevels <- {2}, Lengths <- {"part", "close"},
    Wraps <- {0}, MaxId <- 2, MaxClock <- 1
\* One client and the bot's settings: the timers, a restart.
HsTimers == INSTANCE HelpServ WITH
    HelpUsers <- {"u1"}, Nicks <- {"n1"}, Handles <- {"h1"}, Bots <- {"b1"},
    Helpers <- {"h1"}, Settings <- {"onjoin", "emptyinterval", "restart", "idwrap"},
    HelperLevels <- {2}, Lengths <- {"part", "quit"}, Wraps <- {0, 3}, MaxId <- 2, MaxClock <- 1
\* One client, suspension and expiry.
HsStaff == INSTANCE HelpServ WITH
    HelpUsers <- {"u1"}, Nicks <- {"n1"}, Handles <- {"h1"}, Bots <- {"b1"},
    Helpers <- {"h1"}, Settings <- {"whineinterval", "suspend", "restart", "rank", "expire"},
    HelperLevels <- {1}, Lengths <- {"part", "quit"}, Wraps <- {0}, MaxId <- 1, MaxClock <- 2

\* One channel: floods, capitals, kills and what is remembered of them.
SsLines == INSTANCE SpamServ WITH
    Users <- {"u1"}, Ranked <- {}, Channels <- {"c1"}, Words <- {},
    Texts <- {{"caps"}}, Defaults <- {"flood", "caps"}, Scans <- {}, Levels <- {}, Durations <- {},
    Reactions <- {"d"}, Limits <- {}, FLOOD_MAX_LINES <- 3, FLOOD_EXPIRE <- 1, JOINFLOOD_MAX <- 1,
    JOINFLOOD_EXPIRE <- 1, WARN_EXPIRE <- 1, MAX_WARNLEVEL <- 3, KILL_WARNLEVEL <- 1, KILL_EXPIRE <- 1,
    WordMax <- 1, Trusts <- {}, AllowMoveMerge <- TRUE, StaffActs <- FALSE,
    OffChannels <- FALSE, Outside <- FALSE, MaxWarn <- 5, MaxTime <- 3
\* One channel: word lists, levels and trust.
SsWords == INSTANCE SpamServ WITH
    Users <- {"u1"}, Ranked <- {"u1"}, Channels <- {"c1"}, Words <- {"w"},
    Texts <- {{"w"}, {"adv"}}, Defaults <- {}, Scans <- {"bad"}, Levels <- {"all", "bad"}, Durations <- {},
    Reactions <- {}, Limits <- {2}, FLOOD_MAX_LINES <- 3, FLOOD_EXPIRE <- 1, JOINFLOOD_MAX <- 1,
    JOINFLOOD_EXPIRE <- 1, WARN_EXPIRE <- 1, MAX_WARNLEVEL <- 1, KILL_WARNLEVEL <- 1, KILL_EXPIRE <- 1,
    WordMax <- 1, Trusts <- {"u1"}, AllowMoveMerge <- TRUE, StaffActs <- FALSE,
    OffChannels <- FALSE, Outside <- FALSE, MaxWarn <- 2, MaxTime <- 2

\* Two channels that ChanServ may not idle in, and staff: suspensions that end in time.
SsOff == INSTANCE SpamServ WITH
    Users <- {"u1"}, Ranked <- {}, Channels <- {"c1", "c2"}, Words <- {},
    Texts <- {}, Defaults <- {"spam"}, Scans <- {}, Levels <- {}, Durations <- {1},
    Reactions <- {}, Limits <- {}, FLOOD_MAX_LINES <- 3, FLOOD_EXPIRE <- 1, JOINFLOOD_MAX <- 1,
    JOINFLOOD_EXPIRE <- 1, WARN_EXPIRE <- 1, MAX_WARNLEVEL <- 1, KILL_WARNLEVEL <- 1, KILL_EXPIRE <- 1,
    WordMax <- 1, Trusts <- {}, AllowMoveMerge <- TRUE, StaffActs <- TRUE,
    OffChannels <- TRUE, Outside <- FALSE, MaxWarn <- 0, MaxTime <- 3
\* The same with a client that talks there, and suspensions without end.
SsOffTalk == INSTANCE SpamServ WITH
    Users <- {"u1"}, Ranked <- {}, Channels <- {"c1", "c2"}, Words <- {},
    Texts <- {{"w"}}, Defaults <- {"spam"}, Scans <- {}, Levels <- {}, Durations <- {0},
    Reactions <- {}, Limits <- {}, FLOOD_MAX_LINES <- 3, FLOOD_EXPIRE <- 1, JOINFLOOD_MAX <- 1,
    JOINFLOOD_EXPIRE <- 1, WARN_EXPIRE <- 1, MAX_WARNLEVEL <- 1, KILL_WARNLEVEL <- 1, KILL_EXPIRE <- 1,
    WordMax <- 1, Trusts <- {}, AllowMoveMerge <- TRUE, StaffActs <- TRUE,
    OffChannels <- TRUE, Outside <- FALSE, MaxWarn <- 0, MaxTime <- 1

-----------------------------------------------------------------------------
MCInit ==
    /\ part \in {"accounts", "queue", "timers", "staff", "channels", "lines", "words", "off", "offtalk"}
    /\ CASE part = "accounts" -> HsAccounts!HelpInit
         [] part = "queue"    -> HelpInit
         [] part = "timers"   -> HsTimers!HelpInit
         [] OTHER             -> HsStaff!HelpInit
    /\ CASE part = "channels" -> Init
         [] part = "words"    -> SsWords!Init
         [] part = "off"      -> SsOff!Init
         [] part = "offtalk"  -> SsOffTalk!Init
         [] OTHER             -> SsLines!Init

NextHelp ==
    /\ \/ part = "accounts" /\ HsAccounts!HelpNext
       \/ part = "queue" /\ HelpNext
       \/ part = "timers" /\ HsTimers!HelpNext
       \/ part = "staff" /\ HsStaff!HelpNext
    /\ UNCHANGED <<part, vars>>

NextSpam ==
    /\ \/ part = "channels" /\ Next
       \/ part = "lines" /\ SsLines!Next
       \/ part = "words" /\ SsWords!Next
       \/ part = "off" /\ SsOff!Next
       \/ part = "offtalk" /\ SsOffTalk!Next
    /\ UNCHANGED <<part, hsVars, clock>>

MCNext == NextHelp \/ NextSpam

MCSpec == MCInit /\ [][MCNext]_MCvars
=============================================================================
