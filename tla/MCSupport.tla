------------------------------ MODULE MCSupport ------------------------------
(* The components around the core, each on its own.  A behaviour explores one  *)
(* instance of one component, named by "part"; every other variable keeps a     *)
(* first value.  First the services (command rules, memos, global messages,     *)
(* hosts, bots, groups, announcements, SASL), then what ChanServ and the        *)
(* protocol keep about channels, then the machinery below: the proxy scanner    *)
(* and the shun list, the connection to the network, databases and logs, mail,  *)
(* outside queries and the tools.                                               *)
(* The resolver with the DNS blacklist, the command rules, SASL, the lists of   *)
(* staff, virtual hosts, groups, bots, the shun list, the scanner, the rings of *)
(* a connection, the uplinks, mail, queries, logs and the files are the modules *)
(* themselves, so that their properties here are the formulas of their          *)
(* theorems; the other components are instances.                                *)
EXTENDS Integers, Sequences, FiniteSets, TLC, Sar, ModCmd, Sasl, Storage, StaffLists, HostServ, Shun, IoSet, Uplinks,
    Mail, Sockcheck, QServer, Groups, BotServ, Log

VARIABLE part

None == "none"
Nothing == [x \in {} |-> {}]

-----------------------------------------------------------------------------
(* Services                                                                    *)

VARIABLES handles, account, memos, inbox, history, memo_id, message_expiry, expiryTimers
VARIABLES messageList, messageTimers, messageCount, notices, max_clients_time, last_max_alert
VARIABLES posts, next_id, postsSaved

memoVars == <<handles, account, memos, inbox, history, memo_id, message_expiry, expiryTimers>>
globalVars == <<messageList, messageTimers, messageCount, notices, max_clients_time, last_max_alert>>
postVars == <<posts, next_id, postsSaved>>
serviceVars == <<mcVars, memoVars, globalVars, hostVars, botVars, groupVars, postVars, saslVars>>

-----------------------------------------------------------------------------
\* What modules register, and who may use it.  The module itself has MODCMD on itself and on
\* another command, for the rules that would lock everyone out.
CmdBase ==
    ("modcmd" :> {"keepbound"}) @@ ("bind" :> {"keepbound"}) @@ ("op" :> {"chanuser"})
        @@ [c \in {"service", "god", "unbind"} |-> {}]
CmdFlags == [c \in DOMAIN CmdBase |-> IF c = "god" THEN {"networkhelper", "oper"} ELSE {}]
CmdOper == [c \in DOMAIN CmdBase |-> CASE c = "modcmd" -> 800 [] c \in {"op", "god"} -> 0 [] OTHER -> 1]
RuleImports == [c \in {"modcmd", "op"} |-> c]
RuleAccount == "o1" :> "h1"
RuleLevel == "o1" :> 900
RuleAccess == "o1" :> 0
\* SERVICE ADD, RENAME and REMOVE, bots that change nick, the override GOD gives.
CmdServices == INSTANCE ModCmd WITH
    Nicks <- {"n1", "n2"}, Bots <- {"b1", "b2"}, Commands <- {"service", "god"},
    Names <- {"service", "god"}, Imports <- [c \in {"service"} |-> c], Aliases <- ("god" :> "god"),
    Flags <- {}, Levels <- {}, Accesses <- {}, Triggers <- {"!"},
    Users <- {"o1"}, AccountOf <- ("o1" :> "h1"), Opers <- {"o1"},
    Level <- ("o1" :> 1), ChanAccess <- ("o1" :> 0), MaxBinds <- 2
\* BIND and UNBIND by an oper, and a user of a channel.
CmdBinds == INSTANCE ModCmd WITH
    Nicks <- {"n1"}, Bots <- {"b1"}, Commands <- {"bind", "unbind", "op"},
    Names <- {"op", "bind", "unbind"}, Imports <- [c \in {"bind", "unbind"} |-> c], Aliases <- ("op" :> "op"),
    Flags <- {}, Levels <- {}, Accesses <- {}, Triggers <- {},
    Users <- {"o1", "u1"}, AccountOf <- ("o1" :> "h1") @@ ("u1" :> "h1"), Opers <- {"o1"},
    Level <- ("o1" :> 1) @@ ("u1" :> 0), ChanAccess <- ("o1" :> 0) @@ ("u1" :> 1), MaxBinds <- 2

\* Two accounts that write to each other and to themselves, and are renamed or unregistered.
Memos == INSTANCE MemoServ WITH
    Names <- {"h1", "h2"}, Limits <- {}, Settable <- {}, Letters <- 2, Acquainted <- {},
    Ignoring <- {<<"h1", "h1">>, <<"h2", "h2">>, <<"h1", "h2">>}, conf_limit <- 1, Expiries <- {0}, MaxId <- 3, MaxTime <- 0
\* The settings of one account.
MemoSettings == INSTANCE MemoServ WITH
    Names <- {"h1"}, Limits <- {0}, Settable <- {"DENY_NONCHANNEL", "ALWAYS_RECIEPTS", "IGNORE_RECIEPTS"},
    Letters <- 2, Acquainted <- {}, Ignoring <- {}, conf_limit <- 1, Expiries <- {0}, MaxId <- 2, MaxTime <- 0
\* Memos that expire, and a rehash that changes when.
MemoExpiry == INSTANCE MemoServ WITH
    Names <- {"h1"}, Limits <- {}, Settable <- {}, Letters <- 2, Acquainted <- {}, Ignoring <- {},
    conf_limit <- 1, Expiries <- {0, 1}, MaxId <- 2, MaxTime <- 2

\* An oper and a user who wants announcements; messages for ever and for two ticks.
Globals == INSTANCE GlobalServ WITH
    timers <- messageTimers, Users <- {"u1", "u2"}, Opers <- {"u1"}, Helpers <- {"u1", "u2"}, Authed <- {"u1"},
    Declining <- {}, Wanting <- {"u2"}, AlertPeriod <- 1, announcements_default <- TRUE, Channels <- {"c1"},
    RChannels <- {}, Targets <- {{"LUSERS"}, {"OPERS", "HELPERS"}}, Durations <- {0, 2}, MaxCount <- 2, MaxTime <- 2

\* HostServ itself: one user, two account names and two hosts.  Then two users, the same names and
\* hosts, one of them on offer, and no approval needed.
HostsAtOnce == INSTANCE HostServ WITH
    HostUsers <- {"u1", "u2"}, Offers <- {"v1"}, require_approval <- FALSE

\* BotServ itself: two bots in two channels, none renamed.  Then one bot that BOT CHANGE renames.
RenamedBots == INSTANCE BotServ WITH
    BotNicks <- {"b1"}, BotChannels <- {"c1"}, BotOptions <- {}, UnsavedOptions <- {}, MAX_BOTS <- 1, BotRenames <- {"b2"}

\* A table of three announcements and four numbers.
Posts == INSTANCE InfoServ WITH saved <- postsSaved, MAX_POSTS <- 3, MaxId <- 4

\* Sasl itself: logins, an account with a fingerprint and one that may impersonate.
LoginFps == ("h1" :> {"f1"}) @@ ("h2" :> {})
\* Sessions that are left alone, two at a time.
SaslStale == INSTANCE Sasl WITH
    Uids <- {"c1", "c2"}, Accounts <- {}, Fps <- {}, FpsOf <- Nothing, Roams <- {}, Near <- {}, Impersonates <- {},
    maxlogins <- 1, Period <- 2, MaxFragments <- 1, MaxTimers <- 2, MaxRegistrations <- 2, MaxSaslTime <- 4

-----------------------------------------------------------------------------
ServiceParts == {"rules", "services", "binds", "memos", "memo settings", "memo expiry", "globals", "hosts", "hosts at once",
                 "bots", "renamed bots", "groups", "posts", "logins", "stale sessions"}

ServiceInit ==
    /\ CASE part = "services" -> CmdServices!CmdInit [] part = "binds" -> CmdBinds!CmdInit [] OTHER -> CmdInit
    /\ CASE part = "memo settings" -> MemoSettings!Init [] part = "memo expiry" -> MemoExpiry!Init [] OTHER -> Memos!Init
    /\ part \notin {"memos", "memo settings", "memo expiry"} => handles = {"h1", "h2"}
    /\ Globals!Init
    /\ IF part = "hosts at once" THEN HostsAtOnce!HostInit ELSE HostInit
    /\ IF part = "renamed bots" THEN RenamedBots!BotInit ELSE BotInit
    /\ part \notin {"bots", "renamed bots"} => botChannels = NoEntries
    /\ GroupInit
    /\ Posts!Init
    /\ IF part = "stale sessions" THEN SaslStale!SaslInit ELSE SaslInit

NextCommands ==
    /\ \/ part = "rules" /\ CmdNext
       \/ part = "services" /\ CmdServices!CmdNext
       \/ part = "binds" /\ CmdBinds!CmdNext
    /\ UNCHANGED <<now, memoVars, globalVars, hostVars, botVars, groupVars, postVars, saslVars>>

NextMemos ==
    /\ \/ part = "memos" /\ Memos!Next
       \/ part = "memo settings" /\ MemoSettings!Next
       \/ part = "memo expiry" /\ MemoExpiry!Next
    /\ UNCHANGED <<mcVars, globalVars, hostVars, botVars, groupVars, postVars, saslVars>>

NextGlobals ==
    /\ part = "globals" /\ Globals!Next
    /\ UNCHANGED <<mcVars, memoVars, hostVars, botVars, groupVars, postVars, saslVars>>

NextHosts ==
    /\ \/ part = "hosts" /\ HostNext
       \/ part = "hosts at once" /\ HostsAtOnce!HostNext
    /\ UNCHANGED <<now, mcVars, memoVars, globalVars, botVars, groupVars, postVars, saslVars>>

NextBots ==
    /\ \/ part = "bots" /\ BotNext
       \/ part = "renamed bots" /\ RenamedBots!BotNext
    /\ UNCHANGED <<now, mcVars, memoVars, globalVars, hostVars, groupVars, postVars, saslVars>>

NextGroups ==
    /\ part = "groups" /\ GroupNext
    /\ UNCHANGED <<now, mcVars, memoVars, globalVars, hostVars, botVars, postVars, saslVars>>

NextPosts ==
    /\ part = "posts" /\ Posts!Next
    /\ UNCHANGED <<now, mcVars, memoVars, globalVars, hostVars, botVars, groupVars, saslVars>>

NextSasl ==
    /\ \/ part = "logins" /\ SaslNext
       \/ part = "stale sessions" /\ SaslStale!SaslNext
    /\ UNCHANGED <<now, mcVars, memoVars, globalVars, hostVars, botVars, groupVars, postVars>>

ServiceNext == NextCommands \/ NextMemos \/ NextGlobals \/ NextHosts \/ NextBots \/ NextGroups \/ NextPosts \/ NextSasl

-----------------------------------------------------------------------------
(* Channels                                                                    *)

VARIABLES banRegistered, banSuspended, bans, banTimers, made, banlist, banMembers, moded, kicked, banAuthed, banNick, banNow
VARIABLES registered, suspended, automode, level, lock, modes, limit, dynlimit, offchannel, may_opchan,
          topic, default, topic_mask, members, authed, access, limitTimers, fresh
VARIABLES lineClear, lineSet, lineArgs, lineChannel
VARIABLES userModes, words, curr_opers, count_opers, invis_clients

banVars == <<banRegistered, banSuspended, bans, banTimers, made, banlist, banMembers, moded, kicked, banAuthed, banNick, banNow>>
modeVars == <<registered, suspended, automode, level, lock, modes, limit, dynlimit, offchannel, may_opchan,
              topic, default, topic_mask, members, authed, access, limitTimers, fresh>>
lineVars == <<lineClear, lineSet, lineArgs, lineChannel>>
umodeVars == <<userModes, words, curr_opers, count_opers, invis_clients>>
channelVars == <<banVars, modeVars, lineVars, umodeVars, staffVars>>

-----------------------------------------------------------------------------
\* A wide ban and a narrow one, with and without an end, for one user.
Bans == INSTANCE ChanBans WITH
    registered <- banRegistered, suspended <- banSuspended, timers <- banTimers, members <- banMembers,
    authed <- banAuthed, nick <- banNick, now <- banNow,
    Channels <- {"c1"}, Users <- {"u1"}, Officers <- {"o1"}, Nicks <- {"n1"},
    Host <- ("u1" :> "h1"), Account <- ("u1" :> "a1"), Access <- ("c1" :> (("u1" :> 0) @@ ("o1" :> 300))),
    Protect <- ("c1" :> "a"), Reaction <- ("c1" :> "t"), Exempts <- ("c1" :> {}),
    Masks <- {[nicks |-> {"n1"}, hosts |-> {"h1", "a1"}]}, Merges <- {}, inviteme <- 200, manager <- 300,
    Durations <- {1}, MAXBANS <- 1, max_chan_bans <- 2, bantimeout <- 1, MaxBans <- 2, MaxTime <- 1
\* MERGE of one channel into another.
MergedBans == INSTANCE ChanBans WITH
    registered <- banRegistered, suspended <- banSuspended, timers <- banTimers, members <- banMembers,
    authed <- banAuthed, nick <- banNick, now <- banNow,
    Channels <- {"c1", "c2"}, Users <- {"u1"}, Officers <- {}, Nicks <- {"n1"},
    Host <- ("u1" :> "h1"), Account <- ("u1" :> "a1"), Access <- [c \in {"c1", "c2"} |-> ("u1" :> 300)],
    Protect <- [c \in {"c1", "c2"} |-> "l"], Reaction <- [c \in {"c1", "c2"} |-> "k"], Exempts <- [c \in {"c1", "c2"} |-> {}],
    Masks <- {}, Merges <- {<<"c1", "c2">>}, inviteme <- 301, manager <- 300,
    Durations <- {1}, MAXBANS <- 1, max_chan_bans <- 2, bantimeout <- 0, MaxBans <- 1, MaxTime <- 1

\* Every automatic mode against every access.
Automode == INSTANCE ChanModes WITH
    Users <- {"u1"}, Officers <- {"o1"}, Accesses <- {0, 1, 150, 200, 400, 500}, UserSuspended <- {}, NoAutoOp <- {},
    Automodes <- {"y", "n", "v", "m", "l", "h"}, Protect <- "a", Settable <- {}, MemberModes <- {"o", "h", "v"},
    Levels <- {}, Flags <- {}, Limits <- {}, Topics <- {}, TopicMasks <- {}, Fits <- Nothing, Conform <- Nothing,
    adjust_threshold <- 1, adjust_delay <- 1, Word <- 64, MaxTime <- 0
\* The limit that follows the number of members, and its timer.
DynLimit == INSTANCE ChanModes WITH
    Users <- {"u1"}, Officers <- {"o1"}, Accesses <- {0, 200}, UserSuspended <- {}, NoAutoOp <- {},
    Automodes <- {}, Protect <- "a", Settable <- {"dynlimit", "offchannel"}, MemberModes <- {},
    Levels <- {}, Flags <- {}, Limits <- {2}, Topics <- {}, TopicMasks <- {}, Fits <- Nothing, Conform <- Nothing,
    adjust_threshold <- 1, adjust_delay <- 1, Word <- 64, MaxTime <- 1
\* Topics that are enforced, snarfed and made to fit a mask.
Topic == INSTANCE ChanModes WITH
    Users <- {"u1"}, Officers <- {"o1"}, Accesses <- {0, 300}, UserSuspended <- {}, NoAutoOp <- {},
    Automodes <- {}, Protect <- "a", Settable <- {"enftopic", "topicsnarf"}, MemberModes <- {},
    Levels <- {500}, Flags <- {}, Limits <- {}, Topics <- {"", "t", "long"}, TopicMasks <- {"x"},
    Fits <- ("x" :> {"xt"}), Conform <- ("x" :> (("t" :> "xt") @@ ("xt" :> "xxt") @@ ("" :> "x") @@ ("long" :> ""))),
    adjust_threshold <- 1, adjust_delay <- 1, Word <- 64, MaxTime <- 0

\* Three arguments are one more than a line has room for beside a sign and a letter.
Ban == [letter |-> "b", arg |-> "x"]
Lines == INSTANCE ModeLines WITH
    clear <- lineClear, set <- lineSet, args <- lineArgs, channel <- lineChannel,
    Args <- {Ban, [letter |-> "o", arg |-> "u"]}, MAXMODEPARAMS <- 3, MaxArgs <- 3,
    Channels <- {[modes |-> {"k", "i"}, key |-> "key", limit |-> "0", redirect |-> "", list |-> {Ban}],
                 [modes |-> {}, key |-> "", limit |-> "0", redirect |-> "", list |-> {}]}

\* One or two of "o", "i" and "H" in a line, and letters that take words.
Signed == [add : BOOLEAN, letter : {"o", "i", "H"}]
Line(letters, ws) == [letters |-> letters, words |-> ws]
UserLines ==
    {Line(l, <<>>) : l \in {<<>>} \union {<<a>> : a \in Signed} \union {<<a, b>> : a, b \in Signed}}
    \union {Line(<<[add |-> TRUE, letter |-> "h"], [add |-> TRUE, letter |-> "r"]>>, ws) : ws \in {<<"x">>, <<"x", "y">>}}
    \union {Line(<<[add |-> FALSE, letter |-> "h"]>>, <<"y">>)}
OperList == INSTANCE UserModes WITH modes <- userModes, Users <- {"a", "b"}, Changes <- UserLines

\* StaffLists itself: a name, a name behind it and a mask over both.
CoversNames == "#*" :> {"#a", "##a"}
BehindNames == ("#a" :> "a") @@ ("##a" :> "#a") @@ ("#*" :> "*")
\* Two accounts, of which one may take the other's name.
ForbiddenAccounts == INSTANCE StaffLists WITH
    PlainNames <- {}, DnrMasks <- {}, AccountNames <- {"h", "i"}, DnrCovers <- Nothing, Behind <- Nothing
\* One type of note in two channels.
ChannelNotes == INSTANCE StaffLists WITH
    PlainNames <- {}, DnrMasks <- {}, AccountNames <- {}, DnrCovers <- Nothing, Behind <- Nothing,
    DnrDurations <- {}, dnr_expire_frequency <- 0, Garbage <- {}, MaxListTime <- 0,
    Types <- {"t"}, NoteChannels <- {"c", "d"}, Lengths <- {1, 2}, NoteTexts <- {2, 3}, NoteLevels <- {0, 1}

-----------------------------------------------------------------------------
ChannelParts == {"bans", "merged bans", "automode", "dynlimit", "topic", "mode lines", "user modes", "dnrs", "account dnrs", "notes"}

ChannelInit ==
    /\ IF part = "merged bans" THEN MergedBans!Init ELSE Bans!Init
    /\ CASE part = "dynlimit" -> DynLimit!Init [] part = "topic" -> Topic!Init [] OTHER -> Automode!Init
    /\ Lines!Init /\ (part # "mode lines" => lineChannel.modes = {})
    /\ OperList!Init
    /\ CASE part = "account dnrs" -> ForbiddenAccounts!StaffInit [] part = "notes" -> ChannelNotes!StaffInit [] OTHER -> StaffInit

NextBans ==
    /\ \/ part = "bans" /\ Bans!Next
       \/ part = "merged bans" /\ MergedBans!Next
    /\ UNCHANGED <<now, modeVars, lineVars, umodeVars, staffVars>>

NextModes ==
    /\ \/ part = "automode" /\ Automode!Next
       \/ part = "dynlimit" /\ DynLimit!Next
       \/ part = "topic" /\ Topic!Next
    /\ UNCHANGED <<banVars, lineVars, umodeVars, staffVars>>

NextLines ==
    /\ part = "mode lines" /\ Lines!Next
    /\ UNCHANGED <<now, banVars, modeVars, umodeVars, staffVars>>

NextUserModes ==
    /\ part = "user modes" /\ OperList!Next
    /\ UNCHANGED <<now, banVars, modeVars, lineVars, staffVars>>

NextLists ==
    /\ \/ part = "dnrs" /\ StaffNext
       \/ part = "account dnrs" /\ ForbiddenAccounts!StaffNext
       \/ part = "notes" /\ ChannelNotes!StaffNext
    /\ UNCHANGED <<now, banVars, modeVars, lineVars, umodeVars>>

ChannelNext == NextBans \/ NextModes \/ NextLines \/ NextUserModes \/ NextLists

-----------------------------------------------------------------------------
\* A ban that ends has its timer, a timer has its ban, and no ban stands beside one that covers it
\* (add_channel_ban, expire_ban); what a join gives is what a resync leaves, and at most one change of
\* the limit is queued (handle_join, adjust_limit); the lines that tell of a change make the other
\* servers agree with the services (mod_chanmode_announce); and the list of opers is who has the mode
\* (mod_usermode).
ChannelsKept ==
    /\ part = "bans" => Bans!BansTimed
    /\ part = "automode" => Automode!ModesInSync
    /\ part = "dynlimit" => DynLimit!ModesInSync
    /\ part = "topic" => Topic!ModesInSync
    /\ part = "mode lines" => Lines!LinesSayTheChange
    /\ part = "user modes" => OperList!OpersCounted

-----------------------------------------------------------------------------
(* The machinery below the services                                            *)

VARIABLES recOut, recOpen, recDone
VARIABLES function, globMask, globText, maskAt, textAt, maskBack, textBack, wild, result
VARIABLES addr
VARIABLES tree, root, first, last, count, links, contents

recVars == <<recOut, recOpen, recDone>>
toolVars == <<function, globMask, globText, maskAt, textAt, maskBack, textBack, wild, result, addr,
              tree, root, first, last, count, links, contents>>
runtimeVars == <<sarVars, scanVars, shunVars, ioVars, uplinkVars, fileVars, recVars, logVars, mailVars, queryVars, toolVars>>

-----------------------------------------------------------------------------
ScanTests == <<"t1">>
\* Sockcheck itself: two addresses and two slots; then two tests of one address, with and without a
\* timeout.
ScannerTests == INSTANCE Sockcheck WITH
    ScanAddresses <- {"a1"}, Tests <- <<"t1", "t2">>, NewTests <- {"t3"}, reps <- 2, Allocated <- 1, Timeouts <- {0, 1}

\* Shun itself: two masks, one under the other, and two times.
ShunsUnder == {<<"a", "b">>}

\* Rings of three bytes that grow to six.  IoSet itself: bytes going out; then lines coming in, and
\* bytes going out over TLS.
RingIn == INSTANCE IoSet WITH Size <- 3, MaxSize <- 6, Scratch <- 4, MaxLine <- 2, Tls <- FALSE, MaxIn <- 7, MaxOut <- 0
RingTls == INSTANCE IoSet WITH Size <- 3, MaxSize <- 6, Scratch <- 4, MaxLine <- 2, Tls <- TRUE, MaxIn <- 0, MaxOut <- 8

\* Uplinks itself: three, each tried once in a cycle.
UplinkOrder == <<"a", "b", "c">>

\* Names and values with what has to be escaped, two records deep.
Records == INSTANCE Recdb WITH
    out <- recOut, open <- recOpen, done <- recDone,
    Strings <- {<<"\"", "n">>, <<"\\", "\n">>}, MaxEntries <- 2, MaxDepth <- 2

\* Log itself: two facilities and five configurations of their logs.
LogEntry(types, op, sev, dest) == [types |-> types, sevs |-> [op |-> op, sev |-> sev], dest |-> dest]
LogConfigs ==
    {<<>>, <<LogEntry({"*"}, "*", 0, "irc")>>,
     <<LogEntry({"a", "b"}, "<=", 1, "file"), LogEntry({"a"}, "=", 1, "file")>>,
     <<LogEntry({"b"}, ">", 2, "file"), LogEntry({"b"}, ">=", 1, "irc")>>,
     <<LogEntry({"a"}, ">", 2, "irc"), LogEntry({"a", "*"}, "<", 1, "irc")>>}
LogDefaults == [t \in {"a", "b"} |-> "file"]

\* Mail itself: three mails; an address and a mask over everything.
EveryMatch == {"a", "*"} \X {"*"}

\* Every mask and text of three characters.
Glob == INSTANCE Globs WITH
    old <- globMask, new <- globText, m <- maskAt, n <- textAt, ma <- maskBack, na <- textBack,
    Letters <- {"a", "b"}, Specials <- {"*", "?"}, MaxMask <- 3, MaxText <- 3

\* Addresses of groups of no bits, of one bit in each byte or so, and of all bits.
Addrs == INSTANCE Addresses WITH Groups <- {0, 258, 65535}

\* A dictionary of up to five names.
Dict == INSTANCE SplayDict WITH MaxKey <- 5

-----------------------------------------------------------------------------
RuntimeParts == {"resolver", "scanner", "scanner tests", "shuns", "ring in", "ring out", "ring tls", "uplinks", "files", "records", "logs",
                 "mail", "queries", "globs", "addresses", "dict"}

RuntimeInit ==
    /\ Init
    /\ IF part = "scanner tests" THEN ScannerTests!ScanInit ELSE ScanInit
    /\ ShunInit /\ (part # "shuns" => shunNow = 0)
    /\ IoInit
    /\ UplinkInit /\ (part # "uplinks" => enabled = {"a"})
    /\ StorageInit /\ (part # "files" => key = "none")
    /\ Records!Init
    /\ LogInit /\ (part # "logs" => pending = <<>> /\ max_count = 0)
    /\ MailInit
    /\ QueryInit /\ (part # "queries" => password = "NULL")
    /\ Addrs!Init
    /\ Dict!Init
    /\ IF part = "globs" THEN Glob!Init ELSE Glob!Start("mmatch", <<>>, <<>>)

NextResolver ==
    /\ part = "resolver" /\ Next
    /\ UNCHANGED <<scanVars, shunVars, ioVars, uplinkVars, fileVars, recVars, logVars, mailVars, queryVars, toolVars>>

NextScanner ==
    /\ \/ part = "scanner" /\ ScanNext
       \/ part = "scanner tests" /\ ScannerTests!ScanNext
    /\ UNCHANGED <<now, sarVars, shunVars, ioVars, uplinkVars, fileVars, recVars, logVars, mailVars, queryVars, toolVars>>

NextShuns ==
    /\ part = "shuns" /\ ShunNext
    /\ UNCHANGED <<now, sarVars, scanVars, ioVars, uplinkVars, fileVars, recVars, logVars, mailVars, queryVars, toolVars>>

NextIo ==
    /\ \/ part = "ring in" /\ RingIn!IoNext
       \/ part = "ring out" /\ IoNext
       \/ part = "ring tls" /\ RingTls!IoNext
    /\ UNCHANGED <<now, sarVars, scanVars, shunVars, uplinkVars, fileVars, recVars, logVars, mailVars, queryVars, toolVars>>

NextUplinks ==
    /\ part = "uplinks" /\ UplinkNext
    /\ UNCHANGED <<now, sarVars, scanVars, shunVars, ioVars, fileVars, recVars, logVars, mailVars, queryVars, toolVars>>

NextFiles ==
    /\ part = "files" /\ StorageNext
    /\ UNCHANGED <<now, sarVars, scanVars, shunVars, ioVars, uplinkVars, recVars, logVars, mailVars, queryVars, toolVars>>

NextRecords ==
    /\ part = "records" /\ Records!Next
    /\ UNCHANGED <<now, sarVars, scanVars, shunVars, ioVars, uplinkVars, fileVars, logVars, mailVars, queryVars, toolVars>>

NextLogs ==
    /\ part = "logs" /\ LogNext
    /\ UNCHANGED <<now, sarVars, scanVars, shunVars, ioVars, uplinkVars, fileVars, recVars, mailVars, queryVars, toolVars>>

NextMail ==
    /\ part = "mail" /\ MailNext
    /\ UNCHANGED <<now, sarVars, scanVars, shunVars, ioVars, uplinkVars, fileVars, recVars, logVars, queryVars, toolVars>>

NextQueries ==
    /\ part = "queries" /\ QueryNext
    /\ UNCHANGED <<now, sarVars, scanVars, shunVars, ioVars, uplinkVars, fileVars, recVars, logVars, mailVars, toolVars>>

NextTools ==
    /\ \/ part = "globs" /\ Glob!Next /\ UNCHANGED <<addr, tree, root, first, last, count, links, contents>>
       \/ /\ part = "addresses" /\ Addrs!Next
          /\ UNCHANGED <<function, globMask, globText, maskAt, textAt, maskBack, textBack, wild, result>>
          /\ UNCHANGED <<tree, root, first, last, count, links, contents>>
       \/ /\ part = "dict" /\ Dict!Next
          /\ UNCHANGED <<function, globMask, globText, maskAt, textAt, maskBack, textBack, wild, result, addr>>
    /\ UNCHANGED <<now, sarVars, scanVars, shunVars, ioVars, uplinkVars, fileVars, recVars, logVars, mailVars, queryVars>>

RuntimeNext ==
    \/ NextResolver \/ NextScanner \/ NextShuns \/ NextIo \/ NextUplinks \/ NextFiles
    \/ NextRecords \/ NextLogs \/ NextMail \/ NextQueries \/ NextTools

-----------------------------------------------------------------------------
\* What a module keeps or runs belongs to somebody and is there once: a memo stands once, in its
\* recipient's inbox, while both accounts live (delete_memo_account); a global message that ends has
\* its timer and reaches nobody twice (message_del, global_message_args); a host that is shown without
\* approval was given to an account (cmd_request); a channel's bot is online (cmd_bot_del), a group's
\* founder holds its founder's flag (cmd_gkick), and an announcement's number is its own
\* (infoserv_saxdb_read); checks with several tests are timed as others are (ChecksTimed);
\* the answer to a query goes to its connection (qserver_destroy_fd); and
\* what ChanServ and the protocol keep about channels stands (ChannelsKept).
ServicesHeld ==
    /\ ChannelsKept
    /\ part \in {"memos", "memo settings", "memo expiry"} => Memos!MemosHeld
    /\ part = "globals" => Globals!MessagesTimed /\ Globals!OnceEach
    /\ part = "hosts at once" => HostsAtOnce!ShownApproved
    /\ part = "bots" => ChannelBotLive /\ CountExact
    /\ part = "groups" => FounderHolds
    /\ part = "posts" => Posts!NumbersDistinct
    /\ part = "scanner tests" => ScannerTests!ChecksTimed
    /\ part = "queries" => AnswersGoHome

\* No log is closed under a list that points to it (logList_join); the matchers answer as the patterns
\* mean and stay inside them (match_ircglob, mmatch); every text of an address is read as that address
\* (irc_pton, irc_p10_pton); the splay tree is a dictionary (dict_remove2); and what was written to a
\* database is what is read (saxdb_put_qstring, parse_qstring).
ToolsRight ==
    /\ part = "logs" => LogsCounted
    /\ part = "globs" => Glob!AnswersRight /\ Glob!InBounds
    /\ part = "addresses" => Addrs!TextsRead
    /\ part = "dict" => Dict!DictSound
    /\ part = "records" => Records!ReadsBack

-----------------------------------------------------------------------------
MCvars == <<part, now, serviceVars, channelVars, runtimeVars>>

MCInit ==
    /\ part \in ServiceParts \union ChannelParts \union RuntimeParts
    /\ ServiceInit /\ ChannelInit /\ RuntimeInit

MCNext ==
    /\ \/ ServiceNext /\ UNCHANGED <<channelVars, runtimeVars>>
       \/ ChannelNext /\ UNCHANGED <<serviceVars, runtimeVars>>
       \/ RuntimeNext /\ UNCHANGED <<serviceVars, channelVars>>
    /\ UNCHANGED part

MCSpec == MCInit /\ [][MCNext]_MCvars
=============================================================================
