# Synaxis in TLA+

Synaxis is a services package for IRC networks of the P10 family, in C: one
process that links to the network as a server and keeps accounts, channels,
network bans, trusted hosts, memos and help requests for it. It is single
threaded. `ioset_run` (`src/src/ioset.c`) waits for input, dispatches what the
network sent, runs the timers that are due (`timeq_run`) and saves the
databases. What makes the code hard is not locking but memory and time: every
component keeps several indexes of the same facts, hangs timers on raw
pointers, and is changed by commands, network messages, timers, merges and
restarts that nobody orders.

So a command, a network message, a timer callback or a hook is one step of a
model, with everything it calls; the interleaving is the order of such steps.
Where a function returns to the event loop in the middle of a job (a DNS query,
a proxy check, a save that can be cut off by a crash, a mail, a connection), the
job is several steps.

## Inventory

| Component | State | Operations | Hard part | What makes it correct |
|---|---|---|---|---|
| G-lines (`gline.c`), shuns (`shun.c`) | entries by target and by expiry, one timer | add or extend, remove, expire, search and remove, save, load | three ways to re-arm one timer; clock steps; restart | an expired entry goes; a set entry never ends early |
| Event loop, timers, connections (`ioset.c`, `ioset-*.c`, `timeq.c`) | clock, fds with ring buffers, timer heap | poll, dispatch, run timers, read lines, write | interrupted polls skip the timers; the clock moves both ways; rings wrap, grow and are half sent | every due timer runs; a ring is a queue |
| Uplinks (`main-common.c`, `proto-common.c`) | list of uplinks, the current one, the socket, pings | choose, connect, fail, jump, rehash, ping | the list is searched from where it stopped, uplinks are disabled meanwhile | the program gives up only when everything was tried |
| Binary heap (`heap.c`), dictionary (`dict-splay.c`) | array of key/data; splay tree threaded by a list | insert, pop, remove where a predicate holds; find, insert, remove | removal moves entries under the scan; tree, list and count are mended apart | heap order; nothing lost; a finite map |
| Patterns and addresses (`tools.c`, `proto-p10.c`) | none | match, cover, parse, print | pointers walk two strings and go back; runs of zeros | the answer is what the pattern means; a text leads back to its address |
| Accounts (`nickserv.c`) | accounts, cookies, nicks, logins, permissions, reclaim timers | about thirty commands, network events, four timers | five pairs of indexes that every path must keep in step | logins, cookies, nicks and timers refer to what exists; suspension keeps people out |
| SASL agent (`nickserv.c`) | sessions, stale timers | packets, logins, aborts, arrival | packets in fragments; the account may be gone or another when the client arrives | who arrives is on the account that accepted; forgotten sessions end |
| Users, servers (`hash.c`, `proto-p10.c`) | nick and numeric indexes, server tree, modes | connect, rename, quit, kill, split, mode | collisions in either order; a split drops a tree | indexes agree; counts equal users |
| Channels (`hash.c`, `proto-p10.c`) | members, modes, timestamp, locks | burst, join, part, kick, mode, lock | bursts cross; a channel dies with its last member; a change is cut into lines | a channel lives exactly while it is needed; the other servers end where we are |
| Channel services (`chanserv.c`) | registrations, access lists, bans, options, suspensions, forbidden names, notes, timers | about ninety commands | timers on entries that five paths can free | no list without its owner, no end without its timer; what was forbidden stays so |
| Operator services (`opserv.c`) | gags, alerts, trusted hosts, clone counts, DEFCON, bad channels, reserved nicks, routing | about sixty commands, hooks on every user and join | counters against users that come and go; attempts that end five ways | counts equal users; each attempt has its timeout |
| Help queue (`mod-helpserv.c`) | requests by bot, nick, account and queue; helpers | open, assign, close, time out | requests outlive users, helpers and accounts | each request is on every list it should be on and on no other |
| Spam control (`spamserv.c`) | watched channels, counters per client, kills remembered | observe, punish, decay | hooks of ChanServ; counters that point to members | it is where it watches; nobody is punished twice |
| Memos, global messages, bots, hosts, groups, announcements (`mod-*.c`, `global.c`) | small tables over accounts and channels | add, remove, approve, expire | accounts are renamed or end without the table being told | what is shown belongs to somebody |
| DNS (`sar.c`), proxy scanner (`mod-sockcheck.c`), mail (`mail-smtp.c`), queries (`mod-qserver.c`) | requests by id, slots, queues | send, retry, answer, time out | a timeout against a late answer; a slot used again | one outcome per request; an answer reaches who asked |
| Databases (`saxdb.c`, `recdb.c`, `crypto.c`), logs (`log.c`) | files, save stages; destinations and lists | write, rename, encrypt, read; rehash | a crash between the steps; lists that share counted destinations | a readable file at all times; what is written is read |
| Commands (`modcmd.c`) | services, bindings, rules | bind, unbind, modify, invoke, save | rules imply rules, bindings inherit | no rule reads what nobody tested |
| ChanFix, track, snoop, webtv, Python, LDAP, cryptography, help, configuration, allocators | small tables or none | | I/O, libraries, texts | |

Components talk by direct calls (`set_user_handle_info`, `AddChannelUser`),
by hook lists (new user, removed user, nick change, account stamp, join, part,
merge, unregister, auth) and by timers. `PROJECT.json` lists every component
with its status, and the main hazards with the line where each bites. A helper whose
code lies inside the lines of the definition that uses it has no entry of its own in
"map".

## Modules

| Module | Models | Checked by |
|---|---|---|
| `Gline` | `gline.c`, the timer it hangs in `timeq.c`, the loop of `ioset.c`, the database; with its proofs | `gline` |
| `PriorityQueue` | what `heap.h` promises: the abstract specification | `heap` |
| `Heap` | `heap.c` with the int comparator; implements `PriorityQueue` | `heap` |
| `NickServ` | accounts, logins, cookies, nicks, permissions, reclaim; proofs in `NickServProofs` | `nickserv_mail`, `nickserv_nicks` |
| `Network` | users, nicks, servers and channels; proofs in `NetworkProofs` | `network`, `network_quit` |
| `ChanServ` | registrations, access lists, suspensions and their timers; proofs in `ChanServProofs` | `chanserv_timers`, `chanserv_lists`, `chanserv_dangling` |
| `HelpServ`, `SpamServ` | the help queue; spam control with what ChanServ tells it; proofs in `ServicesProofs` | `services` (`MCServices`) |
| `OpServ`, `OpChannels`, `Routing` | what OpServ does to users, to channels and to the map of servers; proofs in `OpServProofs` | `oper` (`MCOper`) |
| `ModCmd`, `MemoServ`, `GlobalServ`, `HostServ`, `BotServ`, `Groups`, `InfoServ`, `Sasl` | the smaller services; proofs about `ModCmd`, `HostServ`, `BotServ`, `Groups` and `Sasl` in `SupportProofs` | `support` (`MCSupport`) |
| `ChanBans`, `ChanModes`, `ModeLines`, `UserModes`, `StaffLists` | the rest of ChanServ; modes over the network; `ChanModes` with its proofs, those about `StaffLists` in `SupportProofs` | `support` |
| `Sar` | the resolver under the DNS blacklist; proofs in `SupportProofs` | `support` |
| `Sockcheck`, `Shun`, `IoSet`, `Uplinks`, `Storage`, `Recdb`, `Log`, `Mail`, `QServer`, `Globs`, `Addresses`, `SplayDict` | the machinery below; proofs about `Sockcheck`, `Shun`, `IoSet`, `Uplinks`, `Storage`, `Log`, `Mail` and `QServer` in `SupportProofs` | `support` |

`Shun` is an instance of `Gline` with its variables renamed, as `shun.c` is
`gline.c` with its names replaced. `MCServices`, `MCOper` and `MCSupport` hold
one or more instances of each of their components; a variable `part` chooses one
at the start and only that one moves, so the state spaces add up and do not
multiply. Each of the three also extends the modules that are proved about, so
that its run checks the very formulas of the theorems: `MCServices` extends
`HelpServ` and `SpamServ`, `MCOper` extends `OpServ` and `OpChannels`, and
`MCSupport` extends the fifteen modules of `SupportProofs`.

**Gline.** `gline_dict` and `gline_heap` are the sets of targets in the two
indexes, `expires` the field of the entries, `timers` the times of queued
`gline_expire` callbacks. `phase` is the place in `ioset_run`: dispatching
events, running timers, between rounds, restarting an interrupted poll, or
loading. The clock is any value at each poll. `gline_add`, `gline_remove`,
`gline_expire`, `gline_add_record` and `gline_saxdb_write` are the functions of
that name; `Add` is the body that the first and the fourth share. An expiry is
an absolute time because the callers take durations from the network and
`now + duration` may be in the past.

**Heap.** The array is a sequence. `Comparator` cuts the difference to `Width`
bits as the return type `int` does. Each operation is the recursive form of its
loop.

**NickServ.** `handle_info`/`users`, `owner`/`nicks`, `cookie`/`cookieTimer`,
`allowAuth`/`nick` and `reclaim`/`nick` are the pairs of indexes. `Handles` are
memory cells: a freed account can be allocated again, so a stale pointer behaves
as it does in C. `stamp` is what the network believes (the account stamp of
`StampUser` and ACCOUNT), which can differ from what services believes.
`SetHandleInfo` is `set_user_handle_info`, `DelUser` the function with its
NickServ hook, `Unregister` is `nickserv_unregister_handle`,
`MakeCookie`/`EatCookie` the functions of those names. Passwords are reduced to
"a password exists that verifies", staff levels to "staff may", time to "a
queued timer may fire now". `crashed` records the walk of `delete_nick` past the
end of a list.

**Network.** Each message of the uplink is one step, and so is each step of our
services on a channel. `live` is the user tables of all servers, `clients` the
dictionary of nicks, which the loser of a collision is not in; `uplink` is the
server tree. `members` and `userChannels` are the two lists a `modeNode` is on,
`locks` the counter of `LockChannel`, `unbursted` the list built by `send_burst`
and emptied by BURST and END_OF_BURST. `Origin` is the detour from numeric to
nick that `parse_line` and `GetUserH` make for the sender of a message; KILL,
KICK, BURST, MODE and SACYCLE name their victims by numeric and do not make it.
`Behind(s)` is what the recursion of `DelServer` visits. A BURST or MODE with
several users equals several with one user each, so the next-state relation
takes them one at a time. `crashed` records the use of a freed channel. What a
mode line says, and the modes of users, are `ModeLines` and `UserModes`; topics,
exempts, oplevels and juped servers are left out.

**ChanServ.** `data` and `ent` are memory: `chanData` and `userData` structures
by address, and an address is used again once it is free. `info` is the pointer
`channel_info` of each channel, `timers` what ChanServ has in the timer queue (a
callback, the pointer it is given, a time), `pend` the list `adduser_pendings`.
`DelUsers` is `del_channel_user` for a set of entries with its garbage
collection of channels that lost everybody, `Unregister` is
`unregister_channel`; every command, hook and timer that removes something goes
through one of them, as in the code. A command's access check is `Access`, for
`GetChannelUser` with its override for helpers: an account acts as itself, as a
helper, or as a helper who may touch protected channels (`Roles`). Guards that
depend on the network or on data left out become choices. `MERGE` and an account
merge are modelled for lists on which an account is once (`Single`); only staff
can make others. The field `staff` is not in the code: it remembers that a helper
changed the list, because helpers may give ranks that commands of users never
give. A restart reads back what is in memory; a crash that loses the last
minutes is a restart from an earlier state. A user's suspension timer that
outlives its entry writes to whatever is at that address: the model does so too.

**ChanBans, ChanModes, StaffLists.** The rest of ChanServ's state does not meet
the access lists except through a user's level, so each is a module with the
level as a constant or a choice. In `ChanBans` a mask is the set of nicks and
hosts it matches and inclusion is `match_ircglobs`; `add_channel_ban` with its
removal of covered bans, `expire_ban`, the join and nick hooks, the kicks that
are only sent, MERGE. `ChanModes` is one channel: `handle_join`, `handle_mode`,
`resync_channel`, the automodes, mode lock, DYNLIMIT with its timer and unsigned
arithmetic, topics with snarf and mask. `StaffLists` is the do-not-register
list, its three dictionaries as one function with the off-by-one key of
`expire_dnrs`, and the notes with the counted references of their types.

**ModeLines, UserModes.** A change is put together piece by piece and every
conversion (`mod_chanmode_announce`, `_format`, `_parse`, `_apply`) is a function
of it; the property compares what the other servers have after reading our lines
with what we applied. `mod_usermode` is a fold over signed letters and words.

**OpServ, OpChannels, Routing.** `OpServ` holds the clients per address, gags,
alerts, trusted hosts and DEFCON; a new client passes `opserv_new_user_check` in
one step with every alert and gag it triggers. `Configs` is what a start or a rehash
may find in the configuration for DEFCON, a level and a timeout, of which 0 means
none: `cmd_defcon` then takes no timeout out of the queue and puts none in, and
`untimed` remembers that it did so. `irc_eob_ack` puts the level in force when
services have linked. `OpChannels` holds bad words,
exempt and shut channels, reserved nicks and clones. `Routing` is the plans, the
active map turned around our uplink, karma, and one attempt per lost server with
its timer; the C functions that change several globals are operators on the
record of the globals.

**HelpServ, SpamServ.** A request of `HelpServ` is on up to four lists
(`desk.req`, `unhandled`, `byNick`, `byHand`), and `ListRemove` is the list macro
of `common.h` with its skip of the element after a removed one. `SpamServ` keeps
the counters of each client and `csChannels`, ChanServ's registrations, whose
commands call its hooks inside their own step. `offChannel` is the flag of a
registration under which, with `off_channel` 2, ChanServ does not tell SpamServ that
a suspension has ended (`IsOffChannel`, `chanserv.c:6170`). `astray` is not in the
code: it holds the channels of which the two took different views of a suspension.

**ModCmd.** A binding has flags, levels and accesses of its own, taken from its
command's defaults; `svccmd_configure` closes them under implication,
`svccmd_can_invoke` reads them, and whoever changes a rule goes through a binding
he may use. Saving writes differences to the defaults, loading applies them.

**Sasl, Sar, Sockcheck, Mail, QServer, Uplinks.** `uplink_select` is a function from
the manager's fields to new ones, because `uplink_connect` may call it twice: once
if the current uplink is unavailable, and again if the attempt, which may then be at
another uplink, was one too many. Everyone outside is free: a
name server loses, delays and doubles answers, a scanned host answers or not, a
mail server says anything to anything, a peer closes at any time. Identifiers and
slots are used again. A callback that starts the next check runs to its end
first.

**IoSet, Storage, Recdb, Log.** `IoSet` has the two rings of a connection, their
growth, partial writes and the scratch buffer of TLS; a byte is its number in the
stream. `Storage` is one save cut into the steps between which a crash, a full
disk or a failed rename can come, with and without a key. `Recdb` writes records
token by token and reads back the text and each of its beginnings. `Log` is the
counted destinations shared by lists, and the audit trail with its limits.

**Globs, Addresses, SplayDict.** A step of `Globs` is one turn of the loop, so
that pointers are checked where they point; its result is compared with a
recursive-function reference. `Addresses` compares each conversion with its
inverse over all addresses of three kinds of groups. `SplayDict` keeps children,
links, first, last and count apart and compares them with a finite map.

**MemoServ, GlobalServ, HostServ, BotServ, Groups, InfoServ** are tables over
accounts and channels. Accounts that are renamed or end are steps of their own,
because most of these modules are not told. Two variables of `HostServ` are not in
the code but remember what happened: `approved`, which host was given to which
account, and `untold`, the users whose account or its host changed without the host
being set for them. NickServ's REGISTER, UNREGISTER, RENAME and MERGE are among the
steps; MERGE moves sessions to another account without the handlers of a login, and
lets that account inherit the host.

## Runs

| Run | Question | Bounds |
|---|---|---|
| `gline` | Is the one timer armed early enough, are expired entries gone whenever the timers have run, does expiry happen, and is no G-line shortened? | two targets, four times: an entry can be extended past the other, be first or second, tie, or expire while down |
| `heap` | Does `heap.c` implement a priority queue, and does `heap_remove_pred` remove exactly what it should? | six entries (a removal can then leave an entry under a foreign parent), three keys so that ties occur |
| `nickserv_mail` | Do logins, cookies, timers, addresses and suspensions stay consistent? | one connection, two accounts, two addresses |
| `nickserv_nicks` | Do nicks, permissions, reclaim timers and logins stay consistent? | two connections, two nicks, two accounts |
| `network` | Do the tables of users, nicks, servers and channels agree, whatever order messages, splits and links come in? | one service, two users on two servers, one behind the other; two nicks, one channel, one mode that keeps it, two times, one lock |
| `network_quit` | Does a QUIT remove its sender and nobody else? No. | as `network` |
| `chanserv_timers` | Does everything temporary keep its timer, whatever frees or moves what it points to? Does a channel end with its last user? | no staff; two channels, two accounts, three entries (a merge of two lists, one account on both); durations none and 1, times 1 and 2, so that a timer is set, becomes due and meets every other step |
| `chanserv_lists` | With helpers, promised access, protected and suspended channels: is an account on a list once, and an owner alone? | two channels, two accounts of which one may be staff, one connection to promise to, two entries, levels 300 and 500, one owned channel per account, suspensions of a channel that end at time 2 |
| `chanserv_dangling` | Does every timer point to something that exists? No. | as `chanserv_timers` |
| `services` | Are a help bot's requests on the lists they belong on, and are its timers the ones its settings ask for? Is SpamServ where it watches, does it count members only, and is nobody killed twice? | HelpServ four times (accounts, queue, timers, staff) and SpamServ five times (channels, lines, words, and twice off-channel registrations with staff who merge suspended channels and change suspensions: once with suspensions that end in time, once with a client that talks), each with one bot or two channels and the settings that bear on it |
| `oper` | Do OpServ's counts and lists match who is online, do its timers end what they should and nothing else, and does the map stay whole? | gags, alerts and trusted hosts apart, with two clients; DEFCON with a timeout, and configured without one at a level that sets modes, at most two timeouts queued (`MaxTimeouts`); three servers of which one has a second uplink |
| `support` | One question for each small component (below) | some forty instances, listed in `MCSupport` with what each is for |

`support` states fourteen properties. Twelve are about one component each and are
also proved:

- `CommandsRuled`, `RulesSurvive`: rules closed under what they imply, services
  found under their bot's nick, restarts that change no rule (`ModCmd`).
- `SaslSound`: forgotten sessions end in time, an arriving client is on the
  account that accepted it (`Sasl`).
- `DataKept`: a crash at any step of a save leaves a whole database (`Storage`).
- `StaffKept`: what was forbidden for good stays so, note types count and outlive
  their notes (`StaffLists`).
- `ShownApproved`: nobody shows a host that was not given, and a logged-in user shows
  its account's, whichever accounts it came from (`HostServ`; one user and two
  accounts, so that one merges into the other).
- `ShunsTimed`: no shun past its time (`Shun`).
- `ChecksTimed`: every check of the scanner waits under a timeout and is counted, and
  no test is lost or doubled (`Sockcheck`).
- `RingsAreQueues`: no byte lost, doubled or out of order (`IoSet`).
- `GivesUpLast`: no early end of the program (`Uplinks`; three uplinks of one try
  each, so that an attempt at an uplink just selected fails and ends the list).
- `ActiveIsFirst`: the mail server's answers are about the oldest mail (`Mail`).
- `OneHitPerQuery`: a query of the DNS blacklist hits its client once at most,
  however late or often it is answered (`Sar`, two identifiers, three queries).

Two more gather the rest, one conjunct for each component (those of `BotServ`,
`Groups`, `QServer`, `ChanModes` and `Log` are proved too):

- `ServicesHeld`: a memo in one inbox of a living account (`MemoServ`); a global
  message that ends has its timer and reaches nobody twice (`GlobalServ`); hosts
  without approval, for two users and two accounts that may be merged (`HostServ`); channel bots online and counted (`BotServ`); a
  group's founder is its one member with the flag, and members are registered unless
  marked stale (`FounderHolds` of `Groups`); announcements with numbers of their own
  (`InfoServ`); checks with several tests (`Sockcheck`); answers that go to who
  asked, one slot for each open connection (`AnswersGoHome` of `QServer`); and
  `ChannelsKept`: bans timed and none beside one that covers it (`ChanBans`), join
  and resync that agree and one queued change of the limit (`ModesInSync` of
  `ChanModes`), lines that say the change (`ModeLines`), opers that are counted
  (`UserModes`).
- `ToolsRight`: references to a log are as many as the lists hold, so none is closed
  under a list, and audit entries past their age are dropped (`LogsCounted` of
  `Log`), what was written is read (`Recdb`), and `Globs`, `Addresses` and
  `SplayDict` against their references.

Several of these hold with an exception that the property's comment names: what
the code itself does not keep (see Findings) is taken out of the statement where
the rest can still be shown in its presence. A few places restrict the model
instead, because what follows is a read of freed memory or an endless loop:
LOGOUT with an open help request (`HelpServ`), commands on a group with a stale
member (`Groups`), merges of access lists on which an account is twice
(`ChanServ`), masks with a backslash (the instance of `Globs`), and repeated
settings of a user mode that other servers do not send (`UserModes`).

Every action fires in some passing run. Where entities of a kind are
interchangeable the cfgs use symmetry (`heap`, `nickserv`, addresses and channels
in `chanserv`); the run with a liveness property does not, and in `network` every
user, nick and server has a place of its own. Counters are capped by constants
named `Max...` (`MaxLocks`, `MaxTime`, `MaxId`, `MaxQueries`, `MaxCount` and the
like), each declared with what it bounds; all other bounds are the sizes of the
constant sets. They were chosen because the code's functions touch one entry, its
neighbours in an order, and the first of a list; where a theorem is proved the
bounds do not matter. Deadlock is not checked in `services`, `oper` and
`support`: an instance may stop at its bound of time or of numbers. What the
bounds leave out: a CSUSPEND that replaces a suspension with one of another
length, three accounts on one access list, and two components of one `part` run
that move in turns; the calls between components (ChanServ into SpamServ,
NickServ into HelpServ and ChanServ, OpServ into the G-lines) are inside the
actions of the caller's module or of the callee's, as their comments say.

**Fairness** is used in `gline` only. The loop goes on: a poll that fails is
retried, the events of one poll are finite, `timeq_run` pops while something is
due, and loading visits each record. No fairness is assumed of the network, of
users or of the clock: a property `~>` is met also when the clock is moved back.
Elsewhere "must end in time" is stated as safety: the clock of a module does not
pass a timer that is due, and nothing may be left whose time is over
(`SaslSound`, `ChecksTimed`, `ShunsTimed`, `ListsHeld`).

## Proofs

Every theorem holds for all values of the constants that satisfy the module's
assumption: any number of users, accounts, channels, identifiers, any times. All
have the form `Spec => []P` or `Spec => [][A]_vars` and rest on an inductive
invariant; each function that several commands share has a lemma of its own, each
command, message or timer a step.

| Theorem | Property | Rests on |
|---|---|---|
| `Gline!BookkeepingHolds`, `NoExpiredGlineSurvives`, `ExpiryNeverShortened` | `Inv`, `NoneExpiredAfterRun`, `NeverShortened` | `Inv` |
| `NetworkProofs!TablesAgree` | `Inv` | `Inv` |
| `NickServProofs!IndexesAgree`, `SuspendedKeptOut` | `Inv`, `SuspendedStaysOut` | `Inv`, flags of free structures |
| `NickServProofs!LoginsAgree`, `CookiesTimed`, `CookiesToOwners` | `AuthConsistent`, `CookieTimed`, `CookieToOwner` | parts of `Inv` |
| `ChanServProofs!TimersAgree` | `Inv` | `Inv` |
| `ChanServProofs!OneEntryEach`, `OneOwnerEach`, `NoEmptyLists` | `OneEntry`, `OneOwner`, `NoneEmpty` | `Inv`, `Lists` |
| `OpServProofs!ListsStayHeld`, `GaggedStayListed`, `AlertsNotEarly` | `ListsHeld`, `GaggedListed`, `AlertNotEarly` | `Online`, `Timed`, `AlertsOK` |
| `OpServProofs!ChannelsStayHeld` | `ChannelsHeld` | `ChInv` |
| `ServicesProofs!TimersRight` | `IntervalsTimed` | `BotsTimed` |
| `ServicesProofs!WatchesExactly`, `KilledNotAgain` | `WatchedExactly`, `NotKilledAgain` | `Watch`, `Counts` |
| `SupportProofs!FilesStayKept` | `DataKept` | `FilesKept` |
| `SupportProofs!CommandsStayRuled`, `RulesSurviveRestarts` | `CommandsRuled`, `RulesSurvive` | `CmdsSound` |
| `SupportProofs!SaslStaysSound` | `SaslSound` | `LooksNear`, `SessionsWatched`, `GrantsReal` |
| `SupportProofs!StaffStayKept` | `StaffKept` | `OwedStand`, `NotesShaped` |
| `SupportProofs!HostsStayApproved` | `ShownApproved` | `AccountsSound`, `HostsApproved`, `ShownOwn` |
| `SupportProofs!ShunsStayTimed`, `ShunsImplementGlines` | `ShunsTimed`; `Shun` implements `Gline` | the proofs of `Gline` |
| `SupportProofs!ChecksStayTimed` | `ChecksTimed` | `ScanInv` |
| `SupportProofs!RingsStayQueues` | `RingsAreQueues` | `RingsInv` |
| `SupportProofs!UplinksAllTried` | `GivesUpLast` | `UplinkInv` |
| `SupportProofs!ActiveStaysFirst` | `ActiveIsFirst` | `MailInv` |
| `SupportProofs!AtMostOneHit` | `OneHitPerQuery` | `Counted` |
| `SupportProofs!AnswersStayHome` | `AnswersGoHome`, of `ServicesHeld` | `QueriesInv` |
| `SupportProofs!FoundersStay` | `FounderHolds`, of `ServicesHeld` | `GroupsInv` |
| `SupportProofs!BotsStayLive` | `ChannelBotLive`, `CountExact`, of `ServicesHeld` | `BotsInv` |
| `SupportProofs!LogsStayCounted` | `LogsCounted`, of `ToolsRight` | `LogInv` |
| `ChanModes!JoinsStaySynced` | `ModesInSync`, of `ServicesHeld` | `SyncInv` |

**Gline.** `Inv` is inductive: the dictionary and the heap must agree for
`gline_remove` to free what it dropped, the timer must be unique for re-arming to
replace it, and loaded entries must be in force so that the round after the load
leaves none expired. `NoneExpiredAfterRun` follows from the covering timer, since
`timeq_run` stops only when nothing is due. The least element of the heap is used
through `IsFirst` only, so no induction over the heap is needed.

**NickServ.** `Inv` is the conjunction of the pairwise agreements and is inductive
as it stands: the lemmas are about moving a user, freeing accounts, deleting
nicks, removing a user. `SuspendedKeptOut` needs one more invariant: the structure
of an unregistered account holds no flags, so that a new account does not start
out suspended. That logins, cookie timers and the addresses cookies were mailed to
agree follows from the parts of `Inv` that say so of memory cells.

**Network.** `Inv` is inductive as it stands. The proof splits it into a part on
channels, one on users, one on the tree, and the one fact that ties them (members
exist); each shared function (`DelChannelUser`, `AddChannelUser`, `AddChannel`,
`DelUser`, `DelServer`, `NickChange`) has a lemma on the part it touches, each
message a lemma that combines them. That every live user has a nick is in `Inv`
because `NickChange` frees the old one; that `Behind(s)` is closed is what keeps
the tree whole after a split. The findings do not contradict it: a QUIT that
deletes the wrong user does so consistently, and after a crash nothing runs.

**ChanServ.** `Inv` is inductive: pointers and timers name each other both ways,
because a timer may be taken out by pointer and callback only. `DelUsers` and
`Unregister` carry most of it, as they carry most of the commands. The three
properties of access lists are inductive only together (`Lists`) and with two more
facts: a user is promised access to a channel once, or both promises would become
entries (`PromisedOnce`), and no temporary level goes back to the owner's, or a
second owner would come back with a timer (`NoOwnerAgain`).

**OpServ.** `Online` joins the counts of addresses with the gags: that a gagged
client is matched by a listed gag is kept when a gag ends only because the clients
of its address are those counted. `Timed` says of each list that its timers are
exactly those of the entries that end. An older timer of an alert's name may find a
later alert, which `alert_expire` ends only when its own time has come. While
DEFCON's modes are set a timeout is queued, or the level was last put in force
without one (`untimed`). Hypothesis `Normal`: level 5 of DEFCON restricts nothing, as
`opserv.c` has it, and configurations name levels there are.

**OpChannels.** A channel OpServ shut has its timer because shutting, opening and
the end of a channel all go through the lemmas on the timer list; a reserved nick
is a user of ours as long as kills and renames take it out with the user; and a new
bad word drops those it is part of before it is added.

**HelpServ** (`ServicesProofs`, as is `SpamServ`). `BotsTimed` gives each bot its
whine, empty and suspension timers; queues and lists of requests do not bear on
them, so no fact about sequences is needed.

**SpamServ.** `Watch` ties the bot, the registrations and ChanServ's channels,
`Counts` the counters of a client to the watched channels it is in; a client that
was killed before is never marked for another kill. Hypothesis `Closed`: channels
are +n, and SET is used with its five reactions; whoever speaks from outside gets a
counter and is no member, as TLC shows when `Outside` is TRUE. Nothing is claimed of a
channel in `astray`, and `Watch` says of each step that leaves the two with different
views of a suspension that it puts the channel there.

**Sar.** `Counted` bounds the hits by the queries that are over: a query is over
once it leaves the table, and an answer finds its query there or does nothing.

**Storage.** `DataKept` alone is not inductive: in the middle of a save the next
step may be a rename. `FilesKept` adds what the step reached says of the two other
files (`SaveUnderWay`): once `.new` is written it holds the memory whole, and once
`.enc` is, it holds that under the key. Each fault known to lose data sets `faulty`,
after which nothing is claimed.

**ModCmd.** A rule is sound because it is always what `modcmd_set_effective_flags`
makes of the binding's own flags, and that function closes them (`CmdsSound`). That
a rule survives a restart is a fact about writing differences to the defaults and
applying them again, for every binding whose command kept its defaults. Two
assumptions: levels are numbers (`LevelsNatural`), and what is imported and aliased
at the first start is registered (`BindsRegistered`).

**Sasl.** A session that is left alone is marked at the first look after its last
sign of life and ends at the second. `LooksNear` says a look is queued, at most a
period away, while there is a session; `SessionsWatched` ties the mark of a
session to the looks behind it, however many chains there are. `GrantsReal` keeps
the account that accepted a login the one the client will be on, through
unregistering and registering again under the same name.

**StaffLists.** An entry that is owed stands in its dictionary without an end
(`OwedStand`), except where the off-by-one key of `expire_dnrs` may have hit
(`Mistaken`). For the notes, the references of a type are the number of its notes:
a cardinality over channels, of which there are finitely many
(`NoteChannelsFinite`); keys of accounts and channels do not mix (`KeysApart`).

**HostServ.** `AccountsSound` says that names lead to numbers one to one, so that
an approval by name is one for the account that has the name now; `HostsApproved`
that every account's host was given to that account, a host inherited in a merge
included. `ShownOwn` is about the current host: SET, ACTIVATE and GROUP tell every
session, a login tells its own, and whoever is passed over is in `untold`.

**Shun.** Every step of `Shun`, the searches of OpServ in which several shuns go
one after the other included, is a step of `Gline` under the renaming or changes
nothing of it; so `Shun` implements `Gline`, and the invariant of `Gline` holds of
the shuns without a second proof.

**Sockcheck.** `ScanInv` says more than the property in the middle of a callback: the
checks under a timer are those past their start, at most one is at its start, and no
queued record is a check already, so a check that starts is a new one. Every step but
the start of a check ends a check or changes one (`DecideKeeps`, `ChangeKeeps`).
`ToFront` is a shift of the tests before the one that found a proxy, a permutation
because that one is on the list. There are tests, each once (`TestsNamed`), and a
bound on records (`RecordsBounded`).

**IoSet.** Between `get` and `put`, around the end of the buffer, a ring holds a
run of the stream that starts at the first byte not taken (`HoldsFrom`).
`GrowsWhole`, `FilledHolds` and `TakenHolds` say that growing, filling and taking
keep it so, through wraps and growth, and each read and write is composed of them.
A write over TLS offers a copy, so `SentKept` also says that what the scratch
buffer holds is what the ring holds first. A size is positive (`RingSizes`,
`StreamBounds`).

**Uplinks.** `uplink_select` goes round the list from the current entry and stops
when it is back there. That a round from any entry meets every entry is what makes
giving up justified; it needs the least entry of a set of numbers, which is the
well-foundedness of `<` and not induction over the list. `AttemptedLast` is about the
selection before an attempt, `ConnectFailsKeeps` about the one after it, which starts
from the uplink that failed. The list is not empty (`OrderListed`).

**Mail.** While a mail is under way it is the head of the queue: mails are
appended only, and the head leaves with the reset of `active_mail`. No mail is the
empty one (`MailsNamed`).

**QServer.** The slots are 0 to one less than their number, and a slot is taken
exactly when its dummy user exists (`QueriesInv`), so that an answer to the dummy is
one to the connection. That a new connection gets a free slot uses the least free one
(the well-foundedness of `<`); growing the table keeps the slots that are taken.
No connection is the absent one, and the table grows by a slot or more
(`QueriesNamed`).

**Groups.** What a change of members does to founder and stale members is one lemma
(`MembersReplaced`); `GroupsInv` says the same of the groups that were saved, so that
a restart gives it back. No account is the absent founder (`FoundersNamed`).

**BotServ.** A channel's bot is online as well (`BotsInv`), or taking the assignment
away would leave the bot in place; every assignment is to a bot that exists, so BOT DEL,
which asks for a count of zero, frees no bot in use: a cardinality of a finite set of
channels. Hypothesis: no bot is renamed (`BotRenames = {}`). BOT CHANGE breaks both
properties, as the findings say; the run has a part in which it fires and in which they
are not claimed. No bot is ChanServ or the absent bot (`BotsNamed`).

**ChanModes.** That a join and a resync give the same mode is a split over what
access asks for and what automode allows (`JoinAgrees`); a member is fresh only
until its modes or its access change. There is one queued change of the limit
because queueing takes out the one before. Hypothesis: levels of access are numbers.

**Log.** Opening the lists of a configuration, the audit lists and the defaults all
go through `Join`, which adds to a log as many references as places in which it is
listed: a cardinality over finite, disjoint unions. Audit entries are in the order of
their times, so those past their age are the first ones, and cutting from the front
drops exactly them (`AuditKept`). Facilities and severities are finite, ages numbers
(`LogsNamed`, `AuditsBounded`).

Assumptions on constants are only that times and levels are numbers, sizes
positive, sets of names disjoint and lists not empty, which the code's types and
its configuration give; TLC evaluates each of them in a run.

Model-checked only. Liveness (`ExpiredIsDropped`) is out of the prover's reach, as
is everything in `Heap` (with its refinement of `PriorityQueue`), `Recdb`,
`Addresses` and `SplayDict`, whose loops are recursive operators. `RequestsListed`
of `HelpServ` is about what removing from a sequence leaves, and the merges of
`ChanBans` fold over lists of bans: both are induction over data. `RoutesSound`
follows maps with a recursive walk and with folds. `MemoServ` and `GlobalServ` keep
sequences that are selected from and sorted, again induction over data. So are the
other conjuncts of `ServicesHeld` and `ToolsRight`: `InfoServ` (a sort and a counter
raised post by post), `ModeLines` and `UserModes` (loops over letters) and `Globs`
(a table over two texts) compute with recursive functions, of which the provers
cannot show even that their equations hold. `IntervalsTimed` and `ShownApproved` are
also checked on instances with other settings, under the same names.

## Findings

With a run that shows it:

1. The QUIT of a user that lost a nick collision is looked up by nick and
   deletes the winner, a service of ours included. The code expects that QUIT
   (`proto-p10.c:2382`, `3413`; `network_quit`).
2. `del_channel_user` leaves the timer of a user's suspension in the queue. When
   it fires it writes to freed memory, or lifts the suspension of the entry that
   is there by then (`chanserv_dangling`).

Stated as a property in a module, and false of it, without a run of its own:

- `cmd_merge` appends the nicks of the old account only if the new one has nicks
  already; otherwise they are owned and on no list (`NickServ!OwnedNicksListed`).
- `cmd_resetpass` keeps stamped users from activating an account and says why;
  `cmd_cookie`, which activates, does not (`NickServ!StampedStayOut`).
- SACYCLE of the only member of a channel frees the channel, then adds the user
  to it (`Network!CycledStays`).
- `proto-common.c:450` says only one of the two ping timers is ever queued;
  `irc_introduce` adds one at each reconnect (`Uplinks!OnePing`).

Met while modelling; the properties leave these cases out, or nothing is claimed
about them:

- Accounts. One un-activated account per address (`docs/cookies.txt:38`): the
  test is for a pending cookie, which times out while the account stays. The
  permission of ALLOWAUTH points to an account that may be unregistered
  (`nickserv.c:629`); the reclaim timer does not look at who owns the nick by then
  (`5286`); `maxlogins` binds AUTH only (`2493`).
- SASL. A packet of several fragments is cut at the length of its last one
  (`nickserv.c:5778`), and the session is written to after `sasl_packet` may have
  freed it (`5790`). Several chains of `sasl_delete_stale` end sessions early. A
  fingerprint wins over an unknown name. IMPERSONATE tests neither suspension nor
  `maxlogins`.
- Network. `ulong_comparator`, `gline_comparator` and `shun_comparator` cut a
  64-bit difference to an int. `wipeout_channel` means to deop everybody
  (`hash.c:622`) and touches services only. Setting an exempt frees the wrong slot
  (`proto-common.c:840`). A channel that a mode kept after its last member left is
  freed by no later mode change (`hash.c:879`). `-l` leaves `channel->limit` as it
  was; `+k-k` ends with the key set here. `mod_chanmode_format` writes `L` before
  `k` and `l` and its argument behind theirs, so that a saved lock with a redirect
  and a key is read wrongly. `count_opers` stays 1 after the last `-o`.
- Uplinks. After JUMP the old uplink
  keeps its state, and a rehash that removes the current uplink follows a freed
  node.
- Connections. `ioq_grow` reports all of a ring as free, though one byte must
  stay so (`ioset.c:112`); the retry buffer of TLS may exceed its size, and may
  outlive its connection.
- ChanServ. MOVE leaves promised access with the old channel
  (`PendingCrash`); a second timed CLVL makes the first temporary level
  permanent; a forced GIVEOWNERSHIP can add a second entry. `merge_bans` into a
  channel without bans moves none and leaves their timers; a ban that ends
  removes the permanent ones it covers. DYNLIMIT OFF leaves its timer, and the
  limit's arithmetic is unsigned. `expire_dnrs` removes by the name without its
  first letter, and `write_dnrs_helper` frees each timed entry before it writes
  it. A failing CREATENOTE keeps the access it changed.
- OpServ. `gag_free` frees everyone its mask matches, other gags or not
  (`opserv.c:4783`); DELALERT leaves the alert's timer (harmless, as
  `AlertNotEarly` shows); a rehash resets DEFCON's level and its timeout without touching the modes that are
  set or what is queued; a level ordered with no timeout leaves an older one in the
  queue, whose modes it ends, and each END_OF_BURST queues one more
  (`proto-p10.c:827`); a restart forgets the modes; a plan whose second uplinks close on themselves makes a walk endless;
  `CONN_PINGOUT` without a plan is a null pointer. STRACE looks its permission up
  under its own name twice.
- HelpServ. LOGOUT with an open request: `handle_nickserv_auth` returns with
  "Authed user is quitting" (`mod-helpserv.c:4529`), but `cmd_logout` calls it for
  a user who stays (`nickserv.c:5899`). `handle_join` and `handle_part` treat one
  request per bot only; SUSPEND twice loses the first timer; the identifier wraps
  onto open requests.
- SpamServ. The end of a suspension is not told to it for an off-channel registration
  (`chanserv.c:6170`), which every new one is where `off_channel` is 2: the channel
  stays suspended for SpamServ, and so UNREGISTER does not make it leave a channel it
  has come back to (`spamserv.c:430`). CSUSPEND of a suspended channel, and a merge of
  one, change ChanServ's view only; at a restart a suspension that ends in that second
  has ended for ChanServ and not for SpamServ (`chanserv.c:9097`, `spamserv.c:3029`).
  Three decay timers test their interval the wrong way round;
  `timeq_flood` walks on after a free; the punishment flags are never cleared;
  the exception of advertisements reads the level of spam.
- Commands. `bind_count` never goes down; UNBIND rechecks the wrong module;
  denied account flags are compared with required ones when saved; SERVICE REMOVE
  leaves its channel trigger to a freed bot.
- Memos, messages, hosts, bots, groups, posts. Record names of memos collide by
  case (identifiers 1 and 27); a rehash never restarts the expiry timer. A
  restart renews the durations of global messages and reverses them. Requests for
  hosts are kept by account name, so one can be approved for another account;
  without approval `cmd_request` changes the account's host and tells none of its
  other sessions (`mod-hostserv.c:263`); after MERGE the sessions of the old account go
  on showing its host (`nickserv.c:4142`), which the code intends only for those of the
  account that inherits one (`4193`).
  BOT CHANGE leaves the key, the client and the assignments. A group's member keys
  dangle after a rename. A reload orders announcements by the text of their
  numbers.
- DNS, scanner, mail, queries. `sar_timeout_cb` does not reset
  `next_sar_timeout` (`sar.c:293`); an identifier used again credits a late answer
  to another query. The scanner counts a check that it does not make when there are no tests
  (`mod-sockcheck.c:698`), starts one in the slot of the number of checks, which may be
  taken (`741`), frees pending addresses when it cleans its cache
  and lets a rehash raise `max_clients` over its table. `smtp_handle_rset` asserts
  what its caller has just cleared, so the first refused mail ends the program; a
  body is never sent after DATA. `conf.password` of the query server dangles after
  a rehash without its section.
- Files, logs, tools. After a short write `saxdb_flush` goes on with the wrong
  length; a failed rename counts as written; a wrong key makes an empty database
  that the next save writes. In log severities `<` includes its bound and `<=` one
  more, past the array. `irc_ntop` does not reset its count of zeros
  (`tools.c:109`), so the text of 0:0:1:0:1:0:1:0 is another address;
  `irc_p10_ntop` does not end for some IPv6 addresses. A mask that ends in a
  backslash is read past its end.

## Not modelled, and the plan

Not modelled: ChanFix (a sampling timer and a score; its FIX sends nothing),
track, snoop, webtv and no (they print or translate), the Python bindings (an
interpreter outside the repository), LDAP (an outside server), the ciphers and
digests, help files, configuration parsing, allocators, the policers (floating
point; where one decides, the models leave its answer free), and six files that no
build rule names. Within the modelled components: replies, texts, listings and
statistics; NickServ's hostmasks, languages, karma and fakehosts; exempts and
oplevels; listening sockets. Data that no property tells apart is left out
throughout.

Next, of what the provers can reach: `BansTimed` of `ChanBans` without MERGE; in
`MemoServ`, that a memo is in one inbox, with the order of the inboxes left to TLC.
