------------------------------ MODULE BotServ ------------------------------
(* Bots lent to channels (mod-botserv.c).  A bot is found by the key it was   *)
(* added under, an assignment names the bot's present nick, and a count on    *)
(* the bot says how many channels use it.  The bot takes ChanServ's place in  *)
(* the channel.  Speech, user modes and the bot's texts are left out.         *)
EXTENDS Integers, FiniteSets, Functions

CONSTANTS
    BotNicks,       \* nicks of bots
    BotChannels,
    BotOptions,     \* settings of an assignment that are saved
    UnsavedOptions, \* settings of an assignment that are not
    MAX_BOTS,
    BotRenames,     \* nicks BOT CHANGE may give
    MaxAssigned,    \* bound: where the count on a bot stops
    NoBot

ASSUME BotsNamed == {NoBot, "ChanServ"} \cap (BotNicks \cup BotRenames) = {}

VARIABLES
    bot_dict,       \* key -> [nick, online, assigned_count]
    channel_dict,   \* channel -> [bot, on]
    botChannels,    \* channel -> [members, registered, channel_bot]; bots by key
    outsiders       \* channels with a client of another server in them

botVars == <<bot_dict, channel_dict, botChannels, outsiders>>

NoEntries == [x \in {} |-> NoBot]
Entered(f, x, y) == [z \in DOMAIN f \cup {x} |-> IF z = x THEN y ELSE f[z]]

BotInit ==
    /\ bot_dict = NoEntries /\ channel_dict = NoEntries
    /\ botChannels \in {[c \in BotChannels |-> [members |-> {"ChanServ"}, registered |-> TRUE, channel_bot |-> NoBot]], NoEntries}
    /\ outsiders = {}

\* The bot an assignment names, if one has that nick as its key.
BotOf(c) == {k \in DOMAIN bot_dict : k = channel_dict[c].bot}

\* A channel without members goes unless it is registered.
Settled(chs) == [c \in {d \in DOMAIN chs : chs[d].registered \/ chs[d].members # {} \/ d \in outsiders'} |-> chs[c]]

\* The bot k enters channel c, is its bot if it is registered, and ChanServ leaves.
TakesOver(chs, c, k, always) ==
    [chs EXCEPT ![c] = [members |-> (@.members \cup {k}) \ {"ChanServ"}, registered |-> @.registered,
                        channel_bot |-> IF @.registered /\ (always \/ @.channel_bot = NoBot) THEN k ELSE @.channel_bot]]

-----------------------------------------------------------------------------
cmd_assign(c, k) ==
    /\ k \in DOMAIN bot_dict /\ c \notin DOMAIN channel_dict /\ bot_dict[k].assigned_count < MaxAssigned
    /\ channel_dict' = Entered(channel_dict, c, [bot |-> bot_dict[k].nick, on |-> BotOptions \cap {"dontkickops", "fantasy"}])
    /\ bot_dict' = [bot_dict EXCEPT ![k].assigned_count = @ + 1]
    /\ botChannels' = IF bot_dict[k].online /\ c \in DOMAIN botChannels THEN TakesOver(botChannels, c, k, TRUE) ELSE botChannels
    /\ UNCHANGED outsiders

\* Mutant: the bot leaves the channel and stays its bot.
StillBot(c, k) == Settled([botChannels EXCEPT ![c].members = @ \ {k}])

\* The channel without its bot.  ChanServ comes back if it is registered; the
\* code looks at the channel after the bot's leaving may have freed it.
Released(c, k) ==
    Settled([botChannels EXCEPT ![c] =
        [members |-> (@.members \ {k}) \cup (IF @.registered THEN {"ChanServ"} ELSE {}), registered |-> @.registered,
         channel_bot |-> NoBot]])

cmd_unassign(c) ==
    /\ c \in DOMAIN channel_dict
    /\ channel_dict' = Restrict(channel_dict, DOMAIN channel_dict \ {c})
    /\ outsiders' = outsiders
    /\ IF BotOf(c) = {} THEN UNCHANGED <<bot_dict, botChannels>>
       ELSE LET k == channel_dict[c].bot IN
            /\ bot_dict' = [bot_dict EXCEPT ![k].assigned_count = @ - 1]
            /\ botChannels' = IF bot_dict[k].online /\ c \in DOMAIN botChannels THEN Released(c, k) ELSE botChannels

\* SET and KICK switch one option of an assignment.
cmd_set_option(c, o) ==
    /\ c \in DOMAIN channel_dict
    /\ \E on \in {{}, {o}} : channel_dict' = [channel_dict EXCEPT ![c].on = (@ \ {o}) \cup on]
    /\ UNCHANGED <<bot_dict, botChannels, outsiders>>

\* The client may not be introduced: its nick is taken.
cmd_bot_add(n, online) ==
    /\ Cardinality(DOMAIN bot_dict) < MAX_BOTS /\ n \notin DOMAIN bot_dict
    /\ bot_dict' = Entered(bot_dict, n, [nick |-> n, online |-> online, assigned_count |-> 0])
    /\ UNCHANGED <<channel_dict, botChannels, outsiders>>

cmd_bot_del(k) ==
    /\ k \in DOMAIN bot_dict /\ bot_dict[k].assigned_count <= 0
    /\ bot_dict' = Restrict(bot_dict, DOMAIN bot_dict \ {k})
    /\ outsiders' = outsiders
    /\ botChannels' = Settled([c \in DOMAIN botChannels |-> [botChannels[c] EXCEPT !.members = @ \ {k}]])
    /\ UNCHANGED channel_dict

\* The record changes; its key, its client and the assignments do not.
cmd_bot_change(k, n) ==
    /\ k \in DOMAIN bot_dict /\ bot_dict[k].nick # n
    /\ bot_dict' = [bot_dict EXCEPT ![k].nick = n]
    /\ UNCHANGED <<channel_dict, botChannels, outsiders>>

-----------------------------------------------------------------------------
\* A client of another server enters a channel: the bot is brought in.
botserv_handle_join(c) ==
    LET there == IF c \in DOMAIN botChannels THEN botChannels
                 ELSE Entered(botChannels, c, [members |-> {}, registered |-> FALSE, channel_bot |-> NoBot]) IN
    /\ c \notin outsiders /\ outsiders' = outsiders \cup {c}
    /\ botChannels' = IF c \in DOMAIN channel_dict /\ \E k \in BotOf(c) : bot_dict[k].online
                   THEN TakesOver(there, c, channel_dict[c].bot, FALSE) ELSE there
    /\ UNCHANGED <<bot_dict, channel_dict>>

\* external: the last client leaves a channel.
LastLeaves(c) ==
    /\ c \in outsiders /\ outsiders' = outsiders \ {c}
    /\ botChannels' = Settled(botChannels)
    /\ UNCHANGED <<bot_dict, channel_dict>>

\* external: ChanServ's REGISTER and UNREGISTER, of which BotServ is not told.
RegisterChannel(c) ==
    /\ c \in DOMAIN botChannels /\ ~botChannels[c].registered
    /\ botChannels' = [botChannels EXCEPT ![c] =
          [members |-> @.members \cup {"ChanServ"}, registered |-> TRUE, channel_bot |-> @.channel_bot]]
    /\ UNCHANGED <<bot_dict, channel_dict, outsiders>>

UnregisterChannel(c) ==
    /\ c \in DOMAIN botChannels /\ botChannels[c].registered
    /\ outsiders' = outsiders
    /\ botChannels' = Settled([botChannels EXCEPT ![c] =
          [members |-> @.members \ {"ChanServ"}, registered |-> FALSE, channel_bot |-> NoBot]])
    /\ UNCHANGED <<bot_dict, channel_dict>>

\* A restart: bots are found under their present nick, of two with one nick one
\* stays; the counts are taken anew; every bot is introduced and joins.
botserv_finalize ==
    \E S \in SUBSET DOMAIN bot_dict :
      LET nicks == {bot_dict[k].nick : k \in DOMAIN bot_dict}
          used(n) == Cardinality({c \in DOMAIN channel_dict : channel_dict[c].bot = n})
          fresh == [c \in {d \in DOMAIN botChannels : botChannels[d].registered} |->
                      [members |-> {"ChanServ"}, registered |-> TRUE, channel_bot |-> NoBot]]
          assigned == {c \in DOMAIN channel_dict : channel_dict[c].bot \in nicks}
      IN
      /\ Cardinality(S) = Cardinality(nicks) /\ {bot_dict[k].nick : k \in S} = nicks
      /\ bot_dict' = [n \in nicks |-> [nick |-> n, online |-> TRUE, assigned_count |-> used(n)]]
      /\ channel_dict' = [c \in DOMAIN channel_dict |-> [channel_dict[c] EXCEPT !.on = @ \ UnsavedOptions]]
      /\ outsiders' = {}
      /\ botChannels' = [c \in DOMAIN fresh \cup assigned |->
            IF c \notin assigned THEN fresh[c]
            ELSE [members |-> {channel_dict[c].bot}, registered |-> c \in DOMAIN fresh,
                  channel_bot |-> IF c \in DOMAIN fresh THEN channel_dict[c].bot ELSE NoBot]]

BotNext ==
    \/ \E c \in BotChannels, k \in BotNicks \cup BotRenames : cmd_assign(c, k)
    \/ \E c \in BotChannels : cmd_unassign(c) \/ botserv_handle_join(c) \/ LastLeaves(c) \/ RegisterChannel(c) \/ UnregisterChannel(c)
    \/ \E c \in BotChannels, o \in BotOptions \cup UnsavedOptions : cmd_set_option(c, o)
    \/ \E n \in BotNicks, b \in BOOLEAN : cmd_bot_add(n, b)
    \/ \E k \in BotNicks \cup BotRenames : cmd_bot_del(k)
    \/ \E k \in BotNicks \cup BotRenames, n \in BotRenames : cmd_bot_change(k, n)
    \/ botserv_finalize

BotSpec == BotInit /\ [][BotNext]_botVars

-----------------------------------------------------------------------------
\* A registered channel's bot is a bot that exists, whose client is in the
\* channel and which its assignment names: BOT DEL frees no client that a
\* channel still speaks through (cmd_bot_del, cmd_unassign, Released).  BOT
\* CHANGE undoes this, so it is stated where no bot is renamed.
ChannelBotLive ==
    \A c \in DOMAIN botChannels : botChannels[c].channel_bot # NoBot =>
        /\ botChannels[c].channel_bot \in DOMAIN bot_dict /\ botChannels[c].channel_bot \in botChannels[c].members
        /\ c \in DOMAIN channel_dict /\ channel_dict[c].bot = botChannels[c].channel_bot

\* The count on a bot is the number of channels that use it.
CountExact ==
    \A k \in DOMAIN bot_dict :
        bot_dict[k].assigned_count = Cardinality({c \in DOMAIN channel_dict : channel_dict[c].bot = k})
=============================================================================
