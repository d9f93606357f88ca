--------------------------- MODULE ServicesProofs ---------------------------
(***************************************************************************)
(* Proofs about the help queue and spam control.                           *)
(*                                                                         *)
(* HelpServ: the timers of help bots are right for any number of bots,     *)
(* clients and accounts.  A bot is well timed by itself, so a step needs   *)
(* one lemma for the record it writes.                                     *)
(*                                                                         *)
(* SpamServ: for any channels, clients, words and limits.  Watch says when *)
(* SpamServ is in a channel, and that its flag agrees with ChanServ's      *)
(* suspension; Counts says what an entry of a client may hold.             *)
(***************************************************************************)
EXTENDS HelpServ, SpamServ, TLAPS

-----------------------------------------------------------------------------
(* The timers of help bots                                                 *)

\* The fields of struct helpserv_bot that HelpServ keeps.
Fields == {"level", "request", "helper", "onjoin", "wrap", "last", "active", "empty",
           "emptyInterval", "emptyTimers", "whineInterval", "whineTimers",
           "suspended", "expiry", "expiries"}

\* The inductive invariant, for one bot.
WellTimed(B) ==
  /\ DOMAIN B = Fields
  /\ B.whineInterval \in BOOLEAN /\ B.emptyInterval \in BOOLEAN /\ B.suspended \in BOOLEAN
  /\ B.whineTimers = IF B.whineInterval THEN 1 ELSE 0
  /\ B.emptyTimers \in Nat /\ B.emptyTimers <= IF B.emptyInterval THEN 1 ELSE 0
  /\ B.suspended /\ B.expiry # 0 => B.expiry \in B.expiries

BotsTimed == DOMAIN bot = Bots /\ \A b \in Live : WellTimed(bot[b])

LEMMA NewBotTimed ==
  ASSUME NEW h
  PROVE  WellTimed(NewBot(h))
  BY DEF WellTimed, NewBot, Fields

\* Fields that no timer depends on.
LEMMA OtherFields ==
  ASSUME NEW B, WellTimed(B), NEW f \in Fields, NEW v,
         f \in {"level", "request", "helper", "onjoin", "wrap", "last", "active", "empty"}
  PROVE  WellTimed([B EXCEPT ![f] = v])
  BY DEF WellTimed, Fields

LEMMA EmptyTimed ==
  ASSUME NEW B, WellTimed(B), NEW n \in Nat, n <= IF B.emptyInterval THEN 1 ELSE 0, NEW e
  PROVE  WellTimed([B EXCEPT !.empty = e, !.emptyTimers = n])
  BY DEF WellTimed, Fields

\* run_empty_interval, when no timer of its kind is queued.
LEMMA RunEmptyTimed ==
  ASSUME NEW B, WellTimed(B), B.emptyTimers = 0, NEW x, NEW y
  PROVE  WellTimed(RunEmpty(B, x, y))
  <1> DEFINE more == IF /\ ~x /\ ~(B.onjoin /\ ~y) /\ B.emptyInterval THEN 1 ELSE 0
             n == B.emptyTimers + more
  <1>1. more \in Nat /\ more <= IF B.emptyInterval THEN 1 ELSE 0
    BY DEF WellTimed
  <1> HIDE DEF more
  <1>2. n = more
    BY <1>1
  <1>3. PICK e : e = ~x
    OBVIOUS
  <1>4. RunEmpty(B, x, y) = [B EXCEPT !.empty = e, !.emptyTimers = n]
    BY <1>3 DEF RunEmpty, more
  <1>5. n \in Nat /\ n <= IF B.emptyInterval THEN 1 ELSE 0
    BY <1>1, <1>2
  <1> HIDE DEF n
  <1>6. WellTimed([B EXCEPT !.empty = e, !.emptyTimers = n])
    BY <1>5, EmptyTimed
  <1> QED BY <1>4, <1>6

\* One bot is written.
LEMMA OneBot ==
  ASSUME BotsTimed, NEW b \in Bots, NEW C, WellTimed(C), bot' = [bot EXCEPT ![b] = C]
  PROVE  BotsTimed'
  BY DEF BotsTimed, Live

LEMMA NoBot ==
  ASSUME BotsTimed, bot' = bot
  PROVE  BotsTimed'
  BY DEF BotsTimed, Live

\* Every bot is written, or gone.
LEMMA AllBots ==
  ASSUME DOMAIN bot' = Bots, \A b \in Bots : bot'[b] = None \/ WellTimed(bot'[b])
  PROVE  BotsTimed'
  BY DEF BotsTimed, Live

LEMMA CreateRequestTimed ==
  ASSUME BotsTimed, NEW u, NEW b \in Live, NEW d, NEW fromjoin, create_request(u, b, d, fromjoin)
  PROVE  BotsTimed'
  <1>1. PICK l, x, y, C : /\ C = [bot[b] EXCEPT !.last = l]
                          /\ \/ bot' = [bot EXCEPT ![b] = C]
                             \/ bot' = [bot EXCEPT ![b] = RunEmpty([C EXCEPT !.emptyTimers = 0], x, y)]
    BY DEF create_request
  <1>2. b \in Bots /\ WellTimed(bot[b])
    BY DEF BotsTimed, Live
  <1>3. WellTimed(C)
    BY <1>1, <1>2, OtherFields DEF Fields
  <1>4. PICK D : D = [C EXCEPT !.emptyTimers = 0]
    OBVIOUS
  <1>5. WellTimed(D) /\ D.emptyTimers = 0
    BY <1>3, <1>4 DEF WellTimed, Fields
  <1>6. WellTimed(RunEmpty(D, x, y))
    BY <1>5, RunEmptyTimed
  <1>7. CASE bot' = [bot EXCEPT ![b] = C]
    BY <1>7, <1>2, <1>3, OneBot
  <1>8. CASE bot' = [bot EXCEPT ![b] = RunEmpty(D, x, y)]
    BY <1>8, <1>2, <1>6, OneBot
  <1> QED BY <1>1, <1>4, <1>7, <1>8

LEMMA UsermsgTimed ==
  ASSUME BotsTimed, NEW u, NEW b, helpserv_usermsg(u, b)
  PROVE  BotsTimed'
  <1>1. b \in Live
    BY DEF helpserv_usermsg
  <1>2. bot' = bot \/ create_request(u, b, desk, FALSE)
    BY DEF helpserv_usermsg
  <1> QED BY <1>1, <1>2, NoBot, CreateRequestTimed

LEMMA AssignTimed ==
  ASSUME BotsTimed, NEW u, NEW v, NEW b \in Live, NEW r, helpserv_assign(u, v, b, r)
  PROVE  BotsTimed'
  <1>1. bot' = [bot EXCEPT ![b] = [bot[b] EXCEPT !.active = clock]]
    BY DEF helpserv_assign
  <1>2. b \in Bots /\ WellTimed(bot[b])
    BY DEF BotsTimed, Live
  <1>3. WellTimed([bot[b] EXCEPT !.active = clock])
    BY <1>2, OtherFields DEF Fields
  <1> QED BY <1>1, <1>2, <1>3, OneBot

LEMMA SetLevelTimed ==
  ASSUME BotsTimed, NEW b \in Live, NEW h, NEW lvl, SetLevel(b, h, lvl)
  PROVE  BotsTimed'
  <1>1. PICK l : bot' = [bot EXCEPT ![b] = [bot[b] EXCEPT !.level = l]]
    BY DEF SetLevel
  <1>2. b \in Bots /\ WellTimed(bot[b])
    BY DEF BotsTimed, Live
  <1>3. WellTimed([bot[b] EXCEPT !.level = l])
    BY <1>2, OtherFields DEF Fields
  <1> QED BY <1>1, <1>2, <1>3, OneBot

LEMMA GiveownershipTimed ==
  ASSUME BotsTimed, NEW u, NEW b, NEW h, cmd_giveownership(u, b, h)
  PROVE  BotsTimed'
  <1>1. PICK l : bot' = [bot EXCEPT ![b] = [bot[b] EXCEPT !.level = l]]
    BY DEF cmd_giveownership
  <1>2. b \in Bots /\ WellTimed(bot[b])
    BY DEF cmd_giveownership, BotsTimed, Live
  <1>3. WellTimed([bot[b] EXCEPT !.level = l])
    BY <1>2, OtherFields DEF Fields
  <1> QED BY <1>1, <1>2, <1>3, OneBot

LEMMA SuspensionTimed ==
  ASSUME BotsTimed, NEW b \in Live, NEW s \in BOOLEAN, NEW e, NEW E, s /\ e # 0 => e \in E,
         bot' = [bot EXCEPT ![b] = [bot[b] EXCEPT !.suspended = s, !.expiry = e, !.expiries = E]]
  PROVE  BotsTimed'
  <1>1. b \in Bots /\ WellTimed(bot[b])
    BY DEF BotsTimed, Live
  <1>2. WellTimed([bot[b] EXCEPT !.suspended = s, !.expiry = e, !.expiries = E])
    BY <1>1 DEF WellTimed, Fields
  <1> QED BY <1>1, <1>2, OneBot

LEMMA UnsuspendedTimed ==
  ASSUME BotsTimed, NEW b \in Live, NEW E, bot' = Unsuspended(b, E)
  PROVE  BotsTimed'
  <1>1. bot' = [bot EXCEPT ![b] = [bot[b] EXCEPT !.suspended = FALSE, !.expiry = 0, !.expiries = E]]
    BY DEF Unsuspended
  <1> QED BY <1>1, SuspensionTimed

LEMMA SuspendTimed ==
  ASSUME BotsTimed, NEW b, NEW e, cmd_suspend(b, e)
  PROVE  BotsTimed'
  <1>1. PICK E : E = bot[b].expiries \cup ({e} \ {0})
    OBVIOUS
  <1>2. b \in Live
    BY DEF cmd_suspend
  <1>3. bot' = [bot EXCEPT ![b] = [bot[b] EXCEPT !.suspended = TRUE, !.expiry = e, !.expiries = E]]
    BY <1>1 DEF cmd_suspend
  <1>4. e # 0 => e \in E
    BY <1>1
  <1> QED BY <1>2, <1>3, <1>4, SuspensionTimed

LEMMA ToggledTimed ==
  ASSUME NEW B, WellTimed(B)
  PROVE  WellTimed(ToggleWhine(B)) /\ WellTimed(ToggleEmpty(B))
  <1>1. WellTimed(ToggleWhine(B))
    <2>1. CASE B.whineInterval = TRUE
      <3>1. ToggleWhine(B) = [B EXCEPT !.whineInterval = FALSE, !.whineTimers = 0]
        BY <2>1 DEF ToggleWhine
      <3> QED BY <3>1 DEF WellTimed, Fields
    <2>2. CASE B.whineInterval = FALSE
      <3>1. B.whineTimers = 0
        BY <2>2 DEF WellTimed
      <3>2. B.whineTimers + 1 = 1 /\ (~B.whineInterval) = TRUE
        BY <2>2, <3>1
      <3>3. ToggleWhine(B) = [B EXCEPT !.whineInterval = TRUE, !.whineTimers = 1]
        BY <2>2, <3>2 DEF ToggleWhine
      <3> QED BY <3>3 DEF WellTimed, Fields
    <2> QED BY <2>1, <2>2 DEF WellTimed
  <1>2. WellTimed(ToggleEmpty(B))
    <2>1. CASE B.emptyInterval = TRUE
      <3>1. ToggleEmpty(B) = [B EXCEPT !.emptyInterval = FALSE, !.emptyTimers = 0]
        BY <2>1 DEF ToggleEmpty
      <3> QED BY <3>1 DEF WellTimed, Fields
    <2>2. CASE B.emptyInterval = FALSE
      <3>1. B.emptyTimers = 0
        BY <2>2 DEF WellTimed
      <3>2. B.emptyTimers + 1 = 1 /\ (~B.emptyInterval) = TRUE
        BY <2>2, <3>1
      <3>3. ToggleEmpty(B) = [B EXCEPT !.emptyInterval = TRUE, !.emptyTimers = 1]
        BY <2>2, <3>2 DEF ToggleEmpty
      <3> QED BY <3>3 DEF WellTimed, Fields
    <2> QED BY <2>1, <2>2 DEF WellTimed
  <1> QED BY <1>1, <1>2

LEMMA SetTimed ==
  ASSUME BotsTimed, NEW b, cmd_set(b)
  PROVE  BotsTimed'
  <1>1. b \in Bots /\ WellTimed(bot[b])
    BY DEF cmd_set, BotsTimed, Live
  <1>2. \/ \E f \in {"request", "helper", "onjoin", "wrap"} : \E v :
              bot' = [bot EXCEPT ![b] = [bot[b] EXCEPT ![f] = v]]
        \/ bot' = [bot EXCEPT ![b] = ToggleEmpty(bot[b])]
        \/ bot' = [bot EXCEPT ![b] = ToggleWhine(bot[b])]
    BY DEF cmd_set
  <1>3. ASSUME NEW f \in {"request", "helper", "onjoin", "wrap"}, NEW v,
               bot' = [bot EXCEPT ![b] = [bot[b] EXCEPT ![f] = v]]
        PROVE  BotsTimed'
    <2>1. WellTimed([bot[b] EXCEPT ![f] = v])
      BY <1>1, OtherFields DEF Fields
    <2> QED BY <1>1, <1>3, <2>1, OneBot
  <1> QED BY <1>1, <1>2, <1>3, ToggledTimed, OneBot

LEMMA RunsTimed ==
  ASSUME BotsTimed, NEW b, run_empty_interval(b) \/ run_whine_interval(b)
  PROVE  BotsTimed'
  <1>1. b \in Bots /\ WellTimed(bot[b])
    BY DEF run_empty_interval, run_whine_interval, BotsTimed, Live
  <1>2. CASE run_empty_interval(b)
    <2> DEFINE B == [bot[b] EXCEPT !.emptyTimers = @ - 1]
    <2>1. bot[b].emptyTimers = 1
      BY <1>1, <1>2 DEF run_empty_interval, WellTimed
    <2>2. B.emptyTimers = 0 /\ WellTimed(B)
      BY <1>1, <2>1 DEF WellTimed, Fields
    <2>3. bot' = [bot EXCEPT ![b] = RunEmpty(B, HelpersAmong(b, inchan), desk.unhandled[b] # <<>>)]
      BY <1>2 DEF run_empty_interval
    <2> HIDE DEF B
    <2>4. WellTimed(RunEmpty(B, HelpersAmong(b, inchan), desk.unhandled[b] # <<>>))
      BY <2>2, RunEmptyTimed, Zenon
    <2> QED BY <1>1, <2>3, <2>4, OneBot, Zenon
  <1>3. CASE run_whine_interval(b)
    <2> DEFINE n == bot[b].whineTimers - 1 + IF bot[b].whineInterval THEN 1 ELSE 0
    <2>1. bot[b].whineTimers > 0 /\ bot' = [bot EXCEPT ![b] = [bot[b] EXCEPT !.whineTimers = n]]
      BY <1>3 DEF run_whine_interval
    <2>2. n = bot[b].whineTimers
      BY <1>1, <2>1 DEF WellTimed
    <2> HIDE DEF n
    <2>3. WellTimed([bot[b] EXCEPT !.whineTimers = n])
      BY <1>1, <2>2 DEF WellTimed, Fields
    <2> QED BY <1>1, <2>1, <2>3, OneBot
  <1> QED BY <1>2, <1>3

LEMMA JoinTimed ==
  ASSUME BotsTimed, NEW u, handle_join(u)
  PROVE  BotsTimed'
  <1>1. CASE bot' = bot
    BY <1>1, NoBot
  <1>2. ASSUME NEW b \in Live, JoinBot(u, b), bot' # bot
        PROVE  BotsTimed'
    <2>1. b \in Bots /\ WellTimed(bot[b])
      BY DEF BotsTimed, Live
    <2>2. PICK d : \/ bot' = [bot EXCEPT ![b] = [bot[b] EXCEPT !.empty = FALSE, !.emptyTimers = 0]]
                   \/ bot' = [bot EXCEPT ![b] = bot[b]]
                   \/ create_request(u, b, d, TRUE)
      BY <1>2 DEF JoinBot
    <2>3. WellTimed([bot[b] EXCEPT !.empty = FALSE, !.emptyTimers = 0])
      BY <2>1 DEF WellTimed, Fields
    <2>4. CASE bot' = [bot EXCEPT ![b] = [bot[b] EXCEPT !.empty = FALSE, !.emptyTimers = 0]]
      BY <2>1, <2>3, <2>4, OneBot
    <2>5. CASE bot' = [bot EXCEPT ![b] = bot[b]]
      BY <2>1, <2>5, OneBot
    <2>6. CASE create_request(u, b, d, TRUE)
      BY <2>6, CreateRequestTimed
    <2> QED BY <2>2, <2>4, <2>5, <2>6
  <1> QED BY <1>1, <1>2 DEF handle_join

LEMMA PartBotTimed ==
  ASSUME NEW b \in Live, BotsTimed, NEW u, NEW d
  PROVE  WellTimed(PartBot(b, u, d))
  <1>1. b \in Bots /\ WellTimed(bot[b])
    BY DEF BotsTimed, Live
  <1>2. CASE ~LastHelper(b, u)
    BY <1>1, <1>2 DEF PartBot
  <1>3. CASE LastHelper(b, u)
    <2>1. PICK e : e = ~HelpersAmong(b, inchan \ {u})
      OBVIOUS
    <2>2. \/ PartBot(b, u, d) = [bot[b] EXCEPT !.empty = e, !.emptyTimers = 1]
          \/ PartBot(b, u, d) = [bot[b] EXCEPT !.empty = e, !.emptyTimers = bot[b].emptyTimers]
      BY <1>3, <2>1 DEF PartBot
    <2>3. bot[b].emptyInterval = TRUE
      BY <1>1, <1>3 DEF LastHelper, WellTimed
    <2>4. WellTimed([bot[b] EXCEPT !.empty = e, !.emptyTimers = 1])
      BY <1>1, <2>3 DEF WellTimed, Fields
    <2>5. bot[b].emptyTimers \in Nat /\ bot[b].emptyTimers <= IF bot[b].emptyInterval THEN 1 ELSE 0
      BY <1>1 DEF WellTimed
    <2>6. WellTimed([bot[b] EXCEPT !.empty = e, !.emptyTimers = bot[b].emptyTimers])
      BY <1>1, <2>5, EmptyTimed
    <2> QED BY <2>2, <2>4, <2>6
  <1> QED BY <1>2, <1>3

LEMMA LeaveTimed ==
  ASSUME BotsTimed, NEW u, handle_part(u) \/ handle_quit(u)
  PROVE  BotsTimed'
  <1>1. PICK d : \/ bot' = [b \in Bots |-> IF b \in Live THEN PartBot(b, u, d) ELSE None]
                 \/ bot' = [b \in Bots |-> IF u \in inchan /\ b \in Live
                                           THEN PartBot(b, u, d) ELSE bot[b]]
    BY DEF handle_part, handle_quit
  <1>2. DOMAIN bot' = Bots
    BY <1>1
  <1>3. ASSUME NEW b \in Bots
        PROVE  bot'[b] = None \/ WellTimed(bot'[b])
    <2>1. bot'[b] = None \/ bot'[b] = bot[b] \/ (b \in Live /\ bot'[b] = PartBot(b, u, d))
      BY <1>1
    <2>2. bot[b] = None \/ WellTimed(bot[b])
      BY DEF BotsTimed, Live
    <2> QED BY <2>1, <2>2, PartBotTimed
  <1> QED BY <1>2, <1>3, AllBots

LEMMA UnregisterTimed ==
  ASSUME BotsTimed, NEW S, unregister_helpserv(S)
  PROVE  BotsTimed'
  <1>1. bot' = [b \in Bots |-> IF b \in S THEN None ELSE bot[b]]
    BY DEF unregister_helpserv
  <1> QED BY <1>1, AllBots DEF BotsTimed, Live

LEMMA AccountGoneTimed ==
  ASSUME BotsTimed, NEW h,
         bot' = [b \in Bots |-> IF b \in Live THEN [bot[b] EXCEPT !.level[h] = 0] ELSE None]
  PROVE  BotsTimed'
  <1>1. ASSUME NEW b \in Live
        PROVE  WellTimed(bot'[b])
    <2>1. PICK l : bot'[b] = [bot[b] EXCEPT !.level = l]
      BY DEF Live
    <2>2. WellTimed(bot[b])
      BY DEF BotsTimed
    <2> QED BY <2>1, <2>2, OtherFields DEF Fields
  <1> QED BY <1>1, AllBots DEF Live

LEMMA RestartTimed ==
  ASSUME BotsTimed, HelpRestart
  PROVE  BotsTimed'
  <1>1. DOMAIN bot' = Bots
    BY DEF HelpRestart
  <1>2. ASSUME NEW b \in Live
        PROVE  WellTimed(bot'[b])
    <2>1. b \in Bots /\ WellTimed(bot[b])
      BY DEF BotsTimed, Live
    <2>2. PICK n, w, e, E :
            /\ bot'[b] = [bot[b] EXCEPT !.empty = FALSE, !.emptyTimers = n, !.whineTimers = w,
                                       !.expiry = e, !.expiries = E]
            /\ n = IF bot[b].emptyInterval THEN 1 ELSE 0
            /\ w = IF bot[b].whineInterval THEN 1 ELSE 0
            /\ bot[b].suspended => e = bot[b].expiry /\ E = {bot[b].expiry} \ {0}
      BY <2>1 DEF HelpRestart
    <2>3. bot[b].suspended /\ e # 0 => e \in E
      BY <2>2
    <2>4. n \in Nat /\ n <= IF bot[b].emptyInterval THEN 1 ELSE 0
      BY <2>2
    <2> QED BY <2>1, <2>2, <2>3, <2>4 DEF WellTimed, Fields
  <1>3. \A b \in Bots : b \notin Live => bot'[b] = None
    BY DEF HelpRestart
  <1> QED BY <1>1, <1>2, <1>3, AllBots

\* The steps of the helpers and of those who run the bot.
LEMMA CommandsTimed ==
  ASSUME BotsTimed, NEW u, NEW v, NEW b \in Bots, NEW h, NEW lvl,
         \/ helpserv_usermsg(u, b) \/ usercmd_close(u, b) \/ cmd_next(u, b)
         \/ cmd_pickup(u, b) \/ cmd_close(u, b) \/ cmd_reassign(u, v, b)
         \/ cmd_deluser(u, b, h) \/ cmd_giveownership(u, b, h)
         \/ cmd_add_user(u, b, h, lvl) \/ cmd_clvl(u, b, h, lvl)
  PROVE  BotsTimed'
  <1>1. CASE helpserv_usermsg(u, b)
    BY <1>1, UsermsgTimed
  <1>2. CASE usercmd_close(u, b) \/ cmd_close(u, b)
    BY <1>2, NoBot DEF usercmd_close, cmd_close
  <1>3. CASE cmd_next(u, b) \/ cmd_pickup(u, b) \/ cmd_reassign(u, v, b)
    <2>1. b \in Live
      BY <1>3 DEF cmd_next, cmd_pickup, cmd_reassign, Actor
    <2>2. PICK w, a, r : helpserv_assign(w, a, b, r)
      BY <1>3 DEF cmd_next, cmd_pickup, cmd_reassign
    <2> QED BY <2>1, <2>2, AssignTimed
  <1>4. CASE cmd_deluser(u, b, h) \/ cmd_add_user(u, b, h, lvl) \/ cmd_clvl(u, b, h, lvl)
    <2>1. b \in Live
      BY <1>4 DEF cmd_deluser, cmd_add_user, cmd_clvl
    <2>2. PICK l : SetLevel(b, h, l)
      BY <1>4 DEF cmd_deluser, cmd_add_user, cmd_clvl
    <2> QED BY <2>1, <2>2, SetLevelTimed
  <1>5. CASE cmd_giveownership(u, b, h)
    BY <1>5, GiveownershipTimed
  <1> QED BY <1>1, <1>2, <1>3, <1>4, <1>5

LEMMA BotStepsTimed ==
  ASSUME BotsTimed, NEW b \in Bots, NEW h, NEW e,
         \/ cmd_register_bot(b, h) \/ cmd_unregister_bot(b) \/ cmd_unsuspend(b) \/ cmd_set(b)
         \/ cmd_suspend(b, e) \/ helpserv_expire_suspension(b)
         \/ run_empty_interval(b) \/ run_whine_interval(b)
  PROVE  BotsTimed'
  <1>1. CASE cmd_register_bot(b, h)
    BY <1>1, NewBotTimed, OneBot DEF cmd_register_bot
  <1>2. CASE cmd_unregister_bot(b)
    BY <1>2, UnregisterTimed DEF cmd_unregister_bot
  <1>3. CASE cmd_unsuspend(b) \/ helpserv_expire_suspension(b)
    <2>1. b \in Live
      BY <1>3 DEF cmd_unsuspend, helpserv_expire_suspension
    <2>2. PICK E : bot' = Unsuspended(b, E)
      BY <1>3 DEF cmd_unsuspend, helpserv_expire_suspension
    <2> QED BY <2>1, <2>2, UnsuspendedTimed
  <1>4. CASE cmd_suspend(b, e)
    BY <1>4, SuspendTimed
  <1>5. CASE cmd_set(b)
    BY <1>5, SetTimed
  <1>6. CASE run_empty_interval(b) \/ run_whine_interval(b)
    BY <1>6, RunsTimed
  <1> QED BY <1>1, <1>2, <1>3, <1>4, <1>5, <1>6

LEMMA ExpireTimed ==
  ASSUME BotsTimed, cmd_expire
  PROVE  BotsTimed'
  BY UnregisterTimed DEF cmd_expire

LEMMA EventsTimed ==
  ASSUME BotsTimed, NEW u, NEW n, NEW g, NEW h,
         \/ NewUser(u, n) \/ handle_nickchange(u, n) \/ handle_join(u) \/ handle_part(u)
         \/ handle_quit(u) \/ cmd_logout(u) \/ handle_nickserv_auth(u, h)
         \/ RegisterAccount(h) \/ handle_nickserv_unreg(u, h) \/ handle_nickserv_merge(g, h)
  PROVE  BotsTimed'
  <1>1. CASE \/ NewUser(u, n) \/ handle_nickchange(u, n) \/ cmd_logout(u)
             \/ handle_nickserv_auth(u, h) \/ RegisterAccount(h)
    <2>1. bot' = bot
      BY <1>1 DEF NewUser, handle_nickchange, cmd_logout, handle_nickserv_auth, RegisterAccount
    <2> QED BY <2>1, NoBot
  <1>2. CASE handle_join(u)
    BY <1>2, JoinTimed
  <1>3. CASE handle_part(u) \/ handle_quit(u)
    BY <1>3, LeaveTimed
  <1>4. CASE handle_nickserv_unreg(u, h) \/ handle_nickserv_merge(g, h)
    <2>1. bot' = [b \in Bots |-> IF b \in Live THEN [bot[b] EXCEPT !.level[h] = 0] ELSE None]
      BY <1>4 DEF handle_nickserv_unreg, handle_nickserv_merge
    <2> QED BY <2>1, AccountGoneTimed
  <1> QED BY <1>1, <1>2, <1>3, <1>4

LEMMA NextTimed ==
  ASSUME BotsTimed, [HelpNext]_<<hsVars, clock>>
  PROVE  BotsTimed'
  <1>1. ASSUME NEW u, NEW v, NEW b \in Bots, NEW h, NEW lvl,
               \/ helpserv_usermsg(u, b) \/ usercmd_close(u, b) \/ cmd_next(u, b)
               \/ cmd_pickup(u, b) \/ cmd_close(u, b) \/ cmd_reassign(u, v, b)
               \/ cmd_deluser(u, b, h) \/ cmd_giveownership(u, b, h)
               \/ cmd_add_user(u, b, h, lvl) \/ cmd_clvl(u, b, h, lvl)
        PROVE  BotsTimed'
    BY <1>1, CommandsTimed
  <1>2. ASSUME NEW b \in Bots, NEW h, NEW e,
               \/ cmd_register_bot(b, h) \/ cmd_unregister_bot(b) \/ cmd_unsuspend(b) \/ cmd_set(b)
               \/ cmd_suspend(b, e) \/ helpserv_expire_suspension(b)
               \/ run_empty_interval(b) \/ run_whine_interval(b)
        PROVE  BotsTimed'
    BY <1>2, BotStepsTimed
  <1>3. ASSUME NEW u, NEW n, NEW g, NEW h,
               \/ NewUser(u, n) \/ handle_nickchange(u, n) \/ handle_join(u) \/ handle_part(u)
               \/ handle_quit(u) \/ cmd_logout(u) \/ handle_nickserv_auth(u, h)
               \/ RegisterAccount(h) \/ handle_nickserv_unreg(u, h)
               \/ handle_nickserv_merge(g, h)
        PROVE  BotsTimed'
    BY <1>3, EventsTimed
  <1>4. CASE cmd_expire
    BY <1>4, ExpireTimed
  <1>5. CASE HelpRestart
    BY <1>5, RestartTimed
  <1>6. CASE EndOfBurst \/ HelpTick \/ UNCHANGED <<hsVars, clock>>
    BY <1>6, NoBot DEF EndOfBurst, HelpTick, hsVars
  <1> QED BY <1>1, <1>2, <1>3, <1>4, <1>5, <1>6 DEF HelpNext

(* IntervalsTimed holds for any bots, clients, accounts and settings: no   *)
(* order of SET, joins, parts, requests, firings and restarts leaves a     *)
(* whine or empty timer doubled, or a suspension that nothing will end.    *)
THEOREM TimersRight == HelpSpec => []IntervalsTimed
  <1>1. HelpInit => BotsTimed
    BY DEF HelpInit, BotsTimed, Live
  <1>2. BotsTimed /\ [HelpNext]_<<hsVars, clock>> => BotsTimed'
    BY NextTimed
  <1>3. BotsTimed => IntervalsTimed
    BY DEF BotsTimed, WellTimed, IntervalsTimed
  <1> QED BY <1>1, <1>2, <1>3, PTL DEF HelpSpec

-----------------------------------------------------------------------------
(* Spam control                                                            *)

InfoFields == {"flags", "warn", "last", "spam", "flood", "joins"}
ChanFields == {"susp", "expiry", "scans", "except", "limit", "exceptions", "badwords", "react"}

\* struct valueData of the reactions: kick, ban, short and long timed ban, kill.
Reacts == {"k", "b", "s", "l", "d"}

\* Clients outside do not send to a channel, and SET REACTION knows the five reactions only.
Closed == Outside = FALSE /\ Reactions \subseteq Reacts

GoodChan(r) ==
    /\ DOMAIN r = ChanFields /\ r.susp \in BOOLEAN
    /\ DOMAIN r.react = Kinds \union {"warn"}
    /\ \A k \in Kinds \union {"warn"} : r.react[k] \in Reacts

Watch ==
    /\ DOMAIN csChannels = Channels /\ DOMAIN registered \subseteq Channels /\ bots \subseteq Channels
    /\ \A c \in DOMAIN registered : GoodChan(registered[c]) /\ csChannels[c] \in {"on", "suspended"}
    /\ \A c \in DOMAIN registered \ astray :
        csChannels[c] = IF registered[c].susp THEN "suspended" ELSE "on"
    /\ \A c \in Channels \ astray : c \in bots <=> c \in DOMAIN registered /\ ~registered[c].susp

GoodInfo(i) == DOMAIN i = InfoFields /\ ("killed" \in i.flags => "kill" \notin i.flags)

Counts ==
    /\ DOMAIN members = Channels
    /\ \A u \in DOMAIN infos :
        /\ GoodInfo(infos[u])
        /\ \A c \in DOMAIN infos[u].spam \ astray : c \in bots /\ u \in members[c]

-----------------------------------------------------------------------------
\* The entry j a line makes of i in channel c.
Kept(i, j, c) ==
    /\ GoodInfo(j)
    /\ "killed" \in j.flags <=> "killed" \in i.flags
    /\ DOMAIN j.spam \subseteq DOMAIN i.spam \union {c}

LEMMA ReactionKept ==
    ASSUME NEW i, NEW j, NEW c, Kept(i, j, c), NEW r \in Reacts
    PROVE  Kept(i, Reaction(j, r), c)
  <1> DEFINE f == IF r = "d" THEN (IF "killed" \in j.flags THEN "gline" ELSE "kill") ELSE r
  <1>1. f # "killed" /\ (f = "kill" => "killed" \notin j.flags)
    BY DEF Reacts
  <1> HIDE DEF f
  <1>2. PICK F : F = j.flags \union {f}
    OBVIOUS
  <1>3. Reaction(j, r) = [j EXCEPT !.flags = F]
    BY <1>2 DEF Reaction, f
  <1>4. DOMAIN j = InfoFields
    BY DEF Kept, GoodInfo
  <1>5. /\ DOMAIN [j EXCEPT !.flags = F] = InfoFields /\ [j EXCEPT !.flags = F].flags = F
        /\ [j EXCEPT !.flags = F].spam = j.spam
    BY <1>4 DEF InfoFields
  <1>6. "killed" \in F <=> "killed" \in j.flags
    BY <1>1, <1>2
  <1>7. "killed" \in F => "kill" \notin F
    BY <1>1, <1>2 DEF Kept, GoodInfo
  <1> QED BY <1>3, <1>5, <1>6, <1>7 DEF Kept, GoodInfo

LEMMA FieldKept ==
    ASSUME NEW i, NEW j, NEW c, Kept(i, j, c), NEW v, NEW f \in {"warn", "last", "flood", "joins"}
    PROVE  Kept(i, [j EXCEPT ![f] = v], c)
  BY DEF Kept, GoodInfo, InfoFields

LEMMA WarnedKept ==
    ASSUME NEW i, NEW j, NEW c, Kept(i, j, c), NEW n
    PROVE  Kept(i, Warned(j, n), c)
  BY FieldKept DEF Warned

LEMMA FlagKept ==
    ASSUME NEW i, NEW j, NEW c, Kept(i, j, c), NEW f, f \notin {"kill", "killed"}
    PROVE  Kept(i, [j EXCEPT !.flags = @ \union {f}], c)
  BY DEF Kept, GoodInfo, InfoFields

LEMMA SpamKept ==
    ASSUME NEW i, NEW j, NEW c, Kept(i, j, c), NEW s, DOMAIN s \subseteq DOMAIN j.spam \union {c}
    PROVE  Kept(i, [j EXCEPT !.spam = s], c)
  BY DEF Kept, GoodInfo, InfoFields

\* The state of the scans after some of them.
Going(i, st, c) == DOMAIN st = {"info", "violation", "over"} /\ Kept(i, st.info, c)

LEMMA GoingOn ==
    ASSUME NEW i, NEW st, NEW c, Going(i, st, c), NEW j, Kept(i, j, c)
    PROVE  /\ Going(i, [st EXCEPT !.over = TRUE], c)
           /\ Going(i, [st EXCEPT !.info = j], c)
           /\ Going(i, [st EXCEPT !.info = j, !.violation = TRUE], c)
  BY DEF Going

LEMMA WarnScanGoing ==
    ASSUME NEW i, NEW st, NEW c, Going(i, st, c), NEW chan, GoodChan(chan), NEW u,
           NEW kind \in Kinds, NEW level, NEW hit
    PROVE  Going(i, WarnScan(st, chan, u, kind, level, hit), c)
  <1> DEFINE j1 == Warned(Reaction(st.info, chan.react[kind]), 2)
             j2 == [Warned(st.info, 2) EXCEPT !.flags = @ \union {kind}]
             j3 == [Warned(st.info, 2) EXCEPT !.flags = @ \union {kind}, !.last[kind] = now]
  <1>1. Kept(i, st.info, c) /\ chan.react[kind] \in Reacts /\ kind \notin {"kill", "killed"}
    BY DEF Going, GoodChan, Kinds
  <1>2. Kept(i, j1, c)
    BY <1>1, ReactionKept, WarnedKept
  <1>3. Kept(i, Warned(st.info, 2), c)
    BY <1>1, WarnedKept
  <1>4. Kept(i, j2, c)
    BY <1>1, <1>3, FlagKept
  <1>5. Kept(i, j3, c)
    <2>1. PICK l : l = [Warned(st.info, 2).last EXCEPT ![kind] = now]
      OBVIOUS
    <2>2. j3 = [j2 EXCEPT !.last = l]
      BY <1>3, <2>1 DEF Kept, GoodInfo, InfoFields
    <2> HIDE DEF j2, j3
    <2> QED BY <1>4, <2>2, FieldKept
  <1>6. /\ Going(i, [st EXCEPT !.over = TRUE], c)
        /\ Going(i, [st EXCEPT !.info = j1, !.violation = TRUE], c)
        /\ Going(i, [st EXCEPT !.info = j3], c)
    <2> HIDE DEF j1, j3
    <2> QED BY <1>2, <1>5, GoingOn
  <1>7. CASE st.over \/ ~hit \/ kind \notin chan.scans
    BY <1>7 DEF WarnScan
  <1>8. CASE ~(st.over \/ ~hit \/ kind \notin chan.scans) /\ u \in Ranked /\ level \in chan.except
    BY <1>6, <1>8 DEF WarnScan
  <1>9. CASE ~(st.over \/ ~hit \/ kind \notin chan.scans) /\ ~(u \in Ranked /\ level \in chan.except)
    <2>1. CASE kind \in st.info.flags
      BY <1>6, <1>9, <2>1 DEF WarnScan
    <2>2. CASE kind \notin st.info.flags
      BY <1>6, <1>9, <2>2 DEF WarnScan
    <2> QED BY <2>1, <2>2
  <1> QED BY <1>7, <1>8, <1>9

LEMMA SpamScanGoing ==
    ASSUME NEW i, NEW st, NEW c, Going(i, st, c), NEW chan, GoodChan(chan), NEW u, NEW text
    PROVE  Going(i, SpamScan(st, chan, u, c, text), c)
  <1> DEFINE n == st.info.spam[c].count + 1
             w == Warned(Reaction(st.info, chan.react["warn"]), 1)
             l == Warned(st.info, IF n = chan.limit THEN 1 ELSE 0)
             j1 == [st.info EXCEPT !.spam = Put(@, c, [text |-> text, count |-> 1])]
             j2 == [w EXCEPT !.spam = Drop(@, {c})]
             j3 == [l EXCEPT !.spam[c].count = n]
  <1>1. Kept(i, st.info, c) /\ chan.react["warn"] \in Reacts
    BY DEF Going, GoodChan
  <1>2. Kept(i, w, c) /\ Kept(i, l, c)
    BY <1>1, ReactionKept, WarnedKept
  <1>3. Kept(i, j1, c)
    <2>1. DOMAIN Put(st.info.spam, c, [text |-> text, count |-> 1]) \subseteq DOMAIN st.info.spam \union {c}
      BY DEF Put
    <2> QED BY <1>1, <2>1, SpamKept
  <1> HIDE DEF w, l
  <1>4. Kept(i, j2, c)
    <2>1. DOMAIN Drop(w.spam, {c}) \subseteq DOMAIN w.spam \union {c}
      BY DEF Drop
    <2> QED BY <1>2, <2>1, SpamKept
  <1>5. Kept(i, j3, c)
    <2>1. PICK s : s = [l.spam EXCEPT ![c].count = n]
      OBVIOUS
    <2>2. j3 = [l EXCEPT !.spam = s] /\ DOMAIN s \subseteq DOMAIN l.spam \union {c}
      BY <2>1
    <2> HIDE DEF j3
    <2> QED BY <1>2, <2>2, SpamKept
  <1>6. /\ Going(i, [st EXCEPT !.over = TRUE], c)
        /\ Going(i, [st EXCEPT !.info = j1], c)
        /\ Going(i, [st EXCEPT !.info = j2, !.violation = TRUE], c)
        /\ Going(i, [st EXCEPT !.info = j3], c)
    <2> HIDE DEF j1, j2, j3
    <2> QED BY <1>3, <1>4, <1>5, GoingOn
  <1> DEFINE A == st.over \/ "spam" \notin chan.scans
             B == u \in Ranked /\ "spam" \in chan.except
             C == c \notin DOMAIN st.info.spam \/ st.info.spam[c].text # text
  <1> USE DEF w, l
  <1>7. CASE A
    BY <1>7 DEF SpamScan
  <1>8. CASE ~A /\ B
    BY <1>6, <1>8 DEF SpamScan
  <1>9. CASE ~A /\ ~B /\ C
    BY <1>6, <1>9 DEF SpamScan
  <1>10. CASE ~A /\ ~B /\ ~C /\ n > chan.limit
    BY <1>6, <1>10 DEF SpamScan
  <1>11. CASE ~A /\ ~B /\ ~C /\ ~(n > chan.limit)
    BY <1>6, <1>11 DEF SpamScan
  <1> QED BY <1>7, <1>8, <1>9, <1>10, <1>11

LEMMA FloodScanGoing ==
    ASSUME NEW i, NEW st, NEW c, Going(i, st, c), NEW chan, GoodChan(chan), NEW u
    PROVE  Going(i, FloodScan(st, chan, u, c), c)
  <1> DEFINE r == Reaction(st.info, chan.react["warn"])
             Result(j) == \/ FloodScan(st, chan, u, c) = [st EXCEPT !.info = j]
                          \/ FloodScan(st, chan, u, c) = [st EXCEPT !.info = j, !.violation = TRUE]
  <1>1. Kept(i, st.info, c) /\ chan.react["warn"] \in Reacts
    BY DEF Going, GoodChan
  <1>2. Kept(i, Warned(r, 1), c) /\ Kept(i, Warned(st.info, 1), c)
    BY <1>1, ReactionKept, WarnedKept
  <1>3. \/ FloodScan(st, chan, u, c) = st
        \/ FloodScan(st, chan, u, c) = [st EXCEPT !.over = TRUE]
        \/ \E f : Result([st.info EXCEPT !.flood = f])
        \/ \E f : Result([Warned(r, 1) EXCEPT !.flood = f])
        \/ \E f : Result([Warned(st.info, 1) EXCEPT !.flood = f])
    BY DEF FloodScan
  <1> HIDE DEF Result, r
  <1>4. ASSUME NEW k, Kept(i, k, c), NEW f, Result([k EXCEPT !.flood = f])
        PROVE  Going(i, FloodScan(st, chan, u, c), c)
    <2>1. PICK j : j = [k EXCEPT !.flood = f]
      OBVIOUS
    <2>2. Kept(i, j, c)
      BY <1>4, <2>1, FieldKept
    <2>3. /\ Going(i, [st EXCEPT !.info = j], c)
          /\ Going(i, [st EXCEPT !.info = j, !.violation = TRUE], c)
      BY <2>2, GoingOn
    <2> QED BY <1>4, <2>1, <2>3 DEF Result
  <1>5. Going(i, [st EXCEPT !.over = TRUE], c)
    BY <1>1, GoingOn
  <1> QED BY <1>1, <1>2, <1>3, <1>4, <1>5

LEMMA LevelScanGoing ==
    ASSUME NEW i, NEW st, NEW c, Going(i, st, c)
    PROVE  Going(i, LevelScan(st), c)
  <1> DEFINE j1 == [st.info EXCEPT !.flags = @ \union {"warned"}]
             j2 == Reaction(st.info, "d")
  <1>1. Kept(i, st.info, c) /\ "d" \in Reacts
    BY DEF Going, Reacts
  <1>2. Kept(i, j1, c)
    BY <1>1, FlagKept
  <1>3. Kept(i, j2, c)
    BY <1>1, ReactionKept
  <1>4. \/ LevelScan(st) = st
        \/ LevelScan(st) = [st EXCEPT !.info = j1]
        \/ LevelScan(st) = [st EXCEPT !.info = j2, !.violation = TRUE]
    BY DEF LevelScan
  <1> HIDE DEF j1, j2
  <1>5. Going(i, [st EXCEPT !.info = j1], c) /\ Going(i, [st EXCEPT !.info = j2, !.violation = TRUE], c)
    BY <1>2, <1>3, GoingOn
  <1> QED BY <1>4, <1>5

LEMMA ScannedKept ==
    ASSUME NEW u, NEW c, NEW text, GoodInfo(infos[u]), GoodChan(registered[c])
    PROVE  Kept(infos[u], Scanned(u, c, text).info, c)
  <1> DEFINE chan  == registered[c]
             plain == text \intersect chan.exceptions = {}
             i  == infos[u]
             s0 == [info |-> infos[u], violation |-> FALSE, over |-> FALSE]
             s1 == WarnScan(s0, chan, u, "caps", "caps", "caps" \in text)
             s2 == SpamScan(s1, chan, u, c, text \ {"caps"})
             s3 == FloodScan(s2, chan, u, c)
             s4 == WarnScan(s3, chan, u, "bad", "bad", plain /\ text \intersect chan.badwords # {})
             s5 == WarnScan(s4, chan, u, "adv", "spam", plain /\ "adv" \in text)
  <1>0. Scanned(u, c, text) = LevelScan(s5)
    BY DEF Scanned
  <1>1. Going(i, s0, c)
    BY DEF Going, Kept
  <1> HIDE DEF s0, i, chan
  <1>2. GoodChan(chan) /\ {"caps", "bad", "adv"} \subseteq Kinds
    BY DEF chan, Kinds
  <1>3. Going(i, s1, c)
    BY <1>1, <1>2, WarnScanGoing, Zenon
  <1> HIDE DEF s1
  <1>4. Going(i, s2, c)
    BY <1>2, <1>3, SpamScanGoing
  <1> HIDE DEF s2
  <1>5. Going(i, s3, c)
    BY <1>2, <1>4, FloodScanGoing
  <1> HIDE DEF s3
  <1>6. Going(i, s4, c)
    BY <1>2, <1>5, WarnScanGoing, Zenon
  <1> HIDE DEF s4
  <1>7. Going(i, s5, c)
    BY <1>2, <1>6, WarnScanGoing, Zenon
  <1> HIDE DEF s5
  <1>8. Going(i, LevelScan(s5), c)
    BY <1>7, LevelScanGoing
  <1> QED BY <1>0, <1>8 DEF Going, i

-----------------------------------------------------------------------------
\* Watch: who changes the registrations.

LEMMA NoWatch ==
    ASSUME Watch, UNCHANGED <<csChannels, registered, bots>>, astray \subseteq astray'
    PROVE  Watch'
  BY DEF Watch, GoodChan

\* A registration goes.
LEMMA UnregisterWatch ==
    ASSUME Watch, NEW c, Unregister(c), DOMAIN csChannels' = Channels, astray \subseteq astray',
           \A d \in Channels \ {c} : csChannels'[d] = csChannels[d]
    PROVE  Watch'
  <1>1. registered' = Drop(registered, {c})
    BY DEF Unregister
  <1>2. /\ bots' \subseteq bots /\ bots \ {c} \subseteq bots'
        /\ c \in DOMAIN registered /\ ~registered[c].susp => c \notin bots'
    BY DEF Unregister, PartIf
  <1>3. c \in Channels \ astray => c \notin bots'
    BY <1>2 DEF Watch
  <1> QED BY <1>1, <1>2, <1>3 DEF Watch, Drop, GoodChan

LEMMA RegisterWatch ==
    ASSUME Watch, NEW c \in Channels, cmd_register(c)
    PROVE  Watch'
  <1>1. PICK r : r = spamserv_register_channel
    OBVIOUS
  <1>2. GoodChan(r) /\ r.susp = FALSE
    BY <1>1 DEF spamserv_register_channel, GoodChan, ChanFields, Reacts, Kinds
  <1>3. /\ registered' = Put(registered, c, r) /\ bots' = bots \union {c}
        /\ csChannels' = csChannels /\ csChannels[c] = "on" /\ c \notin DOMAIN registered
        /\ astray' = astray
    BY <1>1 DEF cmd_register
  <1> QED BY <1>2, <1>3 DEF Watch, Put, GoodChan

LEMMA SuspendWatch ==
    ASSUME Watch, NEW c \in Channels, NEW e, Suspend(c, e)
    PROVE  Watch'
  <1>1. CASE c \in DOMAIN registered
    <2>1. PICK r : r = [registered[c] EXCEPT !.susp = TRUE, !.expiry = e]
      OBVIOUS
    <2>2. registered' = [registered EXCEPT ![c] = r]
      BY <1>1, <2>1 DEF Suspend
    <2>3. GoodChan(r) /\ r.susp = TRUE
      BY <1>1, <2>1 DEF Watch, GoodChan, ChanFields
    <2>4. bots' = bots \ {c} /\ csChannels' = [csChannels EXCEPT ![c] = "suspended"] /\ astray' = astray
      BY <1>1 DEF Suspend, PartIf
    <2> QED BY <1>1, <2>2, <2>3, <2>4 DEF Watch, GoodChan
  <1>2. CASE c \notin DOMAIN registered
    <2>1. /\ registered' = registered /\ bots' = bots
          /\ csChannels' = [csChannels EXCEPT ![c] = "suspended"] /\ astray' = astray
      BY <1>2 DEF Suspend, PartIf
    <2> QED BY <1>2, <2>1 DEF Watch, GoodChan
  <1> QED BY <1>1, <1>2

LEMMA UnsuspendWatch ==
    ASSUME Watch, NEW c \in Channels, Unsuspend(c)
    PROVE  Watch'
  <1>0. csChannels' = [csChannels EXCEPT ![c] = "on"]
    BY DEF Unsuspend
  <1>1. CASE IsOffChannel(c)
    <2>1. registered' = registered /\ bots' = bots
      BY <1>1 DEF Unsuspend
    <2>2. astray' = astray \union ({c} \intersect DOMAIN registered)
      BY <1>1 DEF Unsuspend
    <2> QED BY <1>0, <2>1, <2>2 DEF Watch, GoodChan
  <1>2. CASE ~IsOffChannel(c) /\ c \in DOMAIN registered
    <2>1. PICK r : r = [registered[c] EXCEPT !.susp = FALSE, !.expiry = 0]
      OBVIOUS
    <2>2. registered' = [registered EXCEPT ![c] = r]
      BY <1>2, <2>1 DEF Unsuspend, Lifted
    <2>3. GoodChan(r) /\ r.susp = FALSE
      BY <1>2, <2>1 DEF Watch, GoodChan, ChanFields
    <2>4. bots' = bots \union {c} /\ astray' = astray
      BY <1>2 DEF Unsuspend
    <2> QED BY <1>0, <1>2, <2>2, <2>3, <2>4 DEF Watch, GoodChan
  <1>3. CASE ~IsOffChannel(c) /\ c \notin DOMAIN registered
    <2>1. registered' = registered /\ bots' = bots /\ astray' = astray
      BY <1>3 DEF Unsuspend, Lifted
    <2> QED BY <1>0, <1>3, <2>1 DEF Watch, GoodChan
  <1> QED BY <1>1, <1>2, <1>3

\* The registration of c goes to the target; where ChanServ disagrees, the target is astray.
LEMMA MovedWatch ==
    ASSUME Watch, NEW c \in DOMAIN registered, NEW target \in Channels, target \notin DOMAIN registered,
           NEW joins, c \in astray \/ csChannels'[target] # csChannels[c] \/ (joins <=> ~registered[c].susp),
           MoveMerge(c, target, joins), AllowMoveMerge, c # target,
           DOMAIN csChannels' = Channels,
           \A d \in Channels \ {c, target} : csChannels'[d] = csChannels[d],
           csChannels'[target] \in {"on", "suspended"}
    PROVE  Watch'
  <1>1. PICK r : r = registered[c]
    OBVIOUS
  <1>2. registered' = Put(Drop(registered, {c}), target, r)
    BY <1>1 DEF MoveMerge
  <1>3. bots' = (IF r.susp THEN bots ELSE bots \ {c}) \union (IF joins THEN {target} ELSE {})
    BY <1>1 DEF MoveMerge, PartIf
  <1>4. /\ GoodChan(r)
        /\ c \notin astray => /\ csChannels[c] = IF r.susp THEN "suspended" ELSE "on"
                              /\ c \in bots <=> ~r.susp
    BY <1>1 DEF Watch
  <1>5. /\ astray \subseteq astray'
        /\ target \notin astray' => c \notin astray /\ csChannels'[target] = csChannels[c]
    BY DEF MoveMerge
  <1>6. DOMAIN registered' = (DOMAIN registered \ {c}) \union {target}
    BY <1>2 DEF Put, Drop
  <1>7. registered'[target] = r /\ \A d \in DOMAIN registered \ {c} : registered'[d] = registered[d]
    BY <1>2 DEF Put, Drop
  <1>8. \A d \in DOMAIN registered' :
          /\ GoodChan(registered'[d]) /\ csChannels'[d] \in {"on", "suspended"}
          /\ d \notin astray' => csChannels'[d] = IF registered'[d].susp THEN "suspended" ELSE "on"
    BY <1>4, <1>5, <1>6, <1>7 DEF Watch
  <1>9. ASSUME NEW d \in Channels \ astray'
        PROVE  d \in bots' <=> d \in DOMAIN registered' /\ ~registered'[d].susp
    <2>1. CASE d = target
      BY <1>1, <1>3, <1>4, <1>5, <1>6, <1>7, <2>1 DEF Watch
    <2>2. CASE d = c
      BY <1>3, <1>4, <1>5, <1>6, <2>2 DEF Watch
    <2>3. CASE d # target /\ d # c
      BY <1>3, <1>5, <1>6, <1>7, <2>3 DEF Watch
    <2> QED BY <2>1, <2>2, <2>3
  <1>10. bots' \subseteq Channels /\ DOMAIN registered' \subseteq Channels
    BY <1>3, <1>6 DEF Watch
  <1> QED BY <1>8, <1>9, <1>10 DEF Watch, GoodChan

LEMMA MoveWatch ==
    ASSUME Watch, NEW c \in Channels, NEW target \in Channels, NEW nodelete,
           CsMove(c, target) \/ CsMerge(c, target, nodelete)
    PROVE  Watch'
  <1>1. /\ c # target /\ DOMAIN csChannels' = Channels
        /\ \A d \in Channels \ {c, target} : csChannels'[d] = csChannels[d]
    BY DEF CsMove, CsMerge, Watch
  <1>2. PICK joins : /\ MoveMerge(c, target, joins)
                     /\ c \in DOMAIN registered => \/ c \in astray \/ csChannels'[target] # csChannels[c]
                                                   \/ (joins <=> ~registered[c].susp)
    <2>1. c \in DOMAIN registered => /\ registered[c].susp \in BOOLEAN /\ csChannels[c] \in {"on", "suspended"}
                                     /\ c \notin astray => (registered[c].susp <=> csChannels[c] = "suspended")
      BY DEF Watch, GoodChan
    <2>2. CASE CsMove(c, target)
      BY <2>1, <2>2 DEF CsMove
    <2>3. CASE CsMerge(c, target, nodelete)
      <3>1. MoveMerge(c, target, TRUE) /\ csChannels'[target] = "on"
        BY <2>3 DEF CsMerge, Watch
      <3>2. c \in DOMAIN registered => \/ c \in astray \/ csChannels'[target] # csChannels[c]
                                       \/ (TRUE <=> ~registered[c].susp)
        BY <2>1, <3>1
      <3> QED BY <3>1, <3>2
    <2> QED BY <2>2, <2>3
  <1>3. /\ csChannels'[target] = csChannels[target] \/ target \notin DOMAIN registered
        /\ c \in DOMAIN registered => csChannels'[target] \in {"on", "suspended"}
    BY <1>1 DEF CsMove, CsMerge, Watch
  <1>4. CASE c \notin DOMAIN registered
    <2>1. UNCHANGED <<registered, bots, astray>>
      BY <1>2, <1>4 DEF MoveMerge
    <2> QED BY <1>1, <1>3, <1>4, <2>1 DEF Watch, GoodChan
  <1>5. CASE c \in DOMAIN registered /\ ~(AllowMoveMerge /\ target \notin DOMAIN registered)
    <2>1. Unregister(c) /\ astray' = astray
      BY <1>2, <1>5 DEF MoveMerge
    <2>2. CASE target \in DOMAIN registered
      BY <1>1, <1>3, <2>1, <2>2, UnregisterWatch
    <2>3. CASE target \notin DOMAIN registered
      <3>1. registered' = Drop(registered, {c})
        BY <2>1 DEF Unregister
      <3>2. /\ bots' \subseteq bots /\ bots \ {c} \subseteq bots'
            /\ c \notin astray => c \notin bots'
        BY <1>5, <2>1 DEF Unregister, PartIf, Watch
      <3> QED BY <1>1, <2>1, <2>3, <3>1, <3>2 DEF Watch, Drop, GoodChan
    <2> QED BY <2>2, <2>3
  <1>6. CASE c \in DOMAIN registered /\ AllowMoveMerge /\ target \notin DOMAIN registered
    BY <1>1, <1>2, <1>3, <1>6, MovedWatch
  <1> QED BY <1>4, <1>5, <1>6

\* The commands that change an entry leave its suspension and its reactions sound.
Edits(c) ==
    \/ \E w \in Words, oper \in BOOLEAN : cmd_addexception(c, w, oper) \/ cmd_addbadword(c, w, oper)
    \/ \E w \in Words : cmd_delexception(c, w) \/ cmd_delbadword(c, w)
    \/ \E l \in Levels : channel_except_level(c, l)
    \/ \E s \in Scans : binary_option(c, s)
    \/ \E k \in {"warn", "caps"}, r \in Reactions : multiple_option(c, k, r)
    \/ \E n \in Limits : opt_spamlimit(c, n)

LEMMA FieldGood ==
    ASSUME NEW q, GoodChan(q), NEW v, NEW f \in {"exceptions", "badwords", "except", "scans", "limit"}
    PROVE  GoodChan([q EXCEPT ![f] = v]) /\ [q EXCEPT ![f] = v].susp = q.susp
  BY DEF GoodChan, ChanFields

LEMMA ReactGood ==
    ASSUME NEW q, GoodChan(q), NEW k, NEW r \in Reacts
    PROVE  GoodChan([q EXCEPT !.react[k] = r]) /\ [q EXCEPT !.react[k] = r].susp = q.susp
  BY DEF GoodChan, ChanFields

LEMMA EditSound ==
    ASSUME Watch, Closed, NEW c \in DOMAIN registered, Edits(c)
    PROVE  \E r : Change(c, r) /\ GoodChan(r) /\ r.susp = registered[c].susp
  <1>1. GoodChan(registered[c])
    BY DEF Watch
  <1> DEFINE q == registered[c]
  <1> HIDE DEF q
  <1>2. ASSUME NEW w, \/ \E oper \in BOOLEAN : cmd_addexception(c, w, oper)
                     \/ cmd_delexception(c, w)
        PROVE  \E r : Change(c, r) /\ GoodChan(r) /\ r.susp = q.susp
    <2>1. PICK v : Change(c, [q EXCEPT !.exceptions = v])
      BY <1>2 DEF cmd_addexception, cmd_delexception, q
    <2>2. GoodChan([q EXCEPT !.exceptions = v]) /\ [q EXCEPT !.exceptions = v].susp = q.susp
      BY <1>1, FieldGood DEF q
    <2> QED BY <2>1, <2>2
  <1>3. ASSUME NEW w, \/ \E oper \in BOOLEAN : cmd_addbadword(c, w, oper)
                     \/ cmd_delbadword(c, w)
        PROVE  \E r : Change(c, r) /\ GoodChan(r) /\ r.susp = q.susp
    <2>1. PICK v : Change(c, [q EXCEPT !.badwords = v])
      BY <1>3 DEF cmd_addbadword, cmd_delbadword, q
    <2>2. GoodChan([q EXCEPT !.badwords = v]) /\ [q EXCEPT !.badwords = v].susp = q.susp
      BY <1>1, FieldGood DEF q
    <2> QED BY <2>1, <2>2
  <1>4. ASSUME NEW l, channel_except_level(c, l)
        PROVE  \E r : Change(c, r) /\ GoodChan(r) /\ r.susp = q.susp
    <2>1. PICK v : Change(c, [q EXCEPT !.except = v])
      BY <1>4 DEF channel_except_level, q
    <2>2. GoodChan([q EXCEPT !.except = v]) /\ [q EXCEPT !.except = v].susp = q.susp
      BY <1>1, FieldGood DEF q
    <2> QED BY <2>1, <2>2
  <1>5. ASSUME NEW x, binary_option(c, x)
        PROVE  \E r : Change(c, r) /\ GoodChan(r) /\ r.susp = q.susp
    <2>1. PICK v : Change(c, [q EXCEPT !.scans = v])
      BY <1>5 DEF binary_option, q
    <2>2. GoodChan([q EXCEPT !.scans = v]) /\ [q EXCEPT !.scans = v].susp = q.susp
      BY <1>1, FieldGood DEF q
    <2> QED BY <2>1, <2>2
  <1>6. ASSUME NEW n, opt_spamlimit(c, n)
        PROVE  \E r : Change(c, r) /\ GoodChan(r) /\ r.susp = q.susp
    <2>1. Change(c, [q EXCEPT !.limit = n])
      BY <1>6 DEF opt_spamlimit, q
    <2>2. GoodChan([q EXCEPT !.limit = n]) /\ [q EXCEPT !.limit = n].susp = q.susp
      BY <1>1, FieldGood DEF q
    <2> QED BY <2>1, <2>2
  <1>7. ASSUME NEW k, NEW r \in Reactions, multiple_option(c, k, r)
        PROVE  \E x : Change(c, x) /\ GoodChan(x) /\ x.susp = q.susp
    <2>1. Change(c, [q EXCEPT !.react[k] = r])
      BY <1>7 DEF multiple_option, q
    <2>2. GoodChan([q EXCEPT !.react[k] = r]) /\ [q EXCEPT !.react[k] = r].susp = q.susp
      BY <1>1, ReactGood DEF q, Closed
    <2> QED BY <2>1, <2>2
  <1>8. \E r : Change(c, r) /\ GoodChan(r) /\ r.susp = q.susp
    BY <1>2, <1>3, <1>4, <1>5, <1>6, <1>7 DEF Edits
  <1> QED BY <1>8 DEF q

LEMMA EditWatch ==
    ASSUME Watch, Closed, NEW c \in DOMAIN registered, Edits(c)
    PROVE  Watch'
  <1>1. PICK r : Change(c, r) /\ GoodChan(r) /\ r.susp = registered[c].susp
    BY EditSound
  <1>2. registered' = [registered EXCEPT ![c] = r] /\ UNCHANGED <<csChannels, bots, astray>>
    BY <1>1 DEF Change
  <1> QED BY <1>1, <1>2 DEF Watch, GoodChan

LEMMA RestartWatch ==
    ASSUME Watch, NEW ended, Restart(ended)
    PROVE  Watch'
  <1> DEFINE over(c) == registered[c].susp /\ registered[c].expiry # 0 /\ registered[c].expiry < now
  <1>1. /\ registered' = [c \in DOMAIN registered |->
                            IF over(c) THEN [registered[c] EXCEPT !.susp = FALSE, !.expiry = 0]
                            ELSE registered[c]]
        /\ csChannels' = [c \in Channels |->
                            IF c \in ended /\ csChannels[c] = "suspended" THEN "on" ELSE csChannels[c]]
        /\ bots' = {c \in DOMAIN registered : ~registered'[c].susp}
        /\ astray' = {c \in DOMAIN registered : registered'[c].susp # (csChannels'[c] = "suspended")}
    BY DEF Restart
  <1>2. ASSUME NEW c \in DOMAIN registered
        PROVE  GoodChan(registered'[c]) /\ csChannels'[c] \in {"on", "suspended"}
    <2>1. c \in Channels /\ GoodChan(registered[c]) /\ csChannels[c] \in {"on", "suspended"}
      BY DEF Watch
    <2>2. GoodChan([registered[c] EXCEPT !.susp = FALSE, !.expiry = 0])
      BY <2>1 DEF GoodChan, ChanFields
    <2> QED BY <1>1, <2>1, <2>2
  <1>3. DOMAIN registered' = DOMAIN registered /\ DOMAIN csChannels' = Channels
    BY <1>1
  <1>4. ASSUME NEW c \in DOMAIN registered \ astray'
        PROVE  csChannels'[c] = IF registered'[c].susp THEN "suspended" ELSE "on"
    BY <1>1, <1>2 DEF GoodChan
  <1>5. DOMAIN registered \subseteq Channels
    BY DEF Watch
  <1> QED BY <1>1, <1>2, <1>3, <1>4, <1>5 DEF Watch, GoodChan

-----------------------------------------------------------------------------
\* Counts: who changes the entries of the clients, or what they rest on.

\* More channels may be watched, and more clients be in them.
LEMMA NoCounts ==
    ASSUME Counts, infos' = infos, bots \subseteq bots', DOMAIN members' = Channels, astray \subseteq astray',
           \A c \in Channels : members[c] \subseteq members'[c], bots \subseteq Channels
    PROVE  Counts'
  BY DEF Counts, GoodInfo

\* SpamServ leaves a channel it is in, or none.
LEMMA PartedCounts ==
    ASSUME Counts, NEW c, NEW cond, infos' = PartIf(cond, c).infos,
           PartIf(cond, c).bots \subseteq bots', members' = members, astray \subseteq astray'
    PROVE  Counts'
  <1>1. CASE cond
    <2>1. infos' = spamserv_clear_spamNodes(c) /\ bots \ {c} \subseteq bots'
      BY <1>1 DEF PartIf
    <2>2. ASSUME NEW u \in DOMAIN infos
          PROVE  /\ GoodInfo(infos'[u])
                 /\ \A d \in DOMAIN infos'[u].spam \ astray' : d \in bots' /\ u \in members'[d]
      <3>1. GoodInfo(infos[u]) /\ \A d \in DOMAIN infos[u].spam \ astray : d \in bots /\ u \in members[d]
        BY DEF Counts
      <3>2. CASE u \in members[c]
        <4>1. PICK s : s = Drop(infos[u].spam, {c})
          OBVIOUS
        <4>2. infos'[u] = [infos[u] EXCEPT !.spam = s]
          BY <2>1, <3>2, <4>1 DEF spamserv_clear_spamNodes
        <4>3. DOMAIN s = DOMAIN infos[u].spam \ {c}
          BY <4>1 DEF Drop
        <4>4. GoodInfo(infos'[u]) /\ infos'[u].spam = s
          BY <3>1, <4>2 DEF GoodInfo, InfoFields
        <4> QED BY <2>1, <3>1, <4>3, <4>4
      <3>3. CASE u \notin members[c]
        <4>1. infos'[u] = infos[u]
          BY <2>1, <3>3 DEF spamserv_clear_spamNodes
        <4> QED BY <2>1, <3>1, <3>3, <4>1
      <3> QED BY <3>2, <3>3
    <2>3. DOMAIN infos' = DOMAIN infos
      BY <2>1 DEF spamserv_clear_spamNodes
    <2> QED BY <2>2, <2>3 DEF Counts, GoodInfo
  <1>2. CASE ~cond
    BY <1>2 DEF PartIf, Counts, GoodInfo
  <1> QED BY <1>1, <1>2

LEMMA ChannelCounts ==
    ASSUME Watch, Counts, NEW c \in Channels, NEW target \in Channels, NEW e, NEW nodelete,
           \/ CsRegister(c) \/ spamserv_cs_unregister(c) \/ Unsuspend(c) \/ Suspend(c, e)
           \/ chan_opt_offchannel(c) \/ CsMove(c, target) \/ CsMerge(c, target, nodelete)
           \/ cmd_register(c) \/ cmd_unregister(c)
    PROVE  Counts'
  <1>1. bots \subseteq Channels /\ DOMAIN members = Channels
    BY DEF Watch, Counts
  <1>2. members' = members /\ astray \subseteq astray'
    BY DEF CsRegister, spamserv_cs_unregister, Unsuspend, Suspend, CsMove, CsMerge, cmd_register,
           cmd_unregister, chan_opt_offchannel, MoveMerge
  <1>3. CASE infos' = infos /\ bots \subseteq bots'
    BY <1>1, <1>2, <1>3, NoCounts
  <1>4. ASSUME NEW cond, infos' = PartIf(cond, c).infos, PartIf(cond, c).bots \subseteq bots'
        PROVE  Counts'
    BY <1>2, <1>4, PartedCounts
  <1>5. CASE Unregister(c)
    <2>1. PICK cond : infos' = PartIf(cond, c).infos /\ bots' = PartIf(cond, c).bots
      BY <1>5 DEF Unregister
    <2> QED BY <1>4, <2>1
  <1>6. CASE CsRegister(c) \/ Unsuspend(c) \/ chan_opt_offchannel(c) \/ cmd_register(c)
    BY <1>3, <1>6 DEF CsRegister, Unsuspend, chan_opt_offchannel, cmd_register
  <1>7. CASE spamserv_cs_unregister(c) \/ cmd_unregister(c)
    BY <1>5, <1>7 DEF spamserv_cs_unregister, cmd_unregister
  <1>8. CASE Suspend(c, e)
    <2>1. PICK cond : infos' = PartIf(cond, c).infos /\ bots' = PartIf(cond, c).bots
      BY <1>8 DEF Suspend
    <2> QED BY <1>4, <2>1
  <1>9. CASE CsMove(c, target) \/ CsMerge(c, target, nodelete)
    <2>1. PICK joins : MoveMerge(c, target, joins)
      BY <1>9 DEF CsMove, CsMerge
    <2>2. \/ infos' = infos /\ bots' = bots
          \/ Unregister(c)
          \/ \E cond : infos' = PartIf(cond, c).infos /\ PartIf(cond, c).bots \subseteq bots'
      BY <2>1 DEF MoveMerge
    <2> QED BY <1>3, <1>4, <1>5, <2>2
  <1> QED BY <1>6, <1>7, <1>8, <1>9

LEMMA CreateCounts ==
    ASSUME Counts, NEW u, spamserv_create_user(u)
    PROVE  Counts'
  <1>1. PICK i : /\ infos' = Put(infos, u, i)
                 /\ i.flags \in {{}, {"killed"}} /\ DOMAIN i = InfoFields /\ i.spam = Nothing
    <2>0. PICK f, w : /\ f = IF u \in DOMAIN killed THEN {"killed"} ELSE {}
                      /\ w = IF u \in DOMAIN killed THEN killed[u].warn ELSE 0
      OBVIOUS
    <2>1. /\ f \in {{}, {"killed"}}
          /\ infos' = Put(infos, u, [flags |-> f, warn |-> w, last |-> [k \in Kinds |-> 0],
                                    spam |-> Nothing, flood |-> Nothing, joins |-> Nothing])
      BY <2>0 DEF spamserv_create_user
    <2>2. PICK i : i = [flags |-> f, warn |-> w, last |-> [k \in Kinds |-> 0],
                        spam |-> Nothing, flood |-> Nothing, joins |-> Nothing]
      OBVIOUS
    <2>3. i.flags = f /\ DOMAIN i = InfoFields /\ i.spam = Nothing
      BY <2>2 DEF InfoFields
    <2> QED BY <2>1, <2>2, <2>3
  <1>2. GoodInfo(i) /\ DOMAIN i.spam = {}
    BY <1>1 DEF GoodInfo, Nothing
  <1>3. bots' = bots /\ members' = members /\ astray' = astray
    BY DEF spamserv_create_user
  <1> QED BY <1>1, <1>2, <1>3 DEF Counts, Put, GoodInfo

\* A client goes from the network and from the channels.
LEMMA GoneCounts ==
    ASSUME Counts, NEW u, infos' = Drop(infos, {u}), bots' = bots, bots \subseteq Channels, astray' = astray,
           members' = [c \in Channels |-> members[c] \ {u}]
    PROVE  Counts'
  BY DEF Counts, Drop, GoodInfo

LEMMA JoinCounts ==
    ASSUME Counts, bots \subseteq Channels, NEW u, NEW c \in Channels, spamserv_user_join(u, c)
    PROVE  Counts'
  <1>1. /\ bots' = bots /\ u \in DOMAIN infos /\ astray' = astray
        /\ DOMAIN members' = Channels /\ \A d \in Channels : members[d] \subseteq members'[d]
    BY DEF spamserv_user_join, Counts
  <1>2. CASE infos' = infos
    BY <1>1, <1>2, NoCounts
  <1>3. CASE infos' # infos
    <2>1. PICK j : infos' = [infos EXCEPT ![u] = [infos[u] EXCEPT !.joins = j]]
      BY <1>3 DEF spamserv_user_join
    <2>2. PICK i : i = [infos[u] EXCEPT !.joins = j]
      OBVIOUS
    <2>3. GoodInfo(i) /\ i.spam = infos[u].spam
      BY <1>1, <2>2 DEF Counts, GoodInfo, InfoFields
    <2>4. infos' = [infos EXCEPT ![u] = i]
      BY <2>1, <2>2
    <2> QED BY <1>1, <2>3, <2>4 DEF Counts, GoodInfo
  <1> QED BY <1>2, <1>3

LEMMA PartCounts ==
    ASSUME Watch, Counts, NEW u, NEW c \in Channels, spamserv_user_part(u, c)
    PROVE  Counts'
  <1>1. /\ bots' = bots /\ astray' = astray /\ DOMAIN members' = Channels
        /\ bots \ astray \subseteq DOMAIN registered
        /\ \A d \in Channels : \A v \in members[d] : v \in members'[d] \/ (v = u /\ d = c)
    BY DEF spamserv_user_part, Counts, Watch
  <1>2. bots \subseteq Channels
    BY DEF Watch
  <1>3. CASE c \notin DOMAIN registered
    <2>1. infos' = infos
      BY <1>3 DEF spamserv_user_part
    <2> QED BY <1>1, <1>2, <1>3, <2>1 DEF Counts, GoodInfo
  <1>4. CASE c \in DOMAIN registered
    <2>1. PICK s, f : s = Drop(infos[u].spam, {c}) /\ f = Drop(infos[u].flood, {c})
      OBVIOUS
    <2>2. PICK i : i = [infos[u] EXCEPT !.spam = s, !.flood = f]
      OBVIOUS
    <2>3. infos' = [infos EXCEPT ![u] = i]
      BY <1>4, <2>1, <2>2 DEF spamserv_user_part
    <2>4. DOMAIN s = DOMAIN infos[u].spam \ {c}
      BY <2>1 DEF Drop
    <2>5. u \in DOMAIN infos => GoodInfo(i) /\ i.spam = s
      BY <2>2 DEF Counts, GoodInfo, InfoFields
    <2>6. ASSUME NEW v \in DOMAIN infos
          PROVE  /\ GoodInfo(infos'[v])
                 /\ \A d \in DOMAIN infos'[v].spam \ astray' : d \in bots' /\ v \in members'[d]
      <3>1. GoodInfo(infos[v]) /\ \A d \in DOMAIN infos[v].spam \ astray : d \in bots /\ v \in members[d]
        BY DEF Counts
      <3>2. CASE v = u
        <4>1. infos'[v] = i
          BY <2>3, <3>2
        <4> QED BY <1>1, <1>2, <2>4, <2>5, <3>1, <3>2, <4>1
      <3>3. CASE v # u
        <4>1. infos'[v] = infos[v]
          BY <2>3, <3>3
        <4> QED BY <1>1, <1>2, <3>1, <3>3, <4>1
      <3> QED BY <3>2, <3>3
    <2>7. DOMAIN infos' = DOMAIN infos
      BY <2>3
    <2> QED BY <1>1, <2>6, <2>7 DEF Counts, GoodInfo
  <1> QED BY <1>3, <1>4

LEMMA MessageCounts ==
    ASSUME Watch, Counts, Closed, NEW u, NEW c, NEW text, NEW chance,
           spamserv_channel_message(u, c, text, chance)
    PROVE  Counts'
  <1>1. u \in DOMAIN infos /\ u \in members[c] /\ c \in bots /\ c \in DOMAIN registered
        /\ bots' = bots /\ astray' = astray
    BY DEF spamserv_channel_message, Closed
  <1>2. bots \subseteq Channels /\ GoodInfo(infos[u]) /\ GoodChan(registered[c])
    BY <1>1 DEF Watch, Counts
  <1>3. PICK i : i = Scanned(u, c, text).info
    OBVIOUS
  <1>4. Kept(infos[u], i, c)
    BY <1>2, <1>3, ScannedKept
  <1>5. \/ infos' = Drop(infos, {u}) /\ members' = [d \in Channels |-> members[d] \ {u}]
        \/ infos' = [infos EXCEPT ![u] = i] /\ members' = members
    BY <1>3 DEF spamserv_channel_message
  <1>6. CASE infos' = Drop(infos, {u}) /\ members' = [d \in Channels |-> members[d] \ {u}]
    BY <1>1, <1>2, <1>6, GoneCounts
  <1>7. CASE infos' = [infos EXCEPT ![u] = i] /\ members' = members
    BY <1>1, <1>4, <1>7 DEF Counts, Kept, GoodInfo
  <1> QED BY <1>5, <1>6, <1>7

\* The timers touch no count of equal lines and set no flag.
LEMMA AgedCounts ==
    ASSUME Counts, UNCHANGED <<bots, members, astray>>, DOMAIN infos' = DOMAIN infos,
           \A u \in DOMAIN infos : GoodInfo(infos'[u]) /\ infos'[u].spam = infos[u].spam
    PROVE  Counts'
  BY DEF Counts, GoodInfo

LEMMA TimerCounts ==
    ASSUME Counts,
           timeq_flood \/ timeq_joinflood \/ timeq_warnlevel \/ \E kind \in Kinds : timeq_warned(kind)
    PROVE  Counts'
  <1>1. UNCHANGED <<bots, members, astray>> /\ DOMAIN infos' = DOMAIN infos
    BY DEF timeq_flood, timeq_joinflood, timeq_warnlevel, timeq_warned, OnInfos
  <1>2. ASSUME NEW u \in DOMAIN infos
        PROVE  GoodInfo(infos'[u]) /\ infos'[u].spam = infos[u].spam
    <2>1. GoodInfo(infos[u])
      BY DEF Counts
    <2>2. \/ \E v : infos'[u] = [infos[u] EXCEPT !.flood = v]
          \/ \E v : infos'[u] = [infos[u] EXCEPT !.joins = v]
          \/ \E v : infos'[u] = [infos[u] EXCEPT !.warn = v]
          \/ infos'[u] = infos[u]
          \/ \E v, k : infos'[u] = [infos[u] EXCEPT !.last = v, !.flags = infos[u].flags \ {k}]
      <3>1. CASE timeq_flood
        BY <3>1 DEF timeq_flood, OnInfos
      <3>2. CASE timeq_joinflood
        BY <3>2 DEF timeq_joinflood, OnInfos
      <3>3. CASE timeq_warnlevel
        BY <3>3 DEF timeq_warnlevel, OnInfos
      <3>4. CASE \E kind \in Kinds : timeq_warned(kind)
        <4>1. PICK kind \in Kinds : timeq_warned(kind)
          BY <3>4
        <4>2. PICK l, k : l = [infos[u].last EXCEPT ![kind] = 0] /\ k = kind
          OBVIOUS
        <4>3. \/ infos'[u] = infos[u]
              \/ infos'[u] = [infos[u] EXCEPT !.last = l, !.flags = infos[u].flags \ {k}]
          BY <4>1, <4>2 DEF timeq_warned, OnInfos
        <4> QED BY <4>3
      <3> QED BY <3>1, <3>2, <3>3, <3>4
    <2> QED BY <2>1, <2>2 DEF GoodInfo, InfoFields
  <1> QED BY <1>1, <1>2, AgedCounts

-----------------------------------------------------------------------------
LEMMA NextWatch ==
    ASSUME Watch, Closed, [Next]_vars
    PROVE  Watch'
  <1>1. CASE ChanServCalls
    <2>1. ASSUME NEW c \in Channels,
                 CsRegister(c) \/ spamserv_cs_unregister(c) \/ chan_opt_offchannel(c)
          PROVE  Watch'
      <3>1. CASE CsRegister(c)
        BY <3>1 DEF CsRegister, Watch, GoodChan
      <3>2. CASE spamserv_cs_unregister(c)
        BY <3>2, UnregisterWatch DEF spamserv_cs_unregister, Watch
      <3>3. CASE chan_opt_offchannel(c)
        BY <3>3, NoWatch DEF chan_opt_offchannel
      <3> QED BY <2>1, <3>1, <3>2, <3>3
    <2> QED BY <1>1, <2>1, SuspendWatch, UnsuspendWatch, MoveWatch DEF ChanServCalls
  <1>2. CASE Commands
    <2>1. ASSUME NEW c \in Channels, cmd_unregister(c)
          PROVE  Watch'
      BY <2>1, UnregisterWatch DEF cmd_unregister, Watch
    <2>2. ASSUME NEW u, NEW c, NEW byNick, cmd_deltrust(u, c) \/ cmd_addtrust(u, c, byNick)
          PROVE  Watch'
      BY <2>2, NoWatch DEF cmd_deltrust, cmd_addtrust
    <2> QED BY <1>2, <2>1, <2>2, RegisterWatch, EditWatch DEF Commands, Edits
  <1>3. CASE Clients
    <2>1. ASSUME NEW u, NEW c, \/ spamserv_create_user(u) \/ Quit(u) \/ spamserv_user_join(u, c)
                              \/ spamserv_user_part(u, c)
          PROVE  Watch'
      BY <2>1, NoWatch DEF spamserv_create_user, Quit, spamserv_user_join, spamserv_user_part
    <2>2. ASSUME NEW u, NEW c, NEW text, NEW chance, spamserv_channel_message(u, c, text, chance)
          PROVE  Watch'
      BY <2>2, NoWatch DEF spamserv_channel_message
    <2> QED BY <1>3, <2>1, <2>2 DEF Clients
  <1>4. CASE Timers \/ UNCHANGED vars
    <2>1. (\E ended : Restart(ended)) \/ UNCHANGED <<csChannels, registered, bots, astray>>
      BY <1>4 DEF Timers, Tick, timeq_flood, timeq_joinflood, timeq_warnlevel, timeq_kill,
                  timeq_warned, OnInfos, vars, spVars
    <2> QED BY <2>1, NoWatch, RestartWatch
  <1> QED BY <1>1, <1>2, <1>3, <1>4 DEF Next

LEMMA NextCounts ==
    ASSUME Watch, Counts, Closed, [Next]_vars
    PROVE  Counts'
  <1>0. bots \subseteq Channels /\ DOMAIN members = Channels
    BY DEF Watch, Counts
  <1>1. CASE ChanServCalls
    <2>1. PICK c \in Channels, target \in Channels :
            \E e, nodelete : \/ CsRegister(c) \/ spamserv_cs_unregister(c) \/ Unsuspend(c) \/ Suspend(c, e)
                             \/ chan_opt_offchannel(c)
                             \/ CsMove(c, target) \/ CsMerge(c, target, nodelete)
      BY <1>1 DEF ChanServCalls
    <2> QED BY <2>1, ChannelCounts
  <1>2. CASE Commands
    <2>1. ASSUME NEW c \in Channels, cmd_register(c) \/ cmd_unregister(c)
          PROVE  Counts'
      BY <2>1, ChannelCounts
    <2>2. ASSUME UNCHANGED <<infos, bots, members, astray>>
          PROVE  Counts'
      BY <1>0, <2>2, NoCounts
    <2>3. ASSUME NEW c \in DOMAIN registered, Edits(c)
          PROVE  Counts'
      <3>1. PICK r : Change(c, r)
        BY <2>3, EditSound
      <3> QED BY <2>2, <3>1 DEF Change
    <2>4. ASSUME NEW u, NEW c, NEW byNick, cmd_deltrust(u, c) \/ cmd_addtrust(u, c, byNick)
          PROVE  Counts'
      BY <2>2, <2>4 DEF cmd_deltrust, cmd_addtrust
    <2> QED BY <1>2, <2>1, <2>3, <2>4 DEF Commands, Edits
  <1>3. CASE Clients
    <2>1. ASSUME NEW u, Quit(u)
          PROVE  Counts'
      BY <1>0, <2>1, GoneCounts DEF Quit
    <2> QED BY <1>0, <1>3, <2>1, CreateCounts, JoinCounts, PartCounts, MessageCounts DEF Clients
  <1>4. CASE Timers \/ UNCHANGED vars
    <2>1. CASE Tick \/ timeq_kill \/ UNCHANGED vars
      <3>1. UNCHANGED <<infos, bots, members, astray>>
        BY <2>1 DEF Tick, timeq_kill, vars, spVars
      <3> QED BY <1>0, <3>1, NoCounts
    <2>2. CASE \E ended : Restart(ended)
      <3>1. infos' = Nothing /\ members' = [c \in Channels |-> {}]
        BY <2>2 DEF Restart
      <3> QED BY <3>1 DEF Counts, Nothing
    <2> QED BY <1>4, <2>1, <2>2, TimerCounts DEF Timers
  <1> QED BY <1>1, <1>2, <1>3, <1>4 DEF Next

LEMMA WatchCounts ==
    ASSUME Closed
    PROVE  Spec => [](Watch /\ Counts)
  <1>1. Init => Watch /\ Counts
    BY DEF Init, Watch, Counts, Nothing
  <1>2. Watch /\ Counts /\ [Next]_vars => (Watch /\ Counts)'
    BY NextWatch, NextCounts
  <1> QED BY <1>1, <1>2, PTL DEF Spec

(* WatchedExactly holds for any channels and clients: through every order  *)
(* of ChanServ's suspensions, moves, merges and unregistrations SpamServ   *)
(* is where it watches, and no count of equal lines outlives its channel   *)
(* or its member (spamserv_part_channel clears the members' counts only).  *)
(* Left out, by name, are the channels in astray, of whose suspension      *)
(* chanserv_expire_suspension or a merge told only one of the two.         *)
THEOREM WatchesExactly ==
    ASSUME Closed
    PROVE  Spec => []WatchedExactly
  <1>1. Watch /\ Counts => WatchedExactly
    BY DEF Watch, Counts, WatchedExactly, BotPresent, SpamNodesLive, GoodChan
  <1> QED BY <1>1, WatchCounts, PTL

LEMMA KilledOnce ==
    ASSUME Watch, Counts, Closed, [Next]_vars, NEW u \in DOMAIN infos, u \in DOMAIN killed',
           u \notin DOMAIN killed
    PROVE  "killed" \notin infos[u].flags
  <1>1. CASE ChanServCalls
    <2>1. killed' = killed
      BY <1>1 DEF ChanServCalls, CsRegister, spamserv_cs_unregister, Unsuspend, Suspend, CsMove, CsMerge,
                  chan_opt_offchannel
    <2> QED BY <2>1
  <1>2. CASE Commands
    <2>1. ASSUME NEW c \in DOMAIN registered, Edits(c)
          PROVE  killed' = killed
      <3>1. PICK r : Change(c, r)
        BY <2>1, EditSound
      <3> QED BY <3>1 DEF Change
    <2>2. ASSUME NEW c, NEW v, NEW byNick, \/ cmd_register(c) \/ cmd_unregister(c)
                                          \/ cmd_deltrust(v, c) \/ cmd_addtrust(v, c, byNick)
          PROVE  killed' = killed
      BY <2>2 DEF cmd_register, cmd_unregister, cmd_deltrust, cmd_addtrust
    <2>3. killed' = killed
      BY <1>2, <2>1, <2>2 DEF Commands, Edits
    <2> QED BY <2>3
  <1>3. CASE Clients
    <2>1. ASSUME NEW v, NEW c, \/ spamserv_create_user(v) \/ Quit(v) \/ spamserv_user_join(v, c)
                              \/ spamserv_user_part(v, c)
          PROVE  DOMAIN killed' \subseteq DOMAIN killed
      BY <2>1 DEF spamserv_create_user, Quit, spamserv_user_join, spamserv_user_part, Drop
    <2>2. ASSUME NEW v, NEW c, NEW text, NEW chance, spamserv_channel_message(v, c, text, chance)
          PROVE  "killed" \notin infos[u].flags
      <3>1. v \in DOMAIN infos /\ c \in DOMAIN registered
        BY <2>2 DEF spamserv_channel_message
      <3>2. PICK i : i = Scanned(v, c, text).info
        OBVIOUS
      <3>3. \/ killed' = killed
            \/ "kill" \in i.flags /\ \E w : killed' = Put(killed, v, w)
        BY <2>2, <3>2 DEF spamserv_channel_message
      <3>4. v = u /\ "kill" \in i.flags
        BY <3>3 DEF Put
      <3>5. Kept(infos[v], i, c)
        BY <3>1, <3>2, ScannedKept DEF Watch, Counts
      <3> QED BY <3>4, <3>5 DEF Kept, GoodInfo
    <2> QED BY <1>3, <2>1, <2>2 DEF Clients
  <1>4. CASE Timers \/ UNCHANGED vars
    <2>1. DOMAIN killed' \subseteq DOMAIN killed
      BY <1>4 DEF Timers, Tick, timeq_flood, timeq_joinflood, timeq_warnlevel, timeq_kill,
                  timeq_warned, OnInfos, Restart, vars, spVars, Drop, Nothing
    <2> QED BY <2>1
  <1> QED BY <1>1, <1>2, <1>3, <1>4 DEF Next

(* NotKilledAgain holds for any number of clients, lines and limits: the   *)
(* flags "killed" and "kill" are never both in an entry, whatever scans,   *)
(* reactions and warning levels the lines of a client go through.          *)
THEOREM KilledNotAgain ==
    ASSUME Closed
    PROVE  Spec => NotKilledAgain
  <1>1. Watch /\ Counts /\ [Next]_vars =>
          [\A u \in DOMAIN infos :
             (u \in DOMAIN killed' /\ u \notin DOMAIN killed) => "killed" \notin infos[u].flags]_vars
    BY KilledOnce
  <1> QED BY <1>1, WatchCounts, PTL DEF Spec, NotKilledAgain
=============================================================================
