------------------------------ MODULE HelpServ ------------------------------
(***************************************************************************)
(* The help queue (mod-helpserv.c): bots that sit in a help channel, take  *)
(* requests from clients and hand them to the helpers on their user list.  *)
(*                                                                         *)
(* A request is in up to four places at once: the bot's dictionary of      *)
(* requests, the bot's linked list of requests nobody handles (unhandled), *)
(* the list of its client's nick (helpserv_reqs_bynick_dict) and the list  *)
(* of its client's account (helpserv_reqs_byhand_dict).  The handlers of   *)
(* nine kinds of events keep them in step; free_request trusts them.       *)
(*                                                                         *)
(* One bot and its help channel are modelled.  Messages, pages, voices and *)
(* the helpers' statistics are left out.                                   *)
(***************************************************************************)
EXTENDS Naturals, SequencesExt

CONSTANTS
  HelpUsers, Nicks, Handles,
  Bots,       \* one bot
  Settings,   \* the settings and bot commands an instance uses
  Helpers,    \* the accounts that are put on user lists
  HelperLevels, \* the levels that helpers are given
  Lengths,    \* how long requests and helpers last: "part", "quit", "close"
  Wraps,      \* values of idwrap, 0 for none
  MaxId, MaxClock,
  None

VARIABLES
  nick,       \* nick of each client, None when it is not connected
  account,    \* account of each client (user->handle_info)
  handles,    \* the registered accounts
  inchan,     \* members of the help channel
  bot,        \* the registered bots and what they keep
  desk,       \* the requests and the lists that hold them
  burst,      \* burst_begin while the services link, 0 afterwards
  clock

hsVars == <<nick, account, handles, inchan, bot, desk, burst>>

PERSIST_PART == "part"      \* enum persistence_length
PERSIST_QUIT == "quit"
PERSIST_CLOSE == "close"

HlTrial == 1        \* enum helpserv_level
HlHelper == 2
HlManager == 3
HlOwner == 4

\* struct helpserv_bot as calloc leaves it; registered by h.
NewBot(h) ==
  [level |-> [x \in Handles |-> IF x = h THEN HlOwner ELSE 0],
   request |-> PERSIST_PART, helper |-> PERSIST_PART, onjoin |-> FALSE,
   wrap |-> 0, last |-> 0, active |-> 0,
   empty |-> FALSE, emptyInterval |-> FALSE, emptyTimers |-> 0,
   whineInterval |-> FALSE, whineTimers |-> 0,
   suspended |-> FALSE, expiry |-> 0, expiries |-> {}]

Live == {b \in Bots : bot[b] # None}
Connected == {u \in HelpUsers : nick[u] # None}
Authed(h) == {u \in Connected : account[u] = h}

Request == [user : HelpUsers \cup {None}, handle : Handles \cup {None},
            helper : Handles \cup {None}, opened : 0..MaxClock]
Refs == Bots \X (1..MaxId)

-----------------------------------------------------------------------------
(* The four places of a request                                            *)

\* STRUCTNAME_remove: the element after a removed one is not looked at.
ListRemove(s, x) ==
  FoldLeft(LAMBDA acc, y :
             IF y = x /\ ~acc.skip THEN [out |-> acc.out, skip |-> TRUE]
             ELSE [out |-> Append(acc.out, y), skip |-> FALSE],
           [out |-> <<>>, skip |-> FALSE], s).out

Opened(d, r) == d.req[r].opened

\* Insert r before the first request that is not older.
Requeue(d, r) ==
  LET b == r[1]
      older == SelectSeq(d.unhandled[b], LAMBDA x : Opened(d, x) < Opened(d, r))
      k == Len(older)
  IN [d EXCEPT !.unhandled[b] =
        SubSeq(@, 1, k) \o <<r>> \o SubSeq(@, k + 1, Len(@))]

Enqueue(d, r) == [d EXCEPT !.unhandled[r[1]] = Append(@, r)]
Dequeue(d, r) == [d EXCEPT !.unhandled[r[1]] = SelectSeq(@, LAMBDA x : x # r)]

\* The list a request is in is freed when the request is its only entry.
DropFrom(list, r) == IF Len(list) = 1 THEN <<>> ELSE ListRemove(list, r)

\* A bug to compare with: the account's list is forgotten.
FreeFromNick(d, r) ==
  LET q == d.req[r]
      e == Dequeue(d, r)
      f == IF q.user = None THEN e
           ELSE [e EXCEPT !.byNick[nick[q.user]] = DropFrom(@, r)]
  IN [f EXCEPT !.req = [x \in DOMAIN @ \ {r} |-> @[x]]]

free_request(d, r) ==
  LET q == d.req[r]
      e == Dequeue(d, r)
      f == IF q.user = None THEN e
           ELSE [e EXCEPT !.byNick[nick[q.user]] = DropFrom(@, r)]
      g == IF q.handle = None THEN f
           ELSE [f EXCEPT !.byHand[q.handle] = DropFrom(@, r)]
  IN [g EXCEPT !.req = [x \in DOMAIN @ \ {r} |-> @[x]]]

\* A bug to compare with: to the end of the queue.
GoneToEnd(d, r) ==
  IF d.req[r].helper = None THEN d
  ELSE [Enqueue(d, r) EXCEPT !.req[r].helper = None]

\* helpserv_page_helper_gone: back to the queue, at its age.
helper_gone(d, r) ==
  IF d.req[r].helper = None THEN d
  ELSE [Requeue(d, r) EXCEPT !.req[r].helper = None]

\* The requests of bot b in the order of its dictionary.
Of(d, b) == {r \in DOMAIN d.req : r[1] = b}
InOrder(S) == SetToSortSeq(S, LAMBDA x, y : x[2] < y[2])
Handled(d, b, h) == {r \in Of(d, b) : d.req[r].helper = h}
ReleaseAll(d, S) == FoldLeft(helper_gone, d, InOrder(S))
FreeAll(d, S) == FoldLeft(free_request, d, InOrder(S))

\* req->user = user, and the end of the user's list.
Attach(d, r, u) ==
  [d EXCEPT !.req[r].user = u, !.byNick[nick[u]] = Append(@, r)]

-----------------------------------------------------------------------------
(* Opening a request                                                       *)

\* The id after this one, given the ids that are used.
NextLast(B, id, used) ==
  LET free(lo) == {i \in lo..(B.wrap - 1) : i \notin used}
  IN IF id < B.wrap THEN IF free(id) = {} THEN id ELSE Min(free(id)) - 1
     ELSE IF B.wrap = 0 \/ free(1) = {} THEN id ELSE Min(free(1)) - 1

\* find_helpchan_helpers with the members S of the channel.
HelpersAmong(b, S) ==
  \E u \in S : account[u] # None /\ bot[b].level[account[u]] >= HlHelper

\* run_empty_interval leaves a timer unless a helper is there or nobody waits.
RunEmpty(B, helpers, waiting) ==
  [B EXCEPT !.empty = ~helpers,
            !.emptyTimers = @ + IF /\ ~helpers
                                   /\ ~(B.onjoin /\ ~waiting)
                                   /\ B.emptyInterval
                                THEN 1 ELSE 0]

create_request(u, b, desk0, fromjoin) ==
  LET B == bot[b]
      id == B.last + 1
      r == <<b, id>>
      d == IF r \in DOMAIN desk0.req THEN free_request(desk0, r) ELSE desk0
      q == [user |-> u, handle |-> account[u], helper |-> None,
            opened |-> IF fromjoin /\ burst # 0 THEN burst ELSE clock]
      e == [d EXCEPT !.req = [x \in DOMAIN @ \cup {r} |->
                                IF x = r THEN q ELSE @[x]],
                     !.byNick[nick[u]] = Append(@, r)]
      f == IF account[u] = None THEN e
           ELSE [e EXCEPT !.byHand[account[u]] = Append(@, r)]
      g == IF burst # 0 THEN Requeue(f, r) ELSE Enqueue(f, r)
      C == [B EXCEPT !.last = NextLast(B, id, {x[2] : x \in Of(g, b)})]
      alone == B.onjoin /\ Head(g.unhandled[b]) = r /\ B.empty /\ burst = 0
  IN /\ id <= MaxId
     /\ desk' = g
     /\ bot' = [bot EXCEPT ![b] =
          IF alone THEN RunEmpty([C EXCEPT !.emptyTimers = 0],
                                 HelpersAmong(b, inchan'), TRUE)
          ELSE C]

\* helpserv_botmsg and helpserv_usermsg: a client that is no helper writes to
\* the bot.  Its newest request takes the text; else a request of its account
\* without a client becomes its own; else a new one is opened.
helpserv_usermsg(u, b) ==
  LET mine == SelectSeq(desk.byNick[nick[u]], LAMBDA r : r[1] = b)
      lost == IF account[u] = None THEN {}
              ELSE {r \in ToSet(desk.byHand[account[u]]) :
                      r[1] = b /\ desk.req[r].user = None}
  IN /\ u \in Connected /\ b \in Live
     /\ ~bot[b].suspended
     /\ account[u] # None => bot[b].level[account[u]] = 0
     /\ mine = <<>>
     /\ \/ /\ lost # {}
           /\ \E r \in lost :
                /\ \A x \in lost : Opened(desk, x) <= Opened(desk, r)
                /\ desk' = Attach(desk, r, u)
           /\ UNCHANGED bot
        \/ /\ lost = {}
           /\ bot[b].request = PERSIST_PART => u \in inchan
           /\ inchan' = inchan
           /\ create_request(u, b, desk, FALSE)
     /\ UNCHANGED <<nick, account, handles, inchan, burst, clock>>

\* usercmd_close: the client closes its newest request.
usercmd_close(u, b) ==
  LET mine == SelectSeq(desk.byNick[nick[u]], LAMBDA r : r[1] = b)
  IN /\ u \in Connected /\ b \in Live
     /\ ~bot[b].suspended
     /\ account[u] # None => bot[b].level[account[u]] = 0
     /\ mine # <<>>
     /\ desk' = free_request(desk, Last(mine))
     /\ UNCHANGED <<nick, account, handles, inchan, bot, burst, clock>>

-----------------------------------------------------------------------------
(* The helpers' commands                                                   *)

\* A helper of the bot may use a command of this level.
Actor(u, b, lvl) ==
  /\ u \in Connected /\ b \in Live /\ account[u] # None
  /\ bot[b].level[account[u]] >= lvl
  /\ ~bot[b].suspended

\* helpserv_assign: u becomes the helper of r, at actor's command.
helpserv_assign(u, actor, b, r) ==
  /\ account[u] # None
  /\ bot[b].helper = PERSIST_PART /\ u \notin inchan =>
       bot[b].level[account[actor]] >= HlManager
  /\ desk' = [IF desk.req[r].helper = None THEN Dequeue(desk, r) ELSE desk
                EXCEPT !.req[r].helper = account[u]]
  /\ bot' = [bot EXCEPT ![b].active = clock]
  /\ UNCHANGED <<nick, account, handles, inchan, burst, clock>>

cmd_next(u, b) ==
  /\ Actor(u, b, HlTrial)
  /\ desk.unhandled[b] # <<>>
  /\ helpserv_assign(u, u, b, Head(desk.unhandled[b]))

\* Requests are named by number, nick or account: any of the bot's.
smart_get_request(b) == Of(desk, b)

cmd_pickup(u, b) ==
  /\ Actor(u, b, HlTrial)
  /\ \E r \in smart_get_request(b) : helpserv_assign(u, u, b, r)

cmd_reassign(u, v, b) ==
  /\ Actor(u, b, HlManager)
  /\ v \in Connected /\ account[v] # None /\ bot[b].level[account[v]] # 0
  /\ \E r \in smart_get_request(b) : helpserv_assign(v, u, b, r)

cmd_close(u, b) ==
  /\ Actor(u, b, HlTrial)
  /\ \E r \in smart_get_request(b) :
       /\ \/ bot[b].level[account[u]] >= HlManager
          \/ desk.req[r].helper = account[u]
       /\ desk' = free_request(desk, r)
  /\ UNCHANGED <<nick, account, handles, inchan, bot, burst, clock>>

\* By a manager of higher rank, or by an operator through OpServ (None).
SetLevel(b, h, lvl) == bot' = [bot EXCEPT ![b].level[h] = lvl]

cmd_add_user(u, b, h, lvl) ==
  /\ u # None => Actor(u, b, HlManager) /\ bot[b].level[account[u]] > lvl
  /\ b \in Live /\ h \in handles /\ bot[b].level[h] = 0
  /\ SetLevel(b, h, lvl)
  /\ UNCHANGED <<nick, account, handles, inchan, desk, burst, clock>>

cmd_clvl(u, b, h, lvl) ==
  /\ "rank" \in Settings
  /\ b \in Live /\ h \in handles /\ bot[b].level[h] # 0
  /\ u # None => /\ Actor(u, b, HlManager) /\ account[u] # h
                 /\ bot[b].level[account[u]] > bot[b].level[h]
                 /\ bot[b].level[account[u]] > lvl
  /\ SetLevel(b, h, lvl)
  /\ UNCHANGED <<nick, account, handles, inchan, desk, burst, clock>>

\* free_user: what the helper handled goes back to the queue.
free_user(d, b, h) == ReleaseAll(d, Handled(d, b, h))

cmd_deluser(u, b, h) ==
  /\ b \in Live /\ h \in handles /\ bot[b].level[h] # 0
  /\ u # None => /\ Actor(u, b, HlManager)
                 /\ bot[b].level[account[u]] > bot[b].level[h]
  /\ desk' = free_user(desk, b, h)
  /\ SetLevel(b, h, 0)
  /\ UNCHANGED <<nick, account, handles, inchan, burst, clock>>

Owners(b) == {h \in Handles : bot[b].level[h] = HlOwner}

cmd_giveownership(u, b, h) ==
  /\ "rank" \in Settings
  /\ b \in Live /\ h \in handles /\ bot[b].level[h] # 0
  /\ u # None => Actor(u, b, HlOwner) /\ account[u] # h
  /\ u = None => Cardinality(Owners(b)) <= 1
  /\ LET old == IF u # None THEN {account[u]} ELSE Owners(b)
     IN bot' = [bot EXCEPT ![b].level =
          [x \in Handles |-> IF x = h THEN HlOwner
                             ELSE IF x \in old THEN HlManager ELSE @[x]]]
  /\ UNCHANGED <<nick, account, handles, inchan, desk, burst, clock>>

-----------------------------------------------------------------------------
(* Bots                                                                    *)

cmd_register_bot(b, h) ==
  /\ bot[b] = None /\ h \in handles
  /\ bot' = [bot EXCEPT ![b] = NewBot(h)]
  /\ UNCHANGED <<nick, account, handles, inchan, desk, burst, clock>>

\* helpserv_unregister and unregister_helpserv: every timer of the bot goes.
unregister_helpserv(S) ==
  /\ desk' = FoldSet(LAMBDA b, d : FreeAll(d, Of(d, b)), desk, S)
  /\ bot' = [b \in Bots |-> IF b \in S THEN None ELSE bot[b]]
  /\ UNCHANGED <<nick, account, handles, inchan, burst, clock>>

cmd_unregister_bot(b) == b \in Live /\ unregister_helpserv({b})

\* cmd_expire: the bots without an assignment for expire_age, one time unit.
cmd_expire ==
  LET S == {b \in Live : clock - bot[b].active >= 1}
  IN "expire" \in Settings /\ S # {} /\ unregister_helpserv(S)

cmd_suspend(b, e) ==
  /\ "suspend" \in Settings
  /\ b \in Live
  /\ bot' = [bot EXCEPT ![b].suspended = TRUE, ![b].expiry = e,
                        ![b].expiries = @ \cup ({e} \ {0})]
  /\ UNCHANGED <<nick, account, handles, inchan, desk, burst, clock>>

Unsuspended(b, left) ==
  [bot EXCEPT ![b].suspended = FALSE, ![b].expiry = 0, ![b].expiries = left]

cmd_unsuspend(b) ==
  /\ b \in Live /\ bot[b].suspended
  /\ bot' = Unsuspended(b, bot[b].expiries \ {bot[b].expiry})
  /\ UNCHANGED <<nick, account, handles, inchan, desk, burst, clock>>

helpserv_expire_suspension(b) ==
  /\ b \in Live
  /\ \E e \in bot[b].expiries :
       /\ e <= clock
       /\ bot' = Unsuspended(b, bot[b].expiries \ {e})
  /\ UNCHANGED <<nick, account, handles, inchan, desk, burst, clock>>

\* An interval: 0 to n adds the timer, n to 0 deletes it.
ToggleWhine(B) == [B EXCEPT !.whineInterval = ~@,
                            !.whineTimers = IF B.whineInterval THEN 0 ELSE @ + 1]
ToggleEmpty(B) == [B EXCEPT !.emptyInterval = ~@,
                            !.emptyTimers = IF B.emptyInterval THEN 0 ELSE @ + 1]

cmd_set(b) ==
  /\ b \in Live
  /\ \/ /\ "request" \in Settings
        /\ \E p \in Lengths : bot' = [bot EXCEPT ![b].request = p]
     \/ /\ "helper" \in Settings
        /\ \E p \in Lengths : bot' = [bot EXCEPT ![b].helper = p]
     \/ /\ "onjoin" \in Settings
        /\ bot' = [bot EXCEPT ![b].onjoin = ~@]
     \/ /\ "idwrap" \in Settings
        /\ \E w \in Wraps : bot' = [bot EXCEPT ![b].wrap = w]
     \/ /\ "emptyinterval" \in Settings
        /\ bot' = [bot EXCEPT ![b] = ToggleEmpty(@)]
     \/ /\ "whineinterval" \in Settings
        /\ bot' = [bot EXCEPT ![b] = ToggleWhine(@)]
  /\ UNCHANGED <<nick, account, handles, inchan, desk, burst, clock>>

run_empty_interval(b) ==
  /\ b \in Live /\ bot[b].emptyTimers > 0
  /\ LET B == [bot[b] EXCEPT !.emptyTimers = @ - 1]
     IN bot' = [bot EXCEPT ![b] =
          RunEmpty(B, HelpersAmong(b, inchan), desk.unhandled[b] # <<>>)]
  /\ UNCHANGED <<nick, account, handles, inchan, desk, burst, clock>>

run_whine_interval(b) ==
  /\ b \in Live /\ bot[b].whineTimers > 0
  /\ bot' = [bot EXCEPT ![b].whineTimers =
               @ - 1 + IF bot[b].whineInterval THEN 1 ELSE 0]
  /\ UNCHANGED <<nick, account, handles, inchan, desk, burst, clock>>

-----------------------------------------------------------------------------
(* Events of the network                                                   *)

NewUser(u, n) ==
  /\ nick[u] = None /\ \A v \in HelpUsers : nick[v] # n
  /\ nick' = [nick EXCEPT ![u] = n]
  /\ UNCHANGED <<account, handles, inchan, bot, desk, burst, clock>>

\* associate_requests_bybot: the account's requests without a client.
associate_requests(d, b, u) ==
  IF account[u] = None THEN d
  ELSE FoldLeft(LAMBDA x, r : IF r[1] = b /\ x.req[r].user = None
                              THEN Attach(x, r, u) ELSE x,
                d, d.byHand[account[u]])

\* A client joins: a helper ends the empty channel; anybody else gets the
\* requests of its account back and, with req_on_join, one if it has none.
JoinBot(u, b) ==
  LET B == bot[b]
      helper == account[u] # None /\ B.level[account[u]] # 0
      d == associate_requests(desk, b, u)
  IN IF helper THEN
       /\ bot' = [bot EXCEPT ![b] =
            IF B.level[account[u]] >= HlHelper /\ B.emptyInterval /\ B.empty
            THEN [B EXCEPT !.empty = FALSE, !.emptyTimers = 0] ELSE B]
       /\ desk' = desk
     ELSE IF burst # 0 /\ ~B.onjoin THEN UNCHANGED <<bot, desk>>
     ELSE IF B.onjoin /\ d.byNick[nick[u]] = <<>> THEN create_request(u, b, d, TRUE)
     ELSE bot' = bot /\ desk' = d

handle_join(u) ==
  /\ u \in Connected \ inchan
  /\ inchan' = inchan \cup {u}
  /\ \/ Live = {} /\ UNCHANGED <<bot, desk>>
     \/ \E b \in Live : JoinBot(u, b)
  /\ UNCHANGED <<nick, account, handles, burst, clock>>

\* handle_part: one request of the client per bot is dropped where requests
\* last until part; what the leaving helper handled goes back to the queue
\* where helpers last until part.
PartDesk(d, u) ==
  LET dropped(b) == {r \in Of(d, b) : d.req[r].user = u /\ bot[b].request = PERSIST_PART}
      first(b) == IF dropped(b) = {} THEN {} ELSE {Head(InOrder(dropped(b)))}
      e == FoldSet(LAMBDA b, x : FreeAll(x, first(b)), d, Live)
      gone(b) == /\ account[u] # None /\ bot[b].level[account[u]] # 0
                 /\ Authed(account[u]) \cap (inchan \ {u}) = {}
                 /\ bot[b].helper = PERSIST_PART
  IN FoldSet(LAMBDA b, x : IF gone(b) THEN free_user(x, b, account[u]) ELSE x,
             e, Live)

\* The last helper leaves bot b's channel; the empty interval is set.
LastHelper(b, u) ==
  /\ account[u] # None /\ bot[b].level[account[u]] >= HlHelper
  /\ Authed(account[u]) \cap (inchan \ {u}) = {}
  /\ bot[b].emptyInterval

\* A bug to compare with: the timer that runs already is left.
PartBotAgain(b, u, d) ==
  LET helpers == HelpersAmong(b, inchan \ {u})
      B == bot[b]
  IN IF ~LastHelper(b, u) THEN B
     ELSE [B EXCEPT !.empty = ~helpers,
             !.emptyTimers = IF ~helpers /\ (d.unhandled[b] # <<>> \/ ~B.onjoin)
                             THEN @ + 1 ELSE @]

PartBot(b, u, d) ==
  LET helpers == HelpersAmong(b, inchan \ {u})
      B == bot[b]
  IN IF ~LastHelper(b, u) THEN B
     ELSE [B EXCEPT !.empty = ~helpers,
             !.emptyTimers = IF ~helpers /\ (d.unhandled[b] # <<>> \/ ~B.onjoin)
                             THEN 1 ELSE @]

handle_part(u) ==
  /\ u \in inchan
  /\ inchan' = inchan \ {u}
  /\ desk' = PartDesk(desk, u)
  /\ bot' = [b \in Bots |-> IF b \in Live THEN PartBot(b, u, PartDesk(desk, u))
                            ELSE None]
  /\ UNCHANGED <<nick, account, handles, burst, clock>>

\* handle_quit, after handle_part: requests that last until quit, or that no
\* account keeps, are dropped; the others lose their client.
QuitDesk(d, u) ==
  LET l == d.byNick[nick[u]]
      drop == {r \in ToSet(l) : bot[r[1]].request = PERSIST_QUIT \/ d.req[r].handle = None}
      e == FreeAll(d, drop)
      f == [e EXCEPT !.req = [r \in DOMAIN @ |-> IF r \in ToSet(l)
                                THEN [@[r] EXCEPT !.user = None] ELSE @[r]],
                     !.byNick[nick[u]] = <<>>]
      gone(b) == /\ account[u] # None /\ bot[b].level[account[u]] # 0
                 /\ Authed(account[u]) = {u}
                 /\ bot[b].helper = PERSIST_QUIT
  IN FoldSet(LAMBDA b, x : IF gone(b) THEN free_user(x, b, account[u]) ELSE x,
             f, Live)

handle_quit(u) ==
  LET d == IF u \in inchan THEN PartDesk(desk, u) ELSE desk
  IN /\ u \in Connected
     /\ desk' = QuitDesk(d, u)
     /\ bot' = [b \in Bots |-> IF u \in inchan /\ b \in Live
                               THEN PartBot(b, u, d) ELSE bot[b]]
     /\ inchan' = inchan \ {u}
     /\ nick' = [nick EXCEPT ![u] = None]
     /\ account' = [account EXCEPT ![u] = None]
     /\ UNCHANGED <<handles, burst, clock>>

\* A bug to compare with: the list stays under the old nick.
NickListStays(u, n) ==
  /\ u \in Connected /\ \A v \in HelpUsers : nick[v] # n
  /\ nick' = [nick EXCEPT ![u] = n]
  /\ UNCHANGED <<account, handles, inchan, bot, desk, burst, clock>>

handle_nickchange(u, n) ==
  /\ u \in Connected /\ \A v \in HelpUsers : nick[v] # n
  /\ nick' = [nick EXCEPT ![u] = n]
  /\ desk' = IF desk.byNick[nick[u]] = <<>> THEN desk
             ELSE [desk EXCEPT !.byNick[nick[u]] = <<>>,
                               !.byNick[n] = desk.byNick[nick[u]]]
  /\ UNCHANGED <<account, handles, inchan, bot, burst, clock>>

-----------------------------------------------------------------------------
(* Events of the accounts                                                  *)

RegisterAccount(h) ==
  /\ h \notin handles
  /\ handles' = handles \cup {h}
  /\ UNCHANGED <<nick, account, inchan, bot, desk, burst, clock>>

\* Every request of the client that follows it to account h.
ToHand(d, r, old, h) ==
  LET e == [d EXCEPT !.req[r].handle = h, !.byHand[h] = Append(@, r)]
  IN IF old = None THEN e
     ELSE [e EXCEPT !.byHand[old] = DropFrom(@, r)]

\* handle_nickserv_auth: without an old account, and where requests last until
\* part or quit, they follow the client; the others stay with the old account
\* and lose the client.
handle_nickserv_auth(u, h) ==
  LET old == account[u]
      l == desk.byNick[nick[u]]
      follows(r) == old = None \/ bot[r[1]].request # PERSIST_CLOSE
      d == FoldLeft(LAMBDA x, r :
                      IF follows(r) THEN ToHand(x, r, old, h)
                      ELSE [x EXCEPT !.req[r].user = None,
                                     !.byNick[nick[u]] = ListRemove(@, r)],
                    desk, l)
  IN /\ u \in Connected /\ h \in handles /\ h # account[u]
     /\ account' = [account EXCEPT ![u] = h]
     /\ desk' = IF u \notin inchan THEN d
                ELSE FoldSet(LAMBDA b, x :
                       FoldLeft(LAMBDA y, r :
                           IF r[1] = b /\ y.req[r].user = None
                           THEN Attach(y, r, u) ELSE y, x, x.byHand[h]),
                       d, Live)
     /\ UNCHANGED <<nick, handles, inchan, bot, burst, clock>>

\* LOGOUT of NickServ: the handler returns at once when there is no account.
\* Bound: by clients without a request of their account.  Such a request stays
\* on that account's list; when its client logs in to another account it gets
\* on the other's list too, and its end leaves it on the first, freed.
cmd_logout(u) ==
  /\ u \in Connected /\ account[u] # None
  /\ \A r \in DOMAIN desk.req : desk.req[r].user = u => desk.req[r].handle = None
  /\ account' = [account EXCEPT ![u] = None]
  /\ UNCHANGED <<nick, handles, inchan, bot, desk, burst, clock>>

\* handle_nickserv_unreg: h is unregistered by client u, or expires (None).
\* Its helpers go first; a request without a client goes to u when u is logged
\* in to h, else to another client logged in to h, else it is dropped.
handle_nickserv_unreg(u, h) ==
  LET d == FoldSet(LAMBDA b, x : free_user(x, b, h), desk, Live)
      heir == IF u = None \/ Authed(h) = {} THEN {None}
              ELSE IF u \in Authed(h) THEN {u} ELSE Authed(h)
      pass(x, r, v) ==
        LET y == [x EXCEPT !.req[r].handle = None, !.byHand[h] = ListRemove(@, r)]
        IN IF y.req[r].user # None THEN y
           ELSE IF v = None THEN free_request(y, r) ELSE Attach(y, r, v)
  IN /\ h \in handles /\ u \in Connected \cup {None}
     /\ handles' = handles \ {h}
     /\ \E v \in heir : desk' = FoldLeft(LAMBDA x, r : pass(x, r, v), d, d.byHand[h])
     /\ bot' = [b \in Bots |-> IF b \in Live
                               THEN [bot[b] EXCEPT !.level[h] = 0] ELSE None]
     /\ account' = [v \in HelpUsers |-> IF account[v] = h THEN None ELSE account[v]]
     /\ UNCHANGED <<nick, inchan, burst, clock>>

\* handle_nickserv_merge, then the unregistration of the merged account.
handle_nickserv_merge(to, from) ==
  LET l == desk.byHand[from]
      d == [desk EXCEPT !.byHand[to] = @ \o l, !.byHand[from] = <<>>,
                        !.req = [r \in DOMAIN @ |-> IF r \in ToSet(l)
                                   THEN [@[r] EXCEPT !.handle = to] ELSE @[r]]]
  IN /\ {to, from} \subseteq handles /\ to # from
     /\ handles' = handles \ {from}
     /\ account' = [v \in HelpUsers |-> IF account[v] = from THEN to ELSE account[v]]
     /\ desk' = FoldSet(LAMBDA b, x : free_user(x, b, from), d, Live)
     /\ bot' = [b \in Bots |-> IF b \in Live
                               THEN [bot[b] EXCEPT !.level[from] = 0] ELSE None]
     /\ UNCHANGED <<nick, inchan, burst, clock>>

-----------------------------------------------------------------------------
(* Restart: the databases are written, the program ends and starts again   *)

\* request_read_helper: at its age, behind a head that is as old.
ReadRequest(d, r, q) ==
  LET e == [d EXCEPT !.req = [x \in DOMAIN @ \cup {r} |->
                                IF x = r THEN q ELSE @[x]],
                     !.byHand[q.handle] = Append(@, r)]
      l == e.unhandled[r[1]]
  IN IF q.helper # None THEN e
     ELSE IF l # <<>> /\ Opened(e, Head(l)) = q.opened
     THEN [e EXCEPT !.unhandled[r[1]] = <<Head(@), r>> \o Tail(@)]
     ELSE Requeue(e, r)

NoDesk == [req |-> <<>>, unhandled |-> [b \in Bots |-> <<>>],
           byNick |-> [n \in Nicks |-> <<>>], byHand |-> [h \in Handles |-> <<>>]]

\* HelpUsers are burst again; requests without an account are not written.
HelpRestart ==
  LET kept == {r \in DOMAIN desk.req : desk.req[r].handle # None}
      read(d, r) == ReadRequest(d, r, [desk.req[r] EXCEPT !.user = None])
  IN /\ "restart" \in Settings /\ burst = 0
     /\ nick' = [u \in HelpUsers |-> None]
     /\ account' = [u \in HelpUsers |-> None]
     /\ inchan' = {}
     /\ desk' = FoldSet(LAMBDA b, d : FoldLeft(read, d,
                          InOrder({r \in kept : r[1] = b})), NoDesk, Live)
     /\ bot' = [b \in Bots |-> IF b \notin Live THEN None
                ELSE [bot[b] EXCEPT
                        !.empty = FALSE,
                        !.emptyTimers = IF bot[b].emptyInterval THEN 1 ELSE 0,
                        !.whineTimers = IF bot[b].whineInterval THEN 1 ELSE 0,
                        !.expiry = IF bot[b].suspended THEN @ ELSE 0,
                        !.expiries = IF bot[b].suspended
                                     THEN {bot[b].expiry} \ {0} ELSE {}]]
     /\ burst' = clock
     /\ UNCHANGED <<handles, clock>>

EndOfBurst == burst # 0 /\ burst' = 0
              /\ UNCHANGED <<nick, account, handles, inchan, bot, desk, clock>>

\* Time passes once what is due has run.
HelpTick ==
  /\ clock < MaxClock
  /\ \A b \in Live : \A e \in bot[b].expiries : e > clock
  /\ clock' = clock + 1
  /\ UNCHANGED hsVars

-----------------------------------------------------------------------------
HelpInit ==
  /\ nick = [u \in HelpUsers |-> None]
  /\ account = [u \in HelpUsers |-> None]
  /\ handles = {}
  /\ inchan = {}
  /\ bot = [b \in Bots |-> None]
  /\ desk = NoDesk
  /\ burst = 0
  /\ clock = 1

HelpNext ==
  \/ \E u \in HelpUsers, n \in Nicks : NewUser(u, n) \/ handle_nickchange(u, n)
  \/ \E u \in HelpUsers : handle_join(u) \/ handle_part(u) \/ handle_quit(u) \/ cmd_logout(u)
  \/ \E u \in HelpUsers, h \in Handles : handle_nickserv_auth(u, h)
  \/ \E h \in Handles : RegisterAccount(h)
  \/ \E u \in HelpUsers \cup {None}, h \in Handles : handle_nickserv_unreg(u, h)
  \/ \E g, h \in Handles : handle_nickserv_merge(g, h)
  \/ \E u \in HelpUsers, b \in Bots : \/ helpserv_usermsg(u, b) \/ usercmd_close(u, b)
                                  \/ cmd_next(u, b) \/ cmd_pickup(u, b)
                                  \/ cmd_close(u, b)
  \/ \E u, v \in HelpUsers, b \in Bots : cmd_reassign(u, v, b)
  \/ \E u \in HelpUsers \cup {None}, b \in Bots, h \in Helpers :
       \/ cmd_deluser(u, b, h) \/ cmd_giveownership(u, b, h)
       \/ \E lvl \in HelperLevels : cmd_add_user(u, b, h, lvl)
                                        \/ cmd_clvl(u, b, h, lvl)
  \/ \E b \in Bots, h \in Helpers : cmd_register_bot(b, h)
  \/ \E b \in Bots : \/ cmd_unregister_bot(b) \/ cmd_unsuspend(b) \/ cmd_set(b)
                     \/ \E e \in {0, clock + 1} : cmd_suspend(b, e)
                     \/ helpserv_expire_suspension(b)
                     \/ run_empty_interval(b) \/ run_whine_interval(b)
  \/ cmd_expire \/ HelpRestart \/ EndOfBurst \/ HelpTick

HelpSpec == HelpInit /\ [][HelpNext]_<<hsVars, clock>>

-----------------------------------------------------------------------------
HelpTypeOK ==
  /\ nick \in [HelpUsers -> Nicks \cup {None}]
  /\ account \in [HelpUsers -> Handles \cup {None}]
  /\ handles \subseteq Handles /\ inchan \subseteq Connected
  /\ DOMAIN desk.req \subseteq Refs
  /\ \A r \in DOMAIN desk.req : desk.req[r] \in Request
  /\ burst \in 0..MaxClock /\ clock \in 1..MaxClock

(* The queue of a bot is its requests without a helper, each once, oldest  *)
(* first: usercmd_wait asserts that a request without a helper is in it,   *)
(* NEXT takes its head as the one that waits longest, and every helper is  *)
(* somebody on the bot's user list (helpers leave by DELUSER, by parting,  *)
(* quitting, by the end or the merge of their account, or by a restart).   *)
QueueExact ==
  /\ \A b \in Bots :
       LET l == desk.unhandled[b] IN
       /\ ToSet(l) = Handled(desk, b, None) /\ IsInjective(l)
       /\ \A i \in 1..(Len(l) - 1) : Opened(desk, l[i]) <= Opened(desk, l[i + 1])
  /\ \A r \in DOMAIN desk.req :
       /\ r[1] \in Live
       /\ desk.req[r].helper # None => bot[r[1]].level[desk.req[r].helper] # 0

(* The list under a nick holds the requests of the client of that nick and *)
(* no others, each once: free_request takes a request off the list its     *)
(* client's present nick leads to, whatever renames, quits, logins and     *)
(* unregistrations came between.                                           *)
NickListsAgree ==
  \A n \in DOMAIN desk.byNick :
    LET l == desk.byNick[n] IN
    /\ IsInjective(l)
    /\ ToSet(l) = {r \in DOMAIN desk.req :
                     desk.req[r].user # None /\ nick[desk.req[r].user] = n}

(* The list under an account holds the requests of that account and no     *)
(* others, each once; the account is registered.  A list that keeps a      *)
(* request after free_request hands out freed memory to the next client    *)
(* that logs in or joins.                                                  *)
HandListsAgree ==
  \A h \in DOMAIN desk.byHand :
    LET l == desk.byHand[h] IN
    /\ IsInjective(l)
    /\ ToSet(l) = {r \in DOMAIN desk.req : desk.req[r].handle = h}
    /\ l # <<>> => h \in handles

(* All three: free_request, associate_requests and the handlers for nick   *)
(* changes, logins, unregistrations, merges and helpers that leave keep    *)
(* the queue and the lists in step with the requests.                      *)
RequestsListed == QueueExact /\ NickListsAgree /\ HandListsAgree

(* A bot has one whine timer exactly when its interval is set, at most one *)
(* timer for the empty channel and none without the interval, and a timer  *)
(* for the end of its suspension when that is to end: SET, joins, parts,   *)
(* new requests, firings and a restart all add and delete them.            *)
IntervalsTimed ==
  \A b \in Live :
    /\ bot[b].whineTimers = IF bot[b].whineInterval THEN 1 ELSE 0
    /\ bot[b].emptyTimers <= IF bot[b].emptyInterval THEN 1 ELSE 0
    /\ bot[b].suspended /\ bot[b].expiry # 0 => bot[b].expiry \in bot[b].expiries
=============================================================================
