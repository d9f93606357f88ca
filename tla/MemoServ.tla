------------------------------ MODULE MemoServ ------------------------------
(* Memos between accounts (mod-memoserv.c).  A memo stands in the inbox of    *)
(* its recipient and is also found through its sender; the history keeps      *)
(* sender and recipient after the memo is gone.  Accounts come, go and change *)
(* names under it, and the database is read back by record name.  The text,   *)
(* the notices and the mail are left out.                                     *)
EXTENDS Integers, Sequences, FiniteSets, SequencesExt, FiniteSetsExt, Functions

CONSTANTS
    Names,      \* names an account may have
    Limits,     \* inbox limits a user may ask for
    Settable,   \* the flags SET changes here
    Letters,    \* letters of one case among the digits inttobase64 writes (26)
    Acquainted, \* pairs of accounts that share a channel
    Ignoring,   \* pairs <<recipient, sender>> where an ignore matches
    conf_limit, \* memoserv_conf.limit
    Expiries,   \* values of message_expiry the configuration may give
    MaxId, MaxTime

VARIABLES
    handles,    \* registered accounts, by name
    account,    \* name -> memo_account: its settings
    memos,      \* id -> memo
    inbox,      \* name -> sequence of ids, memo_account.recvd
    history,    \* set of history entries
    memo_id,    \* last id given
    message_expiry, expiryTimers, now

vars == <<handles, account, memos, inbox, history, memo_id, message_expiry, expiryTimers, now>>

\* What memoserv_get_account makes for an account that has none yet.
NewAccount == [flags |-> {"NOTIFY_NEW", "NOTIFY_LOGIN", "USE_PRIVMSG"}, limit |-> conf_limit]

\* memoserv_get_account for every account of hs.
Got(hs) == account @@ [h \in hs |-> NewAccount]
GotInbox(hs) == inbox @@ [h \in hs |-> <<>>]

Init ==
    /\ handles \in {{h} : h \in Names} \cup {Names}
    /\ account = <<>> /\ memos = <<>> /\ inbox = <<>> /\ history = {} /\ memo_id = 0
    /\ message_expiry \in Expiries
    /\ expiryTimers = IF message_expiry = 0 THEN {} ELSE {message_expiry}
    /\ now = 0

-----------------------------------------------------------------------------
\* The memo table, the inboxes and the history once a memo is added.
AddMemo(box, from, to, reciept) ==
    /\ memo_id < MaxId
    /\ memo_id' = memo_id + 1
    /\ memos' = memos @@ (memo_id' :> [from |-> from, to |-> to, sent |-> now, read |-> FALSE, reciept |-> reciept])
    /\ inbox' = [box EXCEPT ![to] = Append(@, memo_id')]
    /\ history' = history \cup {[id |-> memo_id', from |-> from, to |-> to, sent |-> now]}

\* delete_memo for every memo of ids: it leaves both lists.
DeleteMemos(ids) ==
    /\ memos' = Restrict(memos, DOMAIN memos \ ids)
    /\ inbox' = [h \in DOMAIN inbox |-> SelectSeq(inbox[h], LAMBDA i : i \notin ids)]

\* The limit is cut to the configured one, and an inbox may pass it by one.
memoserv_can_send(from, to) ==
    /\ Len(GotInbox({to})[to]) <= Min({Got({to})[to].limit, conf_limit})
    /\ <<to, from>> \notin Ignoring
    /\ "DENY_NONCHANNEL" \in Got({to})[to].flags => <<to, from>> \in Acquainted

cmd_send(from, to, reciept) ==
    LET got == Got({from, to}) IN
    /\ from \in handles /\ to \in handles
    /\ account' = [got EXCEPT ![to].limit = Min({@, conf_limit})]
    /\ IF memoserv_can_send(from, to)
       THEN AddMemo(GotInbox({from, to}), from, to, reciept \/ "ALWAYS_RECIEPTS" \in got[to].flags)
       ELSE inbox' = GotInbox({from, to}) /\ UNCHANGED <<memos, history, memo_id>>
    /\ UNCHANGED <<handles, message_expiry, expiryTimers, now>>

\* Reading answers a receipt with a memo, whatever the sender's limit is.
cmd_read(h, pos, ignore) ==
    /\ h \in handles /\ h \in DOMAIN inbox /\ pos \in DOMAIN inbox[h]
    /\ LET id == inbox[h][pos]
           seen == [memos EXCEPT ![id].read = TRUE, ![id].reciept = FALSE]
           answers == memos[id].reciept /\ ~ignore /\ "IGNORE_RECIEPTS" \notin account[h].flags
           from == memos[id].from
       IN IF answers
          THEN /\ memo_id < MaxId
               /\ memo_id' = memo_id + 1
               /\ memos' = seen @@ (memo_id' :> [from |-> h, to |-> from, sent |-> now, read |-> FALSE, reciept |-> FALSE])
               /\ inbox' = [inbox EXCEPT ![from] = Append(@, memo_id')]
               /\ history' = history \cup {[id |-> memo_id', from |-> h, to |-> from, sent |-> now]}
          ELSE memos' = seen /\ UNCHANGED <<inbox, history, memo_id>>
    /\ UNCHANGED <<handles, account, message_expiry, expiryTimers, now>>

cmd_delete(h, ids) ==
    /\ h \in handles /\ h \in DOMAIN inbox
    /\ ids # {} /\ \/ ids = Range(inbox[h])
                   \/ \E pos \in DOMAIN inbox[h] : ids = {inbox[h][pos]}
    /\ DeleteMemos(ids)
    /\ UNCHANGED <<handles, account, history, memo_id, message_expiry, expiryTimers, now>>

\* Only an unread memo of one's own can be taken back.
cmd_cancel(h, id) ==
    /\ h \in handles /\ id \in DOMAIN memos
    /\ memos[id].from = h /\ ~memos[id].read
    /\ DeleteMemos({id})
    /\ UNCHANGED <<handles, account, history, memo_id, message_expiry, expiryTimers, now>>

DoExpire ==
    /\ DeleteMemos({i \in DOMAIN memos : now - memos[i].sent > message_expiry})
    /\ history' = {e \in history : now - e.sent <= message_expiry}

\* The command does not ask whether memos expire at all.
cmd_expire == DoExpire /\ UNCHANGED <<handles, account, memo_id, message_expiry, expiryTimers, now>>

expire_memos ==
    \E t \in expiryTimers :
        /\ t <= now
        /\ IF message_expiry = 0
           THEN expiryTimers' = expiryTimers \ {t} /\ UNCHANGED <<memos, inbox, history>>
           ELSE expiryTimers' = (expiryTimers \ {t}) \cup {now + message_expiry} /\ DoExpire
        /\ UNCHANGED <<handles, account, memo_id, message_expiry, now>>

\* SET and OSET: any flag, on or off.
SetFlag(h, flag) ==
    /\ h \in handles
    /\ \E on \in {{}, {flag}} : account' = [Got({h}) EXCEPT ![h].flags = (@ \ {flag}) \cup on]
    /\ inbox' = GotInbox({h})
    /\ UNCHANGED <<handles, memos, history, memo_id, message_expiry, expiryTimers, now>>

opt_limit(h, choice) ==
    /\ h \in handles
    /\ account' = [Got({h}) EXCEPT ![h].limit = Min({choice, conf_limit})]
    /\ inbox' = GotInbox({h})
    /\ UNCHANGED <<handles, memos, history, memo_id, message_expiry, expiryTimers, now>>

\* A rehash changes the expiry and starts no timer.
memoserv_conf_read(e) ==
    /\ e # message_expiry
    /\ message_expiry' = e
    /\ UNCHANGED <<handles, account, memos, inbox, history, memo_id, expiryTimers, now>>

-----------------------------------------------------------------------------
\* external: NickServ registers an account; the login handler makes its memo_account.
Register(h) ==
    /\ h \notin handles
    /\ handles' = handles \cup {h}
    /\ account' = Got({h}) /\ inbox' = GotInbox({h})
    /\ UNCHANGED <<memos, history, memo_id, message_expiry, expiryTimers, now>>

\* Mutant: only what an account received goes with it.
ReceivedOnly(h) == {i \in DOMAIN memos : memos[i].to = h}

\* The memos that go with an account: those it received and those it sent.
delete_memo_account(h) ==
    {i \in DOMAIN memos : h \in {memos[i].from, memos[i].to}}

memoserv_unreg_account(h) ==
    LET ids == delete_memo_account(h) IN
    /\ h \in handles
    /\ handles' = handles \ {h}
    /\ account' = Restrict(account, DOMAIN account \ {h})
    /\ memos' = Restrict(memos, DOMAIN memos \ ids)
    /\ inbox' = [k \in DOMAIN inbox \ {h} |-> SelectSeq(inbox[k], LAMBDA i : i \notin ids)]
    /\ history' = {e \in history : h \notin {e.from, e.to}}
    /\ UNCHANGED <<memo_id, message_expiry, expiryTimers, now>>

\* A memo points to its accounts, so only the name under which they are found changes.
memoserv_rename_account(h, new) ==
    LET ren(x) == IF x = h THEN new ELSE x
        moved(f) == [x \in {ren(y) : y \in DOMAIN f} |-> f[IF x = new THEN h ELSE x]] IN
    /\ h \in handles /\ new \notin handles
    /\ handles' = (handles \ {h}) \cup {new}
    /\ account' = moved(account) /\ inbox' = moved(inbox)
    /\ memos' = [i \in DOMAIN memos |-> [memos[i] EXCEPT !.from = ren(@), !.to = ren(@)]]
    /\ history' = {[e EXCEPT !.from = ren(@), !.to = ren(@)] : e \in history}
    /\ UNCHANGED <<memo_id, message_expiry, expiryTimers, now>>

-----------------------------------------------------------------------------
\* The record name inttobase64 gives an id, as the dictionary compares it: the
\* digits after the upper case letters are the same letters in lower case.
RecordKey(id) == IF id \in Letters .. 2 * Letters - 1 THEN id - Letters ELSE id

\* Of the records written under one key the one read last stays.
Kept(ids) == {S \in SUBSET ids : \A i \in ids : Cardinality({j \in S : RecordKey(j) = RecordKey(i)}) = 1}

\* The highest id of a memo that was read.
LastId(ids) == Max(ids \cup {0})

\* A restart: what is written is read back where both accounts still exist, an
\* id counts even if its record is skipped after that.
Restart(hs, kept, entries) ==
    LET live == {i \in kept : memos[i].from \in hs /\ memos[i].to \in hs}
        log == {e \in entries : e.from \in hs /\ e.to \in hs}
        has == (DOMAIN account \cap hs) \cup UNION {{e.from, e.to} : e \in log}
    IN
    /\ hs \subseteq handles /\ handles' = hs
    /\ kept \in Kept(DOMAIN memos)
    /\ entries \subseteq history
    /\ {e.id : e \in entries} \in Kept({e.id : e \in history})
    /\ \A e, f \in entries : e.id = f.id => e = f
    /\ memos' = Restrict(memos, live)
    /\ inbox' = [h \in has |-> SetToSortSeq({i \in live : memos[i].to = h},
                                             LAMBDA i, j : RecordKey(i) < RecordKey(j))]
    /\ account' = [h \in has |-> IF h \in DOMAIN account THEN account[h] ELSE NewAccount]
    /\ history' = log
    /\ memo_id' = LastId(kept)
    /\ expiryTimers' = IF message_expiry = 0 THEN {} ELSE {now + message_expiry}
    /\ UNCHANGED <<message_expiry, now>>

Tick == now < MaxTime /\ now' = now + 1
        /\ UNCHANGED <<handles, account, memos, inbox, history, memo_id, message_expiry, expiryTimers>>

Next ==
    \/ \E h, k \in Names, b \in BOOLEAN : cmd_send(h, k, b)
    \/ \E h \in Names, pos \in 1 .. MaxId, b \in BOOLEAN : cmd_read(h, pos, b)
    \/ \E h \in Names, ids \in SUBSET DOMAIN memos : cmd_delete(h, ids)
    \/ \E h \in Names, id \in DOMAIN memos : cmd_cancel(h, id)
    \/ cmd_expire \/ expire_memos \/ Tick
    \/ \E h \in Names, f \in Settable : SetFlag(h, f)
    \/ \E h \in Names, l \in Limits : opt_limit(h, l)
    \/ \E e \in Expiries : memoserv_conf_read(e)
    \/ \E h \in Names : Register(h) \/ memoserv_unreg_account(h)
    \/ \E h, k \in Names : memoserv_rename_account(h, k)
    \/ \E hs \in SUBSET handles, kept \in SUBSET DOMAIN memos, log \in SUBSET history : Restart(hs, kept, log)

Spec == Init /\ [][Next]_vars

-----------------------------------------------------------------------------
\* Every memo stands once in the inbox of its recipient and in no other, its
\* sender and its recipient are accounts MemoServ knows, and no id at or below
\* the last one given is given again while a memo has it (delete_memo_account,
\* add_memo, memoserv_memo_read).
MemosHeld ==
    /\ \A i \in DOMAIN memos :
        /\ memos[i].from \in DOMAIN account /\ memos[i].to \in DOMAIN account
        /\ i <= memo_id
    /\ \A h \in DOMAIN inbox :
        /\ Range(inbox[h]) = {i \in DOMAIN memos : memos[i].to = h}
        /\ IsInjective(inbox[h])
    /\ DOMAIN account \subseteq handles

=============================================================================
