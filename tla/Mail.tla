-------------------------------- MODULE Mail ---------------------------------
(***************************************************************************)
(* Mail over SMTP: the queue of mail-smtp.c (the --with-mail=smtp build)   *)
(* and its one connection, driven by the answers of the mail server, and   *)
(* the forbidden addresses of mail-common.c.  The server is free to answer *)
(* anything to anything and to close the connection at any time.           *)
(*                                                                         *)
(* A failed assert() ends the program; the queue is in memory only.        *)
(***************************************************************************)
EXTENDS Naturals, Sequences, FiniteSets

CONSTANTS Mails,          \* the mails asked for over a run
          MailAddresses,  \* mail addresses and masks of addresses that can be banned
          MailMasks,      \* those that hold a "*" or a "?"
          MailMatches     \* <<address, mask>>: match_ircglob(address, mask)

NoMail == "NULL"

ASSUME MailsNamed == NoMail \notin Mails

VARIABLES smtp_state, mail_queue, active_mail, smtp_fd,
          mailLeft,       \* history: mails that left the queue, and how
          prohibited  \* the addresses and the masks banned

mailVars == <<smtp_state, mail_queue, active_mail, smtp_fd, mailLeft, prohibited>>

MailInit ==
    /\ smtp_state = "CLOSED" /\ smtp_fd = FALSE
    /\ mail_queue = <<>> /\ active_mail = NoMail
    /\ mailLeft = [m \in {} |-> "sent"]
    /\ prohibited = {}

MailsQueued == {mail_queue[i] : i \in DOMAIN mail_queue}
WithoutMail(m) ==
    LET k == CHOOSE i \in DOMAIN mail_queue : mail_queue[i] = m
    IN  IF m \in MailsQueued THEN SubSeq(mail_queue, 1, k - 1) \o SubSeq(mail_queue, k + 1, Len(mail_queue)) ELSE mail_queue
Departed(m, how) == [x \in DOMAIN mailLeft \union {m} |-> IF x = m THEN how ELSE mailLeft[x]]

(* smtp_idle_work, in the state IDLE: the oldest mail of the queue q, or nothing. *)
IdleWork(q) ==
    IF q = <<>> THEN /\ smtp_state' = "IDLE" /\ UNCHANGED active_mail
    ELSE /\ smtp_state' = "SENT_MAIL_FROM" /\ active_mail' = q[1]

(* ioset_close, whose destroy callback is mail_destroyed. *)
mail_destroyed ==
    /\ smtp_state' = "CLOSED" /\ smtp_fd' = FALSE
    /\ UNCHANGED <<mail_queue, active_mail, mailLeft, prohibited>>

(***************************************************************************)
(* mail_send.  ioset_connect gives no connection when the server's name    *)
(* has no address or it refuses at once; when it accepts at once,          *)
(* mail_connected has run before the pointer is stored.                    *)
(***************************************************************************)
mail_send(m, connects) ==
    /\ smtp_state # "ABORTED" /\ m \notin MailsQueued /\ m \notin DOMAIN mailLeft
    /\ mail_queue' = Append(mail_queue, m)
    /\ IF ~smtp_fd
       THEN /\ smtp_state' = IF connects = "at once" THEN "WAITING_GREETING" ELSE "CONNECTING"
            /\ smtp_fd' = (connects # "never")
            /\ UNCHANGED active_mail
       ELSE /\ connects = "later"
            /\ IF smtp_state = "IDLE" THEN IdleWork(mail_queue') ELSE UNCHANGED <<smtp_state, active_mail>>
            /\ UNCHANGED smtp_fd
    /\ UNCHANGED <<mailLeft, prohibited>>

mail_connected(error) ==
    /\ smtp_state = "CONNECTING" /\ smtp_fd
    /\ smtp_state' = IF error THEN "CLOSED" ELSE "WAITING_GREETING"
    /\ smtp_fd' = ~error
    /\ UNCHANGED <<mail_queue, active_mail, mailLeft, prohibited>>

InSession == smtp_state \notin {"CLOSED", "CONNECTING", "ABORTED"}

SmtpGreeted(code) ==
    /\ smtp_state = "WAITING_GREETING"
    /\ IF code >= 4 THEN mail_destroyed
       ELSE /\ smtp_state' = "SENT_EHLO"
            /\ UNCHANGED <<smtp_fd, mail_queue, active_mail, mailLeft, prohibited>>

smtp_handle_ehlo(code) ==
    /\ smtp_state = "SENT_EHLO"
    /\ CASE code = 4 -> mail_destroyed
         [] code = 5 -> /\ smtp_state' = "SENT_HELO"
                        /\ UNCHANGED <<smtp_fd, mail_queue, active_mail, mailLeft, prohibited>>
         [] OTHER -> IdleWork(mail_queue) /\ UNCHANGED <<smtp_fd, mail_queue, mailLeft, prohibited>>

smtp_handle_helo(code) ==
    /\ smtp_state = "SENT_HELO"
    /\ IF code >= 4 THEN mail_destroyed
       ELSE IdleWork(mail_queue) /\ UNCHANGED <<smtp_fd, mail_queue, mailLeft, prohibited>>

(* As a mutant: the mail is freed and stays the active one. *)
DiscardedKept ==
    /\ mail_queue' = WithoutMail(active_mail) /\ mailLeft' = Departed(active_mail, "refused")
    /\ smtp_state' = "SENT_RSET"
    /\ UNCHANGED <<active_mail, smtp_fd, prohibited>>

discard_mail ==
    /\ mail_queue' = WithoutMail(active_mail) /\ mailLeft' = Departed(active_mail, "refused")
    /\ active_mail' = NoMail /\ smtp_state' = "SENT_RSET"
    /\ UNCHANGED <<smtp_fd, prohibited>>

(* MAIL FROM, RCPT TO and DATA: a temporary error changes nothing, and no timer waits for it. *)
SmtpStep(state, next, code) ==
    /\ smtp_state = state
    /\ CASE code = 5 -> discard_mail
         [] code = 4 -> UNCHANGED mailVars
         [] OTHER -> /\ smtp_state' = next
                     /\ UNCHANGED <<smtp_fd, mail_queue, active_mail, mailLeft, prohibited>>

smtp_handle_mail_from(code) == SmtpStep("SENT_MAIL_FROM", "SENT_RCPT_TO", code)
smtp_handle_rcpt_to(code) == SmtpStep("SENT_RCPT_TO", "SENT_DATA", code)
smtp_handle_data(code) == SmtpStep("SENT_DATA", "SENT_BODY", code)

smtp_handle_body(code) ==
    /\ smtp_state = "SENT_BODY"
    /\ CASE code = 5 -> discard_mail
         [] code = 4 -> UNCHANGED mailVars
         [] OTHER ->
            /\ mail_queue' = WithoutMail(active_mail) /\ mailLeft' = Departed(active_mail, "sent")
            /\ IF mail_queue' = <<>> THEN smtp_state' = "IDLE" /\ active_mail' = NoMail
               ELSE IdleWork(mail_queue')
            /\ UNCHANGED <<smtp_fd, prohibited>>

(* It asserts that there is an active mail; discard_mail has just cleared it. *)
smtp_handle_rset ==
    /\ smtp_state = "SENT_RSET"
    /\ IF active_mail = NoMail
       THEN smtp_state' = "ABORTED" /\ UNCHANGED <<smtp_fd, mail_queue, active_mail, mailLeft, prohibited>>
       ELSE IdleWork(mail_queue) /\ UNCHANGED <<smtp_fd, mail_queue, mailLeft, prohibited>>

(* One line of the server; a line that is continued, or one in a state without handler, changes nothing. *)
mail_readable(code) ==
    /\ InSession
    /\ \/ SmtpGreeted(code)
       \/ smtp_handle_ehlo(code)
       \/ smtp_handle_helo(code)
       \/ smtp_handle_mail_from(code)
       \/ smtp_handle_rcpt_to(code)
       \/ smtp_handle_data(code)
       \/ smtp_handle_body(code)
       \/ smtp_handle_rset

ServerCloses == InSession /\ mail_destroyed

(* mail-common.c: an address by its text, then every mask in turn. *)
mail_prohibited_address(a) ==
    a \in prohibited \/ \E m \in prohibited \intersect MailMasks : <<a, m>> \in MailMatches

mail_ban_address(a) ==
    /\ smtp_state # "ABORTED" /\ a \notin prohibited
    /\ prohibited' = prohibited \union {a}
    /\ UNCHANGED <<smtp_state, mail_queue, active_mail, smtp_fd, mailLeft>>

cmd_unbanemail(a) ==
    /\ smtp_state # "ABORTED" /\ a \in prohibited
    /\ prohibited' = prohibited \ {a}
    /\ UNCHANGED <<smtp_state, mail_queue, active_mail, smtp_fd, mailLeft>>

(* The bans are saved and read back; mails that were waiting are gone. *)
MailRestart ==
    /\ smtp_state' = "CLOSED" /\ smtp_fd' = FALSE
    /\ mail_queue' = <<>> /\ active_mail' = NoMail
    /\ mailLeft' = [m \in DOMAIN mailLeft \union MailsQueued |-> IF m \in DOMAIN mailLeft THEN mailLeft[m] ELSE "lost"]
    /\ UNCHANGED prohibited

MailNext ==
    \/ \E m \in Mails, c \in {"later", "at once", "never"} : mail_send(m, c)
    \/ \E e \in BOOLEAN : mail_connected(e)
    \/ \E code \in {2, 4, 5} : mail_readable(code)
    \/ ServerCloses
    \/ \E a \in MailAddresses : mail_ban_address(a) \/ cmd_unbanemail(a)
    \/ MailRestart

MailSpec == MailInit /\ [][MailNext]_mailVars

SendingStates == {"SENT_MAIL_FROM", "SENT_RCPT_TO", "SENT_DATA", "SENT_BODY"}

(***************************************************************************)
(* The mail an answer of the server is about is the oldest one of the      *)
(* queue, and it is there: neither the mails asked for meanwhile nor a     *)
(* connection that was lost halfway leaves active_mail at a mail that was  *)
(* freed, so an answer never takes another mail out of the queue.  A       *)
(* connection that is being used is the one of smtp_fd.                    *)
(***************************************************************************)
ActiveIsFirst ==
    /\ smtp_state \in SendingStates => active_mail # NoMail
    /\ active_mail # NoMail => mail_queue # <<>> /\ active_mail = mail_queue[1]
    /\ InSession => smtp_fd
=============================================================================
