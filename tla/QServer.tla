------------------------------- MODULE QServer --------------------------------
(***************************************************************************)
(* Queries from outside (mod-qserver.c): every connection gets a slot, and *)
(* with the slot a dummy user whose nick is the slot's number and under    *)
(* which its commands run.  The answers to that user are looked up by the  *)
(* nick and go to the connection.                                          *)
(***************************************************************************)
EXTENDS Naturals, FiniteSets

CONSTANTS Fds,        \* connections, each used once
          Passwords,  \* passwords the configuration may hold
          Growth      \* slots added when all are used (8 in the code)

NoFd == "NULL"
NoPassword == "NULL"
FreedPassword == "freed"    \* conf.password after a configuration without a port

ASSUME QueriesNamed == NoFd \notin Fds /\ Growth \in Nat \ {0}

VARIABLES qserver_clients,  \* slot -> connection or NoFd
          qserver_dict,     \* slot number of the nick -> connection
          dummies,          \* dummy users on the network: slot -> the connection it was made for
          password_ok,      \* connections that gave the password
          password,         \* conf.password
          fds               \* what ioset knows of a connection: "new", "open" or "closed"

queryVars == <<qserver_clients, qserver_dict, dummies, password_ok, password, fds>>

NoSlots == [x \in {} |-> NoFd]
SetSlot(f, x, y) == [z \in DOMAIN f \union {x} |-> IF z = x THEN y ELSE f[z]]
ClearSlot(f, x) == [z \in DOMAIN f \ {x} |-> f[z]]
SlotOf(fd) == CHOOSE i \in DOMAIN qserver_clients : qserver_clients[i] = fd

QueryInit ==
    /\ qserver_clients = NoSlots /\ qserver_dict = NoSlots /\ dummies = NoSlots
    /\ password_ok = {} /\ fds = [fd \in Fds |-> "new"]
    /\ password \in Passwords \union {NoPassword}

(* As a mutant: the last slot of a full table is given again. *)
OneSlotShort ==
    LET n == Cardinality(DOMAIN qserver_clients)
        free == {i \in DOMAIN qserver_clients : qserver_clients[i] = NoFd}
    IN IF free = {} THEN (IF n = 0 THEN 0 ELSE n - 1) ELSE CHOOSE i \in free : \A j \in free : i <= j

(* The first free slot, or the first of the new ones. *)
FirstFree ==
    LET n == Cardinality(DOMAIN qserver_clients)
        free == {i \in DOMAIN qserver_clients : qserver_clients[i] = NoFd}
    IN IF free = {} THEN n ELSE CHOOSE i \in free : \A j \in free : i <= j

qserver_accept(fd) ==
    LET n == Cardinality(DOMAIN qserver_clients)
        grown == IF FirstFree < n THEN qserver_clients
                 ELSE [i \in 0..(n + Growth - 1) |-> IF i < n THEN qserver_clients[i] ELSE NoFd]
    IN /\ fds[fd] = "new" /\ fds' = [fds EXCEPT ![fd] = "open"]
       /\ qserver_clients' = [grown EXCEPT ![FirstFree] = fd]
       /\ dummies' = SetSlot(dummies, FirstFree, fd)
       /\ qserver_dict' = SetSlot(qserver_dict, FirstFree, fd)
       /\ UNCHANGED <<password_ok, password>>

qserver_destroy_fd(fd) ==
    /\ qserver_dict' = ClearSlot(qserver_dict, SlotOf(fd))
    /\ dummies' = ClearSlot(dummies, SlotOf(fd))
    /\ qserver_clients' = [qserver_clients EXCEPT ![SlotOf(fd)] = NoFd]

CloseQuery(fd) ==
    /\ fds[fd] = "open" /\ fds' = [fds EXCEPT ![fd] = "closed"]
    /\ qserver_destroy_fd(fd)
    /\ password_ok' = password_ok \ {fd}
    /\ UNCHANGED password

(* A PASS line; a password that was freed compares as it likes. *)
PassLine(fd, given) ==
    /\ fds[fd] = "open" /\ (given = password \/ password = FreedPassword)
    /\ password_ok' = password_ok \union {fd}
    /\ UNCHANGED <<qserver_clients, qserver_dict, dummies, password, fds>>

(* A rehash: without the section or its port the old password is kept, after its memory. *)
qserver_conf_read(p, section) ==
    /\ password' = IF section THEN p ELSE IF password = NoPassword THEN NoPassword ELSE FreedPassword
    /\ UNCHANGED <<qserver_clients, qserver_dict, dummies, password_ok, fds>>

QueryNext ==
    \/ \E fd \in Fds : qserver_accept(fd) \/ CloseQuery(fd)
    \/ \E fd \in Fds, p \in Passwords : PassLine(fd, p)
    \/ \E p \in Passwords \union {NoPassword}, b \in BOOLEAN : qserver_conf_read(p, b)

QuerySpec == QueryInit /\ [][QueryNext]_queryVars

(***************************************************************************)
(* The assertions of qserver_privmsg: the dummy user an answer is for is   *)
(* found under its nick, and the connection found is the one the user was  *)
(* made for, however slots were freed, grown and used again; and every     *)
(* open connection holds one slot of the table, no closed one does         *)
(* (qserver_accept, qserver_destroy_fd).                                   *)
(***************************************************************************)
AnswersGoHome ==
    /\ qserver_dict = dummies
    /\ \A i \in DOMAIN qserver_clients : qserver_clients[i] = (IF i \in DOMAIN dummies THEN dummies[i] ELSE NoFd)
    /\ DOMAIN dummies \subseteq DOMAIN qserver_clients
    /\ DOMAIN qserver_clients = 0..(Cardinality(DOMAIN qserver_clients) - 1)
    /\ {dummies[i] : i \in DOMAIN dummies} = {fd \in Fds : fds[fd] = "open"}
    /\ \A i, j \in DOMAIN dummies : dummies[i] = dummies[j] => i = j
=============================================================================
