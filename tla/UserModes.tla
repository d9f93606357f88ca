------------------------------ MODULE UserModes ------------------------------
(***************************************************************************)
(* The modes of users (mod_usermode of proto-p10.c) and what is counted    *)
(* by them: the list of opers, the number of visible opers and the number  *)
(* of invisible users.  A change is a sequence of signed letters with the  *)
(* words behind it; "f", "r", "C", "c" and "h" each take the next word, if *)
(* there is one, whatever their sign.  Another server sends only changes:  *)
(* it sets no mode that is set.                                            *)
(*                                                                         *)
(* The account and the fake host that "r" and "f" give are NickServ's; the *)
(* functions called for a new oper only send messages.                     *)
(***************************************************************************)
EXTENDS Naturals, Sequences, FiniteSets

CONSTANTS Users,
          Changes   \* changes that may arrive: [letters : signed letters, words]

Hidden == {"B", "k", "H"}           \* an oper with one of these is not counted
Worded == {"C", "c", "h", "r", "f"}
NoFlag == {"r", "f"}                \* letters that set no mode

VARIABLES modes,         \* user -> the modes set
          words,         \* user -> letter -> the word it got last
          curr_opers, count_opers, invis_clients

vars == <<modes, words, curr_opers, count_opers, invis_clients>>

Empty == [x \in {} |-> {}]
Put(f, x, y) == [z \in DOMAIN f \union {x} |-> IF z = x THEN y ELSE f[z]]
Visible(m) == m \intersect Hidden = {}

Init ==
    /\ modes = Empty /\ words = Empty
    /\ curr_opers = {} /\ count_opers = 0 /\ invis_clients = 0

(* The loop over the letters, from the modes m; s.invis counts in both directions. *)
Changed(u, m, change) ==
    LET s[i \in 0..Len(change.letters)] ==
            IF i = 0 THEN [modes |-> m, words |-> IF u \in DOMAIN words THEN words[u] ELSE Empty, next |-> 1,
                           opers |-> curr_opers, invis |-> invis_clients]
            ELSE LET o == s[i - 1]
                     c == change.letters[i]
                     word == c.letter \in Worded /\ o.next <= Len(change.words)
                 IN [modes |-> IF c.letter \in NoFlag THEN o.modes
                               ELSE IF c.add THEN o.modes \union {c.letter} ELSE o.modes \ {c.letter},
                     words |-> IF word THEN Put(o.words, c.letter, change.words[o.next]) ELSE o.words,
                     next |-> IF word THEN o.next + 1 ELSE o.next,
                     opers |-> IF c.letter # "o" THEN o.opers ELSE IF c.add THEN o.opers \union {u} ELSE o.opers \ {u},
                     invis |-> IF c.letter # "i" THEN o.invis ELSE IF c.add THEN o.invis + 1 ELSE o.invis - 1]
    IN s[Len(change.letters)]

(* As a mutant: an oper who hides and stays one is still counted. *)
CountedHidden(old, new) ==
    LET was == "o" \in old
        is == "o" \in new
    IN IF ~was /\ is THEN IF Visible(new) THEN count_opers + 1 ELSE count_opers
       ELSE IF was /\ ~is THEN IF count_opers > 1 /\ Visible(old) THEN count_opers - 1 ELSE count_opers
       ELSE IF was /\ is /\ ~Visible(old) /\ Visible(new) THEN count_opers + 1
       ELSE count_opers

(* The four tests behind the loop; the last oper's "-o" leaves the count at one. *)
Counted(old, new) ==
    LET was == "o" \in old
        is == "o" \in new
    IN IF ~was /\ is THEN IF Visible(new) THEN count_opers + 1 ELSE count_opers
       ELSE IF was /\ ~is THEN IF count_opers > 1 /\ Visible(old) THEN count_opers - 1 ELSE count_opers
       ELSE IF was /\ is /\ Visible(old) /\ ~Visible(new) /\ count_opers > 0 THEN count_opers - 1
       ELSE IF was /\ is /\ ~Visible(old) /\ Visible(new) THEN count_opers + 1
       ELSE count_opers

mod_usermode(u, old, change) ==
    LET new == Changed(u, old, change)
    IN /\ modes' = Put(modes, u, new.modes)
       /\ words' = Put(words, u, new.words)
       /\ curr_opers' = new.opers /\ invis_clients' = new.invis
       /\ count_opers' = Counted(old, new.modes)

(* Every letter turns its mode over, each once. *)
Proper(m, change) ==
    /\ \A i \in DOMAIN change.letters :
         change.letters[i].letter \notin NoFlag => (change.letters[i].add <=> change.letters[i].letter \notin m)
    /\ \A i, j \in DOMAIN change.letters : i # j => change.letters[i].letter # change.letters[j].letter

AddUser(u, change) ==
    /\ u \notin DOMAIN modes /\ Proper({}, change)
    /\ mod_usermode(u, {}, change)

(* A MODE line for a user passes on one word at most. *)
cmd_mode(u, change) ==
    /\ u \in DOMAIN modes /\ Proper(modes[u], change) /\ Len(change.words) <= 1
    /\ mod_usermode(u, modes[u], change)

DelUser(u) ==
    LET oper == "o" \in modes[u]
    IN /\ u \in DOMAIN modes
       /\ curr_opers' = IF oper THEN curr_opers \ {u} ELSE curr_opers
       /\ count_opers' = IF oper /\ count_opers > 0 /\ Visible(modes[u]) THEN count_opers - 1 ELSE count_opers
       /\ invis_clients' = IF "i" \in modes[u] THEN invis_clients - 1 ELSE invis_clients
       /\ modes' = [x \in DOMAIN modes \ {u} |-> modes[x]]
       /\ words' = [x \in DOMAIN words \ {u} |-> words[x]]

Next ==
    \/ \E u \in Users, c \in Changes : AddUser(u, c) \/ cmd_mode(u, c)
    \/ \E u \in Users : DelUser(u)

Spec == Init /\ [][Next]_vars

(***************************************************************************)
(* The list of opers (which GLINE, BLOCK and the global messages to opers  *)
(* walk) holds exactly the users with the mode, whatever line or quit took *)
(* it away; invisible users are counted once each; and the count of        *)
(* visible opers is right or, after the last one lost the mode, one too    *)
(* high, but never drifts further.                                         *)
(***************************************************************************)
OpersCounted ==
    LET having(m) == {u \in DOMAIN modes : m \in modes[u]}
        visible == Cardinality({u \in having("o") : Visible(modes[u])})
    IN /\ curr_opers = having("o")
       /\ invis_clients = Cardinality(having("i"))
       /\ count_opers \in {visible, visible + 1}
=============================================================================
