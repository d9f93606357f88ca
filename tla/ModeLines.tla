------------------------------ MODULE ModeLines ------------------------------
(***************************************************************************)
(* How a mode change goes over the network and into the database           *)
(* (proto-p10.c, proto-common.c): mod_chanmode_announce splits it into     *)
(* MODE lines, removals first, and applies it to the services' own record  *)
(* of the channel; mod_chanmode_format writes it as the text in which      *)
(* ChanServ saves a channel's lock; mod_chanmode_parse reads both.  The    *)
(* module puts a change together piece by piece, and every conversion is a *)
(* function of it.                                                         *)
(*                                                                         *)
(* "i" stands for the modes without argument, "k" for those whose          *)
(* argument is given on removal too (U and A are treated alike), "b" for   *)
(* bans and exempts, "o" for the ranks of members.                         *)
(***************************************************************************)
EXTENDS Naturals, Sequences

CONSTANTS Args,          \* arguments of a change: [letter, arg]
          Channels,      \* the channels it is applied to
          MAXMODEPARAMS, \* arguments in a line
          MaxArgs        \* bound on the arguments of a change

Simple == <<"i", "l", "L">>   \* removed without an argument, in the order they are written
Valued == <<"k", "L", "l">>   \* set with an argument, in the order they are announced
Modes == {"i", "k", "l", "L"}

VARIABLES clear, set, args, channel

vars == <<clear, set, args, channel>>

Init ==
    /\ clear = {} /\ set = {} /\ args = <<>>
    /\ channel \in Channels

Clear(m) ==
    /\ m \notin clear \union set /\ clear' = clear \union {m}
    /\ UNCHANGED <<set, args, channel>>

Set(m) ==
    /\ m \notin clear \union set /\ set' = set \union {m}
    /\ UNCHANGED <<clear, args, channel>>

Argument(a, add) ==
    /\ Len(args) < MaxArgs
    /\ args' = Append(args, [letter |-> a.letter, arg |-> a.arg, add |-> add])
    /\ UNCHANGED <<clear, set, channel>>

Next ==
    \/ \E m \in Modes : Clear(m) \/ Set(m)
    \/ \E a \in Args, add \in BOOLEAN : Argument(a, add)

Spec == Init /\ [][Next]_vars

None == "none"
NewValue(m) == [k |-> "newkey", l |-> "newlimit", L |-> "newredirect"][m]

(***************************************************************************)
(* mod_chanmode_announce.  The pieces in the order they are written; a key *)
(* is only removed from a channel that has one.                            *)
(***************************************************************************)
Piece(add, letter, arg) == [add |-> add, letter |-> letter, arg |-> arg]

Pieces ==
    LET Of(s, m) == SelectSeq(s, LAMBDA x : x \in m)
        Map(s, F(_)) == [i \in 1..Len(s) |-> F(s[i])]
        ArgsOf(add) == SelectSeq(args, LAMBDA a : a.add = add)
        Whole(a) == Piece(a.add, a.letter, a.arg)
    IN Map(Of(Simple, clear), LAMBDA m : Piece(FALSE, m, None))
       \o (IF "k" \in clear /\ "k" \in channel.modes THEN <<Piece(FALSE, "k", channel.key)>> ELSE <<>>)
       \o Map(ArgsOf(FALSE), Whole)
       \o (IF "i" \in set THEN <<Piece(TRUE, "i", None)>> ELSE <<>>)
       \o Map(Of(Valued, set), LAMBDA m : Piece(TRUE, m, NewValue(m)))
       \o Map(ArgsOf(TRUE), Whole)

SignOf(add) == IF add THEN "+" ELSE "-"

(* As a mutant: the line after a full one begins without its sign. *)
SignForgotten(add) == <<>>

(* The first character of the line that follows a full one. *)
Resumed(add) == <<SignOf(add)>>

(* The sign where it changes, then the letter; a letter with an argument may first send the line. *)
Put(b, p) ==
    LET signed == IF b.sign = SignOf(p.add) THEN b.modes ELSE Append(b.modes, SignOf(p.add))
        full == p.arg # None /\ Len(signed) > MAXMODEPARAMS
    IN [lines |-> IF full THEN Append(b.lines, [modes |-> signed, args |-> b.args]) ELSE b.lines,
        modes |-> Append(IF full THEN Resumed(p.add) ELSE signed, p.letter),
        args |-> (IF full THEN <<>> ELSE b.args) \o (IF p.arg = None THEN <<>> ELSE <<p.arg>>),
        sign |-> SignOf(p.add)]

mod_chanmode_announce ==
    LET ps == Pieces
        b[i \in 0..Len(ps)] ==
            IF i = 0 THEN [lines |-> <<>>, modes |-> <<>>, args |-> <<>>, sign |-> ""] ELSE Put(b[i - 1], ps[i])
        last == b[Len(ps)]
    IN IF last.modes = <<>> THEN last.lines ELSE Append(last.lines, [modes |-> last.modes, args |-> last.args])

(***************************************************************************)
(* mod_chanmode_parse.  `free' is MCP_KEY_FREE: a key is removed without   *)
(* its argument.                                                           *)
(***************************************************************************)
NoChange == [clear |-> {}, set |-> {}, values |-> [m \in {} |-> None], args |-> <<>>, ok |-> TRUE]

TakesArg(letter, add, free) ==
    \/ letter = "k" /\ (add \/ ~free)
    \/ letter \in {"l", "L"} /\ add
    \/ letter \in {"b", "o"}

Taken(c, letter, add, arg) ==
    CASE letter \in {"b", "o"} -> [c EXCEPT !.args = Append(@, [letter |-> letter, arg |-> arg, add |-> add])]
      [] letter \in Modes /\ add ->
           [c EXCEPT !.set = @ \union {letter}, !.clear = IF letter = "i" THEN @ \ {letter} ELSE @,
                     !.values = [m \in DOMAIN @ \union ({letter} \ {"i"}) |-> IF m = letter THEN arg ELSE @[m]]]
      [] OTHER -> [c EXCEPT !.clear = @ \union {letter}, !.set = IF letter = "k" THEN @ ELSE @ \ {letter}]

mod_chanmode_parse(line, free) ==
    LET s[i \in 0..Len(line.modes)] ==
            IF i = 0 THEN [c |-> NoChange, add |-> TRUE, next |-> 1]
            ELSE LET o == s[i - 1]
                     ch == line.modes[i]
                     takes == TakesArg(ch, o.add, free)
                 IN IF ch \in {"+", "-"} THEN [o EXCEPT !.add = (ch = "+")]
                    ELSE IF takes /\ o.next > Len(line.args) THEN [o EXCEPT !.c.ok = FALSE]
                    ELSE [o EXCEPT !.c = Taken(@, ch, o.add, IF takes THEN line.args[o.next] ELSE None),
                                   !.next = IF takes THEN @ + 1 ELSE @]
    IN s[Len(line.modes)].c

(* mod_chanmode_apply; a value stays behind when its mode is removed. *)
mod_chanmode_apply(ch, c) ==
    LET done[i \in 0..Len(c.args)] ==
            IF i = 0 THEN ch.list
            ELSE LET a == [letter |-> c.args[i].letter, arg |-> c.args[i].arg]
                 IN IF c.args[i].add THEN done[i - 1] \union {a} ELSE done[i - 1] \ {a}
        value(m, old) == IF m \in c.set THEN c.values[m] ELSE old
    IN [modes |-> (ch.modes \ c.clear) \union c.set,
        key |-> value("k", ch.key), limit |-> value("l", ch.limit), redirect |-> value("L", ch.redirect),
        list |-> done[Len(c.args)]]

Change == [clear |-> clear, set |-> set, values |-> [m \in set \ {"i"} |-> NewValue(m)], args |-> args, ok |-> TRUE]

(* mod_chanmode_format: the letter of a redirect comes before the others, its argument after them. *)
mod_chanmode_format ==
    LET Letters(s, S) == SelectSeq(s, LAMBDA m : m \in S)
        values == Letters(<<"k", "l", "L">>, set)
    IN [modes |-> (IF clear = {} THEN <<>> ELSE <<"-">> \o Letters(<<"i", "l", "k", "L">>, clear))
                  \o (IF set = {} THEN <<>> ELSE <<"+">> \o Letters(<<"i", "L", "k", "l">>, set)),
        args |-> [i \in 1..Len(values) |-> NewValue(values[i])]]

(***************************************************************************)
(* Properties.                                                             *)
(***************************************************************************)
(* Something is given and taken in one change; the announcement takes first, the services in order. *)
Contrary == \E i, j \in DOMAIN args : args[i].letter = args[j].letter /\ args[i].arg = args[j].arg /\ args[i].add # args[j].add

Receive(ch, lines) ==
    LET r[i \in 0..Len(lines)] ==
            IF i = 0 THEN ch ELSE mod_chanmode_apply(r[i - 1], mod_chanmode_parse(lines[i], FALSE))
    IN r[Len(lines)]

(***************************************************************************)
(* A server that reads the lines of mod_chanmode_announce in order, each   *)
(* on its own, ends with the channel the services record; no line carries  *)
(* more than MAXMODEPARAMS arguments or a letter without its argument.     *)
(* And a lock that ChanServ saved with mod_chanmode_format is the lock it  *)
(* reads, unless it holds a redirect beside another mode with a value.     *)
(***************************************************************************)
LinesSayTheChange ==
    LET lines == mod_chanmode_announce
    IN /\ ~Contrary => Receive(channel, lines) = mod_chanmode_apply(channel, Change)
       /\ \A i \in DOMAIN lines :
            Len(lines[i].args) <= MAXMODEPARAMS /\ mod_chanmode_parse(lines[i], FALSE).ok
       /\ args = <<>> /\ ("L" \in set => set \intersect {"k", "l"} = {})
            => mod_chanmode_parse(mod_chanmode_format, TRUE) = Change
=============================================================================
