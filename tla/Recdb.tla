-------------------------------- MODULE Recdb --------------------------------
(***************************************************************************)
(* The text of a database: what saxdb.c writes, and what recdb.c reads     *)
(* back from it.  A database writer calls saxdb_start_record,              *)
(* saxdb_write_string, saxdb_write_string_list and saxdb_end_record; the   *)
(* text they produce is `out'.  The reader is a recursive descent over     *)
(* the text; it is evaluated on the whole text and on every beginning of   *)
(* it, because a full disk or a crash can leave any beginning of it in     *)
(* the file.                                                               *)
(*                                                                         *)
(* "\n" stands for the seven control characters that have an escape.  The  *)
(* reader also takes comments, a "=" before a value and octal and          *)
(* hexadecimal escapes; the writer produces none of them, so they are left *)
(* out.  A number is written as the string of its digits                   *)
(* (saxdb_write_int), so there is no number here.                          *)
(***************************************************************************)
EXTENDS Naturals, Sequences, FiniteSets

CONSTANTS Strings,     \* names and values: sequences of one-character strings
          MaxEntries,  \* bound on the records of a text
          MaxDepth     \* bound on the nesting

VARIABLES out,   \* the text written so far
          open,  \* records begun and not ended: name, complex, their entries
          done   \* the top level: entries, each with the length of the text at its end

vars == <<out, open, done>>

Quote == "\""
Backslash == "\\"
Space == {" ", "\n", "\t"}

(* A record's value: a string, a list of strings or an object. *)
Str(v) == [kind |-> "string", string |-> v, list |-> <<>>, object |-> {}]
List(l) == [kind |-> "list", string |-> <<>>, list |-> l, object |-> {}]
Object(o) == [kind |-> "object", string |-> <<>>, list |-> <<>>, object |-> o]
Entry(name, v) == [name |-> name, value |-> v]

(* dict_insert: a second record of one name takes the place of the first. *)
Inserted(o, e) == {f \in o : f.name # e.name} \union {e}

(***************************************************************************)
(* The writer.                                                             *)
(***************************************************************************)
Init ==
    /\ out = <<>>
    /\ open = <<>>
    /\ done = {}

(* As a mutant: a backslash of the string is written as it is. *)
QuoteOnly(c) ==
    CASE c = "\n" -> <<Backslash, "n">>
      [] c = Quote -> <<Backslash, Quote>>
      [] OTHER -> <<c>>

Escaped(c) ==
    CASE c = "\n" -> <<Backslash, "n">>
      [] c \in {Quote, Backslash} -> <<Backslash, c>>
      [] OTHER -> <<c>>

saxdb_put_qstring(s) ==
    LET RECURSIVE From(_)
        From(i) == IF i > Len(s) THEN <<Quote>> ELSE Escaped(s[i]) \o From(i + 1)
    IN <<Quote>> \o From(1)

(* The outermost level counts as complex: one record to a line. *)
Complex(os) == os = <<>> \/ os[Len(os)].complex
Indent(os) == Cardinality({i \in 1..Len(os) : os[i].complex})
saxdb_pre_object(os, indent) == IF Complex(os) THEN [i \in 1..indent |-> "\t"] ELSE <<>>
saxdb_post_object(os) == <<";", IF Complex(os) THEN "\n" ELSE " ">>

(* The record at the end of `text' belongs to the innermost open record, or to the database. *)
Ended(os, e, text) ==
    /\ out' = text
    /\ IF os = <<>>
       THEN /\ done' = done \union {[entry |-> e, end |-> Len(text) - 1]}
            /\ open' = os
       ELSE /\ open' = [os EXCEPT ![Len(os)].entries = @ \union {e}]
            /\ UNCHANGED done

Written == Cardinality(done) + Len(open) + Cardinality(UNION {open[i].entries : i \in 1..Len(open)})
Fresh(name) ==
    IF open = <<>> THEN name \notin {d.entry.name : d \in done}
    ELSE name \notin {e.name : e \in open[Len(open)].entries}

saxdb_start_record(name, complex) ==
    /\ Written < MaxEntries /\ Len(open) < MaxDepth /\ Fresh(name)
    /\ out' = out \o saxdb_pre_object(open, Indent(open)) \o saxdb_put_qstring(name)
                  \o <<" ", "{", IF complex THEN "\n" ELSE " ">>
    /\ open' = Append(open, [name |-> name, complex |-> complex, entries |-> {}])
    /\ UNCHANGED done

saxdb_end_record ==
    /\ open # <<>>
    /\ LET top == open[Len(open)]
           below == SubSeq(open, 1, Len(open) - 1)
       IN Ended(below, Entry(top.name, Object(top.entries)),
                out \o saxdb_pre_object(open, Indent(below)) \o <<"}">> \o saxdb_post_object(below))

saxdb_write_string(name, v) ==
    /\ Written < MaxEntries /\ Fresh(name)
    /\ Ended(open, Entry(name, Str(v)),
             out \o saxdb_pre_object(open, Indent(open)) \o saxdb_put_qstring(name) \o <<" ">>
                 \o saxdb_put_qstring(v) \o saxdb_post_object(open))

saxdb_write_string_list(name, l) ==
    /\ Written < MaxEntries /\ Fresh(name)
    /\ LET RECURSIVE Items(_)
           Items(i) == IF i > Len(l) THEN <<>>
                       ELSE saxdb_put_qstring(l[i]) \o (IF i < Len(l) THEN <<",", " ">> ELSE <<>>) \o Items(i + 1)
       IN Ended(open, Entry(name, List(l)),
                out \o saxdb_pre_object(open, Indent(open)) \o saxdb_put_qstring(name)
                    \o <<" ", "(">> \o Items(1) \o <<")">> \o saxdb_post_object(open))

(***************************************************************************)
(* The reader.  ABORT ends the parse: longjmp to parse_database, which     *)
(* logs the place and ends the program.                                    *)
(***************************************************************************)
Aborted == [ok |-> FALSE]
Read(p, v) == [ok |-> TRUE, pos |-> p, value |-> v]

(* The place of the next character that is not a space; past the text for EOF. *)
RECURSIVE parse_skip_ws(_, _)
parse_skip_ws(t, p) == IF p <= Len(t) /\ t[p] \in Space THEN parse_skip_ws(t, p + 1) ELSE p

Eof(t, p) == p > Len(t)

Unescaped(c) ==
    CASE c = "n" -> <<"\n">>
      [] c \in {Backslash, Quote} -> <<c>>
      [] OTHER -> <<Backslash, c>>

(***************************************************************************)
(* A string from just behind its opening quote.  The end of the text ends  *)
(* it too when the character read last was a quote, be it the opening one  *)
(* or an escaped one.                                                      *)
(***************************************************************************)
RECURSIVE QString(_, _, _, _)
QString(t, p, s, last) ==
    IF Eof(t, p) THEN IF last = Quote THEN Read(p, s) ELSE Aborted
    ELSE IF t[p] = Quote THEN Read(p + 1, s)
    ELSE IF t[p] = "\n" THEN Aborted
    ELSE IF t[p] # Backslash THEN QString(t, p + 1, Append(s, t[p]), t[p])
    ELSE IF Eof(t, p + 1) THEN Aborted
    ELSE QString(t, p + 2, s \o Unescaped(t[p + 1]), t[p + 1])

parse_qstring(t, p) == IF t[p] = Quote THEN QString(t, p + 1, <<>>, Quote) ELSE Aborted

RECURSIVE parse_string_list(_, _, _)
parse_string_list(t, p, l) ==
    LET q == parse_skip_ws(t, p)
        s == parse_qstring(t, q)
        r == parse_skip_ws(t, s.pos)
        more == Append(l, s.value)
    IN IF Eof(t, q) \/ t[q] = ")" THEN Read(q + 1, l)
       ELSE IF ~s.ok THEN Aborted
       ELSE IF Eof(t, r) \/ t[r] = ")" THEN Read(r + 1, more)
       ELSE IF t[r] # "," THEN Aborted
       ELSE parse_string_list(t, r + 1, more)

RECURSIVE parse_object(_, _, _), parse_record_int(_, _)

(* One record; called with a character of it in sight. *)
parse_record_int(t, p) ==
    LET name == parse_qstring(t, p)
        d == parse_skip_ws(t, name.pos)
        v == CASE t[d] = Quote -> parse_qstring(t, d)
               [] t[d] = "{" -> parse_object(t, d + 1, {})
               [] t[d] = "(" -> parse_string_list(t, d + 1, <<>>)
               [] OTHER -> Aborted
        kind == CASE t[d] = Quote -> Str(v.value)
                  [] t[d] = "{" -> Object(v.value)
                  [] OTHER -> List(v.value)
        e == parse_skip_ws(t, v.pos)
    IN IF ~name.ok \/ Eof(t, d) \/ ~v.ok \/ Eof(t, e) \/ t[e] # ";" THEN Aborted
       ELSE Read(e + 1, Entry(name.value, kind))

(* The end of the text ends an object as "}" does; the ";" is then missing. *)
parse_object(t, p, o) ==
    LET q == parse_skip_ws(t, p)
        r == parse_record_int(t, q)
    IN IF Eof(t, q) \/ t[q] = "}" THEN Read(q + 1, o)
       ELSE IF ~r.ok THEN Aborted
       ELSE parse_object(t, r.pos, Inserted(o, r.value))

RECURSIVE parse_database_int(_, _, _)
parse_database_int(t, p, db) ==
    LET q == parse_skip_ws(t, p)
        r == parse_record_int(t, q)
    IN IF Eof(t, q) THEN Read(q, db)
       ELSE IF ~r.ok THEN Aborted
       ELSE parse_database_int(t, r.pos, Inserted(db, r.value))

parse_database(t) == parse_database_int(t, 1, {})

Next ==
    \/ \E n \in Strings, b \in BOOLEAN : saxdb_start_record(n, b)
    \/ saxdb_end_record
    \/ \E n, v \in Strings : saxdb_write_string(n, v)
    \/ \E n \in Strings, l \in {<<>>} \union {<<v>> : v \in Strings} \union {<<v, w>> : v, w \in Strings} :
          saxdb_write_string_list(n, l)

Spec == Init /\ [][Next]_vars

(***************************************************************************)
(* What saxdb.c writes parse_database (recdb.c) reads back as it was, and  *)
(* a file that was cut anywhere is refused or read as the records of the   *)
(* top level that are whole: no record comes back with less in it, with    *)
(* its text run into the next, or under another name.                      *)
(***************************************************************************)
ReadsBack ==
    \A k \in 0..Len(out) :
       LET db == parse_database(SubSeq(out, 1, k))
       IN /\ db.ok => db.value = {d.entry : d \in {e \in done : e.end <= k}}
          /\ k = Len(out) /\ open = <<>> => db.ok
=============================================================================
