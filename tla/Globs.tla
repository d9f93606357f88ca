------------------------------- MODULE Globs --------------------------------
(***************************************************************************)
(* Matching masks (src/src/tools.c): match_ircglob asks whether a text is  *)
(* matched by a mask, mmatch whether one mask covers another.  Both walk   *)
(* two strings with pointers and go back to the last star; a step is one   *)
(* turn of their loop.  Bans, gags, G-lines, hostmasks and alerts rest on  *)
(* them.  Upper and lower case are not told apart here, and neither is     *)
(* told apart by the code except behind a backslash.                       *)
(***************************************************************************)
EXTENDS Integers, Sequences, FiniteSets

CONSTANTS
    Letters,        \* what stands for itself
    Specials,       \* which of "*", "?" and the backslash "esc" masks are made of
    MaxMask,        \* length of masks
    MaxText         \* length of texts

VARIABLES
    function,       \* which of the two runs
    old, new,       \* the mask, and the text or the mask it is to cover
    m, n, ma, na,   \* the pointers into old and into new, and where to go back to
    wild,           \* mmatch: a star was seen
    result

vars == <<function, old, new, m, n, ma, na, wild, result>>

Strings(chars, max) == UNION {[1 .. l -> chars] : l \in 0 .. max}
Masks == Strings(Letters \union Specials, MaxMask)
Texts == Strings(Letters, MaxText)

\* The character a pointer points to; "nul" is the end of the string.
At(s, i) == IF i \in 1 .. Len(s) THEN s[i] ELSE "nul"

Quoted(s, i) == At(s, i) = "esc" /\ At(s, i + 1) \in {"*", "?"}

\* A call of function f for a mask and a text.
Start(f, mask, text) ==
    /\ function = f /\ old = mask /\ new = text
    /\ m = 1 /\ n = 1 /\ ma = 1 /\ na = 1
    /\ wild = FALSE /\ result = "none"

Init ==
    \E f \in {"match_ircglob", "mmatch"}, mask \in Masks :
        \E text \in IF f = "mmatch" THEN Masks ELSE Texts : Start(f, mask, text)

Return(r) == result' = r /\ UNCHANGED <<function, old, new, m, n, ma, na, wild>>
Continue(i, j, bi, bj, w) ==
    /\ m' = i /\ n' = j /\ ma' = bi /\ na' = bj /\ wild' = w
    /\ UNCHANGED <<function, old, new, result>>

\* The first character of s from i on that is not in the set.
After(s, i, set) == CHOOSE j \in i .. Len(s) + 1 : At(s, j) \notin set /\ \A k \in i .. j - 1 : At(s, k) \in set

-----------------------------------------------------------------------------
\* The end of the text or a difference: back to the last star, one character further on.
backtrack(bi, bj) ==
    IF bi = 1 THEN Return("no")
    ELSE IF At(new, bj + 1) = "nul" THEN Return("no")
    ELSE Continue(bi, bj + 1, bi, bj + 1, wild)

\* The end of the switch: one character of the mask against one of the text.
Literal(i, j, bi, bj) ==
    IF At(new, j) = "nul" THEN Return(IF At(old, i) = "nul" THEN "yes" ELSE "no")
    ELSE IF At(old, i) # At(new, j) THEN backtrack(bi, bj)
    ELSE Continue(i + 1, j + 1, bi, bj, wild)

\* Stars and question marks: every question mark takes a character.
WildRun ==
    LET i  == After(old, m, {"*", "?"})
        qs == Cardinality({k \in m .. i - 1 : old[k] = "?"})
        j  == n + qs
        star == \E k \in m .. i - 1 : old[k] = "*"
        quote == At(old, i) = "esc"
        lit == IF quote THEN i + 1 ELSE i
        hit == CHOOSE k \in j .. Len(new) + 1 :
                  /\ At(new, k) \in {"nul", At(old, lit)}
                  /\ \A l \in j .. k - 1 : At(new, l) # At(old, lit)
    IN  IF j > Len(new) + 1 THEN backtrack(ma, na)
        ELSE IF ~star THEN Literal(i, j, ma, na)
        ELSE IF At(old, i) = "nul" THEN Return("yes")
        ELSE IF quote /\ At(old, lit) = "nul" THEN Return("no")
        ELSE Literal(lit, hit, lit, j)

match_ircglob ==
    /\ function = "match_ircglob" /\ result = "none"
    /\ CASE At(old, m) = "nul" -> IF At(new, n) = "nul" THEN Return("yes") ELSE backtrack(ma, na)
         [] At(old, m) = "esc" -> IF At(old, m + 1) # At(new, n) THEN backtrack(ma, na)
                                  ELSE Continue(m + 2, n + 1, ma, na, wild)
         [] At(old, m) \in {"*", "?"} -> WildRun
         [] OTHER -> Literal(m, n, ma, na)

-----------------------------------------------------------------------------
\* Mutant: a question mark covers a star.
TakesAny(i, mq, j, nq) ==
    \/ At(old, i) = "*" /\ ~mq
    \/ (~mq \/ nq) /\ At(old, i) = At(new, j)
    \/ At(old, i) = "?" /\ ~mq

\* mmatch: the character of the old mask covers the one of the new.
Takes(i, mq, j, nq) ==
    \/ At(old, i) = "*" /\ ~mq
    \/ (~mq \/ nq) /\ At(old, i) = At(new, j)
    \/ At(old, i) = "?" /\ ~mq /\ (At(new, j) # "*" \/ nq)

\* The old mask is used up: does it end with a star and question marks?
EndsOpen ==
    LET i == CHOOSE k \in 1 .. Len(old) : (k = 1 \/ old[k] # "?") /\ \A l \in k + 1 .. Len(old) : old[l] = "?"
    IN  i > 1 /\ old[i] = "*" /\ old[i - 1] # "esc"

\* One turn of mmatch: "yes" where it returns 0.
Turn(i, j, bi, bj, w) ==
    LET further == IF Quoted(new, bj) THEN bj + 2 ELSE bj + 1
        spent   == At(old, i) = "nul"
        left    == IF spent THEN bi ELSE i
        right   == IF spent THEN further ELSE j
        base    == IF spent THEN further ELSE bj
        mq == Quoted(old, left)
        nq == Quoted(new, right)
        k  == IF mq THEN left + 1 ELSE left
        l  == IF nq THEN right + 1 ELSE right
        again == IF Quoted(new, base) THEN base + 2 ELSE base + 1
    IN  IF spent /\ At(new, j) = "nul" THEN Return("yes")
        ELSE IF spent /\ old # <<>> /\ EndsOpen THEN Return("yes")
        ELSE IF spent /\ ~w THEN Return("no")
        ELSE IF ~spent /\ At(new, j) = "nul"
             THEN Return(IF At(old, After(old, i, {"*"})) = "nul" THEN "yes" ELSE "no")
        ELSE IF Takes(k, mq, l, nq)
             THEN Continue(IF At(old, k) = "nul" THEN k ELSE k + 1, IF At(new, l) = "nul" THEN l ELSE l + 1, bi, base, w)
        ELSE IF ~w THEN Return("no")
        ELSE Continue(bi, again, bi, again, w)

mmatch ==
    /\ function = "mmatch" /\ result = "none"
    /\ IF At(old, m) = "*"
       THEN LET i == After(old, m, {"*"}) IN Turn(i, n, i, n, TRUE)
       ELSE Turn(m, n, ma, na, wild)

Next == match_ircglob \/ mmatch

Spec == Init /\ [][Next]_vars

-----------------------------------------------------------------------------
\* The reference: what a text matches, by the meaning of the mask.
Matched(text, mask) ==
    LET M[i \in 1 .. Len(text) + 1, j \in 1 .. Len(mask) + 1] ==
        IF j > Len(mask) THEN i > Len(text)
        ELSE CASE mask[j] = "*" -> M[i, j + 1] \/ (i <= Len(text) /\ M[i + 1, j])
               [] mask[j] = "?" -> i <= Len(text) /\ M[i + 1, j + 1]
               [] mask[j] = "esc" -> IF j < Len(mask) THEN i <= Len(text) /\ text[i] = mask[j + 1] /\ M[i + 1, j + 2]
                                     ELSE FALSE
               [] OTHER -> i <= Len(text) /\ text[i] = mask[j] /\ M[i + 1, j + 1]
    IN  M[1, 1]

\* match_ircglob answers by the meaning of the mask, and a mask that mmatch says covers
\* another matches every text the other does.
AnswersRight ==
    /\ function = "match_ircglob" /\ result # "none" => (result = "yes") = Matched(new, old)
    /\ function = "mmatch" /\ result = "yes" => \A t \in Texts : Matched(t, new) => Matched(t, old)

\* Neither reads past the end of a string.
InBounds == m <= Len(old) + 1 /\ n <= Len(new) + 1 /\ ma <= Len(old) + 1 /\ na <= Len(new) + 1
=============================================================================
