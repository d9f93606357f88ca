------------------------------ MODULE Addresses ------------------------------
(***************************************************************************)
(* Addresses and their texts: irc_ntop, irc_pton and irc_check_mask of     *)
(* tools.c (sar.c holds copies of the first two) and the base 64 form of   *)
(* the P10 protocol, irc_p10_ntop and irc_p10_pton.  An address is eight   *)
(* groups of sixteen bits; the module chooses one group after the other    *)
(* and every conversion is a function of the eight.                        *)
(*                                                                         *)
(* A text is a sequence of tokens: a number with its digits ("x"), ":",    *)
(* ".", "/" and "*"; in the P10 form a group of three digits ("x"), "_",   *)
(* or six digits for the last two groups ("six").  The digits of a single  *)
(* number are not modelled.                                                *)
(***************************************************************************)
EXTENDS Naturals, Sequences, FiniteSets

CONSTANT Groups   \* the values of a group that are tried

VARIABLE addr     \* the groups chosen so far

vars == <<addr>>

Init == addr = <<>>
Choose(g) == Len(addr) < 8 /\ addr' = Append(addr, g)
Next == \E g \in Groups : Choose(g)
Spec == Init /\ [][Next]_vars

Whole == Len(addr) = 8
in6 == [i \in 0..7 |-> addr[i + 1]]

Num(v) == [c |-> "x", v |-> v]
Sign(c) == [c |-> c, v |-> 0]
Char(t, p) == IF p <= Len(t) THEN t[p].c ELSE "end"

irc_in_addr_is_valid(a) == a[0] \notin {0, 65535} \/ \E i \in 1..7 : a[i] # a[0]
irc_in_addr_is_ipv4(a) == (\A i \in 0..4 : a[i] = 0) /\ a[6] # 0 /\ a[5] \in {0, 65535}

(***************************************************************************)
(* The run of zeros that irc_ntop abbreviates, as its loop finds it: the   *)
(* count of the current run goes back to zero only where it made a new     *)
(* maximum.                                                                *)
(***************************************************************************)
ZeroRun(a, from) ==
    LET Step(s, i) ==
            IF a[i] = 0 THEN [s EXCEPT !.curr = @ + 1]
            ELSE IF s.curr > s.max THEN [start |-> i - s.curr, max |-> s.curr, curr |-> 0]
            ELSE s
        scan[i \in from..8] ==
            IF i = from THEN [start |-> from, max |-> 0, curr |-> 0] ELSE Step(scan[i - 1], i - 1)
        s == scan[8]
    IN IF s.curr > s.max THEN [start |-> 8 - s.curr, max |-> s.curr] ELSE [start |-> s.start, max |-> s.max]

(* The text with the groups start .. start + zeros - 1 written as "::". *)
Text(a, start, zeros) ==
    LET From[i \in 0..8] ==
            IF i = 8 THEN <<>>
            ELSE IF zeros > 0 /\ i = start
                 THEN (IF i = 0 THEN <<Sign(":"), Sign(":")>> ELSE <<Sign(":")>>) \o From[i + zeros]
            ELSE <<Num(a[i])>> \o (IF i < 7 THEN <<Sign(":")>> ELSE <<>>) \o From[i + 1]
    IN From[0]

Bytes(a) == <<a[6] \div 256, a[6] % 256, a[7] \div 256, a[7] % 256>>
Dotted(b) == <<Num(b[1]), Sign("."), Num(b[2]), Sign("."), Num(b[3]), Sign("."), Num(b[4])>>

irc_ntop(a) ==
    IF irc_in_addr_is_ipv4(a) THEN Dotted(Bytes(a))
    ELSE LET r == ZeroRun(a, 0) IN Text(a, r.start, r.max)

(***************************************************************************)
(* The readers.  `bits' is how much of the address the text gives; 999     *)
(* where the code leaves the caller's variable as it was.                  *)
(***************************************************************************)
No == [ok |-> FALSE]
Yes(a, bits) == [ok |-> TRUE, in6 |-> a, bits |-> bits]
Unset == 999

(* irc_pton_ip4 from the token p on: four numbers, or fewer and a "*". *)
RECURSIVE Quad(_, _, _, _)
Quad(t, p, bytes, part) ==
    LET pad(b) == [i \in 1..4 |-> IF i <= Len(b) THEN b[i] ELSE 0]
        more == Append(bytes, part)
        ip(b, bits) == [ok |-> TRUE, ip |-> <<pad(b)[1] * 256 + pad(b)[2], pad(b)[3] * 256 + pad(b)[4]>>, bits |-> bits]
    IN CASE Char(t, p) = "x" -> IF t[p].v > 255 THEN No ELSE Quad(t, p + 1, bytes, t[p].v)
         [] Char(t, p) = "." ->
              IF Char(t, p + 1) = "." THEN No
              ELSE IF Char(t, p + 1) = "*" THEN IF p + 1 = Len(t) THEN ip(more, 8 * Len(more)) ELSE No
              ELSE Quad(t, p + 1, more, 0)
         [] Char(t, p) = "/" -> IF Char(t, p + 1) # "x" \/ t[p + 1].v > 32 THEN No ELSE ip(more, t[p + 1].v)
         [] OTHER -> IF Len(bytes) < 3 THEN No ELSE ip(more, 32)

irc_pton_ip4(t, p) == IF Char(t, p) = "." THEN No ELSE Quad(t, p, <<>>, 0)

(* As a mutant: the groups behind "::" stay where they were read. *)
Unshifted(a, ii, cpos) == a

(* What was read behind "::" moves to the end and the middle becomes zero. *)
Shifted(a, ii, cpos) ==
    IF cpos = 8 THEN a
    ELSE [k \in 0..7 |-> IF k < cpos THEN a[k] ELSE IF k < cpos + 8 - ii THEN 0 ELSE a[k - (8 - ii)]]

(* The loop over an IPv6 text: `start' is where the current part begins. *)
RECURSIVE Parts(_, _, _, _, _, _, _)
Parts(t, p, part, ii, cpos, a, start) ==
    LET stored == [a EXCEPT ![ii] = part]
        next == Char(t, p + 1)
        quad == irc_pton_ip4(t, start)
    IN IF ii = 8 THEN Yes(Shifted(a, ii, cpos), Unset)
       ELSE CASE Char(t, p) = "x" -> Parts(t, p + 1, t[p].v, ii, cpos, a, start)
              [] Char(t, p) = ":" ->
                   IF next = "." \/ (next = ":" /\ cpos < 8) THEN No
                   ELSE Parts(t, p + 1, 0, ii + 1, IF next = ":" THEN ii + 1 ELSE cpos, stored, p + 1)
              [] Char(t, p) = "." ->
                   IF ~quad.ok \/ ii > 6 THEN No
                   ELSE Yes(Shifted([a EXCEPT ![ii] = quad.ip[1], ![ii + 1] = quad.ip[2]], ii + 2, cpos), quad.bits + 96)
              [] Char(t, p) = "/" ->
                   IF next # "x" \/ t[p + 1].v > 128 THEN No
                   ELSE Yes(Shifted(stored, ii + 1, cpos), t[p + 1].v)
              [] Char(t, p) = "*" -> IF p < Len(t) \/ cpos < 8 THEN No ELSE Yes(a, 16 * ii)
              [] OTHER -> IF cpos = 8 /\ ii + 1 < 8 THEN No ELSE Yes(Shifted(stored, ii + 1, cpos), 128)

Zero == [i \in 0..7 |-> 0]
Places(t, c) == {p \in 1..Len(t) : t[p].c = c}

irc_pton(t) ==
    LET colons == Places(t, ":")
        dots == Places(t, ".")
        v6 == colons # {} /\ \A d \in dots : \E c \in colons : c < d
        quad == irc_pton_ip4(t, 1)
    IN IF v6 /\ Char(t, 1) = ":"
       THEN IF Char(t, 2) # ":" \/ Char(t, 3) = ":" THEN No ELSE Parts(t, 3, 0, 0, 0, Zero, 3)
       ELSE IF v6 THEN Parts(t, 1, 0, 0, 8, Zero, 1)
       ELSE IF dots # {}
       THEN IF quad.ok THEN Yes([Zero EXCEPT ![5] = 65535, ![6] = quad.ip[1], ![7] = quad.ip[2]], quad.bits + 96) ELSE No
       ELSE IF t = <<Sign("*")>> THEN Yes(Zero, 0) ELSE No

(* irc_check_mask: whole groups while more than sixteen bits are left, then the top bits of one. *)
irc_check_mask(check, mask, bits) ==
    LET whole == IF bits = 0 THEN 0 ELSE (bits - 1) \div 16
        rest == bits - 16 * whole
        top(g) == g \div 2^(16 - rest)
    IN /\ \A i \in 0..whole - 1 : check[i] = mask[i]
       /\ rest > 0 => top(check[whole]) = top(mask[whole])

(***************************************************************************)
(* The P10 form.  irc_p10_ntop writes the leading groups that are not      *)
(* zero, then loops over the rest; in that loop only the "_" moves it on,  *)
(* so it does not end when a group has to be written there.                *)
(***************************************************************************)
Leading(a) == CHOOSE n \in 0..8 : (\A i \in 0..n - 1 : a[i] # 0) /\ (n < 8 => a[n] = 0)

Six(g, h) == <<[c |-> "six", v |-> <<g, h>>]>>

irc_p10_ntop(a) ==
    LET zero == Leading(a)
        r == ZeroRun(a, zero)
        head == [i \in 1..zero |-> Num(a[i - 1])]
    IN IF ~irc_in_addr_is_valid(a) THEN [ends |-> TRUE, text |-> Six(0, 0)]
       ELSE IF irc_in_addr_is_ipv4(a) THEN [ends |-> TRUE, text |-> Six(a[6], a[7])]
       ELSE IF zero = 8 THEN [ends |-> TRUE, text |-> head]
       ELSE [ends |-> r.start = zero /\ r.start + r.max = 8, text |-> Append(head, Sign("_"))]

(* The text with a run of zeros written as "_" anywhere, as another server may send it. *)
P10Text(a, start, zeros) ==
    [i \in 1..start |-> Num(a[i - 1])] \o (IF zeros > 0 THEN <<Sign("_")>> ELSE <<>>)
    \o [i \in 1..(8 - start - zeros) |-> Num(a[start + zeros + i - 1])]

(* Every group is three characters and "_" is one. *)
Chars(t) == 3 * Cardinality(Places(t, "x")) + Cardinality(Places(t, "_"))

irc_p10_pton(t) ==
    LET Fill[s \in [p : 1..(Len(t) + 1), pos : 0..8]] ==
            IF s.pos = 8 \/ s.p > Len(t) THEN Zero
            ELSE IF t[s.p].c = "_"
                 THEN Fill[[p |-> s.p + 1, pos |-> s.pos + ((25 - Chars(SubSeq(t, s.p, Len(t)))) \div 3 - s.pos)]]
            ELSE [Fill[[p |-> s.p + 1, pos |-> s.pos + 1]] EXCEPT ![s.pos] = t[s.p].v]
        six == t[1].v
    IN IF Char(t, 1) # "six" THEN Fill[[p |-> 1, pos |-> 0]]
       ELSE [Zero EXCEPT ![5] = IF six = <<0, 0>> THEN 0 ELSE 65535, ![6] = six[1], ![7] = six[2]]

(***************************************************************************)
(* Properties.                                                             *)
(***************************************************************************)
Zeros(a) == {r \in [start : 0..7, zeros : 1..8] :
                r.start + r.zeros <= 8 /\ \A i \in r.start..(r.start + r.zeros - 1) : a[i] = 0}

(* An address of the IPv4 range is read as a mapped one, whatever its sixth group was. *)
SameAddress(a, b) == IF irc_in_addr_is_ipv4(a) THEN b = [a EXCEPT ![5] = 65535] ELSE b = a

(***************************************************************************)
(* irc_pton reads every text an address can have, whichever run of zeros   *)
(* "::" stands for, at the ends and in the middle, a "/" or a "*" behind   *)
(* it too; irc_p10_pton reads its P10 forms; the text of irc_ntop, where   *)
(* the run it found is one of zeros, leads back to the address; and        *)
(* irc_check_mask compares exactly the first bits of two addresses.        *)
(***************************************************************************)
TextsRead ==
    Whole =>
      /\ irc_pton(Text(in6, 0, 0)) = Yes(in6, 128)
      /\ \A r \in Zeros(in6) :
           /\ irc_pton(Text(in6, r.start, r.zeros)).in6 = in6
           /\ irc_p10_pton(P10Text(in6, r.start, r.zeros)) = in6
      /\ \A n \in 1..7 :
           irc_pton(SubSeq(Text(in6, 0, 0), 1, 2 * n) \o <<Sign("*")>>)
             = Yes([i \in 0..7 |-> IF i < n THEN in6[i] ELSE 0], 16 * n)
      /\ irc_pton(Text(in6, 0, 0) \o <<Sign("/"), Num(64)>>) = Yes(in6, 64)
      /\ LET r == ZeroRun(in6, 0)
         IN r.max = 0 \/ [start |-> r.start, zeros |-> r.max] \in Zeros(in6)
              => SameAddress(in6, irc_pton(irc_ntop(in6)).in6)
      /\ irc_in_addr_is_valid(in6) /\ irc_p10_ntop(in6).ends
           => SameAddress(in6, irc_p10_pton(irc_p10_ntop(in6).text))
      /\ \A g \in 0..7, k \in {0, 8, 15} :
           LET flipped == [in6 EXCEPT ![g] = IF (@ \div 2^(15 - k)) % 2 = 1 THEN @ - 2^(15 - k) ELSE @ + 2^(15 - k)]
           IN \A bits \in {16 * g + k, 16 * g + k + 1} :
                irc_check_mask(in6, flipped, bits) <=> bits <= 16 * g + k
=============================================================================
