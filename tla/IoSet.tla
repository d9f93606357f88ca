------------------------------- MODULE IoSet --------------------------------
(***************************************************************************)
(* The buffers of a connection (src/src/ioset.c): bytes received wait in a *)
(* ring until a line is whole, bytes to be sent wait in another until the  *)
(* socket takes them; a ring that is full doubles.  With TLS the bytes to  *)
(* be sent are first copied to one scratch buffer, which must be offered   *)
(* again unchanged when the write has to be repeated.  A byte is its       *)
(* number in the stream, 0 whatever else memory holds.                     *)
(***************************************************************************)
EXTENDS Integers, Sequences, FiniteSets

CONSTANTS
    Size,           \* the first size of a ring (1024)
    MaxSize,        \* bound: how far rings grow
    Scratch,        \* sizeof(ssl_wbuf) (4096)
    MaxLine,        \* what the reader of lines has room for (MAXLEN)
    Tls,            \* the connection has fd->ssl
    MaxIn, MaxOut   \* bounds on the two streams

\* Constants of the code (ioset.c, ioset-impl.h).
ASSUME RingSizes == Size \in Nat \ {0} /\ MaxLine \in Nat \ {0} /\ Scratch \in Nat
ASSUME StreamBounds == MaxIn \in Nat /\ MaxOut \in Nat

VARIABLES
    recv, send,     \* struct ioq: [buf, get, put, size]
    eols,           \* numbers of the received bytes that end a line
    line_len,
    arrived, read,      \* how many bytes came in, and how many the reader took
    written, sent,      \* how many bytes were written, and the bytes that went out
    ssl_wbuf,       \* bytes offered to SSL_write and not yet accepted
    spoiled         \* one of the three known faults has happened

recvVars == <<recv, eols, line_len, arrived, read>>
sendVars == <<send, written, sent, ssl_wbuf>>
ioVars == <<recvVars, sendVars, spoiled>>

Ring(size) == [buf |-> [i \in 0 .. size - 1 |-> 0], get |-> 0, put |-> 0, size |-> size]

IoInit ==
    /\ recv = Ring(Size) /\ send = Ring(Size)
    /\ eols = {} /\ line_len = 0
    /\ arrived = 0 /\ read = 0 /\ written = 0 /\ sent = <<>>
    /\ ssl_wbuf = <<>> /\ spoiled = FALSE

-----------------------------------------------------------------------------
\* Mutant: the byte between put and get is not kept free.
PutAvailAll(q) ==
    IF q.put < q.get THEN q.get - q.put ELSE q.size - q.put

ioq_put_avail(q) ==
    IF q.put < q.get THEN q.get - q.put - 1
    ELSE IF q.get = 0 THEN q.size - q.put - 1 ELSE q.size - q.put

ioq_get_avail(q) == (IF q.put < q.get THEN q.size ELSE q.put) - q.get
ioq_used(q) == (IF q.put < q.get THEN q.size ELSE 0) + q.put - q.get

\* What the ring holds, from get to put.
Held(q) == [k \in 1 .. ioq_used(q) |-> q.buf[(q.get + k - 1) % q.size]]

\* ioq_grow; it reports all of the new room as free.
ioq_grow(q) ==
    LET held == Held(q)
    IN  [buf |-> [i \in 0 .. 2 * q.size - 1 |-> IF i < Len(held) THEN held[i + 1] ELSE 0],
         get |-> 0, put |-> Len(held), size |-> 2 * q.size]

Wrapped(i, q) == IF i = q.size THEN 0 ELSE i

\* Bytes first + 1 .. first + n copied to position at; they fit there.
Copied(q, at, first, n) == [i \in 0 .. q.size - 1 |-> IF i \in at .. at + n - 1 THEN first + i - at + 1 ELSE q.buf[i]]

-----------------------------------------------------------------------------
\* ioset_find_line_length.
ioset_find_line_length(q, ends) ==
    LET hits == {k \in 1 .. ioq_used(q) : Held(q)[k] \in ends}
    IN  IF hits = {} THEN 0 ELSE CHOOSE k \in hits : \A j \in hits : k <= j

\* ioset_buffered_read of n bytes, those in ends ending lines.  A ring that has just grown
\* can be filled to its last byte, and then passes for empty.
ioset_buffered_read(n, ends) ==
    LET full == ioq_put_avail(recv) = 0
        q    == IF full THEN ioq_grow(recv) ELSE recv
        room == IF full THEN q.size - q.put ELSE ioq_put_avail(recv)
        new  == {k - arrived : k \in ends}
        pos  == q.put + (CHOOSE k \in new : \A j \in new : k <= j) - 1
    IN  /\ line_len = 0
        /\ n <= room /\ q.size <= MaxSize
        /\ recv' = [q EXCEPT !.buf = Copied(q, q.put, arrived, n), !.put = Wrapped(q.put + n, q)]
        /\ arrived' = arrived + n
        /\ eols' = eols \union ends
        /\ line_len' = IF ends = {} THEN 0
                       ELSE IF q.put < q.get THEN q.size + pos + 1 - q.get ELSE pos + 1 - q.get
        /\ spoiled' = (spoiled \/ (full /\ n = room))
        /\ UNCHANGED <<read, sendVars>>

\* ioset_line_read from readable_cb, as often as ioset_buffered_read finds a line.  The
\* read in two pieces asserts that the first ends at the end of the ring.
ioset_line_read ==
    LET max   == IF line_len < MaxLine THEN line_len ELSE MaxLine
        avail == ioq_get_avail(recv)
        get   == IF max > avail THEN max - avail ELSE recv.get + max
        q     == [recv EXCEPT !.get = Wrapped(get, recv)]
    IN  /\ line_len > 0
        /\ recv' = q
        /\ read' = read + max
        /\ line_len' = ioset_find_line_length(q, eols)
        /\ UNCHANGED <<eols, arrived, sendVars, spoiled>>

-----------------------------------------------------------------------------
\* ioset_write of n bytes.
ioset_write(n) ==
    LET grown == IF ioq_used(send) + n >= send.size THEN ioq_grow(send) ELSE send
        avail == ioq_put_avail(grown)
        first == IF n > avail THEN avail ELSE n
        q     == [grown EXCEPT !.buf = Copied(grown, grown.put, written, first),
                               !.put = IF n > avail THEN 0 ELSE grown.put + first]
        rest  == n - first
    IN  /\ line_len = 0
        /\ grown.size <= MaxSize /\ ioq_used(grown) + n < grown.size
        /\ send' = [q EXCEPT !.buf = Copied(q, q.put, written + first, rest), !.put = Wrapped(q.put + rest, q)]
        /\ written' = written + n
        /\ UNCHANGED <<recvVars, sent, ssl_wbuf, spoiled>>

\* ioset_try_write without TLS: the socket takes n bytes of the part up to the end of the ring.
TryWritePlain(n) ==
    /\ ~Tls /\ line_len = 0
    /\ n \in 1 .. ioq_get_avail(send)
    /\ sent' = sent \o SubSeq(Held(send), 1, n)
    /\ send' = [send EXCEPT !.get = Wrapped(send.get + n, send)]
    /\ UNCHANGED <<recvVars, written, ssl_wbuf, spoiled>>

\* ioset_try_write with TLS: what is offered.  When more is waiting than the scratch buffer
\* holds, the second piece is counted in full.
Offered ==
    LET used == ioq_used(send)
        seg1 == ioq_get_avail(send)
        seg2 == used - seg1
        one  == IF seg1 > Scratch THEN Scratch ELSE seg1
        held == Held(send)
    IN  IF ssl_wbuf # <<>> THEN ssl_wbuf
        ELSE IF one + seg2 <= Scratch THEN SubSeq(held, 1, one) \o SubSeq(held, seg1 + 1, used)
        ELSE [k \in 1 .. one + seg2 |-> IF k <= one THEN held[k] ELSE 0]

Overrun == ssl_wbuf = <<>> /\ ioq_used(send) > Scratch /\ ioq_get_avail(send) < ioq_used(send)

TryWriteTls(accepted) ==
    /\ Tls /\ line_len = 0
    /\ ioq_used(send) > 0
    /\ ssl_wbuf' = IF accepted THEN <<>> ELSE Offered
    /\ sent' = IF accepted THEN sent \o Offered ELSE sent
    /\ send' = IF accepted THEN [send EXCEPT !.get = (@ + Len(Offered)) % send.size] ELSE send
    /\ spoiled' = (spoiled \/ Overrun)
    /\ UNCHANGED <<recvVars, written>>

\* ioset_close and the next ioset_connect: the scratch buffer is not given up, and belongs
\* to the new connection if that has the address of the old.
Reopen(same) ==
    /\ line_len = 0 /\ arrived + written > 0
    /\ recv' = Ring(Size) /\ send' = Ring(Size)
    /\ eols' = {} /\ line_len' = 0
    /\ arrived' = 0 /\ read' = 0 /\ written' = 0 /\ sent' = <<>>
    /\ ssl_wbuf' = IF same THEN ssl_wbuf ELSE <<>>
    /\ spoiled' = (same /\ ssl_wbuf # <<>>)

IoNext ==
    \/ \E n \in 1 .. MaxIn - arrived : \E ends \in SUBSET (arrived + 1 .. arrived + n) : ioset_buffered_read(n, ends)
    \/ ioset_line_read
    \/ \E n \in 1 .. MaxOut - written : ioset_write(n)
    \/ \E n \in 1 .. MaxOut : TryWritePlain(n)
    \/ \E accepted \in BOOLEAN : TryWriteTls(accepted)
    \/ \E same \in BOOLEAN : Reopen(same)

IoSpec == IoInit /\ [][IoNext]_ioVars

-----------------------------------------------------------------------------
\* Both rings are queues: what was received and not read, and what was written and not sent,
\* is there, whole and in order, and a line that is announced ends where its last byte is;
\* except after a grown ring was filled to its end, after the scratch buffer was overrun or
\* when it came from an earlier connection (ioset_buffered_read, ioset_try_write).
RingsAreQueues ==
    ~spoiled =>
        /\ Held(recv) = [k \in 1 .. arrived - read |-> read + k]
        /\ line_len > 0 => /\ read + line_len \in eols
                           /\ \A k \in 1 .. line_len - 1 : read + k \notin eols
        /\ sent \o Held(send) = [k \in 1 .. written |-> k]
        /\ line_len > 0 /\ MaxLine > ioq_get_avail(recv) /\ line_len > ioq_get_avail(recv)
               => recv.get + ioq_get_avail(recv) = recv.size
=============================================================================
