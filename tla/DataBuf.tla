------------------------------- MODULE DataBuf --------------------------------
(***************************************************************************)
(* The packet buffer of cs/my_xy3 (databuf.cpp).  A buffer is a record of  *)
(* the fields _len, _head, _tail and _left and of data, the bytes of _data *)
(* between _head and _tail.                                                *)
(***************************************************************************)
EXTENDS Integers, Sequences

CONSTANT BufLen    \* the initial capacity (1024)

ASSUME DataBufAssumption == BufLen \in Nat \ {0}

\* sizeof(short), the header of a packet
HeadLen == 2

Empty == [len |-> BufLen, head |-> 0, tail |-> 0, left |-> BufLen, data |-> <<>>]

getDataSize(b) == b.tail - b.head

Buffers == [len : Nat, head : Nat, tail : Nat, left : Nat, data : Seq(Nat)]

\* What the geometry of a buffer has to be for memmove and memcpy to stay in it.
Sound(b) ==
    /\ 0 <= b.head /\ b.head <= b.tail /\ b.tail <= b.len
    /\ b.left = b.len - b.tail
    /\ Len(b.data) = b.tail - b.head

------------------------------------------------------------------------------
moveHead(b) ==
    [b EXCEPT !.tail = b.tail - b.head, !.left = b.left + b.head, !.head = 0]

\* The capacity is doubled at least once, until need more than before fit.
newLen(len, need) ==
    LET doubled[l \in Nat] == IF l >= len + need \/ l = 0 THEN l ELSE doubled[2 * l]
    IN  doubled[2 * len]

\* Mutant: _left as it would be with nothing in the buffer.
expandBuf_Fresh(b, need) ==
    LET m == moveHead(b)
        n == newLen(m.len, need)
    IN  IF m.left >= need THEN m ELSE [m EXCEPT !.len = n, !.left = n]

expandBuf(b, need) ==
    LET m == moveHead(b)
        n == newLen(m.len, need)
    IN  IF m.left >= need THEN m ELSE [m EXCEPT !.len = n, !.left = n - m.tail]

\* Bytes at the end, whose space was made before.
Add(b, bytes) ==
    [b EXCEPT !.tail = b.tail + Len(bytes), !.left = b.left - Len(bytes),
              !.data = b.data \o bytes]

appendRawData(b, bytes) == Add(expandBuf(b, Len(bytes)), bytes)

cutData(b, n) ==
    IF n > getDataSize(b) THEN b
    ELSE [b EXCEPT !.head = b.head + n, !.data = SubSeq(b.data, n + 1, Len(b.data))]

\* A packet on the wire: its length in two bytes, low byte first, and its body.
Frame(body) == <<Len(body) % 256, Len(body) \div 256>> \o body

\* appendPack: all of the packet or, without the space, nothing of it.  This
\* buffer does not grow.
Fits(b, body) == HeadLen + Len(body) <= moveHead(b).left

appendPack(b, body) ==
    LET m == IF HeadLen + Len(body) > b.left THEN moveHead(b) ELSE b
    IN  IF Fits(b, body) THEN Add(m, Frame(body)) ELSE m

\* getPack looks whether a packet is complete at the first byte of its length
\* only, which is a signed char that is added to an unsigned number: a
\* negative sum is a huge one.
Char(n) == IF n > 127 THEN n - 256 ELSE n

HasPack(b) ==
    LET valid == getDataSize(b)
        sum == Char(b.data[1]) + HeadLen
    IN  valid >= HeadLen /\ sum >= 0 /\ valid >= sum

PackSize(b) == b.data[1] + 256 * b.data[2]

Body(b) == SubSeq(b.data, HeadLen + 1, HeadLen + PackSize(b))
==============================================================================
