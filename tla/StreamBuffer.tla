---------------------------- MODULE StreamBuffer ----------------------------
(***************************************************************************)
(* The circular buffers of a TCP socket (FreeRTOS_Stream_Buffer.c): what   *)
(* the peer has sent and the application has not read yet, and what the    *)
(* application has sent and the peer has not acknowledged yet.             *)
(*                                                                         *)
(* A buffer is a record: tail, the first byte, head, behind the last one;  *)
(* front, where bytes were stored ahead of head; mid, the first byte that  *)
(* is not in a segment yet.  One place of LENGTH is never used.            *)
(***************************************************************************)
EXTENDS Integers, Sequences

Least(m, n) == IF m <= n THEN m ELSE n

\* An index that was moved forward by at most LENGTH.
Wrap(b, i) == IF i >= b.LENGTH THEN i - b.LENGTH ELSE i

Distance(b, lower, upper) == Wrap(b, b.LENGTH + upper - lower)
Space(b, lower, upper) == Wrap(b, b.LENGTH + upper - lower - 1)

GetSpace(b) == Space(b, b.head, b.tail)
FrontSpace(b) == Space(b, b.front, b.tail)
GetSize(b) == Distance(b, b.tail, b.head)
MidSpace(b) == Distance(b, b.mid, b.head)

MoveMid(b, n) == [b EXCEPT !.mid = Wrap(b, b.mid + Least(n, MidSpace(b)))]

\* Unsigned differences to tail compare like distances from it.
LessThenEqual(b, left, right) == Distance(b, b.tail, left) <= Distance(b, b.tail, right)

\* How many of n bytes can be placed at head + offset.
Addable(b, offset, n) ==
    Least(IF GetSpace(b) > offset THEN GetSpace(b) - offset ELSE 0, n)

\* uxStreamBufferAdd: the bytes go to head + offset; head itself moves only when
\* the offset is zero.  Without data (pucData = NULL, here <<>>) only head moves.
Add(b, offset, data, n) ==
    LET count == Addable(b, offset, n)
        at == Wrap(b, b.head + offset)
        next == IF offset = 0 THEN Wrap(b, b.head + count) ELSE at
    IN  IF count = 0 THEN b
        ELSE [b EXCEPT
                !.bytes = [i \in DOMAIN @ |-> LET d == Distance(b, at, i) IN
                              IF d < count /\ d < Len(data) THEN data[d + 1] ELSE @[i]],
                !.head = IF offset = 0 THEN next ELSE @,
                !.front = IF LessThenEqual(b, @, next) THEN next ELSE @]

\* How many of n bytes can be read from tail + offset.
Gettable(b, offset, n) ==
    Least(IF GetSize(b) > offset THEN GetSize(b) - offset ELSE 0, n)

\* uxStreamBufferGet with xPeek: the bytes, in order, and the buffer as it was.
Peek(b, offset, n) ==
    [i \in 1 .. Gettable(b, offset, n) |-> b.bytes[Wrap(b, Wrap(b, b.tail + offset) + i - 1)]]

\* uxStreamBufferGet without xPeek: the bytes are Peek(b, 0, n), and tail moves.
Drop(b, n) == [b EXCEPT !.tail = Wrap(b, @ + Gettable(b, 0, n))]
=============================================================================
