-------------------------------- MODULE Ring --------------------------------
(* The circular buffer of devices/intq.c: INTQ_BUFSIZE cells of which at   *)
(* most INTQ_BUFSIZE - 1 are in use, so that head = tail means empty.      *)
EXTENDS Naturals, Sequences

CONSTANTS INTQ_BUFSIZE,    \* at least 2
          Byte

Cell == 0..(INTQ_BUFSIZE - 1)
Rings == [buf : [Cell -> Byte], head : Cell, tail : Cell]

\* next().
NextPos(pos) == (pos + 1) % INTQ_BUFSIZE

\* intq_empty(), intq_full().
IntqEmpty(q) == q.head = q.tail
IntqFull(q)  == NextPos(q.head) = q.tail

\* The part of intq_putc() and intq_getc() after their loops.
PutByte(q, b) == [q EXCEPT !.buf[q.head] = b, !.head = NextPos(q.head)]
FirstByte(q)  == q.buf[q.tail]
DropByte(q)   == [q EXCEPT !.tail = NextPos(q.tail)]

\* What is in the queue, oldest first.
Count(q) == (q.head + INTQ_BUFSIZE - q.tail) % INTQ_BUFSIZE
Contents(q) == [i \in 1..Count(q) |-> q.buf[(q.tail + i - 1) % INTQ_BUFSIZE]]
=============================================================================
