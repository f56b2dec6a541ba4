------------------------------ MODULE ByteFile ------------------------------
(***************************************************************************)
(* What an open file promises to its user: an array of bytes of fixed      *)
(* length with a position.  A call transfers the next bytes from its       *)
(* offset on, in order, as many as it asked for and the file has; it stops *)
(* short of that only when memory runs out.                                *)
(***************************************************************************)
EXTENDS Integers

CONSTANTS Length,      \* the file's length
          Size, Offset,  \* sizes asked for; offsets and positions
          Data(_)        \* the bytes of the buffer given to a write

VARIABLES content,     \* the file's bytes
          pos,         \* file->pos
          call,        \* the call in progress
          buffer       \* what a read has stored in its caller's buffer

vars == <<content, pos, call, buffer>>

NoCall == [kind |-> "none", ofs |-> 0, size |-> 0, done |-> 0, moves |-> FALSE, failed |-> FALSE]

\* The bytes the call is to transfer.
Avail == LET left == Length - call.ofs
         IN  IF call.size <= 0 \/ left <= 0 THEN 0
             ELSE IF call.size < left THEN call.size ELSE left

Seek(p) == /\ call.kind = "none"
           /\ pos' = p
           /\ UNCHANGED <<content, call, buffer>>

Begin(kind, n, o, moves) ==
  /\ call.kind = "none"
  /\ moves => o = pos
  /\ call' = [NoCall EXCEPT !.kind = kind, !.ofs = o, !.size = n, !.moves = moves]
  /\ buffer' = <<>>
  /\ UNCHANGED <<content, pos>>

Transfer(k) ==
  /\ call.kind # "none" /\ ~call.failed
  /\ k \in 1..(Avail - call.done)
  /\ call' = [call EXCEPT !.done = @ + k]
  /\ IF call.kind = "read"
     THEN /\ buffer' = [i \in 1..(call.done + k) |->
                          IF i <= call.done THEN buffer[i] ELSE content[call.ofs + i - 1]]
          /\ UNCHANGED content
     ELSE /\ content' = [i \in DOMAIN content |->
                           IF call.ofs + call.done <= i /\ i < call.ofs + call.done + k
                           THEN Data(i - call.ofs) ELSE content[i]]
          /\ UNCHANGED buffer
  /\ UNCHANGED pos

NoMemory == /\ call.kind # "none" /\ ~call.failed
            /\ call.done < Avail
            /\ call' = [call EXCEPT !.failed = TRUE]
            /\ UNCHANGED <<content, pos, buffer>>

Return == /\ call.kind # "none"
          /\ call.done = Avail \/ call.failed
          /\ pos' = IF call.moves THEN pos + call.done ELSE pos
          /\ call' = NoCall
          /\ UNCHANGED <<content, buffer>>

Next == \/ \E p \in Offset : Seek(p)
        \/ \E kind \in {"read", "write"}, n \in Size, o \in Offset \cup {pos}, moves \in BOOLEAN :
             Begin(kind, n, o, moves)
        \/ \E k \in 1..Length : Transfer(k)
        \/ NoMemory
        \/ Return

Spec == /\ content \in [0..(Length - 1) -> Int]
        /\ pos = 0
        /\ call = NoCall
        /\ buffer = <<>>
        /\ [][Next]_vars
=============================================================================
