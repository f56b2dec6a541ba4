------------------------------ MODULE InodeIO ------------------------------
(***************************************************************************)
(* inode_read_at() and inode_write_at() of filesys/inode.c, byte by byte,  *)
(* under file.c's calls with and without a position.  A call goes through  *)
(* the sectors one chunk at a time; a chunk that is not a whole sector     *)
(* goes through a bounce buffer, for which memory may run out.  One call   *)
(* at a time; a call that finds writes denied is in module FileSys.        *)
(***************************************************************************)
EXTENDS Integers

CONSTANTS BLOCK_SECTOR_SIZE,
          Sector,        \* the sectors of the device, numbered from 0
          start, Length, \* inode->data
          Size, Offset,  \* the sizes asked for, and the offsets
          Data(_)        \* the bytes of the buffer given to a write

ASSUME InodeIOAssumption ==
  /\ BLOCK_SECTOR_SIZE \in Nat \ {0}
  /\ Sector \subseteq Nat
  /\ Length \in Nat /\ start \in Nat
  /\ \A i \in 0..(Length - 1) : start + i \div BLOCK_SECTOR_SIZE \in Sector
  /\ Size \subseteq Int /\ Offset \subseteq Nat

VARIABLES disk,      \* sector -> its bytes
          pos,       \* file->pos
          call,      \* the call in progress, with the variables of its loop
          buffer     \* what a read has stored in the caller's buffer

vars == <<disk, pos, call, buffer>>

InSector == 0..(BLOCK_SECTOR_SIZE - 1)
\* A different byte at every place.
Before == [s \in Sector |-> [j \in InSector |-> -1 - (s * BLOCK_SECTOR_SIZE + j)]]

NoCall == [kind |-> "none", offset |-> 0, size |-> 0, done |-> 0, bounce |-> FALSE,
           moves |-> FALSE, failed |-> FALSE]

Init == /\ disk = Before
        /\ pos = 0
        /\ call = NoCall
        /\ buffer = <<>>

Min2(a, b) == IF a < b THEN a ELSE b

\* Quantities of one round of the loop.
sector_idx  == start + call.offset \div BLOCK_SECTOR_SIZE
sector_ofs  == call.offset % BLOCK_SECTOR_SIZE
sector_left == BLOCK_SECTOR_SIZE - sector_ofs
inode_left  == Length - call.offset
\* Mutant: the end of the file is not looked at.
chunk_size_NoEnd == Min2(call.size, sector_left)
chunk_size  == Min2(call.size, Min2(inode_left, sector_left))

More == /\ call.kind # "none" /\ ~call.failed
        /\ call.size > 0 /\ chunk_size > 0
WholeSector == sector_ofs = 0 /\ chunk_size = BLOCK_SECTOR_SIZE

-----------------------------------------------------------------------------
Seek(p) == /\ call.kind = "none"
           /\ pos' = p
           /\ UNCHANGED <<disk, call, buffer>>

\* file_read() and file_write() at the position, the _at() calls elsewhere.
Begin(kind, n, o, moves) ==
  /\ call.kind = "none"
  /\ moves => o = pos
  /\ call' = [NoCall EXCEPT !.kind = kind, !.offset = o, !.size = n, !.moves = moves]
  /\ buffer' = <<>>
  /\ UNCHANGED <<disk, pos>>

NoMemory == /\ More /\ ~WholeSector /\ ~call.bounce
            /\ call' = [call EXCEPT !.failed = TRUE]
            /\ UNCHANGED <<disk, pos, buffer>>

Advance == call' = [call EXCEPT !.size = @ - chunk_size,
                                !.offset = @ + chunk_size,
                                !.done = @ + chunk_size,
                                !.bounce = @ \/ ~WholeSector]

ReadChunk ==
  /\ More /\ call.kind = "read"
  /\ buffer' = [i \in 1..(call.done + chunk_size) |->
                  IF i <= call.done THEN buffer[i]
                  ELSE disk[sector_idx][sector_ofs + (i - 1 - call.done)]]
  /\ Advance
  /\ UNCHANGED <<disk, pos>>

\* Mutant: a chunk at the start of a sector does not need the rest of it.
WriteChunk_NoRead ==
  /\ More /\ call.kind = "write"
  /\ LET old == IF sector_ofs > 0 THEN disk[sector_idx] ELSE [j \in InSector |-> 0]
     IN  disk' = [disk EXCEPT ![sector_idx] =
                    [j \in InSector |-> IF sector_ofs <= j /\ j < sector_ofs + chunk_size
                                        THEN Data(call.done + j - sector_ofs) ELSE old[j]]]
  /\ Advance
  /\ UNCHANGED <<pos, buffer>>

(* The sector is read first if the chunk leaves some of it alone, and      *)
(* otherwise starts out as zeros.                                          *)
WriteChunk ==
  /\ More /\ call.kind = "write"
  /\ LET old == IF sector_ofs > 0 \/ chunk_size < sector_left
                THEN disk[sector_idx] ELSE [j \in InSector |-> 0]
     IN  disk' = [disk EXCEPT ![sector_idx] =
                    [j \in InSector |-> IF sector_ofs <= j /\ j < sector_ofs + chunk_size
                                        THEN Data(call.done + j - sector_ofs) ELSE old[j]]]
  /\ Advance
  /\ UNCHANGED <<pos, buffer>>

Return == /\ call.kind # "none" /\ ~More
          /\ pos' = IF call.moves THEN pos + call.done ELSE pos
          /\ call' = NoCall
          /\ UNCHANGED <<disk, buffer>>

Next == \/ \E p \in Offset : Seek(p)
        \/ \E kind \in {"read", "write"}, n \in Size, o \in Offset \cup {pos}, moves \in BOOLEAN :
             Begin(kind, n, o, moves)
        \/ NoMemory \/ ReadChunk \/ WriteChunk \/ Return

Spec == Init /\ [][Next]_vars

-----------------------------------------------------------------------------
\* The place of the file's byte i on the disk.
Address(i) == start * BLOCK_SECTOR_SIZE + i
ByteAt(a) == disk[a \div BLOCK_SECTOR_SIZE][a % BLOCK_SECTOR_SIZE]

(* A write changes no byte of the device outside the file: not the rest of *)
(* the file's last sector, and not the sectors around it.                  *)
Confined ==
  \A s \in Sector : \A j \in InSector :
    disk[s][j] # Before[s][j] => s * BLOCK_SECTOR_SIZE + j \in {Address(i) : i \in 0..(Length - 1)}

(* The loops over sectors implement a file of bytes: each call transfers   *)
(* exactly the bytes it should, in order, without gaps, and returns fewer  *)
(* only at the end of the file or without memory.                          *)
B == INSTANCE ByteFile WITH
       content <- [i \in 0..(Length - 1) |-> ByteAt(Address(i))],
       call <- [kind |-> call.kind, ofs |-> call.offset - call.done, size |-> call.size + call.done,
                done |-> call.done, moves |-> call.moves, failed |-> call.failed]
ImplementsByteFile == B!Spec
=============================================================================
