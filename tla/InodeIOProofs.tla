--------------------------- MODULE InodeIOProofs ---------------------------
(***************************************************************************)
(* Proofs about inode_read_at() and inode_write_at(): for any size of a    *)
(* sector, any file and any sizes and offsets of the calls, a write stays  *)
(* inside the file (Confined), and the loops over sectors implement a file *)
(* of bytes (ImplementsByteFile).  What is needed beside types is how much *)
(* of a call is done (Loop): once a chunk has been transferred, what is    *)
(* left of the request and of the file is not negative.                    *)
(***************************************************************************)
EXTENDS InodeIO, TLAPS

Bytes == Int \cup {Data(i) : i \in Int}

IOTypeOK ==
  /\ disk \in [Sector -> [InSector -> Bytes]]
  /\ pos \in Nat
  /\ call \in [kind : {"none", "read", "write"}, offset : Nat, size : Int, done : Nat,
               bounce : BOOLEAN, moves : BOOLEAN, failed : BOOLEAN]

(* The loop of a call that has transferred something.                      *)
Loop == /\ call.kind = "none" => call = NoCall
        /\ call.done <= call.offset
        /\ call.done > 0 => call.size >= 0 /\ call.offset <= Length

IOInv == IOTypeOK /\ Loop /\ Confined

-----------------------------------------------------------------------------
(* Arithmetic.                                                             *)

\* Quotient and remainder.
LEMMA DivMod ==
  ASSUME NEW n \in Nat, NEW d \in Nat \ {0}
  PROVE  /\ n \div d \in Nat /\ n % d \in 0..(d - 1)
         /\ n = ((n \div d) * d) + (n % d)
  OBVIOUS

\* They are the only ones.
LEMMA DivModUnique ==
  ASSUME NEW d \in Nat \ {0}, NEW q \in Nat, NEW r \in 0..(d - 1), NEW n \in Nat, n = (q * d) + r
  PROVE  n \div d = q /\ n % d = r
  <1>1. n \div d \in Nat /\ n % d \in 0..(d - 1) /\ n = ((n \div d) * d) + (n % d)
    BY DivMod
  <1>2. PICK p, m : p = n \div d /\ m = n % d
    OBVIOUS
  <1>3. p \in Nat /\ m \in 0..(d - 1) /\ (p * d) + m = (q * d) + r
    BY <1>1, <1>2
  <1>4. (p - q) * d = r - m
    BY <1>3
  <1>5. p = q
    <2>1. ASSUME p < q PROVE FALSE
      <3>1. (q - p) * d >= d
        BY <1>3, <2>1
      <3> QED BY <1>3, <3>1
    <2>2. ASSUME q < p PROVE FALSE
      <3>1. (p - q) * d >= d
        BY <1>3, <2>2
      <3> QED BY <1>3, <1>4, <3>1
    <2> QED BY <1>3, <2>1, <2>2
  <1> QED BY <1>2, <1>3, <1>5

(* Byte i of the file is byte i % BLOCK_SECTOR_SIZE of its sector, as      *)
(* byte_to_sector() has it.                                                *)
LEMMA PlaceOfByte ==
  ASSUME NEW i \in Nat
  PROVE  /\ i \div BLOCK_SECTOR_SIZE \in Nat /\ i % BLOCK_SECTOR_SIZE \in InSector
         /\ i = ((i \div BLOCK_SECTOR_SIZE) * BLOCK_SECTOR_SIZE) + (i % BLOCK_SECTOR_SIZE)
         /\ ByteAt(Address(i)) = disk[start + (i \div BLOCK_SECTOR_SIZE)][i % BLOCK_SECTOR_SIZE]
         /\ Address(i) = ((start + (i \div BLOCK_SECTOR_SIZE)) * BLOCK_SECTOR_SIZE) + (i % BLOCK_SECTOR_SIZE)
         /\ i < Length => start + (i \div BLOCK_SECTOR_SIZE) \in Sector
  <1> DEFINE B0 == BLOCK_SECTOR_SIZE
  <1>0. B0 \in Nat \ {0} /\ start \in Nat /\ Length \in Nat
    BY InodeIOAssumption
  <1>1. PICK q, r : q = i \div B0 /\ r = i % B0
    OBVIOUS
  <1>2. q \in Nat /\ r \in 0..(B0 - 1) /\ i = (q * B0) + r
    BY <1>0, <1>1, DivMod
  <1>3. PICK a : a = (start * B0) + i
    OBVIOUS
  <1>4. a = ((start + q) * B0) + r /\ a \in Nat /\ start + q \in Nat
    BY <1>0, <1>2, <1>3
  <1>5. a \div B0 = start + q /\ a % B0 = r
    BY <1>0, <1>2, <1>4, DivModUnique
  <1>6. Address(i) = a
    BY <1>3 DEF Address
  <1>7. i < Length => start + q \in Sector
    <2>1. i < Length => i \in 0..(Length - 1)
      BY <1>0
    <2> QED BY <1>1, <2>1, InodeIOAssumption
  <1> QED BY <1>1, <1>2, <1>4, <1>5, <1>6, <1>7 DEF ByteAt, InSector

(* One round of the loop: the chunk lies in one sector and in the file.    *)
LEMMA ChunkFacts ==
  ASSUME IOInv, More
  PROVE  /\ call.size \in Nat /\ call.size > 0 /\ call.offset \in Nat /\ call.offset < Length
         /\ sector_idx \in Sector /\ sector_ofs \in InSector /\ chunk_size \in Nat /\ chunk_size > 0
         /\ sector_ofs + chunk_size <= BLOCK_SECTOR_SIZE
         /\ chunk_size <= call.size /\ call.offset + chunk_size <= Length
         /\ sector_idx = start + (call.offset \div BLOCK_SECTOR_SIZE)
         /\ sector_left = BLOCK_SECTOR_SIZE - sector_ofs
         /\ Address(call.offset) = (sector_idx * BLOCK_SECTOR_SIZE) + sector_ofs
  <1>0. /\ BLOCK_SECTOR_SIZE \in Nat \ {0} /\ Length \in Nat /\ start \in Nat
        /\ call.offset \in Nat /\ call.size \in Int /\ call.size > 0 /\ chunk_size > 0
    BY InodeIOAssumption DEF IOInv, IOTypeOK, More
  <1>1. /\ sector_ofs \in InSector /\ sector_idx = start + (call.offset \div BLOCK_SECTOR_SIZE)
        /\ call.offset \div BLOCK_SECTOR_SIZE \in Nat
        /\ Address(call.offset) = (sector_idx * BLOCK_SECTOR_SIZE) + sector_ofs
        /\ call.offset < Length => sector_idx \in Sector
    BY <1>0, PlaceOfByte DEF sector_ofs, sector_idx
  <1>2. sector_left \in Nat /\ sector_left > 0 /\ sector_left = BLOCK_SECTOR_SIZE - sector_ofs
    BY <1>0, <1>1 DEF sector_left, InSector
  <1>3. inode_left \in Int /\ inode_left = Length - call.offset
    BY <1>0 DEF inode_left
  <1>4. /\ chunk_size \in Int /\ chunk_size <= call.size /\ chunk_size <= inode_left
        /\ chunk_size <= sector_left
    BY <1>0, <1>2, <1>3 DEF chunk_size, Min2
  <1>5. sector_ofs \in Nat
    BY <1>0, <1>1 DEF InSector
  <1> QED BY <1>0, <1>1, <1>2, <1>3, <1>4, <1>5

LEMMA CallTypes ==
  ASSUME IOInv
  PROVE  /\ call.kind \in {"none", "read", "write"} /\ call.offset \in Nat /\ call.size \in Int
         /\ call.done \in Nat /\ call.bounce \in BOOLEAN /\ call.moves \in BOOLEAN
         /\ call.failed \in BOOLEAN /\ pos \in Nat /\ call.done <= call.offset
  BY DEF IOInv, IOTypeOK, Loop

\* No call.
LEMMA NoCallFacts ==
  /\ NoCall.kind = "none" /\ NoCall.offset = 0 /\ NoCall.size = 0 /\ NoCall.done = 0
  /\ NoCall.bounce = FALSE /\ NoCall.moves = FALSE /\ NoCall.failed = FALSE
  /\ NoCall \in [kind : {"none", "read", "write"}, offset : Nat, size : Int, done : Nat,
                 bounce : BOOLEAN, moves : BOOLEAN, failed : BOOLEAN]
  BY DEF NoCall

\* The end of a round.
LEMMA AdvanceFacts ==
  ASSUME IOInv, More, Advance
  PROVE  /\ call'.kind = call.kind /\ call'.moves = call.moves /\ call'.failed = call.failed
         /\ call'.offset = call.offset + chunk_size
         /\ call'.size = call.size - chunk_size
         /\ call'.done = call.done + chunk_size
         /\ call' \in [kind : {"none", "read", "write"}, offset : Nat, size : Int, done : Nat,
                       bounce : BOOLEAN, moves : BOOLEAN, failed : BOOLEAN]
         /\ Loop'
  <1>1. /\ call.size \in Nat /\ call.offset \in Nat /\ call.done \in Nat /\ Length \in Nat
        /\ call.done <= call.offset
        /\ chunk_size \in Nat /\ chunk_size <= call.size /\ call.offset + chunk_size <= Length
    BY ChunkFacts, CallTypes, InodeIOAssumption
  <1>2. PICK k \in Nat : k = chunk_size
    BY <1>1
  <1>3. PICK b \in BOOLEAN : b = (call.bounce \/ ~WholeSector)
    OBVIOUS
  <1>4. call' = [call EXCEPT !.size = call.size - k, !.offset = call.offset + k,
                             !.done = call.done + k, !.bounce = b]
    BY <1>2, <1>3 DEF Advance
  <1>5. /\ call.size - k \in Int /\ call.offset + k \in Nat /\ call.done + k \in Nat
    BY <1>1, <1>2
  <1>6. /\ call'.kind = call.kind /\ call'.moves = call.moves /\ call'.failed = call.failed
        /\ call'.offset = call.offset + k
        /\ call'.size = call.size - k
        /\ call'.done = call.done + k
        /\ call' \in [kind : {"none", "read", "write"}, offset : Nat, size : Int, done : Nat,
                      bounce : BOOLEAN, moves : BOOLEAN, failed : BOOLEAN]
    BY <1>4, <1>5 DEF IOInv, IOTypeOK
  <1>7. Loop'
    BY <1>1, <1>2, <1>6 DEF Loop, More
  <1> QED BY <1>2, <1>6, <1>7

-----------------------------------------------------------------------------
(* The invariant.                                                          *)

LEMMA InitInv ==
  ASSUME Init PROVE IOInv
  <1> USE DEF Init
  <1>1. \A s \in Sector : \A j \in InSector : -1 - (s * BLOCK_SECTOR_SIZE + j) \in Int
    BY InodeIOAssumption DEF InSector
  <1>2. disk \in [Sector -> [InSector -> Bytes]]
    BY <1>1 DEF Before, Bytes
  <1>3. IOTypeOK /\ Loop
    BY <1>2, NoCallFacts, InodeIOAssumption DEF IOTypeOK, Loop
  <1>4. Confined
    BY DEF Confined
  <1> QED BY <1>3, <1>4 DEF IOInv

LEMMA SeekInv ==
  ASSUME IOInv, NEW p \in Offset, Seek(p) PROVE IOInv'
  BY InodeIOAssumption DEF IOInv, IOTypeOK, Loop, Confined, Seek

LEMMA BeginInv ==
  ASSUME IOInv, NEW kind \in {"read", "write"}, NEW n \in Size, NEW o \in Offset \cup {pos},
         NEW moves \in BOOLEAN, Begin(kind, n, o, moves)
  PROVE  IOInv'
  <1>1. /\ call' = [kind |-> kind, offset |-> o, size |-> n, done |-> 0, bounce |-> FALSE,
                    moves |-> moves, failed |-> FALSE]
        /\ UNCHANGED <<disk, pos>>
    BY DEF Begin, NoCall
  <1>2. o \in Nat /\ n \in Int
    BY CallTypes, InodeIOAssumption
  <1>3. IOTypeOK'
    BY <1>1, <1>2 DEF IOInv, IOTypeOK
  <1>4. Loop'
    BY <1>1, <1>2 DEF Loop
  <1>5. Confined'
    BY <1>1 DEF IOInv, Confined
  <1> QED BY <1>3, <1>4, <1>5 DEF IOInv

LEMMA NoMemoryInv ==
  ASSUME IOInv, NoMemory PROVE IOInv'
  <1>1. IOTypeOK' /\ Loop'
    BY CallTypes DEF IOInv, IOTypeOK, Loop, NoMemory, More
  <1>2. Confined'
    BY DEF IOInv, Confined, NoMemory
  <1> QED BY <1>1, <1>2 DEF IOInv

LEMMA ReadChunkInv ==
  ASSUME IOInv, ReadChunk PROVE IOInv'
  <1>1. IOTypeOK' /\ Loop'
    BY AdvanceFacts DEF IOInv, IOTypeOK, ReadChunk
  <1>2. Confined'
    BY DEF IOInv, Confined, ReadChunk
  <1> QED BY <1>1, <1>2 DEF IOInv

(* What a round of inode_write_at() does to the disk: the bytes of the     *)
(* chunk, and no others, change.                                           *)
LEMMA WriteChunkFacts ==
  ASSUME IOInv, WriteChunk
  PROVE  /\ disk' \in [Sector -> [InSector -> Bytes]]
         /\ \A s \in Sector : s # sector_idx => disk'[s] = disk[s]
         /\ \A j \in InSector :
              disk'[sector_idx][j] = IF sector_ofs <= j /\ j < sector_ofs + chunk_size
                                     THEN Data(call.done + j - sector_ofs) ELSE disk[sector_idx][j]
  <1>0. /\ sector_idx \in Sector /\ sector_ofs \in InSector /\ chunk_size \in Nat
        /\ sector_left = BLOCK_SECTOR_SIZE - sector_ofs /\ BLOCK_SECTOR_SIZE \in Nat
        /\ call.done \in Nat /\ \A j \in InSector : j \in Nat /\ j < BLOCK_SECTOR_SIZE
    BY ChunkFacts, CallTypes, InodeIOAssumption DEF WriteChunk, InSector
  <1>1. PICK x, r, k, n : x = sector_idx /\ r = sector_ofs /\ k = chunk_size /\ n = call.done
    OBVIOUS
  <1>2. PICK old : old = IF r > 0 \/ k < sector_left THEN disk[x] ELSE [j \in InSector |-> 0]
    OBVIOUS
  <1>3. PICK new : new = [j \in InSector |-> IF r <= j /\ j < r + k THEN Data(n + j - r) ELSE old[j]]
    OBVIOUS
  <1>4. disk' = [disk EXCEPT ![x] = new]
    BY <1>1, <1>2, <1>3 DEF WriteChunk
  <1>5. \A j \in InSector : ~(r <= j /\ j < r + k) => old[j] = disk[x][j]
    <2>1. CASE r > 0 \/ k < sector_left
      BY <1>2, <2>1
    <2>2. CASE ~(r > 0 \/ k < sector_left)
      BY <1>0, <1>1, <2>2
    <2> QED BY <2>1, <2>2
  <1>6. \A j \in InSector : new[j] = IF r <= j /\ j < r + k THEN Data(n + j - r) ELSE disk[x][j]
    BY <1>3, <1>5
  <1>7. disk \in [Sector -> [InSector -> Bytes]] /\ x \in Sector
    BY <1>0, <1>1 DEF IOInv, IOTypeOK
  <1>8. new \in [InSector -> Bytes]
    <2>1. \A j \in InSector : n + j - r \in Int
      BY <1>0, <1>1
    <2>2. \A j \in InSector : disk[x][j] \in Bytes
      BY <1>7
    <2>3. \A j \in InSector : new[j] \in Bytes
      BY <1>6, <2>1, <2>2 DEF Bytes
    <2> QED BY <1>3, <2>3
  <1>9. /\ disk' \in [Sector -> [InSector -> Bytes]] /\ disk'[x] = new
        /\ \A s \in Sector : s # x => disk'[s] = disk[s]
    BY <1>4, <1>7, <1>8
  <1> QED BY <1>1, <1>6, <1>9

LEMMA WriteChunkInv ==
  ASSUME IOInv, WriteChunk PROVE IOInv'
  <1>1. IOTypeOK' /\ Loop'
    BY AdvanceFacts, WriteChunkFacts DEF IOInv, IOTypeOK, WriteChunk
  <1>2. Confined'
    <2> SUFFICES ASSUME NEW s \in Sector, NEW j \in InSector, disk'[s][j] # Before[s][j]
                 PROVE  s * BLOCK_SECTOR_SIZE + j \in {Address(i) : i \in 0..(Length - 1)}
      BY DEF Confined
    <2>1. CASE s # sector_idx \/ ~(sector_ofs <= j /\ j < sector_ofs + chunk_size)
      BY <2>1, WriteChunkFacts DEF IOInv, Confined
    <2>2. CASE s = sector_idx /\ sector_ofs <= j /\ j < sector_ofs + chunk_size
      <3>1. PICK i : i = call.offset + (j - sector_ofs)
        OBVIOUS
      <3>2. /\ sector_idx \in Nat /\ sector_ofs \in Nat /\ chunk_size \in Nat /\ j \in Nat
            /\ BLOCK_SECTOR_SIZE \in Nat /\ call.offset \in Nat /\ Length \in Nat /\ start \in Nat
            /\ call.offset + chunk_size <= Length
            /\ Address(call.offset) = (sector_idx * BLOCK_SECTOR_SIZE) + sector_ofs
        <4>1. More
          BY DEF WriteChunk
        <4>2. /\ sector_idx \in Sector /\ sector_ofs \in InSector /\ chunk_size \in Nat
              /\ call.offset \in Nat /\ call.offset + chunk_size <= Length
              /\ Address(call.offset) = (sector_idx * BLOCK_SECTOR_SIZE) + sector_ofs
          BY <4>1, ChunkFacts
        <4>3. sector_idx \in Nat /\ BLOCK_SECTOR_SIZE \in Nat /\ Length \in Nat /\ start \in Nat
          BY <4>2, InodeIOAssumption
        <4>4. sector_ofs \in Nat /\ j \in Nat
          BY <4>2, <4>3 DEF InSector
        <4> QED BY <4>2, <4>3, <4>4
      <3>3. i \in 0..(Length - 1)
        BY <2>2, <3>1, <3>2
      <3>4. Address(i) = (sector_idx * BLOCK_SECTOR_SIZE) + j
        BY <3>1, <3>2 DEF Address
      <3> QED BY <2>2, <3>3, <3>4
    <2> QED BY <2>1, <2>2
  <1> QED BY <1>1, <1>2 DEF IOInv

LEMMA ReturnInv ==
  ASSUME IOInv, Return PROVE IOInv'
  <1>1. IOTypeOK' /\ Loop'
    <2>1. call' = NoCall /\ pos' \in Nat /\ UNCHANGED disk
      BY CallTypes DEF Return
    <2> QED BY <2>1, NoCallFacts DEF IOInv, IOTypeOK, Loop
  <1>2. Confined'
    BY DEF IOInv, Confined, Return
  <1> QED BY <1>1, <1>2 DEF IOInv

(* IOInv holds in every state.                                             *)
THEOREM InodeIOInvariant == Spec => []IOInv
  <1>1. Init => IOInv
    BY InitInv
  <1>2. IOInv /\ [Next]_vars => IOInv'
    <2> SUFFICES ASSUME IOInv, [Next]_vars PROVE IOInv'
      OBVIOUS
    <2>1. CASE \E p \in Offset : Seek(p)
      BY <2>1, SeekInv
    <2>2. CASE \E kind \in {"read", "write"}, n \in Size, o \in Offset \cup {pos}, moves \in BOOLEAN :
                 Begin(kind, n, o, moves)
      BY <2>2, BeginInv
    <2>3. CASE NoMemory
      BY <2>3, NoMemoryInv
    <2>4. CASE ReadChunk
      BY <2>4, ReadChunkInv
    <2>5. CASE WriteChunk
      BY <2>5, WriteChunkInv
    <2>6. CASE Return
      BY <2>6, ReturnInv
    <2>7. CASE UNCHANGED vars
      BY <2>7 DEF vars, IOInv, IOTypeOK, Loop, Confined
    <2> QED BY <2>1, <2>2, <2>3, <2>4, <2>5, <2>6, <2>7 DEF Next
  <1> QED BY <1>1, <1>2, PTL DEF Spec

(* inode_write_at() changes no byte of the device outside the file, for    *)
(* any size of sectors, any file and any requests.                         *)
THEOREM WritesStayInside == Spec => []Confined
  BY InodeIOInvariant, PTL DEF IOInv

-----------------------------------------------------------------------------
(* The refinement of ByteFile.                                             *)

(* What the abstract call still has to transfer.                           *)
Rest == IF call.size > 0 /\ inode_left > 0 THEN Min2(call.size, inode_left) ELSE 0

\* The abstract call of the mapping, field by field.
LEMMA Mapped ==
  ASSUME IOInv
  PROVE  /\ B!Avail - call.done = Rest /\ B!Avail \in Int
         /\ More <=> call.kind # "none" /\ ~call.failed /\ Rest > 0
         /\ More => chunk_size \in 1..Rest
         /\ Rest <= Length
  <1>0. /\ call.offset \in Nat /\ call.size \in Int /\ call.done \in Nat /\ Length \in Nat
        /\ call.done <= call.offset
        /\ call.done > 0 => call.size >= 0 /\ call.offset <= Length
    BY CallTypes, InodeIOAssumption DEF IOInv, Loop
  <1>1. PICK o, n, l : /\ o = call.offset - call.done /\ n = call.size + call.done
                       /\ l = Length - (call.offset - call.done)
    OBVIOUS
  <1>2. B!Avail = IF n <= 0 \/ l <= 0 THEN 0 ELSE IF n < l THEN n ELSE l
    BY <1>1 DEF B!Avail
  <1>3. inode_left = Length - call.offset /\ inode_left \in Int
    BY <1>0 DEF inode_left
  <1>4. Rest = IF call.size > 0 /\ inode_left > 0
               THEN (IF call.size < inode_left THEN call.size ELSE inode_left) ELSE 0
    BY DEF Rest, Min2
  <1>5. B!Avail - call.done = Rest /\ B!Avail \in Int
    BY <1>0, <1>1, <1>2, <1>3, <1>4
  <1>6. sector_left \in Nat /\ sector_left > 0
    <2>1. sector_ofs \in InSector /\ BLOCK_SECTOR_SIZE \in Nat
      BY <1>0, PlaceOfByte, InodeIOAssumption DEF sector_ofs
    <2> QED BY <2>1 DEF sector_left, InSector
  <1>7. chunk_size = IF call.size < (IF inode_left < sector_left THEN inode_left ELSE sector_left)
                     THEN call.size ELSE (IF inode_left < sector_left THEN inode_left ELSE sector_left)
    BY DEF chunk_size, Min2
  <1>8. call.size > 0 /\ chunk_size > 0 <=> Rest > 0
    BY <1>0, <1>3, <1>4, <1>6, <1>7
  <1>9. More <=> call.kind # "none" /\ ~call.failed /\ Rest > 0
    BY <1>8 DEF More
  <1>10. call.size > 0 /\ chunk_size > 0 => chunk_size \in 1..Rest
    BY <1>0, <1>3, <1>4, <1>6, <1>7
  <1>11. Rest <= Length
    BY <1>0, <1>3, <1>4
  <1> QED BY <1>5, <1>9, <1>10, <1>11 DEF More

\* The file's bytes and the call, as the mapping has them.
Content == [i \in 0..(Length - 1) |-> ByteAt(Address(i))]
Called  == [kind |-> call.kind, ofs |-> call.offset - call.done, size |-> call.size + call.done,
            done |-> call.done, moves |-> call.moves, failed |-> call.failed]

AbstractCall == [kind : {"none", "read", "write"}, ofs : Int, size : Int, done : Int,
                 moves : BOOLEAN, failed : BOOLEAN]

\* Two abstract calls with the same fields are the same call.
LEMMA SameCall ==
  ASSUME NEW c \in AbstractCall, NEW d \in AbstractCall, c.kind = d.kind, c.ofs = d.ofs,
         c.size = d.size, c.done = d.done, c.moves = d.moves, c.failed = d.failed
  PROVE  c = d
  BY DEF AbstractCall

\* What starting a call does to the abstract call.
Started(kind, o, n, m) == [B!NoCall EXCEPT !.kind = kind, !.ofs = o, !.size = n, !.moves = m]
Fresh(kind, o, n, m) ==
  [kind |-> kind, ofs |-> o, size |-> n, done |-> 0, moves |-> m, failed |-> FALSE]

LEMMA StartedNoCall ==
  ASSUME NEW kind \in {"read", "write"}, NEW o \in Int, NEW n \in Int, NEW m \in BOOLEAN
  PROVE  Fresh(kind, o, n, m) = Started(kind, o, n, m)
  <1>1. PICK none \in AbstractCall : none = B!NoCall /\ none.done = 0 /\ none.failed = FALSE
    <2>1. PICK z : z = B!NoCall
      OBVIOUS
    <2>2. z \in AbstractCall /\ z.done = 0 /\ z.failed = FALSE
      BY <2>1 DEF B!NoCall, AbstractCall
    <2> QED BY <2>1, <2>2
  <1>2. PICK k \in {"none", "read", "write"} : k = kind
    OBVIOUS
  <1>3. PICK d : d = [none EXCEPT !.kind = k, !.ofs = o, !.size = n, !.moves = m]
    OBVIOUS
  <1>4. /\ d \in AbstractCall /\ d.kind = k /\ d.ofs = o /\ d.size = n /\ d.moves = m
        /\ d.done = none.done /\ d.failed = none.failed
    BY <1>3 DEF AbstractCall
  <1>5. PICK c \in AbstractCall :
               c = [kind |-> kind, ofs |-> o, size |-> n, done |-> 0, moves |-> m, failed |-> FALSE]
    <2>1. PICK z : z = [kind |-> kind, ofs |-> o, size |-> n, done |-> 0, moves |-> m, failed |-> FALSE]
      OBVIOUS
    <2>2. z \in AbstractCall
      BY <2>1 DEF AbstractCall
    <2> QED BY <2>1, <2>2
  <1>6. c.kind = kind /\ c.ofs = o /\ c.size = n /\ c.done = 0 /\ c.moves = m /\ c.failed = FALSE
    BY <1>5
  <1>7. c = d
    BY <1>1, <1>2, <1>4, <1>6, SameCall
  <1> QED BY <1>1, <1>2, <1>3, <1>5, <1>7 DEF Fresh, Started

LEMMA CalledType ==
  ASSUME IOInv
  PROVE  /\ Called \in AbstractCall
         /\ Called.kind = call.kind /\ Called.ofs = call.offset - call.done
         /\ Called.size = call.size + call.done /\ Called.done = call.done
         /\ Called.moves = call.moves /\ Called.failed = call.failed
  BY CallTypes DEF Called, AbstractCall

\* The same of the next state.
LEMMA CalledTypeNext ==
  ASSUME IOInv'
  PROVE  /\ Called' \in AbstractCall
         /\ Called'.kind = call'.kind /\ Called'.ofs = call'.offset - call'.done
         /\ Called'.size = call'.size + call'.done /\ Called'.done = call'.done
         /\ Called'.moves = call'.moves /\ Called'.failed = call'.failed
  <1>1. /\ call'.kind \in {"none", "read", "write"} /\ call'.offset \in Nat /\ call'.size \in Int
        /\ call'.done \in Nat /\ call'.moves \in BOOLEAN /\ call'.failed \in BOOLEAN
    BY DEF IOInv, IOTypeOK
  <1> QED BY <1>1 DEF Called, AbstractCall

\* A step that does not write leaves the file's bytes alone.
LEMMA SameContent == ASSUME UNCHANGED disk PROVE Content' = Content
  BY DEF Content, ByteAt

LEMMA SeekRefines == ASSUME NEW p \in Offset, Seek(p) PROVE B!Seek(p)
  <1>1. Content' = Content /\ Called' = Called
    BY SameContent DEF Seek, Called
  <1> QED BY <1>1 DEF Seek, B!Seek, Content, Called

LEMMA BeginRefines ==
  ASSUME IOInv, NEW kind \in {"read", "write"}, NEW n \in Size, NEW o \in Offset \cup {pos},
         NEW moves \in BOOLEAN, Begin(kind, n, o, moves)
  PROVE  B!Begin(kind, n, o, moves)
  <1>1. /\ call' = [kind |-> kind, offset |-> o, size |-> n, done |-> 0, bounce |-> FALSE,
                    moves |-> moves, failed |-> FALSE]
        /\ call.kind = "none" /\ (moves => o = pos) /\ buffer' = <<>> /\ UNCHANGED <<disk, pos>>
    BY DEF Begin, NoCall
  <1>2. o \in Nat /\ n \in Int
    BY CallTypes, InodeIOAssumption
  <1>3. Called' = [kind |-> kind, ofs |-> o, size |-> n, done |-> 0, moves |-> moves, failed |-> FALSE]
    BY <1>1, <1>2 DEF Called
  <1>4. Content' = Content
    BY <1>1, SameContent
  <1>5. Called' = [B!NoCall EXCEPT !.kind = kind, !.ofs = o, !.size = n, !.moves = moves]
    <2>1. o \in Int /\ n \in Int
      BY <1>2
    <2>2. Fresh(kind, o, n, moves) = Started(kind, o, n, moves)
      BY <2>1, StartedNoCall
    <2> QED BY <1>3, <2>2 DEF Fresh, Started
  <1>6. Called.kind = "none"
    BY <1>1 DEF Called
  <1> QED BY <1>1, <1>4, <1>5, <1>6 DEF B!Begin, Content, Called

LEMMA NoMemoryRefines == ASSUME IOInv, NoMemory PROVE B!NoMemory
  <1>1. /\ More /\ call' = [call EXCEPT !.failed = TRUE] /\ UNCHANGED <<disk, pos, buffer>>
    BY DEF NoMemory
  <1>2. call.done < B!Avail /\ call.kind # "none" /\ ~call.failed
    BY <1>1, Mapped, CallTypes
  <1>3. Content' = Content
    BY <1>1, SameContent
  <1>4. Called' = [Called EXCEPT !.failed = TRUE]
    <2>1. call \in [kind : {"none", "read", "write"}, offset : Nat, size : Int, done : Nat,
                    bounce : BOOLEAN, moves : BOOLEAN, failed : BOOLEAN]
      BY DEF IOInv, IOTypeOK
    <2>2. /\ call'.kind = call.kind /\ call'.offset = call.offset /\ call'.size = call.size
          /\ call'.done = call.done /\ call'.moves = call.moves /\ call'.failed = TRUE
      BY <1>1, <2>1
    <2>3. PICK b, c, d : b = Called /\ c = Called' /\ d = [b EXCEPT !.failed = TRUE]
      OBVIOUS
    <2>4. /\ b \in AbstractCall /\ b.kind = call.kind /\ b.ofs = call.offset - call.done
          /\ b.size = call.size + call.done /\ b.done = call.done /\ b.moves = call.moves
      BY <2>3, CalledType
    <2>5. /\ c \in AbstractCall /\ c.kind = call'.kind /\ c.ofs = call'.offset - call'.done
          /\ c.size = call'.size + call'.done /\ c.done = call'.done /\ c.moves = call'.moves
          /\ c.failed = call'.failed
      <3>1. IOInv'
        BY NoMemoryInv
      <3> QED BY <2>3, <3>1, CalledTypeNext
    <2>6. /\ d \in AbstractCall /\ d.kind = b.kind /\ d.ofs = b.ofs /\ d.size = b.size
          /\ d.done = b.done /\ d.moves = b.moves /\ d.failed = TRUE
      BY <2>3, <2>4 DEF AbstractCall
    <2>7. c = d
      BY <2>2, <2>4, <2>5, <2>6, SameCall, ZenonT(60)
    <2> QED BY <2>3, <2>7
  <1> QED BY <1>1, <1>2, <1>3, <1>4 DEF B!NoMemory, Content, Called

LEMMA ReturnRefines == ASSUME IOInv, Return PROVE B!Return
  <1>1. /\ call.kind # "none" /\ ~More /\ call' = NoCall /\ UNCHANGED <<disk, buffer>>
        /\ pos' = IF call.moves THEN pos + call.done ELSE pos
    BY DEF Return
  <1>2. call.done = B!Avail \/ call.failed
    <2>1. Rest \in Int /\ Rest >= 0
      BY CallTypes, InodeIOAssumption DEF Rest, Min2, inode_left
    <2> QED BY <1>1, <2>1, Mapped, CallTypes
  <1>3. Content' = Content
    BY <1>1, SameContent
  <1>4. Called' = [kind |-> "none", ofs |-> 0, size |-> 0, done |-> 0, moves |-> FALSE, failed |-> FALSE]
    BY <1>1 DEF Called, NoCall
  <1> QED BY <1>1, <1>2, <1>3, <1>4 DEF B!Return, B!NoCall, Content, Called

\* A round transfers chunk_size bytes.
LEMMA AdvanceRefines ==
  ASSUME IOInv, More, Advance
  PROVE  /\ Called' = [Called EXCEPT !.done = call.done + chunk_size]
         /\ chunk_size \in 1..(B!Avail - call.done) /\ chunk_size \in 1..Length
         /\ Called.kind = call.kind /\ call.kind # "none" /\ ~call.failed
  <1>1. /\ call.offset \in Nat /\ call.size \in Int /\ call.done \in Nat /\ chunk_size \in Nat
    BY ChunkFacts, CallTypes
  <1>2. Called' = [Called EXCEPT !.done = call.done + chunk_size]
    <2>1. PICK k \in Nat : k = chunk_size
      BY <1>1
    <2>2. /\ call'.kind = call.kind /\ call'.moves = call.moves /\ call'.failed = call.failed
          /\ call'.offset = call.offset + k /\ call'.size = call.size - k /\ call'.done = call.done + k
      BY <2>1, AdvanceFacts
    <2>3. /\ (call.offset + k) - (call.done + k) = call.offset - call.done
          /\ (call.size - k) + (call.done + k) = call.size + call.done
      BY <1>1
    <2>4. Called' = [Called EXCEPT !.done = call.done + k]
      BY <2>2, <2>3 DEF Called
    <2> QED BY <2>1, <2>4
  <1>3. chunk_size \in 1..Rest /\ Rest <= Length /\ B!Avail - call.done = Rest /\ Rest \in Int
    BY Mapped, CallTypes
  <1> QED BY <1>1, <1>2, <1>3, InodeIOAssumption DEF More, Called

(* The bytes of the chunk are the file's bytes from the offset on.         *)
LEMMA ChunkPlace ==
  ASSUME IOInv, More, NEW i \in Nat, call.offset <= i, i < call.offset + chunk_size
  PROVE  /\ i \div BLOCK_SECTOR_SIZE = call.offset \div BLOCK_SECTOR_SIZE
         /\ i % BLOCK_SECTOR_SIZE = sector_ofs + (i - call.offset)
  <1>1. /\ BLOCK_SECTOR_SIZE \in Nat \ {0} /\ call.offset \in Nat /\ chunk_size \in Nat
        /\ sector_ofs \in InSector /\ sector_ofs + chunk_size <= BLOCK_SECTOR_SIZE
    BY ChunkFacts, InodeIOAssumption
  <1>2. PICK q, r : q = call.offset \div BLOCK_SECTOR_SIZE /\ r = sector_ofs
    OBVIOUS
  <1>3. q \in Nat /\ r \in Nat /\ call.offset = (q * BLOCK_SECTOR_SIZE) + r
    <2>1. q \in Nat /\ call.offset = (q * BLOCK_SECTOR_SIZE) + r
      BY <1>1, <1>2, PlaceOfByte DEF sector_ofs
    <2> QED BY <1>1, <1>2, <2>1 DEF InSector
  <1>4. /\ r + (i - call.offset) \in 0..(BLOCK_SECTOR_SIZE - 1)
        /\ i = (q * BLOCK_SECTOR_SIZE) + (r + (i - call.offset))
    BY <1>1, <1>2, <1>3
  <1>5. PICK m : m = r + (i - call.offset)
    OBVIOUS
  <1>6. m \in 0..(BLOCK_SECTOR_SIZE - 1) /\ i = (q * BLOCK_SECTOR_SIZE) + m
    BY <1>4, <1>5
  <1>7. i \div BLOCK_SECTOR_SIZE = q /\ i % BLOCK_SECTOR_SIZE = m
    BY <1>1, <1>3, <1>6, DivModUnique, SMTT(60)
  <1> QED BY <1>2, <1>5, <1>7

\* The address of byte i, and what is there.
LEMMA AddressOfByte ==
  ASSUME NEW i \in Nat
  PROVE  /\ ByteAt(Address(i)) = disk[start + (i \div BLOCK_SECTOR_SIZE)][i % BLOCK_SECTOR_SIZE]
         /\ ByteAt(Address(i))' = disk'[start + (i \div BLOCK_SECTOR_SIZE)][i % BLOCK_SECTOR_SIZE]
  <1> DEFINE B0 == BLOCK_SECTOR_SIZE
  <1>0. B0 \in Nat \ {0} /\ start \in Nat
    BY InodeIOAssumption
  <1>1. PICK q, r, a : q = i \div B0 /\ r = i % B0 /\ a = (start * B0) + i
    OBVIOUS
  <1>2. q \in Nat /\ r \in 0..(B0 - 1) /\ i = (q * B0) + r
    BY <1>0, <1>1, DivMod
  <1>3. a = ((start + q) * B0) + r /\ a \in Nat /\ start + q \in Nat
    BY <1>0, <1>1, <1>2
  <1>4. a \div B0 = start + q /\ a % B0 = r
    BY <1>0, <1>2, <1>3, DivModUnique
  <1>5. ByteAt(a) = disk[start + q][r] /\ ByteAt(a)' = disk'[start + q][r]
    BY <1>4 DEF ByteAt
  <1>6. ByteAt(Address(i)) = ByteAt(a) /\ ByteAt(Address(i))' = ByteAt(a)'
    BY <1>1 DEF Address, ByteAt
  <1> QED BY <1>1, <1>5, <1>6

(* The byte of the file at i, when the chunk of this round has it.         *)
LEMMA ChunkByte ==
  ASSUME IOInv, More, NEW i \in Nat, call.offset <= i, i < call.offset + chunk_size
  PROVE  /\ i \in 0..(Length - 1)
         /\ Content[i] = disk[sector_idx][sector_ofs + (i - call.offset)]
         /\ Content'[i] = disk'[sector_idx][sector_ofs + (i - call.offset)]
  <1>1. i \in 0..(Length - 1)
    BY ChunkFacts, InodeIOAssumption
  <1>2. Content[i] = ByteAt(Address(i)) /\ Content'[i] = ByteAt(Address(i))'
    BY <1>1 DEF Content
  <1>3. PICK q, m : q = i \div BLOCK_SECTOR_SIZE /\ m = i % BLOCK_SECTOR_SIZE
    OBVIOUS
  <1>4. start + q = sector_idx /\ m = sector_ofs + (i - call.offset)
    BY <1>3, ChunkPlace DEF sector_idx
  <1>5. Content[i] = disk[start + q][m] /\ Content'[i] = disk'[start + q][m]
    BY <1>2, <1>3, AddressOfByte
  <1> QED BY <1>1, <1>4, <1>5

LEMMA ReadChunkRefines ==
  ASSUME IOInv, ReadChunk PROVE B!Transfer(chunk_size)
  <1>1. /\ More /\ Advance /\ call.kind = "read" /\ UNCHANGED <<disk, pos>>
        /\ buffer' = [i \in 1..(call.done + chunk_size) |->
                        IF i <= call.done THEN buffer[i]
                        ELSE disk[sector_idx][sector_ofs + (i - 1 - call.done)]]
    BY DEF ReadChunk
  <1>2. Content' = Content
    BY <1>1, SameContent
  <1>3. /\ Called' = [Called EXCEPT !.done = call.done + chunk_size]
        /\ chunk_size \in 1..(B!Avail - call.done)
    BY <1>1, AdvanceRefines
  <1>4. /\ Called.kind = "read" /\ ~Called.failed /\ Called.done = call.done
        /\ Called.ofs = call.offset - call.done
    BY <1>1, CalledType DEF More
  <1>5. call.offset \in Nat /\ call.done \in Nat /\ chunk_size \in Nat /\ call.done <= call.offset
    BY <1>1, ChunkFacts, CallTypes
  <1>6. ASSUME NEW i \in 1..(call.done + chunk_size), ~(i <= call.done)
        PROVE  disk[sector_idx][sector_ofs + (i - 1 - call.done)] = Content[Called.ofs + i - 1]
    <2>1. PICK j : j = (call.offset - call.done) + i - 1
      OBVIOUS
    <2>2. /\ j \in Nat /\ call.offset <= j /\ j < call.offset + chunk_size
          /\ j - call.offset = i - 1 - call.done
      BY <1>5, <1>6, <2>1
    <2>3. Content[j] = disk[sector_idx][sector_ofs + (j - call.offset)]
      BY <1>1, <2>2, ChunkByte
    <2> QED BY <1>4, <2>1, <2>2, <2>3
  <1>7. buffer' = [i \in 1..(call.done + chunk_size) |->
                     IF i <= call.done THEN buffer[i] ELSE Content[Called.ofs + i - 1]]
    BY <1>1, <1>6
  <1> QED BY <1>1, <1>2, <1>3, <1>4, <1>7 DEF B!Transfer, Content, Called

LEMMA WriteChunkRefines ==
  ASSUME IOInv, WriteChunk PROVE B!Transfer(chunk_size)
  <1>1. More /\ Advance /\ call.kind = "write" /\ UNCHANGED <<pos, buffer>>
    BY DEF WriteChunk
  <1>2. /\ Called' = [Called EXCEPT !.done = call.done + chunk_size]
        /\ chunk_size \in 1..(B!Avail - call.done)
    BY <1>1, AdvanceRefines
  <1>3. /\ Called.kind = "write" /\ ~Called.failed /\ Called.done = call.done
        /\ Called.ofs = call.offset - call.done
    BY <1>1, CalledType DEF More
  <1>4. /\ call.offset \in Nat /\ call.done \in Nat /\ chunk_size \in Nat /\ call.done <= call.offset
        /\ sector_ofs \in Nat /\ sector_ofs \in InSector /\ sector_idx \in Sector
        /\ sector_idx = start + (call.offset \div BLOCK_SECTOR_SIZE)
        /\ sector_ofs + chunk_size <= BLOCK_SECTOR_SIZE
        /\ BLOCK_SECTOR_SIZE \in Nat \ {0} /\ Length \in Nat /\ start \in Nat
    <2>1. sector_ofs \in InSector /\ BLOCK_SECTOR_SIZE \in Nat \ {0}
      BY <1>1, ChunkFacts, InodeIOAssumption
    <2>2. sector_ofs \in Nat
      BY <2>1 DEF InSector
    <2> QED BY <1>1, <2>1, <2>2, ChunkFacts, CallTypes, InodeIOAssumption
  <1>5. ASSUME NEW i \in 0..(Length - 1), call.offset <= i, i < call.offset + chunk_size
        PROVE  Content'[i] = Data(i - (call.offset - call.done))
    <2>1. PICK j : j = sector_ofs + (i - call.offset)
      OBVIOUS
    <2>2. /\ j \in InSector /\ sector_ofs <= j /\ j < sector_ofs + chunk_size
          /\ call.done + j - sector_ofs = i - (call.offset - call.done)
      BY <1>4, <1>5, <2>1 DEF InSector
    <2>3. Content'[i] = disk'[sector_idx][j]
      BY <1>1, <1>5, <2>1, ChunkByte
    <2>4. disk'[sector_idx][j] = Data(call.done + j - sector_ofs)
      BY <2>2, WriteChunkFacts
    <2> QED BY <2>2, <2>3, <2>4
  <1>6. ASSUME NEW i \in 0..(Length - 1), ~(call.offset <= i /\ i < call.offset + chunk_size)
        PROVE  Content'[i] = Content[i]
    <2>1. PICK q, m : q = i \div BLOCK_SECTOR_SIZE /\ m = i % BLOCK_SECTOR_SIZE
      OBVIOUS
    <2>2. PICK p : p = call.offset \div BLOCK_SECTOR_SIZE
      OBVIOUS
    <2>3. /\ q \in Nat /\ m \in InSector /\ i = (q * BLOCK_SECTOR_SIZE) + m /\ start + q \in Sector
          /\ p \in Nat /\ call.offset = (p * BLOCK_SECTOR_SIZE) + sector_ofs
          /\ sector_idx = start + p
      <3>1. i \in Nat /\ i < Length
        BY <1>4
      <3>2. q \in Nat /\ m \in InSector /\ i = (q * BLOCK_SECTOR_SIZE) + m /\ start + q \in Sector
        BY <2>1, <3>1, PlaceOfByte
      <3>3. p \in Nat /\ call.offset = (p * BLOCK_SECTOR_SIZE) + sector_ofs
        BY <1>4, <2>2, PlaceOfByte DEF sector_ofs
      <3> QED BY <1>4, <2>2, <3>2, <3>3
    <2>4. disk'[start + q][m] = disk[start + q][m]
      <3>1. CASE q # p
        <4>1. start + q # sector_idx
          BY <1>4, <2>3, <3>1
        <4> QED BY <2>3, <4>1, WriteChunkFacts
      <3>2. CASE q = p
        <4>1. ~(sector_ofs <= m /\ m < sector_ofs + chunk_size)
          BY <1>4, <1>6, <2>3, <3>2 DEF InSector
        <4> QED BY <2>3, <3>2, <4>1, WriteChunkFacts
      <3> QED BY <3>1, <3>2
    <2>5. Content[i] = ByteAt(Address(i)) /\ Content'[i] = ByteAt(Address(i))'
      BY DEF Content
    <2> QED BY <2>1, <2>4, <2>5, AddressOfByte
  <1>7. Content' = [i \in DOMAIN Content |->
                      IF Called.ofs + Called.done <= i /\ i < Called.ofs + Called.done + chunk_size
                      THEN Data(i - Called.ofs) ELSE Content[i]]
    <2>1. Called.ofs + Called.done = call.offset
      BY <1>3, <1>4
    <2>2. DOMAIN Content = 0..(Length - 1) /\ Content' = [i \in 0..(Length - 1) |-> Content'[i]]
      BY DEF Content
    <2>3. ASSUME NEW i \in 0..(Length - 1)
          PROVE  Content'[i] = IF Called.ofs + Called.done <= i /\ i < Called.ofs + Called.done + chunk_size
                               THEN Data(i - Called.ofs) ELSE Content[i]
      BY <1>3, <1>5, <1>6, <2>1
    <2> QED BY <2>2, <2>3
  <1> QED BY <1>1, <1>2, <1>3, <1>7 DEF B!Transfer, Content, Called

\* A fresh device maps to a file of integers.
LEMMA InitRefines ==
  ASSUME Init
  PROVE  Content \in [0..(Length - 1) -> Int] /\ pos = 0 /\ Called = B!NoCall /\ buffer = <<>>
  <1>1. ASSUME NEW i \in 0..(Length - 1) PROVE ByteAt(Address(i)) \in Int
    <2>1. PICK q, m : q = i \div BLOCK_SECTOR_SIZE /\ m = i % BLOCK_SECTOR_SIZE
      OBVIOUS
    <2>2. i \in Nat /\ i < Length
      BY InodeIOAssumption
    <2>3. m \in InSector /\ start + q \in Sector /\ ByteAt(Address(i)) = disk[start + q][m]
      BY <2>1, <2>2, PlaceOfByte
    <2>4. disk[start + q][m] = -1 - ((start + q) * BLOCK_SECTOR_SIZE + m)
      BY <2>3 DEF Init, Before
    <2>5. start + q \in Nat /\ m \in Nat /\ BLOCK_SECTOR_SIZE \in Nat
      <3>1. BLOCK_SECTOR_SIZE \in Nat /\ start + q \in Nat
        BY <2>3, InodeIOAssumption
      <3>2. m \in Nat
        BY <2>3, <3>1 DEF InSector
      <3> QED BY <3>1, <3>2
    <2> QED BY <2>3, <2>4, <2>5
  <1>2. Content \in [0..(Length - 1) -> Int]
    BY <1>1 DEF Content
  <1>3. Called = B!NoCall
    BY DEF Init, Called, NoCall, B!NoCall
  <1> QED BY <1>2, <1>3 DEF Init

(* inode_read_at() and inode_write_at() implement a file of bytes: for any *)
(* size of sectors, any file and any requests, each round transfers the    *)
(* next bytes of the call from their places in the file, in order, and a   *)
(* call returns when all it asked for and the file has is transferred, or  *)
(* when there is no memory.                                                *)
THEOREM LoopsImplementByteFile == Spec => ImplementsByteFile
  <1>1. Init => /\ Content \in [0..(Length - 1) -> Int] /\ pos = 0 /\ Called = B!NoCall
                /\ buffer = <<>>
    BY InitRefines
  <1>2. IOInv /\ [Next]_vars => [B!Next]_<<Content, pos, Called, buffer>>
    <2> SUFFICES ASSUME IOInv, [Next]_vars PROVE [B!Next]_<<Content, pos, Called, buffer>>
      OBVIOUS
    <2>1. CASE \E p \in Offset : Seek(p)
      BY <2>1, SeekRefines DEF B!Next
    <2>2. CASE \E kind \in {"read", "write"}, n \in Size, o \in Offset \cup {pos}, moves \in BOOLEAN :
                 Begin(kind, n, o, moves)
      BY <2>2, BeginRefines DEF B!Next
    <2>3. CASE NoMemory
      BY <2>3, NoMemoryRefines DEF B!Next
    <2>4. CASE ReadChunk \/ WriteChunk
      <3>1. chunk_size \in 1..Length
        BY <2>4, AdvanceRefines DEF ReadChunk, WriteChunk
      <3> QED BY <2>4, <3>1, ReadChunkRefines, WriteChunkRefines DEF B!Next
    <2>5. CASE Return
      BY <2>5, ReturnRefines DEF B!Next
    <2>6. CASE UNCHANGED vars
      <3>1. Content' = Content
        BY <2>6, SameContent DEF vars
      <3>2. Called' = Called
        BY <2>6 DEF vars, Called
      <3> QED BY <2>6, <3>1, <3>2 DEF vars
    <2> QED BY <2>1, <2>2, <2>3, <2>4, <2>5, <2>6 DEF Next
  <1> QED BY <1>1, <1>2, InodeIOInvariant, PTL DEF Spec, ImplementsByteFile, B!Spec, B!vars, Content, Called
==============================================================================
