-------------------------------- MODULE Disk --------------------------------
(***************************************************************************)
(* The block layer (devices/block.c) and the partitions                    *)
(* (devices/partition.c) over one IDE channel: the boot identifies the     *)
(* disks, registers them and scans their partition tables; then threads    *)
(* read and write sectors of any registered block.  Sector numbers wrap at *)
(* Word, as block_sector_t does at 2^32.                                   *)
(***************************************************************************)
EXTENDS Ide

CONSTANTS Main,          \* the thread that boots
          Word,          \* one more than the largest block_sector_t
          MaxCapacity,   \* disks this large are ignored "for safety"
          Tables,        \* disk -> sector -> its partition table; the possible contents
          MaxDepth       \* bound: how deep read_partition_table() may recurse

\* What an entry of a partition table says; no entry describes a raw disk.
PartitionType == STRING \ {"raw"}
TableEntry == [type : PartitionType, offset : 0..(Word - 1), size : 0..(Word - 1)]

ASSUME DiskAssumption == /\ Main \in Thread
                         /\ Word \in Nat \ {0}
                         /\ MaxCapacity \in 0..Word
                         /\ \A tab \in Tables, d \in Dev : tab[d][0] \in Seq(TableEntry)
                         /\ NULL \notin [op : {"read", "write"}, at : Address, data : Data,
                                         done : BOOLEAN]

VARIABLES table,     \* disk -> sector -> table
          blocks,    \* all_blocks
          phase,     \* what the boot is doing
          disk,      \* the disk it is doing it to
          stack,     \* activations of read_partition_table(), innermost first
          asked,     \* thread -> the block, sector and kind of its block_read() or block_write()
          panicked

bootVars == <<table, blocks, phase, disk, stack>>
vars == <<ideVars, bootVars, asked, panicked>>

Nowhere == <<0, 0, "none">>

Init == /\ IdeInit
        /\ table \in Tables
        /\ blocks = << >>
        /\ phase = "identify"
        /\ disk = 1
        /\ stack = << >>
        /\ asked = [t \in Thread |-> Nowhere]
        /\ panicked = FALSE

-----------------------------------------------------------------------------
\* The sector of the disk that partition_read() and partition_write() ask for.
PartitionSector(blk, s) == (blk.start + s) % Word

(* block_read() and block_write(), through a partition or not:             *)
(* check_sector() for the block asked for and for the disk it lies on.     *)
(* block_write() asserts that the block is not another system's.           *)
BlockCall(t, op, b, s, v) ==
  LET blk == blocks[b]
      sec == PartitionSector(blk, s)
  IN  /\ At(t, "out")
      /\ asked' = [asked EXCEPT ![t] = <<b, s, op>>]
      /\ IF s < blk.size /\ sec < Capacity[blk.dev] /\ ~(op = "write" /\ blk.type = "foreign")
         THEN Begin(t, op, blk.dev, sec, v) /\ UNCHANGED panicked
         ELSE panicked' = TRUE /\ UNCHANGED ideVars

BlockReturn(t) == ReleaseChannel(t) /\ asked' = [asked EXCEPT ![t] = Nowhere]

Request(t) == /\ phase = "up"
              /\ \E b \in DOMAIN blocks, s \in 0..(Word - 1) :
                   \/ BlockCall(t, "read", b, s, NULL)
                   \/ \E v \in Data : BlockCall(t, "write", b, s, v)
              /\ UNCHANGED bootVars

DriverStep(t) == /\ \/ IdeStep(t) /\ ~At(t, "unlock") /\ UNCHANGED asked
                    \/ BlockReturn(t)
                 /\ UNCHANGED <<bootVars, panicked>>

-----------------------------------------------------------------------------
\* block_register().
Register(d, start, size, type) ==
  blocks' = Append(blocks, [dev |-> d, start |-> start, size |-> size, type |-> type])

NextDisk == disk' = disk + 1 /\ phase' = IF disk = 2 THEN "up" ELSE "identify"

\* identify_ata_device(), which ide_init() calls for each ATA disk.
Identify ==
  /\ phase = "identify"
  /\ IF Capacity[disk] > 0
     THEN /\ Begin(Main, "identify", disk, 0, NULL)
          /\ phase' = "identifying"
          /\ UNCHANGED disk
     ELSE NextDisk /\ UNCHANGED ideVars
  /\ UNCHANGED <<table, blocks, stack, asked, panicked>>

Identified ==
  /\ phase = "identifying" /\ At(Main, "identified")
  /\ Goto(Main, "out")
  /\ req' = [req EXCEPT ![Main] = NoReq]
  /\ IF Capacity[disk] >= MaxCapacity
     THEN NextDisk /\ UNCHANGED <<blocks, stack>>
     ELSE /\ Register(disk, 0, Capacity[disk], "raw")
          /\ stack' = <<[sector |-> 0, primary |-> 0, i |-> 0]>>
          /\ phase' = "scan"
          /\ UNCHANGED disk
  /\ UNCHANGED <<owner, expecting_interrupt, completion_wait, hw, media, spurious,
                 table, asked, panicked>>

(* read_partition_table() up to its loop.  The block read is block 0,      *)
(* whatever sector was asked for.                                          *)
RawBlock == CHOOSE b \in DOMAIN blocks : blocks[b].dev = disk /\ blocks[b].type = "raw"

Return == stack' = Tail(stack)
Advance(s, i) == <<[s[1] EXCEPT !.i = i]>> \o Tail(s)

ReadTable ==
  /\ phase = "scan" /\ stack # << >> /\ stack[1].i = 0
  /\ IF stack[1].sector >= Capacity[disk]
     THEN Return /\ UNCHANGED <<ideVars, phase, asked, panicked>>
     ELSE /\ BlockCall(Main, "read", RawBlock, 0, NULL)
          /\ phase' = "reading"
          /\ UNCHANGED stack
  /\ UNCHANGED <<table, blocks, disk>>

TableRead ==
  /\ phase = "reading" /\ At(Main, "out")
  /\ phase' = "scan"
  /\ IF table[disk][0] = << >> THEN Return ELSE stack' = Advance(stack, 1)
  /\ UNCHANGED <<ideVars, table, blocks, disk, asked, panicked>>

\* Mutant: the end of the partition is not checked for wrapping around.
found_partition_NoWrap(type, start, size) ==
  IF start >= Capacity[disk] \/ (start + size) % Word > Capacity[disk]
  THEN UNCHANGED blocks
  ELSE Register(disk, start, size, type)

\* found_partition(): a partition that does not lie on the disk is ignored.
found_partition(type, start, size) ==
  IF \/ start >= Capacity[disk]
     \/ (start + size) % Word < start
     \/ (start + size) % Word > Capacity[disk]
  THEN UNCHANGED blocks
  ELSE Register(disk, start, size, type)

(* One round of the loop of read_partition_table(): an empty entry, an     *)
(* extended partition (recursion) or a partition; after the last entry     *)
(* the activation returns.                                                 *)
ParseEntry ==
  LET top == stack[1]
      e   == table[disk][0][top.i]
  IN  /\ phase = "scan" /\ stack # << >> /\ stack[1].i > 0
      /\ \/ top.i > Len(table[disk][0]) /\ Return /\ UNCHANGED blocks
         \/ /\ top.i <= Len(table[disk][0])
            /\ e.size = 0 \/ e.type = "empty"
            /\ stack' = Advance(stack, top.i + 1)
            /\ UNCHANGED blocks
         \/ /\ top.i <= Len(table[disk][0])
            /\ e.size > 0 /\ e.type = "extended"
            /\ Len(stack) < MaxDepth
            /\ stack' = LET first == IF top.sector = 0 THEN e.offset ELSE top.primary
                            sec   == IF top.sector = 0 THEN e.offset
                                     ELSE (e.offset + top.primary) % Word
                        IN  <<[sector |-> sec, primary |-> first, i |-> 0]>> \o Advance(stack, top.i + 1)
            /\ UNCHANGED blocks
         \/ /\ top.i <= Len(table[disk][0])
            /\ e.size > 0 /\ e.type \notin {"empty", "extended"}
            /\ found_partition(e.type, (e.offset + top.sector) % Word, e.size)
            /\ stack' = Advance(stack, top.i + 1)
      /\ UNCHANGED <<ideVars, table, phase, disk, asked, panicked>>

ScanDone == /\ phase = "scan" /\ stack = << >>
            /\ NextDisk
            /\ UNCHANGED <<ideVars, table, blocks, stack, asked, panicked>>

Boot == Identify \/ Identified \/ ReadTable \/ TableRead \/ ParseEntry \/ ScanDone

-----------------------------------------------------------------------------
Hardware(A) == A /\ UNCHANGED <<bootVars, asked, panicked>>

\* A panic stops the kernel.
Next == /\ ~panicked
        /\ \/ Boot
           \/ \E t \in Thread : Request(t) \/ DriverStep(t)
           \/ Hardware(Completion) \/ Hardware(Spurious) \/ Hardware(Controller)

Spec == Init /\ [][Next]_vars

(* Threads that can go on do (module Synch), a disk completes its commands *)
(* and its interrupt is delivered.  Nothing is assumed of who gets the     *)
(* channel's lock.                                                         *)
Fairness == /\ WF_vars(Boot /\ ~panicked)
            /\ \A t \in Thread : WF_vars(DriverStep(t) /\ ~panicked)
            /\ WF_vars(Hardware(Completion) /\ ~panicked)
            /\ WF_vars(Hardware(Controller) /\ ~panicked)

FairSpec == Spec /\ Fairness

-----------------------------------------------------------------------------
(* Data written and not yet stored count: the next command waits for them. *)
StoreNow == IF hw.cmd = "store" THEN [media EXCEPT ![<<hw.dev, hw.sec>>] = hw.buf] ELSE media

CallOf(t) ==
  LET blk == blocks[asked[t][1]]
  IN  IF asked[t] = Nowhere \/ At(t, "out") THEN NULL
      ELSE [op |-> req[t].op, at |-> <<blk.dev, blk.start + asked[t][2]>>,
            data |-> IF req[t].data = NULL THEN Blank ELSE req[t].data,
            done |-> At(t, "unlock") \/ (req[t].op = "write" /\ At(t, "down"))]
S == INSTANCE SectorStore WITH NoCall <- NULL, store <- StoreNow,
                               call <- [t \in Thread |-> CallOf(t)]

(* "Internally synchronizes accesses to block devices, so external         *)
(* per-block device locking is unneeded": every block_read() and           *)
(* block_write(), of either disk and through any partition, is atomic,     *)
(* even when interrupts without a cause end a wait early.                  *)
ImplementsSectorStore == S!StoreSpec

(* block_write() "returns after the block device has acknowledged          *)
(* receiving the data", unless there have been interrupts without a cause: *)
(* each completion is counted for the command it belongs to.               *)
WritesAcknowledged ==
  [][\A t \in Thread : At(t, "unlock") /\ req[t].op = "write" /\ pc'[t] = "out"
                       => hw.cmd # "store" \/ spurious > 0]_vars

(* The kernel panics only for a caller's mistake: a sector outside the     *)
(* block it named, or a write to another system's partition.  A            *)
(* partition's sectors are always sectors of its disk, and no thread       *)
(* mistakes another command's state for a failure of its own.              *)
PanicsAreDeserved ==
  /\ panicked => \E t \in Thread : /\ asked[t] # Nowhere /\ At(t, "out")
                                  /\ LET blk == blocks[asked[t][1]]
                                     IN  \/ asked[t][2] >= blk.size
                                         \/ asked[t][3] = "write" /\ blk.type = "foreign"
  /\ \A t \in Thread : ~TransferFails(t)

(* The boot gets through, and a thread that has the channel gives it back: *)
(* no completion is lost between the status register, which clears         *)
(* interrupts, and the semaphore.                                          *)
ChannelComesBack ==
  /\ <>(phase = "up")
  /\ \A t \in Thread : owner = t ~> (owner # t \/ panicked)

-----------------------------------------------------------------------------
\* The extended tables that belong to an extended partition of the first table.
Extended(tab, d) == {tab[d][0][i].offset : i \in {k \in DOMAIN tab[d][0] : tab[d][0][k].type = "extended"}}
ChainFrom(tab, d, base) ==
  {s \in DOMAIN tab[d] :
     \A C \in SUBSET DOMAIN tab[d] :
       /\ base \in C
       /\ \A c \in C : \A i \in DOMAIN tab[d][c] :
            (tab[d][c][i].type = "extended" /\ tab[d][c][i].offset + base \in DOMAIN tab[d])
               => tab[d][c][i].offset + base \in C
       => s \in C}

(* "Reads the partition table in the given SECTOR of BLOCK": a registered  *)
(* partition is one that some table on its disk describes.                 *)
PartitionsAsOnDisk ==
  \A b \in DOMAIN blocks :
    blocks[b].type = "raw" \/
    \E s \in {0} \cup UNION {ChainFrom(table, blocks[b].dev, x) : x \in Extended(table, blocks[b].dev)} :
      \E i \in DOMAIN table[blocks[b].dev][s] :
        LET e == table[blocks[b].dev][s][i]
        IN  e.type = blocks[b].type /\ e.offset + s = blocks[b].start /\ e.size = blocks[b].size
=============================================================================
