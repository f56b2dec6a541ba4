------------------------------ MODULE FileSys ------------------------------
(***************************************************************************)
(* The file system: filesys.c, inode.c, directory.c, free-map.c, file.c of *)
(* filesys/.  It has no locks and expects one call at a time; what makes   *)
(* it hard is that a call writes several sectors (the free map, an inode,  *)
(* data, the root directory), that the machine may stop between any two of *)
(* these writes, that memory may run out in any of them, and that a file   *)
(* may be removed while it is open.  Each action ends with at most one     *)
(* write to the disk.                                                      *)
(*                                                                         *)
(* The free map and the root directory fill one sector each, so a write of *)
(* either is atomic.  The root directory's inode is opened and closed      *)
(* again within each call, and the free map's stays open; neither is       *)
(* tracked.  Sizes are in sectors.                                         *)
(***************************************************************************)
EXTENDS Naturals, FiniteSets

CONSTANTS SectorCnt,   \* block_size(fs_device)
          Slot,        \* the slots of the root directory, numbered from 0
          Name, File,  \* file names; struct file's that may be open
          MaxSectors,  \* bound: the largest initial_size, in sectors
          ShortReads,  \* may memory run out while a directory is searched?
          NULL

Reserved == 0..3       \* inode and data of the free map and of the root directory

Sectors == 0..(SectorCnt - 1)

VARIABLES free_map,    \* the sectors marked in the free map in memory
          inodes,      \* sector -> the open inode at that sector, or NULL
          files,       \* struct file -> its inode and deny_write, or NULL
          call,        \* the call in progress
          disk_map,    \* the free map on disk
          disk_inode,  \* sector -> the struct inode_disk written there, or NULL
          content,     \* sector -> zeros, data of its file, or an older file's
          dir,         \* slot -> the directory entry in it, or NULL
          lost         \* history: sectors that stay marked though no file has them

memory == <<free_map, inodes, files, call>>
disk   == <<disk_map, disk_inode, content, dir>>
vars   == <<memory, disk, lost>>

InodeDisk == [start : Sectors, length : 0..MaxSectors]
Inode     == [open_cnt : Nat, deny_write_cnt : Nat, removed : BOOLEAN, data : InodeDisk]
OpenFile  == [sector : Sectors, deny_write : BOOLEAN]
DirEntry  == [name : Name, sector : Sectors]
Label     == {"idle", "alloc_inode", "alloc_data", "write_inode", "zero", "add", "undo",
              "erase", "release_inode", "release_data"}

ASSUME FileSysAssumption == /\ SectorCnt \in Nat /\ Reserved \subseteq Sectors
                            /\ Slot \subseteq Nat /\ IsFiniteSet(File)
                            /\ MaxSectors \in Nat /\ ShortReads \in BOOLEAN
                            /\ NULL \notin InodeDisk /\ NULL \notin Inode
                            /\ NULL \notin OpenFile /\ NULL \notin DirEntry

Extent(start, n) == {s \in Sectors : start <= s /\ s < start + n}
DataOf(d) == Extent(d.start, d.length)

Idle == [pc |-> "idle", name |-> NULL, sector |-> 0, start |-> 0, length |-> 0, zeroed |-> 0]
At(label)   == call.pc = label
Goto(label) == call' = [call EXCEPT !.pc = label]
Return      == call' = Idle

\* filesys_init(true): do_format(), then free_map_open().
Init == /\ free_map = Reserved
        /\ inodes = [s \in Sectors |-> NULL]
        /\ files = [f \in File |-> NULL]
        /\ call = Idle
        /\ disk_map = Reserved
        /\ disk_inode = [s \in Sectors |-> NULL]
        /\ content = [s \in Sectors |-> "old"]   \* whatever the disk held before
        /\ dir = [k \in Slot |-> NULL]
        /\ lost = {}

-----------------------------------------------------------------------------
(* bitmap_scan(): the first n free sectors in a row, and 0 if n is 0.      *)
Fits(i, n) == i + n <= SectorCnt /\ Extent(i, n) \cap free_map = {}
HasRoom(n) == n = 0 \/ \E i \in Sectors : Fits(i, n)
FirstFit(n) == IF n = 0 THEN 0
               ELSE CHOOSE i \in Sectors : Fits(i, n) /\ \A j \in Sectors : Fits(j, n) => i <= j

(* free_map_allocate(n): on success go on at label.  Without room, or if   *)
(* the map cannot be written (inode_write_at() needs memory), the bits are *)
(* as they were and the call goes on at fail.                              *)
FreeMapAllocate(n, next, fail) ==
  \/ /\ HasRoom(n)
     /\ free_map' = free_map \cup Extent(FirstFit(n), n)
     /\ disk_map' = free_map'
     /\ call' = next
  \/ /\ UNCHANGED <<free_map, disk_map>>
     /\ call' = fail

(* free_map_release(): the result of bitmap_write() is ignored.            *)
FreeMapRelease(start, n) == /\ free_map' = free_map \ Extent(start, n)
                            /\ disk_map' \in {free_map', disk_map}

\* lookup(): the slots with the name, and the first one of them.
Lookup(name) == {k \in Slot : dir[k] # NULL /\ dir[k].name = name}
SlotOf(name) == CHOOSE k \in Lookup(name) : \A j \in Lookup(name) : k <= j
SectorOf(name) == dir[SlotOf(name)].sector

\* inode_open(): an inode that is open already is shared.
InodeOpen(s) ==
  [inodes EXCEPT ![s] =
     IF inodes[s] # NULL THEN [inodes[s] EXCEPT !.open_cnt = @ + 1]
     ELSE [open_cnt |-> 1, deny_write_cnt |-> 0, removed |-> FALSE, data |-> disk_inode[s]]]

\* Mutant: a removed inode's sectors are freed by the first closer.
InodeClose_Eager(s, inode) ==
  /\ inodes' = [inodes EXCEPT ![s] = IF inode.open_cnt > 1 THEN [inode EXCEPT !.open_cnt = @ - 1] ELSE NULL]
  /\ IF inode.removed
     THEN call' = [Idle EXCEPT !.pc = "release_inode", !.sector = s,
                               !.start = inode.data.start, !.length = inode.data.length]
     ELSE Return

(* inode_close() of the inode at s, whose state is now `inode': the last   *)
(* closer of a removed inode goes on to free its sectors.                  *)
InodeClose(s, inode) ==
  IF inode.open_cnt > 1
  THEN /\ inodes' = [inodes EXCEPT ![s] = [inode EXCEPT !.open_cnt = @ - 1]]
       /\ Return
  ELSE /\ inodes' = [inodes EXCEPT ![s] = NULL]
       /\ IF inode.removed
          THEN call' = [Idle EXCEPT !.pc = "release_inode", !.sector = s,
                                    !.start = inode.data.start, !.length = inode.data.length]
          ELSE Return

-----------------------------------------------------------------------------
(* filesys_create(), in the order of its writes: the inode's sector in the *)
(* free map, the data's sectors in the free map, the inode, zeros, and the *)
(* directory entry.                                                        *)
Create(name, n) == /\ At("idle")
                   /\ call' = [Idle EXCEPT !.pc = "alloc_inode", !.name = name, !.length = n]
                   /\ UNCHANGED <<free_map, inodes, files, disk, lost>>

\* Mutant: the failure path frees inode_sector even if it is still 0.
AllocInode_FreesZero ==
  /\ At("alloc_inode")
  /\ FreeMapAllocate(1, [call EXCEPT !.pc = "alloc_data", !.sector = FirstFit(1)],
                        [call EXCEPT !.pc = "undo"])
  /\ UNCHANGED <<inodes, files, disk_inode, content, dir, lost>>

AllocInode == /\ At("alloc_inode")
              /\ FreeMapAllocate(1, [call EXCEPT !.pc = "alloc_data", !.sector = FirstFit(1)], Idle)
              /\ UNCHANGED <<inodes, files, disk_inode, content, dir, lost>>

\* inode_create(): memory for disk_inode, and the data's sectors.
AllocData == /\ At("alloc_data")
             /\ FreeMapAllocate(call.length,
                  [call EXCEPT !.pc = "write_inode", !.start = FirstFit(call.length)],
                  [call EXCEPT !.pc = "undo"])
             /\ UNCHANGED <<inodes, files, disk_inode, content, dir, lost>>

\* Mutant: the data is not zeroed.
WriteInode_NoZeros ==
  /\ At("write_inode")
  /\ disk_inode' = [disk_inode EXCEPT ![call.sector] = [start |-> call.start, length |-> call.length]]
  /\ Goto("add")
  /\ UNCHANGED <<free_map, inodes, files, disk_map, content, dir, lost>>

WriteInode == /\ At("write_inode")
              /\ disk_inode' = [disk_inode EXCEPT ![call.sector] =
                                  [start |-> call.start, length |-> call.length]]
              /\ Goto(IF call.length > 0 THEN "zero" ELSE "add")
              /\ UNCHANGED <<free_map, inodes, files, disk_map, content, dir, lost>>

ZeroSector == /\ At("zero")
              /\ content' = [content EXCEPT ![call.start + call.zeroed] = "zero"]
              /\ call' = [call EXCEPT !.zeroed = @ + 1,
                                      !.pc = IF call.zeroed + 1 < call.length THEN "zero" ELSE "add"]
              /\ UNCHANGED <<free_map, inodes, files, disk_map, disk_inode, dir, lost>>

\* Mutant: the name is not looked up first.
DirAdd_NoLookup ==
  /\ At("add")
  /\ \/ /\ \E k \in Slot : /\ dir[k] = NULL
                           /\ dir' = [dir EXCEPT ![k] = [name |-> call.name, sector |-> call.sector]]
        /\ Return
        /\ UNCHANGED lost
     \/ /\ Goto("undo")
        /\ lost' = lost \cup Extent(call.start, call.length)
        /\ UNCHANGED dir
  /\ UNCHANGED <<free_map, inodes, files, disk_map, disk_inode, content>>

(* dir_add() fails if the name is there already, if no slot is free, or    *)
(* for want of memory.  It reads the slots in order twice, to look for the *)
(* name and to find a free slot; an inode_read_at() without memory for its *)
(* bounce buffer is short, and ends either search where it is.             *)
DirAdd ==
  /\ At("add")
  /\ \/ /\ Lookup(call.name) = {} \/ ShortReads
        /\ \E k \in Slot : /\ dir[k] = NULL \/ ShortReads
                           /\ \A j \in Slot : j < k => dir[j] # NULL
                           /\ dir' = [dir EXCEPT ![k] = [name |-> call.name, sector |-> call.sector]]
        /\ Return
        /\ UNCHANGED lost
     \/ /\ Goto("undo")
        /\ lost' = lost \cup Extent(call.start, call.length)
        /\ UNCHANGED dir
  /\ UNCHANGED <<free_map, inodes, files, disk_map, disk_inode, content>>

\* The end of filesys_create() after a failure: only the inode's sector is freed.
UndoCreate == /\ At("undo")
              /\ FreeMapRelease(call.sector, 1)
              /\ Return
              /\ UNCHANGED <<inodes, files, disk_inode, content, dir, lost>>

-----------------------------------------------------------------------------
(* filesys_remove(): dir_remove() opens the inode, erases the entry, marks *)
(* the inode and closes it.  Without memory to write the entry it only     *)
(* closes.                                                                 *)
Remove(name) == /\ At("idle")
                /\ Lookup(name) # {}
                /\ inodes' = InodeOpen(SectorOf(name))
                /\ call' = [Idle EXCEPT !.pc = "erase", !.name = name, !.sector = SectorOf(name)]
                /\ UNCHANGED <<free_map, files, disk, lost>>

Erase == /\ At("erase")
         /\ LET inode == inodes[call.sector]
            IN  \/ /\ dir' = [dir EXCEPT ![SlotOf(call.name)] = NULL]
                   /\ InodeClose(call.sector, [inode EXCEPT !.removed = TRUE])
                \/ /\ UNCHANGED dir
                   /\ InodeClose(call.sector, inode)
         /\ UNCHANGED <<free_map, files, disk_map, disk_inode, content, lost>>

\* Mutant: only the inode's sector is freed.
ReleaseInode_Only == /\ At("release_inode")
                     /\ FreeMapRelease(call.sector, 1)
                     /\ Return
                     /\ UNCHANGED <<inodes, files, disk_inode, content, dir, lost>>

(* inode_close() of the last opener: free the inode's sector, then the     *)
(* data's.  (What was written there is an older file's from now on.)       *)
ReleaseInode == /\ At("release_inode")
                /\ FreeMapRelease(call.sector, 1)
                /\ Goto("release_data")
                /\ UNCHANGED <<inodes, files, disk_inode, content, dir, lost>>

ReleaseData == /\ At("release_data")
               /\ FreeMapRelease(call.start, call.length)
               /\ content' = [s \in Sectors |->
                                IF s \in Extent(call.start, call.length) /\ content[s] = "data"
                                THEN "old" ELSE content[s]]
               /\ Return
               /\ UNCHANGED <<inodes, files, disk_inode, dir, lost>>

-----------------------------------------------------------------------------
\* filesys_open(), when memory suffices.
Open(f, name) == /\ At("idle")
                 /\ files[f] = NULL
                 /\ Lookup(name) # {}
                 /\ inodes' = InodeOpen(SectorOf(name))
                 /\ files' = [files EXCEPT ![f] = [sector |-> SectorOf(name), deny_write |-> FALSE]]
                 /\ UNCHANGED <<free_map, call, disk, lost>>

\* file_reopen().
Reopen(f, g) == /\ At("idle")
                /\ files[f] # NULL /\ files[g] = NULL
                /\ inodes' = [inodes EXCEPT ![files[f].sector].open_cnt = @ + 1]
                /\ files' = [files EXCEPT ![g] = [files[f] EXCEPT !.deny_write = FALSE]]
                /\ UNCHANGED <<free_map, call, disk, lost>>

\* The inode of f once f itself denies writes no more.
Allowed(f) == [inodes[files[f].sector] EXCEPT
                 !.deny_write_cnt = IF files[f].deny_write THEN @ - 1 ELSE @]

\* file_deny_write() and file_allow_write().
DenyWrite(f) == /\ At("idle")
                /\ files[f] # NULL /\ ~files[f].deny_write
                /\ files' = [files EXCEPT ![f].deny_write = TRUE]
                /\ inodes' = [inodes EXCEPT ![files[f].sector].deny_write_cnt = @ + 1]
                /\ UNCHANGED <<free_map, call, disk, lost>>
AllowWrite(f) == /\ At("idle")
                 /\ files[f] # NULL /\ files[f].deny_write
                 /\ files' = [files EXCEPT ![f].deny_write = FALSE]
                 /\ inodes' = [inodes EXCEPT ![files[f].sector] = Allowed(f)]
                 /\ UNCHANGED <<free_map, call, disk, lost>>

\* file_close().
Close(f) == /\ At("idle")
            /\ files[f] # NULL
            /\ files' = [files EXCEPT ![f] = NULL]
            /\ InodeClose(files[f].sector, Allowed(f))
            /\ UNCHANGED <<free_map, disk, lost>>

\* file_write_at(): one sector of it.
Write(f) == /\ At("idle")
            /\ files[f] # NULL
            /\ inodes[files[f].sector].deny_write_cnt = 0
            /\ \E s \in DataOf(inodes[files[f].sector].data) :
                 content' = [content EXCEPT ![s] = "data"]
            /\ UNCHANGED <<memory, disk_map, disk_inode, dir, lost>>

-----------------------------------------------------------------------------
(* The next boot: filesys_init(false) reads the free map, nothing is open. *)
(* Lost are the sectors of files that were open with no name left, those   *)
(* that free_map_release() could not write as free (free_map_close() does  *)
(* not write the map either), and those that the call in progress had.     *)
OpenRemoved == UNION {{s} \cup DataOf(inodes[s].data) :
                        s \in {u \in Sectors : inodes[u] # NULL /\ inodes[u].removed}}
NotWritten == disk_map \ free_map

\* Sectors that filesys_create() has allocated, or inode_close() has still to free.
InHand == IF call.pc \in {"alloc_data", "undo"} THEN {call.sector}
          ELSE IF call.pc \in {"write_inode", "zero", "add", "release_inode"}
               THEN {call.sector} \cup Extent(call.start, call.length)
          ELSE IF call.pc = "release_data" THEN Extent(call.start, call.length)
          ELSE {}

Boot(held) == /\ free_map' = disk_map
              /\ inodes' = [s \in Sectors |-> NULL]
              /\ files' = [f \in File |-> NULL]
              /\ call' = Idle
              /\ lost' = lost \cup OpenRemoved \cup NotWritten \cup held
              /\ UNCHANGED disk

\* The machine stops between two writes.
Crash == ~At("idle") /\ Boot(InHand)

\* filesys_done(), which only closes the free map's file.
Shutdown == At("idle") /\ Boot({})

Next == \/ \E name \in Name, n \in 0..MaxSectors : Create(name, n)
        \/ AllocInode \/ AllocData \/ WriteInode \/ ZeroSector \/ DirAdd \/ UndoCreate
        \/ \E name \in Name : Remove(name)
        \/ Erase \/ ReleaseInode \/ ReleaseData
        \/ \E f \in File : \/ \E name \in Name : Open(f, name)
                           \/ \E g \in File : Reopen(f, g)
                           \/ DenyWrite(f) \/ AllowWrite(f) \/ Close(f) \/ Write(f)
        \/ Crash \/ Shutdown

Spec == Init /\ [][Next]_vars

-----------------------------------------------------------------------------
TypeOK == /\ free_map \subseteq Sectors
          /\ inodes \in [Sectors -> Inode \cup {NULL}]
          /\ files \in [File -> OpenFile \cup {NULL}]
          /\ call \in [pc : Label, name : Name \cup {NULL}, sector : Sectors, start : Sectors,
                       length : 0..MaxSectors, zeroed : 0..MaxSectors]
          /\ disk_map \subseteq Sectors
          /\ disk_inode \in [Sectors -> InodeDisk \cup {NULL}]
          /\ content \in [Sectors -> {"zero", "data", "old"}]
          /\ dir \in [Slot -> DirEntry \cup {NULL}]
          /\ lost \subseteq Sectors

\* Inode sectors that the directory names, that are open, and all of these.
Named == {dir[k].sector : k \in {j \in Slot : dir[j] # NULL}}
Opened == {s \in Sectors : inodes[s] # NULL}
Live == Named \cup Opened

\* The sectors of the file whose inode is at s, as the disk has it.
SectorsOf(s) == {s} \cup DataOf(disk_inode[s])

(* Crash consistency: whatever write the machine stops after, every name   *)
(* in the directory leads to an inode that has been written, no two files  *)
(* share a sector, none uses a reserved one, and the free map on disk has  *)
(* every sector in use marked, so that nothing is given out again.         *)
DiskConsistent ==
  /\ \A k, j \in Slot : dir[k] # NULL /\ dir[j] # NULL /\ k # j =>
       dir[k].sector # dir[j].sector /\ dir[k].name # dir[j].name
  /\ \A s \in Named : /\ disk_inode[s] # NULL
                      /\ SectorsOf(s) \subseteq disk_map \ Reserved
                      /\ s \notin DataOf(disk_inode[s])
  /\ \A s, u \in Named : s # u => SectorsOf(s) \cap SectorsOf(u) = {}

(* A file that is removed while it is open keeps its sectors: they stay    *)
(* marked, and no other file gets them, until the last close; and the copy *)
(* of the inode in memory stays what the disk has.                         *)
OpenFilesKeepSectors ==
  /\ \A s \in Opened : /\ disk_inode[s] = inodes[s].data
                       /\ SectorsOf(s) \subseteq free_map
  /\ \A s, u \in Live : s # u => SectorsOf(s) \cap SectorsOf(u) = {}

(* The free map in memory never has a sector that the one on disk lacks,   *)
(* and free_map_release()'s ASSERT holds: only marked sectors are freed.   *)
FreeMapSound ==
  /\ free_map \subseteq disk_map
  /\ call.pc \in {"undo", "release_inode"} => call.sector \in free_map
  /\ call.pc \in {"release_inode", "release_data"} => Extent(call.start, call.length) \subseteq free_map

(* No file shows what an older file left on the disk, not even after a     *)
(* crash in the middle of filesys_create().                                *)
NoOldData == \A s \in Live : \A d \in DataOf(disk_inode[s]) : content[d] # "old"

(* Between calls every marked sector is reserved, has a file that has a    *)
(* name or is open, or is lost; and lost are only the data sectors of a    *)
(* filesys_create() that failed in dir_add(), and at a reboot what Boot    *)
(* says: nothing else, over any number of crashes and clean shutdowns.     *)
NoOtherLeak ==
  At("idle") => LET used == Reserved \cup UNION {SectorsOf(s) : s \in Live}
                IN  free_map = used \cup lost /\ used \cap lost = {}

(* What the comment in dir_add() says of the slot it writes ("Set OFS to   *)
(* offset of free slot"): no entry is overwritten.                         *)
AddKeepsEntries ==
  [][At("add") => \A k \in Slot : dir[k] # NULL => dir'[k] = dir[k]]_vars

=============================================================================
