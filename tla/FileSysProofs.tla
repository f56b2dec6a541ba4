---------------------------- MODULE FileSysProofs ----------------------------
(***************************************************************************)
(* Proofs about FileSys, for a device, a directory, a set of names and a   *)
(* set of open files of any size, and a stop of the machine after any      *)
(* write.  FileSysInv is inductive.  It adds to the invariants of the run  *)
(* what the call in progress holds (InHand), which marked sectors are lost *)
(* at any moment, and that an open inode counts its files.                 *)
(***************************************************************************)
EXTENDS FileSys, FiniteSetTheorems, WellFoundedInduction, TLAPS

(* The reserved sectors are marked, and what is marked is so on the disk.  *)
Maps == Reserved \subseteq free_map /\ free_map \subseteq disk_map

(* Every file that has a name or is open has an inode on the disk, its     *)
(* sectors are marked, hold no older file's data, and are nobody else's.   *)
Files ==
  /\ \A s \in Live : /\ disk_inode[s] # NULL
                     /\ s \notin DataOf(disk_inode[s])
                     /\ SectorsOf(s) \subseteq free_map \ Reserved
                     /\ SectorsOf(s) \cap InHand = {}
                     /\ \A d \in DataOf(disk_inode[s]) : content[d] # "old"
  /\ \A s, u \in Live : s # u => SectorsOf(s) \cap SectorsOf(u) = {}

(* An open inode is a copy of the one on the disk, and it is marked as     *)
(* removed only if it has no name.                                         *)
Copies == \A s \in Opened : /\ disk_inode[s] = inodes[s].data
                            /\ inodes[s].removed => s \notin Named

(* No two entries lead to one inode; and no two have one name, if no       *)
(* search for it was cut short.                                            *)
Entries == \A k, j \in Slot : dir[k] # NULL /\ dir[j] # NULL /\ k # j =>
             /\ dir[k].sector # dir[j].sector
             /\ ~ShortReads => dir[k].name # dir[j].name

(* What the call in progress has done so far.                              *)
Progress ==
  /\ InHand \subseteq free_map \ Reserved
  /\ call.pc # "idle" /\ call.pc \notin {"release_inode", "release_data"} => call.name \in Name
  /\ call.pc \in {"write_inode", "zero", "add", "release_inode"} =>
       call.sector \notin Extent(call.start, call.length)
  /\ call.pc \in {"write_inode", "zero", "add"} => call.start + call.length <= SectorCnt
  /\ call.pc \in {"alloc_inode", "alloc_data", "write_inode"} => call.zeroed = 0
  /\ call.pc \in {"zero", "add"} =>
       disk_inode[call.sector] = [start |-> call.start, length |-> call.length]
  /\ call.pc = "zero" => /\ call.zeroed < call.length
                         /\ \A d \in Extent(call.start, call.zeroed) : content[d] # "old"
  /\ call.pc = "add" => \A d \in Extent(call.start, call.length) : content[d] # "old"
  /\ call.pc = "erase" => /\ Lookup(call.name) # {} /\ SectorOf(call.name) = call.sector
                          /\ call.sector \in Opened

(* An open inode counts the struct file's that refer to it, and those of   *)
(* them that deny writes; filesys_remove() is one more opener.             *)
Users(s)   == {f \in File : files[f] # NULL /\ files[f].sector = s}
Deniers(s) == {f \in File : files[f] # NULL /\ files[f].sector = s /\ files[f].deny_write}
Erasing(s) == call.pc = "erase" /\ call.sector = s
Counts ==
  \A s \in Sectors :
    /\ inodes[s] # NULL =>
         /\ inodes[s].open_cnt = Cardinality(Users(s)) + (IF Erasing(s) THEN 1 ELSE 0)
         /\ inodes[s].deny_write_cnt = Cardinality(Deniers(s))
         /\ Users(s) # {} \/ Erasing(s)
    /\ inodes[s] = NULL => Users(s) = {}

(* What is marked belongs to a file or to the call in progress or is lost, *)
(* and what is lost is nobody's; and an open file has a name or is marked  *)
(* as removed.                                                             *)
Lost(x) == /\ x \in free_map \ Reserved /\ x \notin InHand
           /\ \A s \in Live : x \notin SectorsOf(s)
NoLeaks ==
  ~ShortReads =>
    /\ \A s \in Opened : inodes[s].removed \/ s \in Named
    /\ \A x \in free_map : x \in Reserved \cup InHand \cup lost \/ \E s \in Live : x \in SectorsOf(s)
    /\ \A x \in lost : Lost(x)

(* The inductive invariant.                                                *)
FileSysInv == TypeOK /\ Maps /\ Files /\ Copies /\ Entries /\ Progress /\ Counts /\ NoLeaks

-----------------------------------------------------------------------------
(* Facts about the operators of FileSys.                                   *)

\* A set of natural numbers that is not empty has a least element.
LEMMA LeastNatural ==
  ASSUME NEW T, T \subseteq Nat, T # {}
  PROVE  \E x \in T : \A y \in T : x <= y
  <1> DEFINE R == OpToRel(<, Nat)
  <1>1. IsWellFoundedOn(R, Nat)
    BY NatLessThanWellFounded
  <1>2. \A x, y \in Nat : y < x => <<y, x>> \in R
    BY DEF OpToRel
  <1> HIDE DEF R
  <1>3. PICK x \in T : \A y \in T : ~ (<<y, x>> \in R)
    BY <1>1, WFMin
  <1>4. x \in Nat /\ \A y \in T : y \in Nat /\ ~(y < x)
    BY <1>2, <1>3, Zenon
  <1> QED BY <1>4

\* Sectors are numbers, and the reserved ones exist.
LEMMA SectorFacts == /\ Sectors \subseteq Nat /\ SectorCnt \in Nat
                     /\ 0 \in Sectors /\ 0 \in Reserved
                     /\ Reserved \subseteq Sectors
                     /\ \A x \in Nat : x < SectorCnt => x \in Sectors
  BY FileSysAssumption DEF Sectors, Reserved

\* Runs of no sector and of one sector.
LEMMA ExtentFacts ==
  /\ \A s \in Sectors : Extent(s, 0) = {}
  /\ \A s \in Sectors : Extent(s, 1) = {s}
  /\ \A s \in Sectors, n \in Nat : Extent(s, n) \subseteq Sectors
  /\ \A s \in Sectors, n \in Nat :
       Extent(s, n + 1) \subseteq Extent(s, n) \cup {s + n}
  <1>0. \A s \in Sectors : s \in Nat
    BY SectorFacts
  <1>1. \A s \in Sectors : Extent(s, 0) = {}
    BY <1>0 DEF Extent
  <1>2. ASSUME NEW s \in Sectors PROVE Extent(s, 1) = {s}
    BY <1>0 DEF Extent
  <1>3. \A s \in Sectors, n \in Nat : Extent(s, n) \subseteq Sectors
    BY DEF Extent
  <1>4. ASSUME NEW s \in Sectors, NEW n \in Nat
        PROVE  Extent(s, n + 1) \subseteq Extent(s, n) \cup {s + n}
    BY <1>0 DEF Extent
  <1> QED BY <1>1, <1>2, <1>3, <1>4

\* bitmap_scan() finds sectors that are free and on the device.
LEMMA FirstFitFits ==
  ASSUME NEW n \in Nat, HasRoom(n)
  PROVE  /\ FirstFit(n) \in Sectors
         /\ FirstFit(n) + n <= SectorCnt
         /\ Extent(FirstFit(n), n) \cap free_map = {}
  <1>1. CASE n = 0
    <2>1. FirstFit(n) = 0
      BY <1>1 DEF FirstFit
    <2> QED BY <1>1, <2>1, SectorFacts, ExtentFacts
  <1>2. CASE n # 0
    <2> DEFINE T == {i \in Sectors : Fits(i, n)}
    <2>1. T \subseteq Nat /\ T # {}
      BY <1>2, SectorFacts DEF HasRoom
    <2>2. \E i \in T : \A j \in T : i <= j
      BY <2>1, LeastNatural
    <2>3. FirstFit(n) \in Sectors /\ Fits(FirstFit(n), n)
      BY <1>2, <2>2 DEF FirstFit
    <2> QED BY <2>3 DEF Fits
  <1> QED BY <1>1, <1>2

\* lookup() finds an entry with the name.
LEMMA SlotOfFinds ==
  ASSUME TypeOK, NEW name \in Name, Lookup(name) # {}
  PROVE  /\ SlotOf(name) \in Slot /\ dir[SlotOf(name)] # NULL
         /\ dir[SlotOf(name)].name = name
         /\ SectorOf(name) \in Sectors /\ SectorOf(name) \in Named
  <1>1. Lookup(name) \subseteq Nat
    BY FileSysAssumption DEF Lookup
  <1>2. \E k \in Lookup(name) : \A j \in Lookup(name) : k <= j
    BY <1>1, LeastNatural
  <1>3. SlotOf(name) \in Lookup(name)
    BY <1>2 DEF SlotOf
  <1> QED BY <1>3 DEF Lookup, SectorOf, Named, TypeOK, DirEntry

\* What a call that has not begun holds.
LEMMA IdleFacts ==
  /\ Idle.pc = "idle" /\ Idle.sector = 0 /\ Idle.start = 0
  /\ Idle.length = 0 /\ Idle.zeroed = 0 /\ Idle.name = NULL
  /\ Idle \in [pc : Label, name : Name \cup {NULL}, sector : Sectors, start : Sectors,
               length : 0..MaxSectors, zeroed : 0..MaxSectors]
  BY SectorFacts, FileSysAssumption DEF Idle, Label

\* The sets of users and deniers are finite.
LEMMA FiniteUsers ==
  \A s : /\ IsFiniteSet(Users(s)) /\ Cardinality(Users(s)) \in Nat
         /\ IsFiniteSet(Deniers(s)) /\ Cardinality(Deniers(s)) \in Nat
  <1> SUFFICES ASSUME NEW s
               PROVE  /\ IsFiniteSet(Users(s)) /\ Cardinality(Users(s)) \in Nat
                      /\ IsFiniteSet(Deniers(s)) /\ Cardinality(Deniers(s)) \in Nat
    OBVIOUS
  <1>1. Users(s) \in SUBSET File /\ Deniers(s) \in SUBSET File
    BY DEF Users, Deniers
  <1>2. IsFiniteSet(Users(s)) /\ IsFiniteSet(Deniers(s))
    BY <1>1, FS_Subset, FileSysAssumption
  <1> QED BY <1>2, FS_CardinalityType

\* Named, Opened and Live are sets of sectors.
LEMMA LiveSectors ==
  ASSUME TypeOK
  PROVE  Named \subseteq Sectors /\ Opened \subseteq Sectors /\ Live \subseteq Sectors
  BY DEF TypeOK, Named, Opened, Live, DirEntry

(* A step that leaves the directory and the inodes alone leaves every file *)
(* where it is.                                                            *)
LEMMA SameFiles ==
  ASSUME UNCHANGED <<dir, inodes, disk_inode>>
  PROVE  /\ Named' = Named /\ Opened' = Opened /\ Live' = Live
         /\ \A s : SectorsOf(s)' = SectorsOf(s)
         /\ \A s : DataOf(disk_inode[s])' = DataOf(disk_inode[s])
  BY DEF Named, Opened, Live, SectorsOf, DataOf

(* Files survives a step that takes no file's sectors for the call, frees  *)
(* none of them, and puts no older data into them.                         *)
LEMMA FilesKept ==
  ASSUME TypeOK, Files,
         Live' \subseteq Live,
         \A s \in Live' : disk_inode'[s] = disk_inode[s],
         \A s \in Live' : SectorsOf(s) \subseteq free_map',
         \A s \in Live' : SectorsOf(s) \cap InHand' = {},
         \A s \in Live' : \A d \in DataOf(disk_inode[s]) : content[d] # "old" => content'[d] # "old"
  PROVE  Files'
  <1>1. \A s \in Live' : /\ SectorsOf(s)' = SectorsOf(s)
                         /\ DataOf(disk_inode[s])' = DataOf(disk_inode[s])
    BY DEF SectorsOf, DataOf
  <1>2. \A s \in Live' : /\ disk_inode'[s] # NULL
                         /\ s \notin DataOf(disk_inode[s])
                         /\ SectorsOf(s) \subseteq free_map' \ Reserved
                         /\ SectorsOf(s) \cap InHand' = {}
                         /\ \A d \in DataOf(disk_inode[s]) : content'[d] # "old"
    BY DEF Files
  <1>3. \A s, u \in Live' : s # u => SectorsOf(s) \cap SectorsOf(u) = {}
    BY DEF Files
  <1> QED BY <1>1, <1>2, <1>3 DEF Files

(* Counts looks at the open inodes, the struct file's and the opener that  *)
(* is filesys_remove().                                                    *)
LEMMA CountsKept ==
  ASSUME Counts, UNCHANGED <<inodes, files>>, call.pc # "erase", call'.pc # "erase"
  PROVE  Counts'
  <1>1. \A s : /\ Users(s)' = Users(s) /\ Deniers(s)' = Deniers(s)
               /\ Erasing(s)' = FALSE /\ Erasing(s) = FALSE
    BY DEF Users, Deniers, Erasing
  <1> QED BY <1>1 DEF Counts

-----------------------------------------------------------------------------
(* One lemma for each action: it preserves the invariant.                  *)

LEMMA CreateStep ==
  ASSUME FileSysInv, NEW name \in Name, NEW n \in 0..MaxSectors, Create(name, n)
  PROVE  FileSysInv'
  <1> USE DEF FileSysInv, Create, At
  <1>1. /\ call'.pc = "alloc_inode" /\ call'.name = name /\ call'.zeroed = 0
        /\ call' = [pc |-> "alloc_inode", name |-> name, sector |-> 0, start |-> 0, length |-> n, zeroed |-> 0]
    BY DEF Idle
  <1>2. TypeOK'
    BY <1>1, SectorFacts, FileSysAssumption DEF TypeOK, Label, disk
  <1>3. InHand = {} /\ InHand' = {} /\ UNCHANGED <<dir, inodes, disk_inode, content, free_map, disk_map>>
    BY <1>1 DEF InHand, disk
  <1>4. Files'
    BY <1>3, SameFiles, FilesKept DEF Files
  <1>5. Maps' /\ Copies' /\ Entries'
    BY <1>3, SameFiles DEF Maps, Copies, Entries
  <1>6. Progress'
    BY <1>1, <1>3 DEF Progress
  <1>7. Counts'
    BY <1>1, CountsKept
  <1>8. NoLeaks'
    BY <1>3, SameFiles DEF NoLeaks, Lost
  <1> QED BY <1>2, <1>4, <1>5, <1>6, <1>7, <1>8

LEMMA AllocInodeStep ==
  ASSUME FileSysInv, AllocInode PROVE FileSysInv'
  <1> USE DEF FileSysInv, AllocInode, At, FreeMapAllocate
  <1>0. call.pc = "alloc_inode" /\ InHand = {} /\ call.name \in Name /\ call.zeroed = 0
    BY DEF InHand, Progress
  <1>1. CASE HasRoom(1) /\ call' = [call EXCEPT !.pc = "alloc_data", !.sector = FirstFit(1)]
             /\ free_map' = free_map \cup Extent(FirstFit(1), 1) /\ disk_map' = free_map'
    <2>1. PICK x \in Sectors : x = FirstFit(1) /\ x \notin free_map /\ Extent(FirstFit(1), 1) = {x}
      BY <1>1, FirstFitFits, ExtentFacts
    <2>2. call' = [call EXCEPT !.pc = "alloc_data", !.sector = x]
          /\ free_map' = free_map \cup {x} /\ disk_map' = free_map \cup {x}
      BY <1>1, <2>1
    <2>3. TypeOK'
      BY <2>2 DEF TypeOK, Label
    <2>4. call'.pc = "alloc_data" /\ call'.sector = x /\ call'.name = call.name /\ call'.zeroed = 0 
      BY <1>0, <2>2 DEF TypeOK
    <2>5. InHand' = {x}
      BY <2>4 DEF InHand
    <2>6. Files'
      BY <2>1, <2>2, <2>5, SameFiles, FilesKept DEF Files
    <2>7. Maps' /\ Copies' /\ Entries'
      BY <2>2, SameFiles DEF Maps, Copies, Entries
    <2>8. Progress'
      BY <1>0, <2>1, <2>2, <2>4, <2>5 DEF Progress, Maps
    <2>9. Counts'
      BY <1>0, <2>4, CountsKept
    <2>10. NoLeaks'
      <3> SUFFICES ASSUME ~ShortReads PROVE NoLeaks'
        BY DEF NoLeaks
      <3>1. \A y \in lost : Lost(y)'
        BY <2>1, <2>2, <2>5, SameFiles DEF NoLeaks, Lost
      <3>2. \A y \in free_map' : y \in Reserved \cup InHand' \cup lost \/ \E s \in Live : y \in SectorsOf(s)
        BY <1>0, <2>2, <2>5 DEF NoLeaks
      <3> QED BY <3>1, <3>2, SameFiles DEF NoLeaks
    <2> QED BY <2>3, <2>6, <2>7, <2>8, <2>9, <2>10
  <1>2. CASE UNCHANGED <<free_map, disk_map>> /\ call' = Idle
    <2>1. call'.pc = "idle" /\ InHand' = {}
      BY <1>2, IdleFacts DEF InHand
    <2>2. TypeOK'
      BY <1>2, IdleFacts DEF TypeOK
    <2>3. Files'
      BY <1>2, <2>1, SameFiles, FilesKept DEF Files
    <2>4. Maps' /\ Copies' /\ Entries' /\ Progress' /\ NoLeaks'
      BY <1>0, <1>2, <2>1, SameFiles DEF Maps, Copies, Entries, Progress, NoLeaks, Lost
    <2>5. Counts'
      BY <1>0, <2>1, CountsKept
    <2> QED BY <2>2, <2>3, <2>4, <2>5
  <1> QED BY <1>1, <1>2

LEMMA AllocDataStep ==
  ASSUME FileSysInv, AllocData PROVE FileSysInv'
  <1> USE DEF FileSysInv, AllocData, At, FreeMapAllocate
  <1>0. /\ call.pc = "alloc_data" /\ InHand = {call.sector} /\ call.name \in Name /\ call.zeroed = 0
        /\ call.sector \in free_map \ Reserved /\ call.length \in Nat /\ call.sector \in Sectors
    BY DEF InHand, Progress, TypeOK
  <1>1. CASE /\ HasRoom(call.length)
             /\ call' = [call EXCEPT !.pc = "write_inode", !.start = FirstFit(call.length)]
             /\ free_map' = free_map \cup Extent(FirstFit(call.length), call.length)
             /\ disk_map' = free_map'
    <2>1. PICK x \in Sectors : /\ x = FirstFit(call.length) /\ x + call.length <= SectorCnt
                               /\ Extent(x, call.length) \cap free_map = {}
      BY <1>0, <1>1, FirstFitFits
    <2>2. PICK X : X = Extent(x, call.length)
      OBVIOUS
    <2>3. /\ call' = [call EXCEPT !.pc = "write_inode", !.start = x]
          /\ free_map' = free_map \cup X /\ disk_map' = free_map \cup X
          /\ X \subseteq Sectors /\ X \cap free_map = {}
      BY <1>0, <1>1, <2>1, <2>2, ExtentFacts
    <2>4. TypeOK'
      BY <2>3 DEF TypeOK, Label
    <2>5. /\ call'.pc = "write_inode" /\ call'.sector = call.sector /\ call'.name = call.name
          /\ call'.zeroed = 0 /\ call'.start = x /\ call'.length = call.length
      BY <1>0, <2>3 DEF TypeOK
    <2>6. InHand' = {call.sector} \cup X
      BY <2>2, <2>5 DEF InHand
    <2>7. Files'
      BY <1>0, <2>3, <2>6, SameFiles, FilesKept DEF Files
    <2>8. Maps' /\ Copies' /\ Entries'
      BY <2>3, SameFiles DEF Maps, Copies, Entries
    <2>9. Progress'
      BY <1>0, <2>1, <2>2, <2>3, <2>5, <2>6 DEF Progress, Maps
    <2>10. Counts'
      BY <1>0, <2>5, CountsKept
    <2>11. NoLeaks'
      BY <1>0, <2>3, <2>6, SameFiles DEF NoLeaks, Lost
    <2> QED BY <2>4, <2>7, <2>8, <2>9, <2>10, <2>11
  <1>2. CASE UNCHANGED <<free_map, disk_map>> /\ call' = [call EXCEPT !.pc = "undo"]
    <2>1. call'.pc = "undo" /\ call'.sector = call.sector /\ call'.name = call.name
      BY <1>2 DEF TypeOK
    <2>2. TypeOK'
      BY <1>2 DEF TypeOK, Label
    <2>3. InHand' = {call.sector}
      BY <2>1 DEF InHand
    <2>4. Files'
      BY <1>0, <1>2, <2>3, SameFiles, FilesKept DEF Files
    <2>5. Maps' /\ Copies' /\ Entries' /\ Progress' /\ NoLeaks'
      BY <1>0, <1>2, <2>1, <2>3, SameFiles DEF Maps, Copies, Entries, Progress, NoLeaks, Lost
    <2>6. Counts'
      BY <1>0, <2>1, CountsKept
    <2> QED BY <2>2, <2>4, <2>5, <2>6
  <1> QED BY <1>1, <1>2

LEMMA WriteInodeStep ==
  ASSUME FileSysInv, WriteInode PROVE FileSysInv'
  <1> USE DEF FileSysInv, WriteInode, At, Goto
  <1>0. /\ call.pc = "write_inode" /\ call.zeroed = 0 /\ call.name \in Name
        /\ InHand = {call.sector} \cup Extent(call.start, call.length)
        /\ call.start \in Sectors /\ call.length \in 0..MaxSectors /\ call.sector \in Sectors
        /\ call.sector \notin Extent(call.start, call.length)
        /\ call.start + call.length <= SectorCnt
    BY DEF InHand, Progress, TypeOK
  <1>1. PICK l : l = (IF call.length > 0 THEN "zero" ELSE "add")
    OBVIOUS
  <1>2. /\ l \in {"zero", "add"} /\ (l = "zero" => call.length > 0) /\ (l = "add" => call.length = 0)
        /\ call' = [call EXCEPT !.pc = l]
    BY <1>0, <1>1, FileSysAssumption
  <1>3. PICK d \in InodeDisk : /\ d = [start |-> call.start, length |-> call.length]
                               /\ disk_inode' = [disk_inode EXCEPT ![call.sector] = d]
    BY <1>0 DEF InodeDisk
  <1>4. TypeOK'
    BY <1>0, <1>2, <1>3 DEF TypeOK, Label
  <1>5. /\ call'.pc = l /\ call'.sector = call.sector /\ call'.name = call.name
        /\ call'.start = call.start /\ call'.length = call.length /\ call'.zeroed = 0
    BY <1>0, <1>2 DEF TypeOK
  <1>6. InHand' = InHand
    BY <1>0, <1>2, <1>5 DEF InHand
  <1>7. Named' = Named /\ Opened' = Opened /\ Live' = Live
    BY DEF Named, Opened, Live
  <1>8. \A s \in Live : s # call.sector /\ s \in Sectors
    BY <1>0, LiveSectors DEF Files, SectorsOf
  <1>9. \A s \in Live : disk_inode'[s] = disk_inode[s]
    BY <1>3, <1>8 DEF TypeOK
  <1>10. Files'
    BY <1>6, <1>7, <1>9, FilesKept DEF Files
  <1>11. Maps' /\ Entries'
    BY DEF Maps, Entries
  <1>12. Copies'
    BY <1>7, <1>9 DEF Copies, Live
  <1>13. disk_inode'[call.sector] = d
    BY <1>0, <1>3 DEF TypeOK
  <1>14. Progress'
    <2>1. l = "zero" => /\ 0 < call.length /\ Extent(call.start, 0) = {}
      BY <1>0, <1>2, ExtentFacts, FileSysAssumption
    <2>2. l = "add" => Extent(call.start, call.length) = {}
      BY <1>0, <1>2, ExtentFacts
    <2> QED BY <1>0, <1>2, <1>3, <1>5, <1>6, <1>13, <2>1, <2>2 DEF Progress
  <1>15. Counts'
    BY <1>0, <1>2, <1>5, CountsKept
  <1>16. NoLeaks'
    <2>1. \A s \in Live : SectorsOf(s)' = SectorsOf(s)
      BY <1>9 DEF SectorsOf, DataOf
    <2> QED BY <1>6, <1>7, <2>1 DEF NoLeaks, Lost
  <1> QED BY <1>4, <1>10, <1>11, <1>12, <1>14, <1>15, <1>16

LEMMA ZeroSectorStep ==
  ASSUME FileSysInv, ZeroSector PROVE FileSysInv'
  <1> USE DEF FileSysInv, ZeroSector, At
  <1>0. /\ call.pc = "zero" /\ call.name \in Name
        /\ InHand = {call.sector} \cup Extent(call.start, call.length)
        /\ call.start \in Sectors /\ call.length \in 0..MaxSectors /\ call.sector \in Sectors
        /\ call.sector \notin Extent(call.start, call.length)
        /\ call.start + call.length <= SectorCnt
        /\ call.zeroed \in 0..MaxSectors /\ call.zeroed < call.length
        /\ disk_inode[call.sector] = [start |-> call.start, length |-> call.length]
        /\ \A e \in Extent(call.start, call.zeroed) : content[e] # "old"
    BY DEF InHand, Progress, TypeOK
  <1>1. PICK l : l = (IF call.zeroed + 1 < call.length THEN "zero" ELSE "add")
    OBVIOUS
  <1>2. PICK z : z = call.zeroed + 1
    OBVIOUS
  <1>3. /\ l \in {"zero", "add"} /\ (l = "zero" => z < call.length) /\ (l = "add" => z = call.length)
        /\ z \in 0..MaxSectors
        /\ call' = [call EXCEPT !.zeroed = z, !.pc = l]
    <2>1. l \in {"zero", "add"} /\ (l = "zero" => z < call.length) /\ (l = "add" => z = call.length)
          /\ z \in 0..MaxSectors
      BY <1>0, <1>1, <1>2, FileSysAssumption
    <2> QED BY <1>1, <1>2, <2>1
  <1>4. PICK x : x = call.start + call.zeroed
    OBVIOUS
  <1>5. x \in Sectors /\ x \in Extent(call.start, call.length)
    BY <1>0, <1>4, SectorFacts, FileSysAssumption DEF Extent
  <1>6. content' = [content EXCEPT ![x] = "zero"]
    BY <1>4
  <1>7. TypeOK'
    BY <1>3, <1>5, <1>6 DEF TypeOK, Label
  <1>8. /\ call'.pc = l /\ call'.sector = call.sector /\ call'.name = call.name
        /\ call'.start = call.start /\ call'.length = call.length /\ call'.zeroed = z
    BY <1>0, <1>3 DEF TypeOK
  <1>9. InHand' = InHand
    BY <1>0, <1>3, <1>8 DEF InHand
  <1>10. \A e \in Sectors : content[e] # "old" => content'[e] # "old"
    BY <1>5, <1>6 DEF TypeOK
  <1>11. Files'
    <2>1. \A s : DataOf(disk_inode[s]) \subseteq Sectors
      BY DEF DataOf, Extent
    <2> QED BY <1>9, <1>10, <2>1, SameFiles, FilesKept DEF Files
  <1>12. Maps' /\ Entries' /\ Copies'
    BY SameFiles DEF Maps, Entries, Copies
  <1>13. \A e \in Extent(call.start, z) : content'[e] # "old"
    <2>1. Extent(call.start, z) \subseteq Extent(call.start, call.zeroed) \cup {x}
      BY <1>0, <1>2, <1>4, ExtentFacts
    <2>2. Extent(call.start, call.zeroed) \subseteq Sectors
      BY DEF Extent
    <2>3. content'[x] = "zero"
      BY <1>5, <1>6 DEF TypeOK
    <2> QED BY <1>0, <1>10, <2>1, <2>2, <2>3
  <1>14. Progress'
    BY <1>0, <1>3, <1>8, <1>9, <1>13 DEF Progress
  <1>15. Counts'
    BY <1>0, <1>3, <1>8, CountsKept
  <1>16. NoLeaks'
    BY <1>9, SameFiles DEF NoLeaks, Lost
  <1> QED BY <1>7, <1>11, <1>12, <1>14, <1>15, <1>16

LEMMA DirAddStep ==
  ASSUME FileSysInv, DirAdd PROVE FileSysInv'
  <1> USE DEF FileSysInv, DirAdd, At, Goto, Return
  <1>0. /\ call.pc = "add" /\ call.name \in Name
        /\ InHand = {call.sector} \cup Extent(call.start, call.length)
        /\ call.start \in Sectors /\ call.length \in 0..MaxSectors /\ call.sector \in Sectors
        /\ call.sector \notin Extent(call.start, call.length)
        /\ disk_inode[call.sector] = [start |-> call.start, length |-> call.length]
        /\ \A e \in Extent(call.start, call.length) : content[e] # "old"
    BY DEF InHand, Progress, TypeOK
  <1>a. SectorsOf(call.sector) = InHand /\ DataOf(disk_inode[call.sector]) = Extent(call.start, call.length)
    BY <1>0 DEF SectorsOf, DataOf
  <1>b. \A s \in Live : s # call.sector /\ SectorsOf(s) \cap InHand = {}
    BY <1>0 DEF Files, SectorsOf
  <1>c. disk_inode[call.sector] # NULL
    BY <1>0, FileSysAssumption DEF InodeDisk
  <1>1. CASE /\ Lookup(call.name) = {} \/ ShortReads
             /\ \E k \in Slot : /\ dir[k] = NULL \/ ShortReads
                                /\ \A j \in Slot : j < k => dir[j] # NULL
                                /\ dir' = [dir EXCEPT ![k] = [name |-> call.name, sector |-> call.sector]]
             /\ call' = Idle /\ UNCHANGED lost
    <2>1. PICK k \in Slot : /\ dir[k] = NULL \/ ShortReads
                            /\ dir' = [dir EXCEPT ![k] = [name |-> call.name, sector |-> call.sector]]
      BY <1>1
    <2>2. PICK e \in DirEntry : e = [name |-> call.name, sector |-> call.sector]
      BY <1>0 DEF DirEntry
    <2>3. e.name = call.name /\ e.sector = call.sector /\ e # NULL
      BY <2>2, FileSysAssumption
    <2>4. /\ dir' \in [Slot -> DirEntry \cup {NULL}] /\ dir'[k] = e
          /\ \A j \in Slot : j # k => dir'[j] = dir[j]
      BY <2>1, <2>2 DEF TypeOK
    <2>5. TypeOK'
      BY <1>1, <2>4, IdleFacts DEF TypeOK
    <2>6. call'.pc = "idle" /\ InHand' = {}
      BY <1>1, IdleFacts DEF InHand
    <2>7. /\ Named' \subseteq Named \cup {call.sector} /\ call.sector \in Named'
          /\ Opened' = Opened
      BY <2>3, <2>4 DEF Named, Opened
    <2>8. Live' \subseteq Live \cup {call.sector}
      BY <2>7 DEF Live
    <2>9. Files'
      <3>1. \A s : SectorsOf(s)' = SectorsOf(s) /\ DataOf(disk_inode[s])' = DataOf(disk_inode[s])
        BY DEF SectorsOf, DataOf
      <3>2. ASSUME NEW s \in Live \cup {call.sector}
            PROVE  /\ disk_inode[s] # NULL
                   /\ s \notin DataOf(disk_inode[s])
                   /\ SectorsOf(s) \subseteq free_map \ Reserved
                   /\ \A d \in DataOf(disk_inode[s]) : content[d] # "old"
        BY <1>0, <1>a, <1>c DEF Files, Progress
      <3>3. ASSUME NEW s \in Live \cup {call.sector}, NEW u \in Live \cup {call.sector}, s # u
            PROVE  SectorsOf(s) \cap SectorsOf(u) = {}
        BY <1>a, <1>b, <3>3 DEF Files
      <3> QED BY <2>6, <2>8, <3>1, <3>2, <3>3 DEF Files
    <2>10. Maps'
      BY DEF Maps
    <2>11. Copies'
      BY <1>b, <2>7 DEF Copies, Live
    <2>12. Entries'
      <3>1. ASSUME NEW j \in Slot, j # k, dir[j] # NULL
            PROVE  /\ dir[j].sector # call.sector
                   /\ ~ShortReads => dir[j].name # call.name
        BY <1>1, <1>b, <3>1 DEF Live, Named, Lookup
      <3> QED BY <2>3, <2>4, <3>1 DEF Entries
    <2>13. Progress'
      BY <2>6 DEF Progress
    <2>14. Counts'
      BY <1>0, <2>6, CountsKept
    <2>15. NoLeaks'
      <3>1. SUFFICES ASSUME ~ShortReads PROVE NoLeaks'
        BY DEF NoLeaks
      <3>2. Named \subseteq Named' /\ Live \subseteq Live' /\ call.sector \in Live'
        BY <2>1, <2>4, <2>7, <3>1 DEF Named, Live
      <3>3. \A s : SectorsOf(s)' = SectorsOf(s)
        BY DEF SectorsOf, DataOf
      <3>4. \A x \in lost : Lost(x)'
        BY <1>a, <2>6, <2>8, <3>1, <3>3 DEF NoLeaks, Lost
      <3>5. \A x \in free_map : x \in Reserved \cup lost \/ \E s \in Live' : x \in SectorsOf(s)
        BY <1>a, <3>1, <3>2 DEF NoLeaks
      <3>6. \A s \in Opened' : inodes[s].removed \/ s \in Named'
        BY <2>7, <3>1, <3>2 DEF NoLeaks
      <3> QED BY <1>1, <2>6, <3>3, <3>4, <3>5, <3>6 DEF NoLeaks
    <2> QED BY <2>5, <2>9, <2>10, <2>11, <2>12, <2>13, <2>14, <2>15
  <1>2. CASE call' = [call EXCEPT !.pc = "undo"] /\ lost' = lost \cup Extent(call.start, call.length) /\ UNCHANGED dir
    <2>1. call'.pc = "undo" /\ call'.sector = call.sector /\ call'.name = call.name
      BY <1>2 DEF TypeOK
    <2>2. TypeOK'
      <3>1. lost' \subseteq Sectors
        BY <1>2 DEF TypeOK, Extent
      <3> QED BY <1>2, <3>1 DEF TypeOK, Label
    <2>3. InHand' = {call.sector} /\ InHand' \subseteq InHand
      BY <1>0, <2>1 DEF InHand
    <2>4. Files'
      BY <1>2, <2>3, SameFiles, FilesKept DEF Files
    <2>5. Maps' /\ Copies' /\ Entries' /\ Progress'
      BY <1>0, <1>2, <2>1, <2>3, SameFiles DEF Maps, Copies, Entries, Progress
    <2>6. Counts'
      BY <1>0, <2>1, CountsKept
    <2>7. NoLeaks'
      <3>1. InHand = InHand' \cup Extent(call.start, call.length) /\ call.sector \notin Extent(call.start, call.length)
        BY <1>0, <2>3 DEF Progress, InHand
      <3>2. InHand \subseteq free_map \ Reserved /\ \A s \in Live : SectorsOf(s) \cap InHand = {}
        BY DEF Progress, Files
      <3> QED BY <1>2, <2>3, <3>1, <3>2, SameFiles DEF NoLeaks, Lost
    <2> QED BY <2>2, <2>4, <2>5, <2>6, <2>7
  <1> QED BY <1>1, <1>2

(* What it takes for a call to give sectors of its own back.               *)
LEMMA ReleaseStep ==
  ASSUME FileSysInv, NEW X, X \subseteq InHand, InHand' = InHand \ X,
         free_map' = free_map \ X, disk_map' \in {free_map', disk_map},
         UNCHANGED <<inodes, files, disk_inode, dir, lost>>,
         \A s \in Sectors \ X : content'[s] = content[s]
  PROVE  Maps' /\ Files' /\ Copies' /\ Entries' /\ NoLeaks' /\ InHand' \subseteq free_map' \ Reserved
  <1> USE DEF FileSysInv
  <1>1. X \cap Reserved = {}
    BY DEF Progress
  <1>2. Maps' /\ InHand' \subseteq free_map' \ Reserved
    BY <1>1 DEF Maps, Progress
  <1>3. Files'
    <2>1. \A s \in Live : SectorsOf(s) \subseteq free_map' /\ SectorsOf(s) \cap InHand' = {}
      BY DEF Files
    <2>2. \A s \in Live : \A d \in DataOf(disk_inode[s]) : d \in Sectors \ X
      BY DEF Files, SectorsOf, DataOf, Extent
    <2> QED BY <2>1, <2>2, SameFiles, FilesKept
  <1>4. Copies' /\ Entries'
    BY SameFiles DEF Copies, Entries
  <1>5. NoLeaks'
    BY SameFiles DEF NoLeaks, Lost
  <1> QED BY <1>2, <1>3, <1>4, <1>5

LEMMA UndoCreateStep ==
  ASSUME FileSysInv, UndoCreate PROVE FileSysInv'
  <1> USE DEF FileSysInv, UndoCreate, At, Return, FreeMapRelease
  <1>0. call.pc = "undo" /\ InHand = {call.sector} /\ call.sector \in Sectors
    BY DEF InHand, TypeOK
  <1>1. free_map' = free_map \ {call.sector} /\ disk_map' \in {free_map', disk_map}
    BY <1>0, ExtentFacts
  <1>2. call'.pc = "idle" /\ InHand' = {}
    BY IdleFacts DEF InHand
  <1>3. TypeOK'
    BY <1>1, IdleFacts DEF TypeOK
  <1>4. Maps' /\ Files' /\ Copies' /\ Entries' /\ NoLeaks' /\ InHand' \subseteq free_map' \ Reserved
    BY <1>0, <1>1, <1>2, ReleaseStep
  <1>5. Progress'
    BY <1>2, <1>4 DEF Progress
  <1>6. Counts'
    BY <1>0, <1>2, CountsKept
  <1> QED BY <1>3, <1>4, <1>5, <1>6

LEMMA ReleaseInodeStep ==
  ASSUME FileSysInv, ReleaseInode PROVE FileSysInv'
  <1> USE DEF FileSysInv, ReleaseInode, At, Goto, FreeMapRelease
  <1>0. /\ call.pc = "release_inode" /\ call.sector \in Sectors
        /\ InHand = {call.sector} \cup Extent(call.start, call.length)
        /\ call.sector \notin Extent(call.start, call.length)
    BY DEF InHand, Progress, TypeOK
  <1>1. free_map' = free_map \ {call.sector} /\ disk_map' \in {free_map', disk_map}
    BY <1>0, ExtentFacts
  <1>2. /\ call'.pc = "release_data" /\ call'.start = call.start /\ call'.length = call.length
    BY DEF TypeOK
  <1>3. InHand' = InHand \ {call.sector}
    BY <1>0, <1>2 DEF InHand
  <1>4. TypeOK'
    BY <1>1 DEF TypeOK, Label
  <1>5. Maps' /\ Files' /\ Copies' /\ Entries' /\ NoLeaks' /\ InHand' \subseteq free_map' \ Reserved
    BY <1>0, <1>1, <1>3, ReleaseStep
  <1>6. Progress'
    BY <1>2, <1>5 DEF Progress
  <1>7. Counts'
    BY <1>0, <1>2, CountsKept
  <1> QED BY <1>4, <1>5, <1>6, <1>7

LEMMA ReleaseDataStep ==
  ASSUME FileSysInv, ReleaseData PROVE FileSysInv'
  <1> USE DEF FileSysInv, ReleaseData, At, Return, FreeMapRelease
  <1>0. call.pc = "release_data" /\ InHand = Extent(call.start, call.length)
    BY DEF InHand
  <1>1. free_map' = free_map \ InHand /\ disk_map' \in {free_map', disk_map}
    BY <1>0
  <1>2. call'.pc = "idle" /\ InHand' = {}
    BY IdleFacts DEF InHand
  <1>3. TypeOK'
    BY <1>1, IdleFacts DEF TypeOK
  <1>4. \A s \in Sectors \ InHand : content'[s] = content[s]
    BY <1>0
  <1>5. Maps' /\ Files' /\ Copies' /\ Entries' /\ NoLeaks' /\ InHand' \subseteq free_map' \ Reserved
    BY <1>1, <1>2, <1>4, ReleaseStep
  <1>6. Progress'
    BY <1>2, <1>5 DEF Progress
  <1>7. Counts'
    BY <1>0, <1>2, CountsKept
  <1> QED BY <1>3, <1>5, <1>6, <1>7

\* The sectors of files that are open with no name left.
LEMMA OpenRemovedFacts ==
  ASSUME FileSysInv, NEW x
  PROVE  x \in OpenRemoved <=> \E s \in Opened : inodes[s].removed /\ x \in SectorsOf(s)
  <1>1. \A s \in Opened : {s} \cup DataOf(inodes[s].data) = SectorsOf(s)
    BY DEF FileSysInv, Copies, SectorsOf
  <1>2. {u \in Sectors : inodes[u] # NULL /\ inodes[u].removed} = {u \in Opened : inodes[u].removed}
    BY DEF Opened
  <1> QED BY <1>1, <1>2 DEF OpenRemoved

\* No sector of a file that keeps its name is lost in a reboot.
LEMMA LostInReboot ==
  ASSUME FileSysInv, ~ShortReads, NEW x \in lost \cup OpenRemoved \cup NotWritten \cup InHand
  PROVE  x \in disk_map \ Reserved /\ \A s \in Named : x \notin SectorsOf(s)
  <1> USE DEF FileSysInv
  <1>1. CASE x \in lost
    BY <1>1 DEF NoLeaks, Lost, Maps, Live
  <1>2. CASE x \in OpenRemoved
    <2>1. PICK u \in Opened : inodes[u].removed /\ x \in SectorsOf(u)
      BY <1>2, OpenRemovedFacts
    <2>2. u \in Live /\ u \notin Named
      BY <2>1 DEF Copies, Live
    <2>3. \A s \in Named : SectorsOf(s) \cap SectorsOf(u) = {}
      BY <2>2 DEF Files, Live
    <2> QED BY <2>1, <2>2, <2>3 DEF Files, Maps
  <1>3. CASE x \in NotWritten
    BY <1>3 DEF NotWritten, Maps, Files, Live
  <1>4. CASE x \in InHand
    BY <1>4 DEF Progress, Maps, Files, Live
  <1> QED BY <1>1, <1>2, <1>3, <1>4

\* And every other sector that is marked after it is.
LEMMA MarkedAfterReboot ==
  ASSUME FileSysInv, ~ShortReads, NEW x \in disk_map,
         x \notin lost \cup OpenRemoved \cup NotWritten \cup InHand
  PROVE  x \in Reserved \/ \E s \in Named : x \in SectorsOf(s)
  <1> USE DEF FileSysInv
  <1>1. x \in free_map
    BY DEF NotWritten
  <1>2. CASE \E s \in Live : x \in SectorsOf(s)
    <2>1. PICK s \in Live : x \in SectorsOf(s)
      BY <1>2
    <2>2. CASE s \in Opened /\ s \notin Named
      <3>1. inodes[s].removed
        BY <2>2 DEF NoLeaks
      <3> QED BY <2>1, <2>2, <3>1, OpenRemovedFacts
    <2> QED BY <2>1, <2>2 DEF Live
  <1> QED BY <1>1, <1>2 DEF NoLeaks

LEMMA BootStep ==
  ASSUME FileSysInv, Boot(InHand) PROVE FileSysInv'
  <1> USE DEF FileSysInv, Boot, disk
  <1>1. call'.pc = "idle" /\ InHand' = {}
    BY IdleFacts DEF InHand
  <1>2. TypeOK'
    <2>1. lost' \subseteq Sectors
      <3>1. OpenRemoved \subseteq Sectors
        BY DEF OpenRemoved, DataOf, Extent
      <3>2. NotWritten \subseteq Sectors /\ InHand \subseteq Sectors /\ lost \subseteq Sectors
        BY DEF NotWritten, Progress, TypeOK
      <3> QED BY <3>1, <3>2
    <2> QED BY <2>1, IdleFacts DEF TypeOK
  <1>3. Named' = Named /\ Opened' = {} /\ Live' = Named
    BY DEF Named, Opened, Live
  <1>4. Files'
    BY <1>1, <1>3, FilesKept DEF Files, Live, Maps
  <1>5. Maps' /\ Copies' /\ Entries' /\ Progress'
    BY <1>1, <1>3 DEF Maps, Copies, Entries, Progress
  <1>6. NoLeaks'
    <2> SUFFICES ASSUME ~ShortReads PROVE NoLeaks'
      BY DEF NoLeaks
    <2>1. \A s : SectorsOf(s)' = SectorsOf(s)
      BY DEF SectorsOf, DataOf
    <2>2. \A x \in lost' : Lost(x)'
      BY <1>1, <1>3, <2>1, LostInReboot DEF Lost
    <2>3. \A x \in free_map' : x \in Reserved \cup lost' \/ \E s \in Live' : x \in SectorsOf(s)'
      BY <1>3, <2>1, MarkedAfterReboot
    <2> QED BY <1>1, <1>3, <2>2, <2>3 DEF NoLeaks
  <1>7. Counts'
    BY DEF Counts, Users
  <1> QED BY <1>2, <1>4, <1>5, <1>6, <1>7

-----------------------------------------------------------------------------
(* Opening and closing.                                                    *)

\* What an open inode is, and that it belongs to a file.
LEMMA OpenInode ==
  ASSUME FileSysInv, NEW s \in Opened
  PROVE  /\ s \in Sectors /\ inodes[s] \in Inode /\ inodes[s] # NULL
         /\ inodes[s].open_cnt \in Nat /\ inodes[s].deny_write_cnt \in Nat
         /\ inodes[s].removed \in BOOLEAN /\ inodes[s].data = disk_inode[s]
         /\ s \in Live
  BY DEF FileSysInv, TypeOK, Opened, Copies, Inode, Live

\* The inode of an open file is open.
LEMMA OpenFileInode ==
  ASSUME FileSysInv, NEW f \in File, files[f] # NULL
  PROVE  /\ files[f] \in OpenFile /\ files[f].sector \in Opened /\ files[f].sector \in Sectors
         /\ files[f].deny_write \in BOOLEAN
         /\ f \in Users(files[f].sector)
  <1>1. files[f] \in OpenFile /\ files[f].sector \in Sectors /\ files[f].deny_write \in BOOLEAN
    BY DEF FileSysInv, TypeOK, OpenFile
  <1>2. f \in Users(files[f].sector)
    BY DEF Users
  <1>3. inodes[files[f].sector] # NULL
    BY <1>1, <1>2 DEF FileSysInv, Counts
  <1> QED BY <1>1, <1>2, <1>3 DEF Opened

\* inode_open() of a file that has a name, between calls.
LEMMA InodeOpenFacts ==
  ASSUME FileSysInv, At("idle"), NEW s \in Named
  PROVE  /\ InodeOpen(s) \in [Sectors -> Inode \cup {NULL}]
         /\ InodeOpen(s)[s] \in Inode /\ InodeOpen(s)[s] # NULL
         /\ InodeOpen(s)[s].data = disk_inode[s] /\ InodeOpen(s)[s].removed = FALSE
         /\ InodeOpen(s)[s].open_cnt = Cardinality(Users(s)) + 1
         /\ InodeOpen(s)[s].deny_write_cnt = Cardinality(Deniers(s))
         /\ \A u \in Sectors : u # s => InodeOpen(s)[u] = inodes[u]
  <1> USE DEF FileSysInv
  <1>0. s \in Sectors /\ s \in Live /\ ~Erasing(s) /\ disk_inode[s] \in InodeDisk
    BY LiveSectors DEF Live, At, Erasing, Files, TypeOK
  <1>1. PICK i : i = (IF inodes[s] # NULL THEN [inodes[s] EXCEPT !.open_cnt = @ + 1]
                 ELSE [open_cnt |-> 1, deny_write_cnt |-> 0, removed |-> FALSE, data |-> disk_inode[s]])
    OBVIOUS
  <1>2. InodeOpen(s) = [inodes EXCEPT ![s] = i]
    BY <1>1 DEF InodeOpen
  <1>3. /\ i \in Inode /\ i.data = disk_inode[s] /\ i.removed = FALSE
        /\ i.open_cnt = Cardinality(Users(s)) + 1 /\ i.deny_write_cnt = Cardinality(Deniers(s))
    <2>1. CASE inodes[s] # NULL
      <3>1. s \in Opened
        BY <1>0, <2>1 DEF Opened
      <3>2. /\ inodes[s] \in Inode /\ inodes[s].open_cnt \in Nat /\ inodes[s].data = disk_inode[s]
            /\ inodes[s].removed = FALSE
        BY <3>1, OpenInode DEF Copies
      <3>3. /\ inodes[s].open_cnt = Cardinality(Users(s))
            /\ inodes[s].deny_write_cnt = Cardinality(Deniers(s))
        BY <1>0, <2>1, FiniteUsers DEF Counts
      <3>4. i = [inodes[s] EXCEPT !.open_cnt = inodes[s].open_cnt + 1]
        BY <1>1, <2>1
      <3> QED BY <3>2, <3>3, <3>4 DEF Inode
    <2>2. CASE inodes[s] = NULL
      <3>1. Users(s) = {} /\ Deniers(s) = {}
        BY <1>0, <2>2 DEF Counts, Users, Deniers
      <3>2. Cardinality(Users(s)) = 0 /\ Cardinality(Deniers(s)) = 0
        BY <3>1, FS_EmptySet
      <3>3. i = [open_cnt |-> 1, deny_write_cnt |-> 0, removed |-> FALSE, data |-> disk_inode[s]]
        BY <1>1, <2>2
      <3> QED BY <1>0, <3>2, <3>3 DEF Inode
    <2> QED BY <2>1, <2>2
  <1>4. i # NULL
    BY <1>3, FileSysAssumption
  <1> QED BY <1>0, <1>2, <1>3, <1>4 DEF TypeOK

(* What is on the disk is not touched by a step that opens an inode, or    *)
(* changes the counts of one.                                              *)
LEMMA OpenStep ==
  ASSUME FileSysInv, InHand = {}, InHand' = {}, UNCHANGED <<free_map, disk, lost>>,
         NEW s \in Live, inodes' \in [Sectors -> Inode \cup {NULL}], inodes'[s] # NULL,
         inodes'[s].data = disk_inode[s],
         s \in Opened => inodes'[s].removed = inodes[s].removed,
         s \notin Opened => inodes'[s].removed = FALSE,
         \A u \in Sectors : u # s => inodes'[u] = inodes[u]
  PROVE  Maps' /\ Files' /\ Copies' /\ Entries' /\ NoLeaks'
  <1> USE DEF FileSysInv, disk
  <1>0. s \in Sectors
    BY LiveSectors
  <1>1. Named' = Named /\ Opened' = Opened \cup {s} /\ Live' = Live
    <2>1. Named' = Named
      BY DEF Named
    <2>2. Opened' = Opened \cup {s}
      BY <1>0 DEF Opened
    <2> QED BY <2>1, <2>2 DEF Live
  <1>2. Files'
    BY <1>1, FilesKept DEF Files
  <1>3. Maps' /\ Entries'
    BY DEF Maps, Entries
  <1>4. Copies'
    BY <1>0, <1>1, LiveSectors DEF Copies
  <1>5. NoLeaks'
    <2>1. \A u : SectorsOf(u)' = SectorsOf(u)
      BY DEF SectorsOf, DataOf
    <2>2. ~ShortReads => \A u \in Opened' : inodes'[u].removed \/ u \in Named'
      BY <1>0, <1>1, LiveSectors DEF NoLeaks, Lost, Live
    <2> QED BY <1>1, <2>1, <2>2 DEF NoLeaks, Lost
  <1> QED BY <1>2, <1>3, <1>4, <1>5

\* A struct file that was closed is one more user.
LEMMA UserAdded ==
  ASSUME TypeOK, NEW f \in File, files[f] = NULL, NEW s \in Sectors,
         NEW o \in OpenFile, o.sector = s, o.deny_write = FALSE,
         files' = [files EXCEPT ![f] = o]
  PROVE  /\ files' \in [File -> OpenFile \cup {NULL}]
         /\ Users(s)' # {} /\ Cardinality(Users(s)') = Cardinality(Users(s)) + 1
         /\ \A u : u # s => Users(u)' = Users(u)
         /\ \A u : Deniers(u)' = Deniers(u)
  <1>2. /\ files' \in [File -> OpenFile \cup {NULL}] /\ files'[f] = o
        /\ \A g \in File : g # f => files'[g] = files[g]
    BY DEF TypeOK
  <1>3. o # NULL
    BY FileSysAssumption
  <1>4. Users(s)' = Users(s) \cup {f} /\ f \notin Users(s)
    BY <1>2, <1>3 DEF Users
  <1>5. Cardinality(Users(s) \cup {f}) = Cardinality(Users(s)) + 1
    BY <1>4, FiniteUsers, FS_AddElement
  <1>6. \A u : u # s => Users(u)' = Users(u)
    BY <1>2, <1>3 DEF Users
  <1>7. \A u : Deniers(u)' = Deniers(u)
    BY <1>2, <1>3 DEF Deniers
  <1> QED BY <1>2, <1>4, <1>5, <1>6, <1>7

LEMMA RemoveStep ==
  ASSUME FileSysInv, NEW name \in Name, Remove(name) PROVE FileSysInv'
  <1> USE DEF FileSysInv, Remove
  <1>1. PICK s \in Named : /\ s = SectorOf(name) /\ s \in Sectors
    BY SlotOfFinds
  <1>0. call.pc = "idle"
    BY DEF At
  <1>2. call' = [pc |-> "erase", name |-> name, sector |-> s, start |-> 0, length |-> 0, zeroed |-> 0]
    BY <1>1 DEF Idle
  <1>3. /\ call'.pc = "erase" /\ call'.name = name /\ call'.sector = s
        /\ InHand = {} /\ InHand' = {} /\ call.pc = "idle"
    <2>1. call'.pc = "erase" /\ call'.name = name /\ call'.sector = s
      <3> HIDE DEF Remove
      <3> QED BY <1>2
    <2> QED BY <1>0, <2>1 DEF InHand
  <1>4. /\ inodes' \in [Sectors -> Inode \cup {NULL}] /\ inodes'[s] # NULL
        /\ inodes'[s].data = disk_inode[s] /\ inodes'[s].removed = FALSE
        /\ inodes'[s].open_cnt = Cardinality(Users(s)) + 1
        /\ inodes'[s].deny_write_cnt = Cardinality(Deniers(s))
        /\ \A u \in Sectors : u # s => inodes'[u] = inodes[u]
    BY <1>1, InodeOpenFacts
  <1>5. TypeOK'
    BY <1>1, <1>2, <1>4, SectorFacts, FileSysAssumption DEF TypeOK, Label, disk
  <1>6. Maps' /\ Files' /\ Copies' /\ Entries' /\ NoLeaks'
    <2>1. s \in Live /\ (s \in Opened => inodes[s].removed = FALSE)
      BY <1>1, OpenInode DEF Live, Copies
    <2> QED BY <1>3, <1>4, <2>1, OpenStep
  <1>7. Progress'
    <2>1. Lookup(name)' = Lookup(name) /\ SectorOf(name)' = s /\ s \in Opened'
      BY <1>1, <1>4 DEF Lookup, SlotOf, SectorOf, Opened, disk
    <2> QED BY <1>3, <2>1 DEF Progress
  <1>8. Counts'
    <2>1. \A u : Users(u)' = Users(u) /\ Deniers(u)' = Deniers(u)
      BY DEF Users, Deniers
    <2>2. \A u : (Erasing(u)' <=> u = s) /\ (Erasing(u) <=> FALSE)
      BY <1>3 DEF Erasing
    <2> QED BY <1>1, <1>4, <2>1, <2>2, FiniteUsers DEF Counts
  <1> QED BY <1>5, <1>6, <1>7, <1>8

LEMMA FileOpenStep ==
  ASSUME FileSysInv, NEW f \in File, NEW name \in Name, Open(f, name) PROVE FileSysInv'
  <1> USE DEF FileSysInv, Open
  <1>1. PICK s \in Named : /\ s = SectorOf(name) /\ s \in Sectors
    BY SlotOfFinds
  <1>2. InHand = {} /\ InHand' = {} /\ call.pc = "idle" /\ call' = call
    BY DEF InHand, At
  <1>4. /\ inodes' \in [Sectors -> Inode \cup {NULL}] /\ inodes'[s] # NULL
        /\ inodes'[s].data = disk_inode[s] /\ inodes'[s].removed = FALSE
        /\ inodes'[s].open_cnt = Cardinality(Users(s)) + 1
        /\ inodes'[s].deny_write_cnt = Cardinality(Deniers(s))
        /\ \A u \in Sectors : u # s => inodes'[u] = inodes[u]
    BY <1>1, InodeOpenFacts
  <1>5. /\ files' \in [File -> OpenFile \cup {NULL}]
        /\ Users(s)' # {} /\ Cardinality(Users(s)') = Cardinality(Users(s)) + 1
        /\ \A u : u # s => Users(u)' = Users(u)
        /\ \A u : Deniers(u)' = Deniers(u)
    <2>1. PICK o \in OpenFile : o = [sector |-> s, deny_write |-> FALSE]
      BY <1>1 DEF OpenFile
    <2>2. o.sector = s /\ o.deny_write = FALSE /\ files' = [files EXCEPT ![f] = o]
      BY <1>1, <2>1
    <2> QED BY <1>1, <2>2, UserAdded
  <1>6. TypeOK'
    BY <1>4, <1>5 DEF TypeOK, disk
  <1>7. Maps' /\ Files' /\ Copies' /\ Entries' /\ NoLeaks'
    <2>1. s \in Live /\ (s \in Opened => inodes[s].removed = FALSE)
      BY <1>1, OpenInode DEF Live, Copies
    <2> QED BY <1>2, <1>4, <2>1, OpenStep
  <1>8. Progress'
    BY <1>2 DEF Progress
  <1>9. Counts'
    <2>1. \A u : (Erasing(u)' <=> FALSE) /\ (Erasing(u) <=> FALSE)
      BY <1>2 DEF Erasing
    <2> QED BY <1>1, <1>4, <1>5, <2>1, FiniteUsers DEF Counts
  <1> QED BY <1>6, <1>7, <1>8, <1>9

LEMMA ReopenStep ==
  ASSUME FileSysInv, NEW f \in File, NEW g \in File, Reopen(f, g) PROVE FileSysInv'
  <1> USE DEF FileSysInv
  <1>0. /\ At("idle") /\ files[f] # NULL /\ files[g] = NULL
        /\ UNCHANGED <<free_map, call, disk, lost>>
    BY DEF Reopen
  <1>1. PICK s \in Opened : s = files[f].sector /\ files[f] \in OpenFile
    BY <1>0, OpenFileInode
  <1>2. InHand = {} /\ InHand' = {} /\ call.pc = "idle" /\ call' = call
    BY <1>0 DEF InHand, At
  <1>3. /\ s \in Sectors /\ inodes[s] \in Inode /\ inodes[s].open_cnt \in Nat /\ s \in Live
        /\ inodes[s].data = disk_inode[s]
    BY OpenInode
  <1>4. PICK i : i = [inodes[s] EXCEPT !.open_cnt = inodes[s].open_cnt + 1]
    OBVIOUS
  <1>5. inodes' = [inodes EXCEPT ![s] = i]
    BY <1>1, <1>3, <1>4 DEF TypeOK, Reopen
  <1>6. /\ i \in Inode /\ i # NULL /\ i.data = disk_inode[s] /\ i.removed = inodes[s].removed
        /\ i.open_cnt = inodes[s].open_cnt + 1 /\ i.deny_write_cnt = inodes[s].deny_write_cnt
    <2>1. /\ i \in Inode /\ i.data = disk_inode[s] /\ i.removed = inodes[s].removed
          /\ i.open_cnt = inodes[s].open_cnt + 1 /\ i.deny_write_cnt = inodes[s].deny_write_cnt
      BY <1>3, <1>4 DEF Inode
    <2> QED BY <2>1, FileSysAssumption
  <1>7. /\ inodes' \in [Sectors -> Inode \cup {NULL}] /\ inodes'[s] = i
        /\ \A u \in Sectors : u # s => inodes'[u] = inodes[u]
    BY <1>3, <1>5, <1>6 DEF TypeOK
  <1>8. PICK o \in OpenFile : /\ o.sector = s /\ o.deny_write = FALSE
                              /\ files' = [files EXCEPT ![g] = o]
    <2>1. PICK o : o = [files[f] EXCEPT !.deny_write = FALSE]
      OBVIOUS
    <2>2. o \in OpenFile /\ o.sector = s /\ o.deny_write = FALSE
      BY <1>1, <2>1 DEF OpenFile
    <2> QED BY <2>1, <2>2 DEF Reopen
  <1>9. /\ files' \in [File -> OpenFile \cup {NULL}]
        /\ Users(s)' # {} /\ Cardinality(Users(s)') = Cardinality(Users(s)) + 1
        /\ \A u : u # s => Users(u)' = Users(u)
        /\ \A u : Deniers(u)' = Deniers(u)
    BY <1>0, <1>3, <1>8, UserAdded
  <1>10. TypeOK'
    BY <1>0, <1>7, <1>9 DEF TypeOK, disk
  <1>11. Maps' /\ Files' /\ Copies' /\ Entries' /\ NoLeaks'
    BY <1>0, <1>2, <1>3, <1>6, <1>7, OpenStep
  <1>12. Progress'
    BY <1>2 DEF Progress
  <1>13. Counts'
    <2>1. \A u : (Erasing(u)' <=> FALSE) /\ (Erasing(u) <=> FALSE)
      BY <1>2 DEF Erasing
    <2>2. inodes[s].open_cnt = Cardinality(Users(s)) /\ inodes[s].deny_write_cnt = Cardinality(Deniers(s))
      BY <1>3, <2>1, FiniteUsers DEF Counts, Opened
    <2> QED BY <1>3, <1>6, <1>7, <1>9, <2>1, <2>2, FiniteUsers DEF Counts
  <1> QED BY <1>10, <1>11, <1>12, <1>13

\* A struct file that begins or ceases to deny writes.
LEMMA DenierChanges ==
  ASSUME FileSysInv, NEW f \in File, files[f] # NULL, NEW s, s = files[f].sector,
         NEW b \in BOOLEAN, files[f].deny_write = ~b,
         files' = [files EXCEPT ![f].deny_write = b]
  PROVE  /\ files' \in [File -> OpenFile \cup {NULL}]
         /\ \A u : Users(u)' = Users(u)
         /\ \A u : u # s => Deniers(u)' = Deniers(u)
         /\ b = TRUE => Cardinality(Deniers(s)') = Cardinality(Deniers(s)) + 1
         /\ b = FALSE => Cardinality(Deniers(s)') = Cardinality(Deniers(s)) - 1
  <1> USE DEF FileSysInv
  <1>2. PICK o \in OpenFile : o = [files[f] EXCEPT !.deny_write = b]
    BY OpenFileInode DEF OpenFile
  <1>3. o # NULL /\ o.sector = s /\ o.deny_write = b
    BY <1>2, OpenFileInode, FileSysAssumption DEF OpenFile
  <1>4. /\ files' \in [File -> OpenFile \cup {NULL}] /\ files'[f] = o
        /\ \A g \in File : g # f => files'[g] = files[g]
    BY <1>2 DEF TypeOK
  <1>5. \A u : Users(u)' = Users(u)
    BY <1>3, <1>4 DEF Users
  <1>6. \A u : u # s => Deniers(u)' = Deniers(u)
    BY <1>3, <1>4 DEF Deniers
  <1>7. ASSUME b = TRUE PROVE Cardinality(Deniers(s)') = Cardinality(Deniers(s)) + 1
    <2>1. Deniers(s)' = Deniers(s) \cup {f} /\ f \notin Deniers(s)
      BY <1>3, <1>4, <1>7 DEF Deniers
    <2> QED BY <2>1, FiniteUsers, FS_AddElement
  <1>8. ASSUME b = FALSE PROVE Cardinality(Deniers(s)') = Cardinality(Deniers(s)) - 1
    <2>1. Deniers(s)' = Deniers(s) \ {f} /\ f \in Deniers(s)
      BY <1>3, <1>4, <1>8 DEF Deniers
    <2> QED BY <2>1, FiniteUsers, FS_RemoveElement, ZenonT(60)
  <1> QED BY <1>4, <1>5, <1>6, <1>7, <1>8

LEMMA DenyWriteStep ==
  ASSUME FileSysInv, NEW f \in File, DenyWrite(f) PROVE FileSysInv'
  <1> USE DEF FileSysInv
  <1>0. /\ At("idle") /\ files[f] # NULL /\ files[f].deny_write = FALSE
        /\ UNCHANGED <<free_map, call, disk, lost>>
        /\ files' = [files EXCEPT ![f].deny_write = TRUE]
    <2>1. files[f] # NULL /\ ~files[f].deny_write
      BY DEF DenyWrite
    <2>2. files[f].deny_write = FALSE
      BY <2>1, OpenFileInode, Zenon
    <2> QED BY <2>1, <2>2 DEF DenyWrite
  <1>1. PICK s \in Opened : s = files[f].sector
    BY <1>0, OpenFileInode
  <1>2. InHand = {} /\ InHand' = {} /\ call.pc = "idle" /\ call' = call
    BY <1>0 DEF InHand, At
  <1>3. /\ s \in Sectors /\ inodes[s] \in Inode /\ inodes[s].deny_write_cnt \in Nat /\ s \in Live
        /\ inodes[s].data = disk_inode[s]
    BY OpenInode
  <1>4. PICK i : i = [inodes[s] EXCEPT !.deny_write_cnt = inodes[s].deny_write_cnt + 1]
    OBVIOUS
  <1>5. inodes' = [inodes EXCEPT ![s] = i]
    BY <1>1, <1>3, <1>4 DEF TypeOK, DenyWrite
  <1>6. /\ i \in Inode /\ i # NULL /\ i.data = disk_inode[s] /\ i.removed = inodes[s].removed
        /\ i.open_cnt = inodes[s].open_cnt /\ i.deny_write_cnt = inodes[s].deny_write_cnt + 1
    <2>1. /\ i \in Inode /\ i.data = disk_inode[s] /\ i.removed = inodes[s].removed
          /\ i.open_cnt = inodes[s].open_cnt /\ i.deny_write_cnt = inodes[s].deny_write_cnt + 1
      BY <1>3, <1>4 DEF Inode
    <2> QED BY <2>1, FileSysAssumption
  <1>7. /\ inodes' \in [Sectors -> Inode \cup {NULL}] /\ inodes'[s] = i
        /\ \A u \in Sectors : u # s => inodes'[u] = inodes[u]
    BY <1>3, <1>5, <1>6 DEF TypeOK
  <1>8. /\ files' \in [File -> OpenFile \cup {NULL}]
        /\ \A u : Users(u)' = Users(u)
        /\ \A u : u # s => Deniers(u)' = Deniers(u)
        /\ Cardinality(Deniers(s)') = Cardinality(Deniers(s)) + 1
    BY <1>0, <1>1, DenierChanges
  <1>9. TypeOK'
    BY <1>0, <1>7, <1>8 DEF TypeOK, disk
  <1>10. Maps' /\ Files' /\ Copies' /\ Entries' /\ NoLeaks'
    BY <1>0, <1>2, <1>3, <1>6, <1>7, OpenStep
  <1>11. Progress'
    BY <1>2 DEF Progress
  <1>12. Counts'
    <2>1. \A u : (Erasing(u)' <=> FALSE) /\ (Erasing(u) <=> FALSE)
      BY <1>2 DEF Erasing
    <2>2. /\ inodes[s].open_cnt = Cardinality(Users(s)) /\ Users(s) # {}
          /\ inodes[s].deny_write_cnt = Cardinality(Deniers(s))
      BY <1>3, <2>1, FiniteUsers DEF Counts, Opened
    <2> QED BY <1>3, <1>6, <1>7, <1>8, <2>1, <2>2, FiniteUsers DEF Counts
  <1> QED BY <1>9, <1>10, <1>11, <1>12

(* The inode of a file that denies writes no more counts one denier less.  *)
LEMMA AllowedFacts ==
  ASSUME FileSysInv, At("idle"), NEW f \in File, files[f] # NULL, NEW s, s = files[f].sector
  PROVE  /\ Allowed(f) \in Inode /\ Allowed(f) # NULL
         /\ Allowed(f).data = disk_inode[s] /\ Allowed(f).removed = inodes[s].removed
         /\ Allowed(f).open_cnt = Cardinality(Users(s))
         /\ Allowed(f).deny_write_cnt = Cardinality(Deniers(s) \ {f})
         /\ Cardinality(Deniers(s) \ {f}) \in Nat
  <1> USE DEF FileSysInv
  <1>1. /\ s \in Sectors /\ inodes[s] \in Inode /\ inodes[s].deny_write_cnt \in Nat
        /\ inodes[s].data = disk_inode[s] /\ inodes[s] # NULL
        /\ files[f].deny_write \in BOOLEAN
    BY OpenFileInode, OpenInode
  <1>2. ~Erasing(s)
    BY DEF At, Erasing
  <1>3. inodes[s].open_cnt = Cardinality(Users(s)) /\ inodes[s].deny_write_cnt = Cardinality(Deniers(s))
    BY <1>1, <1>2, FiniteUsers DEF Counts
  <1>4. PICK n : n = (IF files[f].deny_write THEN inodes[s].deny_write_cnt - 1
                     ELSE inodes[s].deny_write_cnt)
    OBVIOUS
  <1>5. Allowed(f) = [inodes[s] EXCEPT !.deny_write_cnt = n]
    BY <1>4 DEF Allowed
  <1>6. n = Cardinality(Deniers(s) \ {f}) /\ n \in Nat
    <2>1. /\ IsFiniteSet(Deniers(s) \ {f})
          /\ Cardinality(Deniers(s) \ {f}) =
               IF f \in Deniers(s) THEN Cardinality(Deniers(s)) - 1 ELSE Cardinality(Deniers(s))
      BY FiniteUsers, FS_RemoveElement
    <2>2. Cardinality(Deniers(s) \ {f}) \in Nat
      BY <2>1, FS_CardinalityType
    <2>3. f \in Deniers(s) <=> files[f].deny_write
      BY DEF Deniers
    <2> QED BY <1>3, <1>4, <2>1, <2>2, <2>3
  <1>7. /\ Allowed(f) \in Inode
        /\ Allowed(f).data = inodes[s].data /\ Allowed(f).removed = inodes[s].removed
        /\ Allowed(f).open_cnt = inodes[s].open_cnt
        /\ Allowed(f).deny_write_cnt = n
    BY <1>1, <1>5, <1>6 DEF Inode
  <1> QED BY <1>1, <1>3, <1>6, <1>7, FileSysAssumption

LEMMA AllowWriteStep ==
  ASSUME FileSysInv, NEW f \in File, AllowWrite(f) PROVE FileSysInv'
  <1> USE DEF FileSysInv
  <1>0. /\ At("idle") /\ files[f] # NULL /\ files[f].deny_write = TRUE
        /\ UNCHANGED <<free_map, call, disk, lost>>
        /\ files' = [files EXCEPT ![f].deny_write = FALSE]
    <2>1. files[f] # NULL /\ files[f].deny_write
      BY DEF AllowWrite
    <2>2. files[f].deny_write = TRUE
      BY <2>1, OpenFileInode, Zenon
    <2> QED BY <2>1, <2>2 DEF AllowWrite
  <1>1. PICK s \in Opened : s = files[f].sector
    BY <1>0, OpenFileInode
  <1>2. InHand = {} /\ InHand' = {} /\ call.pc = "idle" /\ call' = call
    BY <1>0 DEF InHand, At
  <1>3. /\ s \in Sectors /\ s \in Live
    BY OpenInode
  <1>4. PICK i : i = Allowed(f)
    OBVIOUS
  <1>5. inodes' = [inodes EXCEPT ![s] = i]
    BY <1>1, <1>4 DEF AllowWrite
  <1>6. /\ i \in Inode /\ i # NULL /\ i.data = disk_inode[s] /\ i.removed = inodes[s].removed
        /\ i.open_cnt = Cardinality(Users(s)) /\ i.deny_write_cnt = Cardinality(Deniers(s) \ {f})
    BY <1>0, <1>1, <1>4, AllowedFacts
  <1>7. /\ inodes' \in [Sectors -> Inode \cup {NULL}] /\ inodes'[s] = i
        /\ \A u \in Sectors : u # s => inodes'[u] = inodes[u]
    BY <1>3, <1>5, <1>6 DEF TypeOK
  <1>8. /\ files' \in [File -> OpenFile \cup {NULL}]
        /\ \A u : Users(u)' = Users(u)
        /\ \A u : u # s => Deniers(u)' = Deniers(u)
        /\ Cardinality(Deniers(s)') = Cardinality(Deniers(s)) - 1
    BY <1>0, <1>1, DenierChanges
  <1>9. TypeOK'
    BY <1>0, <1>7, <1>8 DEF TypeOK, disk
  <1>10. Maps' /\ Files' /\ Copies' /\ Entries' /\ NoLeaks'
    BY <1>0, <1>2, <1>3, <1>6, <1>7, OpenStep
  <1>11. Progress'
    BY <1>2 DEF Progress
  <1>12. Counts'
    <2>1. \A u : (Erasing(u)' <=> FALSE) /\ (Erasing(u) <=> FALSE)
      BY <1>2 DEF Erasing
    <2>2. f \in Users(s) /\ f \in Deniers(s)
      BY <1>0, <1>1 DEF Users, Deniers
    <2>3. Cardinality(Deniers(s) \ {f}) = Cardinality(Deniers(s)) - 1
      BY <2>2, FiniteUsers, FS_RemoveElement
    <2> QED BY <1>3, <1>6, <1>7, <1>8, <2>1, <2>2, <2>3, FiniteUsers DEF Counts
  <1> QED BY <1>9, <1>10, <1>11, <1>12

LEMMA WriteStep ==
  ASSUME FileSysInv, NEW f \in File, Write(f) PROVE FileSysInv'
  <1> USE DEF FileSysInv
  <1>0. /\ call' = call /\ UNCHANGED <<free_map, inodes, files, disk_map, disk_inode, dir, lost>>
        /\ call.pc = "idle"
    BY DEF Write, memory, At
  <1>1. PICK s : content' = [content EXCEPT ![s] = "data"]
    BY DEF Write
  <1>2. content' \in [Sectors -> {"zero", "data", "old"}]
        /\ \A d \in Sectors : content[d] # "old" => content'[d] # "old"
    BY <1>1 DEF TypeOK
  <1>3. TypeOK'
    BY <1>0, <1>2 DEF TypeOK
  <1>4. InHand = {} /\ InHand' = {}
    BY <1>0 DEF InHand
  <1>5. Files'
    <2>1. \A u : DataOf(disk_inode[u]) \subseteq Sectors
      BY DEF DataOf, Extent
    <2> QED BY <1>0, <1>2, <1>4, <2>1, SameFiles, FilesKept DEF Files
  <1>6. Maps' /\ Copies' /\ Entries' /\ NoLeaks'
    BY <1>0, <1>4, SameFiles DEF Maps, Copies, Entries, NoLeaks, Lost
  <1>7. Progress'
    BY <1>0, <1>4 DEF Progress
  <1>8. Counts'
    BY <1>0, CountsKept
  <1> QED BY <1>3, <1>5, <1>6, <1>7, <1>8

(* inode_close() hands the sectors of a removed file that nobody has open  *)
(* any more to the call, which goes on to free them; otherwise every file  *)
(* stays as it is.  Here n is the name space after the step: without the   *)
(* file's name if dir_remove() has just erased it.                         *)
LEMMA InodeCloseStep ==
  ASSUME FileSysInv, InHand = {}, UNCHANGED <<free_map, disk_map, disk_inode, content, lost>>,
         Entries', dir' \in [Slot -> DirEntry \cup {NULL}], files' \in [File -> OpenFile \cup {NULL}],
         NEW s \in Opened, Named' \in {Named, Named \ {s}},
         NEW inode \in Inode, inode # NULL, inode.data = disk_inode[s],
         inode.removed => s \notin Named',
         ~ShortReads => (inode.removed \/ s \in Named'),
         InodeClose(s, inode)
  PROVE  /\ TypeOK' /\ Maps' /\ Files' /\ Copies' /\ Progress' /\ NoLeaks'
         /\ call'.pc # "erase"
         /\ \A u \in Sectors : u # s => inodes'[u] = inodes[u]
         /\ inode.open_cnt > 1 => /\ inodes'[s] # NULL
                                  /\ inodes'[s].open_cnt = inode.open_cnt - 1
                                  /\ inodes'[s].deny_write_cnt = inode.deny_write_cnt
         /\ ~(inode.open_cnt > 1) => inodes'[s] = NULL
  <1> USE DEF FileSysInv
  <1>0. /\ s \in Sectors /\ s \in Live /\ disk_inode[s] \in InodeDisk /\ inode.open_cnt \in Nat
        /\ inode.removed \in BOOLEAN
    BY OpenInode DEF Files, TypeOK, Inode
  <1>1. \A u : SectorsOf(u)' = SectorsOf(u)
    BY DEF SectorsOf, DataOf
  <1>2. Maps'
    BY DEF Maps
  <1>3. CASE inode.open_cnt > 1
    <2>1. PICK i : i = [inode EXCEPT !.open_cnt = inode.open_cnt - 1]
      OBVIOUS
    <2>2. inodes' = [inodes EXCEPT ![s] = i] /\ call' = Idle
      BY <1>3, <2>1 DEF InodeClose, Return
    <2>3. /\ i \in Inode /\ i.data = disk_inode[s] /\ i.removed = inode.removed
          /\ i.open_cnt = inode.open_cnt - 1 /\ i.deny_write_cnt = inode.deny_write_cnt
      BY <1>0, <1>3, <2>1 DEF Inode
    <2>4. i # NULL
      BY <2>3, FileSysAssumption
    <2>5. /\ inodes' \in [Sectors -> Inode \cup {NULL}] /\ inodes'[s] = i
          /\ \A u \in Sectors : u # s => inodes'[u] = inodes[u]
      BY <1>0, <2>2, <2>3 DEF TypeOK
    <2>6. call'.pc = "idle" /\ InHand' = {}
      BY <2>2, IdleFacts DEF InHand
    <2>7. TypeOK'
      BY <2>2, <2>5, IdleFacts DEF TypeOK
    <2>8. Opened' = Opened
      BY <2>4, <2>5 DEF Opened
    <2>9. Live' = Live
      BY <2>8 DEF Live
    <2>10. Files'
      BY <2>6, <2>9, FilesKept DEF Files
    <2>11. Copies'
      BY <2>3, <2>5, <2>8, LiveSectors DEF Copies
    <2>12. Progress'
      BY <2>6 DEF Progress
    <2>13. NoLeaks'
      <3>1. ~ShortReads => \A u \in Opened' : inodes'[u].removed \/ u \in Named'
        BY <2>3, <2>5, <2>8, LiveSectors DEF NoLeaks, Lost
      <3> QED BY <1>1, <2>6, <2>9, <3>1 DEF NoLeaks, Lost
    <2> QED BY <1>2, <1>3, <2>3, <2>4, <2>5, <2>6, <2>7, <2>10, <2>11, <2>12, <2>13
  <1>4. CASE ~(inode.open_cnt > 1)
    <2>1. inodes' = [inodes EXCEPT ![s] = NULL]
      BY <1>4 DEF InodeClose
    <2>2. /\ inodes' \in [Sectors -> Inode \cup {NULL}] /\ inodes'[s] = NULL
          /\ \A u \in Sectors : u # s => inodes'[u] = inodes[u]
      BY <1>0, <2>1 DEF TypeOK
    <2>3. Opened' = Opened \ {s}
      BY <2>2 DEF Opened
    <2>4. Copies'
      BY <2>2, <2>3, LiveSectors DEF Copies
    <2>5. ~ShortReads => \A u \in Opened' : inodes'[u].removed \/ u \in Named'
      BY <2>2, <2>3, LiveSectors DEF NoLeaks, Lost
    <2>6. CASE inode.removed
      <3>1. PICK d \in InodeDisk : d = disk_inode[s]
        BY <1>0
      <3>2. call' = [pc |-> "release_inode", name |-> NULL, sector |-> s,
                     start |-> d.start, length |-> d.length, zeroed |-> 0]
        BY <1>4, <2>6, <3>1, ZenonT(60) DEF InodeClose, Idle
      <3>3. TypeOK'
        <4>1. d.start \in Sectors /\ d.length \in 0..MaxSectors /\ 0 \in 0..MaxSectors
          BY FileSysAssumption DEF InodeDisk
        <4> QED BY <1>0, <2>2, <3>2, <4>1 DEF TypeOK, Label
      <3>4. /\ call'.pc = "release_inode" /\ call'.sector = s
            /\ call'.start = d.start /\ call'.length = d.length
        BY <3>2
      <3>5. InHand' = SectorsOf(s)
        BY <3>1, <3>4 DEF InHand, SectorsOf, DataOf
      <3>6. Live' = Live \ {s}
        BY <2>3, <2>6 DEF Live
      <3>7. Files'
        <4>1. \A u \in Live' : SectorsOf(u) \subseteq free_map /\ SectorsOf(u) \cap InHand' = {}
          BY <1>0, <3>5, <3>6 DEF Files
        <4> QED BY <3>6, <4>1, FilesKept
      <3>8. Progress'
        <4>1. InHand' \subseteq free_map \ Reserved
          BY <1>0, <3>5 DEF Files
        <4>2. s \notin Extent(d.start, d.length)
          BY <1>0, <3>1 DEF Files, DataOf
        <4> QED BY <3>4, <4>1, <4>2 DEF Progress
      <3>9. NoLeaks'
        <4> SUFFICES ASSUME ~ShortReads PROVE NoLeaks'
          BY DEF NoLeaks
        <4>1. \A x \in lost : Lost(x)'
          BY <1>0, <1>1, <3>5, <3>6 DEF NoLeaks, Lost
        <4>2. \A x \in free_map : x \in Reserved \cup InHand' \cup lost \/ \E u \in Live' : x \in SectorsOf(u)
          BY <3>5, <3>6 DEF NoLeaks
        <4> QED BY <1>1, <2>5, <4>1, <4>2 DEF NoLeaks
      <3> QED BY <1>2, <1>4, <2>2, <2>4, <3>3, <3>4, <3>7, <3>8, <3>9
    <2>7. CASE ~inode.removed
      <3>1. call' = Idle
        BY <1>4, <2>7 DEF InodeClose, Return
      <3>2. call'.pc = "idle" /\ InHand' = {}
        BY <3>1, IdleFacts DEF InHand
      <3>3. TypeOK'
        BY <2>2, <3>1, IdleFacts DEF TypeOK
      <3>4. Live' \subseteq Live
        BY <2>3 DEF Live
      <3>5. Files'
        BY <3>2, <3>4, FilesKept DEF Files
      <3>6. Progress'
        BY <3>2 DEF Progress
      <3>7. NoLeaks'
        <4>1. ~ShortReads => Live' = Live
          BY <1>0, <2>3, <2>7 DEF Live
        <4> QED BY <1>1, <2>5, <3>2, <4>1 DEF NoLeaks, Lost
      <3> QED BY <1>2, <1>4, <2>2, <2>4, <3>2, <3>3, <3>5, <3>6, <3>7
    <2> QED BY <2>6, <2>7
  <1> QED BY <1>3, <1>4

LEMMA CloseStep ==
  ASSUME FileSysInv, NEW f \in File, Close(f) PROVE FileSysInv'
  <1> USE DEF FileSysInv
  <1>0. /\ At("idle") /\ files[f] # NULL /\ UNCHANGED <<free_map, disk, lost>>
        /\ files' = [files EXCEPT ![f] = NULL] /\ InodeClose(files[f].sector, Allowed(f))
    BY DEF Close
  <1>1. PICK s \in Opened : s = files[f].sector
    BY <1>0, OpenFileInode
  <1>2. PICK i : i = Allowed(f)
    OBVIOUS
  <1>3. /\ i \in Inode /\ i # NULL /\ i.data = disk_inode[s] /\ i.removed = inodes[s].removed
        /\ i.open_cnt = Cardinality(Users(s)) /\ i.deny_write_cnt = Cardinality(Deniers(s) \ {f})
    BY <1>0, <1>1, <1>2, AllowedFacts
  <1>4. /\ InHand = {} /\ call.pc = "idle" /\ s \in Sectors
        /\ UNCHANGED <<free_map, disk_map, disk_inode, content, dir, lost>>
    BY <1>0, OpenInode DEF InHand, At, disk
  <1>5. /\ files' \in [File -> OpenFile \cup {NULL}] /\ files'[f] = NULL
        /\ \A g \in File : g # f => files'[g] = files[g]
    BY <1>0 DEF TypeOK
  <1>6. Named' = Named /\ Entries'
    BY <1>4 DEF Named, Entries
  <1>7. /\ i.removed => s \notin Named'
        /\ ~ShortReads => (i.removed \/ s \in Named')
    BY <1>3, <1>6 DEF Copies, NoLeaks, Lost
  <1>8. /\ TypeOK' /\ Maps' /\ Files' /\ Copies' /\ Progress' /\ NoLeaks'
        /\ call'.pc # "erase"
        /\ \A u \in Sectors : u # s => inodes'[u] = inodes[u]
        /\ i.open_cnt > 1 => /\ inodes'[s] # NULL
                             /\ inodes'[s].open_cnt = i.open_cnt - 1
                             /\ inodes'[s].deny_write_cnt = i.deny_write_cnt
        /\ ~(i.open_cnt > 1) => inodes'[s] = NULL
    <2>1. InodeClose(s, i)
      BY <1>0, <1>1, <1>2
    <2>2. dir' \in [Slot -> DirEntry \cup {NULL}]
      BY <1>4 DEF TypeOK
    <2> QED BY <1>3, <1>4, <1>5, <1>6, <1>7, <2>1, <2>2, InodeCloseStep
  <1>9. Counts'
    <2>1. \A u : (Erasing(u)' <=> FALSE) /\ (Erasing(u) <=> FALSE)
      BY <1>4, <1>8 DEF Erasing
    <2>2. Users(s)' = Users(s) \ {f} /\ f \in Users(s)
      BY <1>0, <1>1, <1>5 DEF Users
    <2>3. Deniers(s)' = Deniers(s) \ {f}
      BY <1>0, <1>1, <1>5 DEF Deniers
    <2>4. \A u : u # s => Users(u)' = Users(u) /\ Deniers(u)' = Deniers(u)
      BY <1>0, <1>1, <1>5 DEF Users, Deniers
    <2>5. /\ IsFiniteSet(Users(s)') /\ Cardinality(Users(s)') = Cardinality(Users(s)) - 1
          /\ Cardinality(Users(s)') \in Nat /\ Cardinality(Users(s)) \in Nat
      <3>1. IsFiniteSet(Users(s)') /\ Cardinality(Users(s)') = Cardinality(Users(s)) - 1
        BY <2>2, FiniteUsers, FS_RemoveElement
      <3> QED BY <3>1, FiniteUsers, FS_CardinalityType
    <2>6. Cardinality(Users(s)') = 0 <=> Users(s)' = {}
      BY <2>5, FS_EmptySet
    <2>7. /\ inodes'[s] # NULL => /\ inodes'[s].open_cnt = Cardinality(Users(s)')
                                  /\ inodes'[s].deny_write_cnt = Cardinality(Deniers(s)')
                                  /\ Users(s)' # {}
          /\ inodes'[s] = NULL => Users(s)' = {}
      <3>1. CASE i.open_cnt > 1
        BY <1>3, <1>8, <2>3, <2>5, <2>6, <3>1
      <3>2. CASE ~(i.open_cnt > 1)
        BY <1>3, <1>8, <2>5, <2>6, <3>2
      <3> QED BY <3>1, <3>2
    <2>8. \A u \in Sectors : u # s =>
            /\ inodes'[u] # NULL => /\ inodes'[u].open_cnt = Cardinality(Users(u)')
                                    /\ inodes'[u].deny_write_cnt = Cardinality(Deniers(u)')
                                    /\ Users(u)' # {}
            /\ inodes'[u] = NULL => Users(u)' = {}
      BY <1>8, <2>1, <2>4, FiniteUsers DEF Counts
    <2>9. \A u : Cardinality(Users(u)') \in Nat
      BY <2>4, <2>5, FiniteUsers
    <2> QED BY <2>1, <2>7, <2>8, <2>9 DEF Counts
  <1> QED BY <1>6, <1>8, <1>9

LEMMA EraseStep ==
  ASSUME FileSysInv, Erase PROVE FileSysInv'
  <1> USE DEF FileSysInv
  <1>0. /\ call.pc = "erase" /\ InHand = {} /\ UNCHANGED <<free_map, files, disk_map, disk_inode, content, lost>>
        /\ call.name \in Name /\ Lookup(call.name) # {} /\ SectorOf(call.name) = call.sector
        /\ call.sector \in Opened
    BY DEF Erase, At, Progress, InHand
  <1>1. PICK s \in Opened : s = call.sector
    BY <1>0
  <1>2. PICK k \in Slot : k = SlotOf(call.name) /\ dir[k] # NULL /\ dir[k].sector = s
    BY <1>0, <1>1, SlotOfFinds DEF SectorOf
  <1>3. /\ s \in Sectors /\ inodes[s] \in Inode /\ inodes[s] # NULL
        /\ inodes[s].data = disk_inode[s] /\ s \in Live /\ inodes[s].open_cnt \in Nat
    BY OpenInode
  <1>4. inodes[s].open_cnt = Cardinality(Users(s)) + 1 /\ inodes[s].deny_write_cnt = Cardinality(Deniers(s))
    BY <1>0, <1>1, <1>3 DEF Counts, Erasing
  <1>5. SUFFICES
          /\ Entries' /\ TypeOK' /\ Maps' /\ Files' /\ Copies' /\ Progress' /\ NoLeaks'
          /\ call'.pc # "erase"
          /\ \A u \in Sectors : u # s => inodes'[u] = inodes[u]
          /\ inodes[s].open_cnt > 1 => /\ inodes'[s] # NULL
                                       /\ inodes'[s].open_cnt = inodes[s].open_cnt - 1
                                       /\ inodes'[s].deny_write_cnt = inodes[s].deny_write_cnt
          /\ ~(inodes[s].open_cnt > 1) => inodes'[s] = NULL
    <2> SUFFICES ASSUME
          /\ Entries' /\ TypeOK' /\ Maps' /\ Files' /\ Copies' /\ Progress' /\ NoLeaks'
          /\ call'.pc # "erase"
          /\ \A u \in Sectors : u # s => inodes'[u] = inodes[u]
          /\ inodes[s].open_cnt > 1 => /\ inodes'[s] # NULL
                                       /\ inodes'[s].open_cnt = inodes[s].open_cnt - 1
                                       /\ inodes'[s].deny_write_cnt = inodes[s].deny_write_cnt
          /\ ~(inodes[s].open_cnt > 1) => inodes'[s] = NULL
                 PROVE  Counts'
      OBVIOUS
    <2>1. \A u : (Erasing(u)' <=> FALSE) /\ (Erasing(u) <=> u = s)
      BY <1>0, <1>1 DEF Erasing
    <2>2. \A u : Users(u)' = Users(u) /\ Deniers(u)' = Deniers(u)
      BY <1>0 DEF Users, Deniers
    <2>3. Cardinality(Users(s)) = 0 <=> Users(s) = {}
      BY FiniteUsers, FS_EmptySet
    <2> QED BY <1>3, <1>4, <2>1, <2>2, <2>3, FiniteUsers DEF Counts
  <1>6. CASE dir' = [dir EXCEPT ![SlotOf(call.name)] = NULL]
             /\ InodeClose(call.sector, [inodes[call.sector] EXCEPT !.removed = TRUE])
    <2>1. PICK i : i = [inodes[s] EXCEPT !.removed = TRUE]
      OBVIOUS
    <2>2. /\ i \in Inode /\ i.data = disk_inode[s] /\ i.removed = TRUE
          /\ i.open_cnt = inodes[s].open_cnt /\ i.deny_write_cnt = inodes[s].deny_write_cnt
      BY <1>3, <2>1 DEF Inode
    <2>3. i # NULL
      BY <2>2, FileSysAssumption
    <2>4. InodeClose(s, i)
      BY <1>1, <1>6, <2>1
    <2>5. /\ dir' \in [Slot -> DirEntry \cup {NULL}] /\ dir'[k] = NULL
          /\ \A j \in Slot : j # k => dir'[j] = dir[j]
      BY <1>2, <1>6 DEF TypeOK
    <2>6. Entries'
      BY <2>5 DEF Entries
    <2>7. Named' = Named \ {s}
      BY <1>2, <2>5 DEF Named, Entries
    <2>8. files' \in [File -> OpenFile \cup {NULL}]
      BY <1>0 DEF TypeOK
    <2> QED BY <1>0, <2>2, <2>3, <2>4, <2>5, <2>6, <2>7, <2>8, InodeCloseStep
  <1>7. CASE UNCHANGED dir /\ InodeClose(call.sector, inodes[call.sector])
    <2>1. InodeClose(s, inodes[s])
      BY <1>1, <1>7
    <2>2. dir' \in [Slot -> DirEntry \cup {NULL}] /\ files' \in [File -> OpenFile \cup {NULL}]
      BY <1>0, <1>7 DEF TypeOK
    <2>3. Named' = Named /\ Entries'
      BY <1>7 DEF Named, Entries
    <2>4. /\ inodes[s].removed => s \notin Named'
          /\ ~ShortReads => (inodes[s].removed \/ s \in Named')
      BY <2>3 DEF Copies, NoLeaks, Lost
    <2> QED BY <1>0, <1>3, <2>1, <2>2, <2>3, <2>4, InodeCloseStep
  <1> QED BY <1>6, <1>7 DEF Erase

-----------------------------------------------------------------------------
(* The theorems.                                                           *)

LEMMA InitOK ==
  ASSUME Init PROVE FileSysInv
  <1> USE DEF Init
  <1>1. call.pc = "idle" /\ InHand = {} /\ Named = {} /\ Opened = {} /\ Live = {}
    BY IdleFacts DEF InHand, Named, Opened, Live
  <1>2. TypeOK
    BY IdleFacts, FileSysAssumption DEF TypeOK
  <1>3. Maps /\ Files /\ Copies /\ Entries /\ Progress /\ NoLeaks
    BY <1>1 DEF Maps, Files, Copies, Entries, Progress, NoLeaks, Lost
  <1>4. Counts
    BY DEF Counts, Users
  <1> QED BY <1>2, <1>3, <1>4 DEF FileSysInv

LEMMA NextOK ==
  ASSUME FileSysInv, [Next]_vars PROVE FileSysInv'
  <1>1. CASE \E name \in Name, n \in 0..MaxSectors : Create(name, n)
    BY <1>1, CreateStep
  <1>2. CASE AllocInode
    BY <1>2, AllocInodeStep
  <1>3. CASE AllocData
    BY <1>3, AllocDataStep
  <1>4. CASE WriteInode
    BY <1>4, WriteInodeStep
  <1>5. CASE ZeroSector
    BY <1>5, ZeroSectorStep
  <1>6. CASE DirAdd
    BY <1>6, DirAddStep
  <1>7. CASE UndoCreate
    BY <1>7, UndoCreateStep
  <1>8. CASE \E name \in Name : Remove(name)
    BY <1>8, RemoveStep
  <1>9. CASE Erase
    BY <1>9, EraseStep
  <1>10. CASE ReleaseInode
    BY <1>10, ReleaseInodeStep
  <1>11. CASE ReleaseData
    BY <1>11, ReleaseDataStep
  <1>12. CASE \E f \in File : \/ \E name \in Name : Open(f, name)
                              \/ \E g \in File : Reopen(f, g)
                              \/ DenyWrite(f) \/ AllowWrite(f) \/ Close(f) \/ Write(f)
    BY <1>12, FileOpenStep, ReopenStep, DenyWriteStep, AllowWriteStep, CloseStep, WriteStep
  <1>13. CASE Crash \/ Shutdown
    <2>1. At("idle") => InHand = {}
      BY DEF At, InHand
    <2> QED BY <1>13, <2>1, BootStep DEF Crash, Shutdown
  <1>14. CASE UNCHANGED vars
    <2>1. UNCHANGED <<free_map, inodes, files, call, disk_map, disk_inode, content, dir, lost>>
      BY <1>14 DEF vars, memory, disk
    <2>2. TypeOK' /\ Maps' /\ Entries'
      BY <2>1 DEF FileSysInv, TypeOK, Maps, Entries
    <2>3. InHand' = InHand
      BY <2>1 DEF InHand
    <2>4. Files' /\ Copies' /\ NoLeaks'
      BY <2>1, <2>3, SameFiles DEF FileSysInv, Files, Copies, NoLeaks, Lost
    <2>5. Progress'
      BY <2>1, <2>3, SameFiles DEF FileSysInv, Progress, Lookup, SectorOf, SlotOf
    <2>6. Counts'
      <3>1. \A s : /\ Users(s)' = Users(s) /\ Deniers(s)' = Deniers(s)
                   /\ (Erasing(s)' <=> Erasing(s))
        BY <2>1 DEF Users, Deniers, Erasing
      <3> QED BY <2>1, <3>1 DEF FileSysInv, Counts
    <2> QED BY <2>2, <2>4, <2>5, <2>6 DEF FileSysInv
  <1> QED BY <1>1, <1>2, <1>3, <1>4, <1>5, <1>6, <1>7, <1>8, <1>9, <1>10, <1>11, <1>12, <1>13, <1>14
        DEF Next

(* FileSysInv holds in every state: what each call of the file system has  *)
(* in its hands at each of its writes, and which file every marked sector  *)
(* belongs to, however often the machine stops.                            *)
THEOREM FileSysInvariant == Spec => []FileSysInv
  <1>1. Init => FileSysInv
    BY InitOK
  <1>2. FileSysInv /\ [Next]_vars => FileSysInv'
    BY NextOK
  <1> QED BY <1>1, <1>2, PTL DEF Spec

(* Sectors of a file that is removed while it is open stay marked and its  *)
(* own until inode_close() of the last opener, and the struct inode in     *)
(* memory stays what the disk has.                                         *)
THEOREM OpenFilesAreSafe == Spec => []OpenFilesKeepSectors
  <1>1. FileSysInv => OpenFilesKeepSectors
    BY DEF FileSysInv, OpenFilesKeepSectors, Copies, Files, Live
  <1> QED BY <1>1, FileSysInvariant, PTL

(* free_map_release()'s ASSERT never fails: what filesys_create() or       *)
(* inode_close() frees is marked; and the map in memory never has a sector *)
(* that the one on the disk lacks.                                         *)
THEOREM FreeMapIsSound == Spec => []FreeMapSound
  <1>1. FileSysInv => FreeMapSound
    <2> SUFFICES ASSUME FileSysInv PROVE FreeMapSound
      OBVIOUS
    <2> USE DEF FileSysInv
    <2>1. free_map \subseteq disk_map
      BY DEF Maps
    <2>2. InHand \subseteq free_map
      BY DEF Progress
    <2>3. call.pc \in {"undo", "release_inode"} => call.sector \in InHand
      BY DEF InHand
    <2>4. call.pc \in {"release_inode", "release_data"} => Extent(call.start, call.length) \subseteq InHand
      BY DEF InHand
    <2> QED BY <2>1, <2>2, <2>3, <2>4 DEF FreeMapSound
  <1> QED BY <1>1, FileSysInvariant, PTL

(* No file that has a name or is open shows what an older file left in its *)
(* sectors, wherever filesys_create() was cut off.                         *)
THEOREM OldDataIsNeverSeen == Spec => []NoOldData
  <1>1. FileSysInv => NoOldData
    BY DEF FileSysInv, NoOldData, Files
  <1> QED BY <1>1, FileSysInvariant, PTL

(* If no search of the directory is cut short for want of memory, the disk *)
(* is consistent after every single write of every call: filesys_init()    *)
(* finds every named file complete, and its sectors marked and its own.    *)
THEOREM DiskAlwaysConsistent ==
  ASSUME ~ShortReads PROVE Spec => []DiskConsistent
  <1>1. FileSysInv => DiskConsistent
    <2> SUFFICES ASSUME FileSysInv PROVE DiskConsistent
      OBVIOUS
    <2> USE DEF FileSysInv
    <2>1. \A k, j \in Slot : dir[k] # NULL /\ dir[j] # NULL /\ k # j =>
            dir[k].sector # dir[j].sector /\ dir[k].name # dir[j].name
      BY DEF Entries
    <2>2. \A s \in Named : /\ disk_inode[s] # NULL
                           /\ SectorsOf(s) \subseteq disk_map \ Reserved
                           /\ s \notin DataOf(disk_inode[s])
      BY DEF Files, Maps, Live
    <2>3. \A s, u \in Named : s # u => SectorsOf(s) \cap SectorsOf(u) = {}
      BY DEF Files, Live
    <2> QED BY <2>1, <2>2, <2>3 DEF DiskConsistent
  <1> QED BY <1>1, FileSysInvariant, PTL

(* If no search of the directory is cut short, then between calls each     *)
(* marked sector is reserved, belongs to a file that has a name or is      *)
(* open, or is lost, and to one of these only.  What is lost is what Boot  *)
(* (over a crash or a clean shutdown) and DirAdd's failure say, and grows  *)
(* by nothing else.                                                        *)
THEOREM NothingElseLeaks ==
  ASSUME ~ShortReads PROVE Spec => []NoOtherLeak
  <1>1. FileSysInv => NoOtherLeak
    <2> DEFINE used == Reserved \cup UNION {SectorsOf(s) : s \in Live}
    <2> SUFFICES ASSUME FileSysInv, At("idle")
                 PROVE  free_map = used \cup lost /\ used \cap lost = {}
      BY DEF NoOtherLeak
    <2>1. InHand = {}
      BY DEF InHand, At
    <2>2. \A x \in free_map : x \in Reserved \cup lost \/ \E s \in Live : x \in SectorsOf(s)
      BY <2>1 DEF FileSysInv, NoLeaks
    <2>3. Reserved \subseteq free_map /\ \A s \in Live : SectorsOf(s) \subseteq free_map
      BY DEF FileSysInv, Maps, Files
    <2>4. \A x \in lost : x \in free_map \ Reserved /\ \A s \in Live : x \notin SectorsOf(s)
      BY DEF FileSysInv, NoLeaks, Lost
    <2> QED BY <2>2, <2>3, <2>4
  <1> QED BY <1>1, FileSysInvariant, PTL
==============================================================================
