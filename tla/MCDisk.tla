------------------------------- MODULE MCDisk -------------------------------
(* Disk for TLC: two threads, a disk of two sectors and one of one.      *)
EXTENDS Disk

MCCapacity == <<2, 1>>
LargeDisk  == <<4, 1>>

Entry(type, offset, size) == [type |-> type, offset |-> offset, size |-> size]
NoTable == << >>

\* Disk 1's first table; disk 2 and the other sectors have none.
FirstTable(entries) ==
  <<[s \in 0..1 |-> IF s = 0 THEN entries ELSE NoTable], [s \in 0..0 |-> NoTable]>>

(* A good partition, an empty entry, an extended partition past the end,   *)
(* and partitions that start past the end, end past it, or wrap around; or *)
(* one of another system.                                                  *)
PlainTables ==
  {FirstTable(<<Entry("filesys", 1, 1), Entry("empty", 0, 0), Entry("extended", 3, 1),
                Entry("swap", 2, 1), Entry("swap", 1, 2), Entry("scratch", 1, 3)>>),
   FirstTable(<<Entry("foreign", 1, 1)>>)}

\* An extended partition in sector 2 with one logical partition.
ExtendedTable ==
  {<<[s \in 0..3 |-> IF s = 0 THEN <<Entry("filesys", 1, 1), Entry("extended", 2, 2)>>
                     ELSE IF s = 2 THEN <<Entry("scratch", 1, 1)>> ELSE NoTable],
     [s \in 0..0 |-> NoTable]>>}
=============================================================================
