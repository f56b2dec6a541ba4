SPECIFICATION Spec
CONSTANTS
  Thread = {Main}
  Main = Main
  NULL = NULL
  Data = {0}
  Capacity <- LargeDisk
  MaxSpurious = 0
  Word = 8
  MaxCapacity = 8
  Tables <- ExtendedTable
  MaxDepth = 4
INVARIANT
  PartitionsAsOnDisk
CHECK_DEADLOCK FALSE
