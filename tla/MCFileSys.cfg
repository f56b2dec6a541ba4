SPECIFICATION Spec
CONSTANTS
  SectorCnt = 7
  Slot = {0, 1}
  Name = {a, b}
  File = {f, g}
  MaxSectors = 2
  ShortReads = FALSE
  NULL = NULL
SYMMETRY Symmetry
INVARIANTS
  DiskConsistent
  OpenFilesKeepSectors
  FreeMapSound
  NoOldData
  NoOtherLeak
