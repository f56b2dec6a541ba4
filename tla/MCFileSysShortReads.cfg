SPECIFICATION Spec
CONSTANTS
  SectorCnt = 7
  Slot = {0, 1}
  Name = {a, b}
  File = {f, g}
  MaxSectors = 2
  ShortReads = TRUE
  NULL = NULL
SYMMETRY Symmetry
PROPERTY
  AddKeepsEntries
