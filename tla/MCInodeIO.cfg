SPECIFICATION Spec
CONSTANTS
  BLOCK_SECTOR_SIZE = 2
  Sector = {0, 1, 2, 3, 4}
  start = 1
  Length = 5
  Size = {0, 1, 3, 6}
  Offset = {0, 3, 6}
  Data <- DataDef
INVARIANT
  Confined
PROPERTY
  ImplementsByteFile
