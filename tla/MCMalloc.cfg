SPECIFICATION MallocSpec
CONSTANTS
  Thread = {t1, t2}
  NULL = NULL
  PageCnt = 2
  MaxRequest = 4
  PGSIZE = 14
  ARENA_SIZE = 6
  MIN_BLOCK = 3
  Word = 64
  Size <- Sizes
  CallocArg <- CallocArgs
  MaxLive = 4
SYMMETRY Symmetry
INVARIANTS
  NoDoubleAllocation
  UsedMapExact
  LiveBlocksSafe
  ArenasExact
  BigEnough
