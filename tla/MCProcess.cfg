SPECIFICATION Spec
CONSTANTS
  Proc = {p1, p2}
  Main = Main
  Idle = Idle
  PageCnt = 9
  Word = 32
  PGSIZE = 4
  PHYS_BASE = 24
  TableSpan = 3
  Program <- MCProgram
  FileLength = 4
  KERNEL = KERNEL
  GARBAGE = GARBAGE
  NULL = NULL
SYMMETRY Symmetry
INVARIANTS
  ActiveDirectoryLive
  UserInOwnSpace
  PagesOwnedOnce
  WaitedIsGone
  WaitHasWaker
CHECK_DEADLOCK FALSE
