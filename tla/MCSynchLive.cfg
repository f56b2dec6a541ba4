SPECIFICATION FairSpec
CONSTANTS
  Page = {p1, p2, p3}
  Main = Main
  NULL = NULL
  TIME_SLICE = 2
  MaxTid = 4
  Sema = {}
  IdleStarted = IdleStarted
  Lock = {l}
  TidLock = TidLock
  MaxValue = 1
PROPERTIES
  ReadyEventuallyRuns
  FreeLockIsTaken
  BootCompletes
