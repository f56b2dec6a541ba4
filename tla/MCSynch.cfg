SPECIFICATION Spec
CONSTANTS
  Page = {p1, p2, p3}
  Main = Main
  NULL = NULL
  TIME_SLICE = 1
  MaxTid = 4
  Sema = {s}
  IdleStarted = IdleStarted
  Lock = {l}
  TidLock = TidLock
  MaxValue = 2
INVARIANTS
  MutualExclusion
  SleepersAccounted
  NoLostWakeup
  ReadyListExact
PROPERTIES
  ImplementsThread
  LocksAreMutexes
  NoOvertaking
