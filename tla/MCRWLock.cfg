SPECIFICATION FairSpec
CONSTANTS
  Client = {t1, t2, t3, t4}
  Nobody = Nobody
  Guard = Guard
  Locks <- MCLocks
  Conds <- MCConds
INVARIANTS
  NobodyStranded
PROPERTIES
  WriterPreference
  ImplementsReadersWriter
  SomebodyGetsIn
