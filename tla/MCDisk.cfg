SPECIFICATION FairSpec
CONSTANTS
  Thread = {Main, t1}
  Main = Main
  NULL = NULL
  Data = {0, 1}
  Capacity <- MCCapacity
  MaxSpurious = 1
  Word = 4
  MaxCapacity = 4
  Tables <- PlainTables
  MaxDepth = 2
INVARIANT
  PanicsAreDeserved
PROPERTIES
  ImplementsSectorStore
  WritesAcknowledged
  ChannelComesBack
CHECK_DEADLOCK FALSE
