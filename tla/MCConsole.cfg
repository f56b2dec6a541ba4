SPECIFICATION Spec
CONSTANTS
  Printer = {p1, p2}
  Main = p1
  Reader = {r}
  Byte = {0, 1}
  Key = {k}
  TXQ_SIZE = 3
  INPUT_SIZE = 2
  MaxLine = 2
  NULL = NULL
INVARIANTS
  QueuesWakeSleepers
  InterruptsArmed
  LinesWhole
PROPERTIES
  WireInOrder
  WireKeepsGoing
CHECK_DEADLOCK FALSE
