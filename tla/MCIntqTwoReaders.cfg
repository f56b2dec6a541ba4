SPECIFICATION Spec
CONSTANTS
  INTQ_BUFSIZE = 3
  Byte = {a, b}
  NULL = NULL
  Reader = {r1, r2}
  Writer = {}
  IrqPuts = TRUE
  IrqGets = FALSE
INVARIANTS
  WaitAssertHolds
CHECK_DEADLOCK FALSE
