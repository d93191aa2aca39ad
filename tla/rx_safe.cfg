CONSTANTS
  N = 3
  Page = {p1, p2, p3, p4, p5}
  NULL = NULL
  Coherent = TRUE
  AllocFails = FALSE
  TxTraffic = TRUE
SPECIFICATION FairSpec
INVARIANTS PageSafe
PROPERTIES ImplementsService DeliveredByInterrupts
CHECK_DEADLOCK FALSE
