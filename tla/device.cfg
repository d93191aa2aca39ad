CONSTANTS
  N = 2
  Page = {p1, p2, p3}
  NULL = NULL
  Coherent = FALSE
  AllocFails = TRUE
  TxTraffic = TRUE
SPECIFICATION DeviceSpec
SYMMETRY PageSymmetry
INVARIANTS NoNullHeader UpSafe FreedOnce
PROPERTIES ServesWhileUp
CHECK_DEADLOCK FALSE
