CONSTANTS
  N = 2
  Page = {p1, p2, p3, p4}
  NULL = NULL
  Coherent = TRUE
  AllocFails = FALSE
  TxTraffic = TRUE
SPECIFICATION TrafficSpec
PROPERTIES PageDelivered
CHECK_DEADLOCK FALSE
