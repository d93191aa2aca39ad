CONSTANTS
  Lbuf = {b1, b2}
  NULL = NULL
  Pieces = 2
  RingSize = 2
  Entries = 3
  MinPool = 2
  BatchSize = 1
  MaxPackets = 2
  Resets = 1
  Others = 1
  Sleeps = 2
  SameCpu = FALSE
SPECIFICATION BuildsSpec
INVARIANTS TornDown BugOns OneOwner Told OneList CountClose HandedUp PhyExact Awaited InStep EachPageAsked
PROPERTIES Served
CHECK_DEADLOCK FALSE
