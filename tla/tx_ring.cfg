CONSTANTS
  N = 2
  Addr = {a1, a2}
  NULL = NULL
  MaxReq = 1
  MaxOutstanding = 2
  OrderedReads = FALSE
  PromptNotify = TRUE
  SlowReuse = FALSE
  MaxLeaks = 1
SPECIFICATION FairSpec
INVARIANTS RingExact SlotProtocol
PROPERTIES RingReopens
