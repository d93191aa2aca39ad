CONSTANTS
  N = 2
  Addr = {a1, a2, a3}
  NULL = NULL
  MaxReq = 1
  MaxOutstanding = 2
  OrderedReads = FALSE
  PromptNotify = TRUE
  SlowReuse = TRUE
  MaxLeaks = 0
SPECIFICATION Spec
INVARIANTS GcSafe
