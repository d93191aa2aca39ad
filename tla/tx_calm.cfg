CONSTANTS
  N = 2
  Addr = {a1, a2, a3}
  NULL = NULL
  MaxReq = 2
  MaxOutstanding = 2
  OrderedReads = TRUE
  PromptNotify = TRUE
  SlowReuse = TRUE
  MaxLeaks = 0
SPECIFICATION Spec
INVARIANTS GcSafe
PROPERTIES ImplementsService
