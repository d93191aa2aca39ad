CONSTANTS
  N = 2
  Addr = {a1, a2}
  NULL = NULL
  MaxReq = 1
  MaxOutstanding = 2
  OrderedReads = TRUE
  PromptNotify = TRUE
  SlowReuse = TRUE
  MaxLeaks = 0
SPECIFICATION FairSpec
PROPERTIES SkbFreed
