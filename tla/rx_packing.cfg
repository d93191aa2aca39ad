CONSTANTS
  Size = 11
  MaxDiff = 6
  Burst = 3
  PageSize = 15
  MaxFrame = 4
SPECIFICATION FairSpec
INVARIANTS NoOverrun 
PROPERTIES Flushed
