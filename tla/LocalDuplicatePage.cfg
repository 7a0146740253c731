CONSTANTS
  POOL_SIZE = 2
  PAGE_SIZE = 1
  MAX_PAGES = 2
  chunkCount = 4
  op = "D"
  MapMayFail = FALSE
SPECIFICATION FairSpec
INVARIANTS LoadsNewPage
CHECK_DEADLOCK FALSE
