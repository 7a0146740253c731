CONSTANTS
  POOL_SIZE = 2
  PAGE_SIZE = 2
  MAX_PAGES = 1
  chunkCount = 4
  op = "E"
  MapMayFail = FALSE
SPECIFICATION FairSpec
INVARIANTS PoolEmptied
CHECK_DEADLOCK FALSE
