CONSTANTS
  POOL_SIZE = 3
  PAGE_SIZE = 2
  MAX_PAGES = 2
  chunkCount = 6
  op = "E"
  MapMayFail = TRUE
SPECIFICATION FairSpec
INVARIANTS ExclusiveTask CompleteWhenDone
PROPERTIES HandoffSafe PageStable ImplementsChain HandedOverIsDone EveryChunkDone
CHECK_DEADLOCK FALSE
