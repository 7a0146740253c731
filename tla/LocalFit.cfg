CONSTANTS
  POOL_SIZE = 3
  PAGE_SIZE = 2
  MAX_PAGES = 4
  chunkCount = 6
  op = "E"
  MapMayFail = FALSE
SPECIFICATION FairSpec
INVARIANTS TypeOK NoFault
PROPERTIES ImplementsExactChain Terminates
