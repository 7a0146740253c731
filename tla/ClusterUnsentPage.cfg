CONSTANTS
  CHAR = 6
  MAX_WORKERS = 2
  pageSize = 1
  chunkCount = 2
SPECIFICATION FairSpec
INVARIANTS FinalPageSent
CHECK_DEADLOCK FALSE
