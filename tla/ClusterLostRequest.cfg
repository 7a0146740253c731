CONSTANTS
  CHAR = 6
  MAX_WORKERS = 2
  pageSize = 2
  chunkCount = 2
SPECIFICATION FairSpec
PROPERTIES RequestIsAnswered
CHECK_DEADLOCK FALSE
