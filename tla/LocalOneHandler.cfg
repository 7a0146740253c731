CONSTANTS
  POOL_SIZE = 1
  PAGE_SIZE = 2
  MAX_PAGES = 2
  chunkCount = 14
  op = "D"
  MapMayFail = FALSE
SPECIFICATION FairSpec
INVARIANTS CorrectOutput
PROPERTIES Terminates
