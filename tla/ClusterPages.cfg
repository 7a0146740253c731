CONSTANTS
  CHAR = 4
  MAX_WORKERS = 2
  pageSize = 2
  chunkCount = 3
SPECIFICATION FairSpec
INVARIANTS TypeOK PageStaysMapped MessagesMatch NextExists SaltsComplete KeepsOwnConnection
PROPERTIES ImplementsChain DispatchedIsSent
CHECK_DEADLOCK FALSE
