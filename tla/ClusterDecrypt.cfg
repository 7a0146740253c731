CONSTANTS
  CHAR = 8
  min_workers = 2
  MAX_CHUNKS = 4
  Junk = {0, 1}
SPECIFICATION FairSpec
INVARIANTS TypeOK OwnPlaceIntact CountLoaded LookupFails
PROPERTIES ImplementsTransfer WaiterWoken
CHECK_DEADLOCK FALSE
