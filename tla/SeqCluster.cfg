CONSTANTS
  CHAR = 6
  min_workers = 2
  MAX_CHUNKS = 3
  Junk = {0}
  FETCH_CHUNKS = 2
SPECIFICATION FairSpec
INVARIANTS TypeOK SizeInRange LookupFails
PROPERTIES ImplementsSave ImplementsFetch WaiterWoken
CHECK_DEADLOCK FALSE
