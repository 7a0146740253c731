CONSTANTS
  Senders = {"own", "next", "main"}
  ToSend <- MCToSend
  DIGITS = 2
  Junk = {1, 10, 15}
  MAX_RECEIVED = 3
SPECIFICATION FairSpec
INVARIANTS TypeOK SpinsOnTruncated
PROPERTIES ImplementsQueue AllDelivered
CHECK_DEADLOCK FALSE
