CONSTANTS
  MaxDrops = 2
SPECIFICATION FairSpec
CHECK_DEADLOCK FALSE
INVARIANTS
  DoneMeansPaidOnce
  SentTransferStaysValid
PROPERTIES
  Ends
