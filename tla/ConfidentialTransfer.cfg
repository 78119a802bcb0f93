CONSTANTS
  Failed = Failed
  Starting = 10000
  Amount = 2500
  Capacities = {1, 2, 7}
SPECIFICATION FairSpec
CHECK_DEADLOCK FALSE
INVARIANTS
  ReadableBalanceIsBalance
  FailsOnlyOnFault
PROPERTIES
  ImplementsAtomicTransfer
  Ends
