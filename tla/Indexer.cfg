SPECIFICATION FairSpec
CONSTANTS
  Nil = Nil
  MaxU64 = 100
  MicroLamportsPerLamport = 10
  DefaultComputeUnitsPerInstruction = 4
  MaxComputeUnitLimit = 10
  Updates <- MCUpdates
  Limits <- MCLimits
  MaxPublished = 3
INVARIANTS
  NothingMissedOrRepeated
  BlockReportIsItsBlock
  StopsAtLimit
PROPERTIES
  LimitIsReached
  ClosedStreamEndsIndexer
CHECK_DEADLOCK FALSE
