SPECIFICATION DemoSpec
CONSTANTS
  Nil = Nil
  MaxU64 = 100
  MicroLamportsPerLamport = 10
  DefaultComputeUnitsPerInstruction = 4
  MaxComputeUnitLimit = 10
  Updates <- MCUpdates
  V1Updates <- MCV1Updates
  OtherUpdates <- MCOtherUpdates
  Limits = {1}
  MaxPublished = 3
INVARIANTS
  DemoTypeOK
  PassedUnobservedNeedsClose
  UnfinishedIndexerWasLate
PROPERTY
  ObservableDemoEnds
CHECK_DEADLOCK FALSE
