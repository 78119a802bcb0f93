SPECIFICATION Spec
CONSTANTS
  Nil = Nil
  MaxU64 = 100
  MicroLamportsPerLamport = 10
  DefaultComputeUnitsPerInstruction = 4
  MaxComputeUnitLimit = 10
  MaxLen = 3
  Messages <- MCMessages
  Configs <- MCConfigs
INVARIANTS
  BudgetIsLastAssignment
  ThrowsOnlyOnMalformed
  FeeRoundsUp
  ReadersAgree
  SameBudgetThreeWays
CHECK_DEADLOCK FALSE
