SPECIFICATION Spec
CONSTANTS
  Nil = Nil
  MaxU64 = 100
  MicroLamportsPerLamport = 10
  DefaultComputeUnitsPerInstruction = 4
  MaxComputeUnitLimit = 10
  MaxLen = 2
  Messages <- MCMessages
  Configs <- MCConfigs
INVARIANT
  ReadersAgreeOnEveryFee
CHECK_DEADLOCK FALSE
