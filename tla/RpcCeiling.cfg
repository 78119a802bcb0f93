CONSTANT
  Blocks <- MCBlocks
SPECIFICATION CeilingSpec
CHECK_DEADLOCK FALSE
INVARIANTS
  TallyIsBlock
  LinesTellHighestVersion
  FailsOnlyOnDoubt
