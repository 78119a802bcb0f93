SPECIFICATION LocalSpec
CONSTANTS
  MaxPid = 3
  MaxPolls = 1
  Runs = {r1, r2}
  MaxInodes = 2
SYMMETRY AnyRun
INVARIANT
  OursCanBeStopped
PROPERTIES
  SuccessMeansToken2022
  LaunchedPluginIsWhole
CHECK_DEADLOCK FALSE
