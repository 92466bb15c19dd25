SPECIFICATION Spec
CONSTANTS
  MaxWrites = 2
  MaxFiles = 9
  MaxCrashes = 2
  MaxCompactions = 1
  MaxPins = 0
  BufferSize = 1
  ReuseLogs = TRUE
  Preexisting = TRUE
  MachineCrashes = TRUE
  MayFail = {}
INVARIANTS
  NothingLost
CHECK_DEADLOCK FALSE
