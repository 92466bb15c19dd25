SPECIFICATION PartSpec
CONSTANTS
  p1 = p1
  MaxWrites = 2
  MaxFiles = 11
  MaxCrashes = 2
  MaxCompactions = 1
  MaxPins = 0
  BufferSize = 1
  ReuseLogs = FALSE
  Preexisting = TRUE
  MachineCrashes = TRUE
  MayFail = {}
INVARIANTS
  NothingLost
  
  LiveFilesExist
  SequenceIsNewest
  LogReadsBack
  GoneIsGone
PROPERTIES
  RepairKeeps
CHECK_DEADLOCK FALSE
