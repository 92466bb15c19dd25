SPECIFICATION PartSpec
CONSTANTS
  nothing = nothing
  r2 = r2
  N = 3
  MaxHeight = 2
  Files = {1, 2}
  Offsets = {0}
  Readers = {r1, r2}
  Filters = FALSE
  BlockCache = TRUE
  HaveSnappy = FALSE
  Objects = {1, 2, 3, 4, 5}
  MaxId = 2
  MaxFilterId = 2
INVARIANTS
  ReadsAreSafe
  
  
  
  InUseIsLive
PROPERTIES
  IsCursor
CHECK_DEADLOCK FALSE
