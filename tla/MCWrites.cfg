SPECIFICATION PartSpec
CONSTANTS
  Nil = Nil
  nobody = nobody
  w1 = w1
  w2 = w2
  w3 = w3
  m1 = m1
  t1 = t1
  t2 = t2
  r1 = r1
  r2 = r2
  Writers = {w1, w2}
  Manuals = {m1}
  BufferSize = 1
  MaxGroup = 2
  L0Trigger = 1
  L0Slowdown = 1
  L0Stop = 2
  MaxWrites = 3
  MaxManual = 1
  MaxFiles = 1
  MayFail = {"newfile", "build", "apply", "compact"}
INVARIANTS
  SomebodyWillSignal
  GetSeesLatest
PROPERTIES
  WritesAreSafe
  CacheIsSound
  ReferencesAreExact
CHECK_DEADLOCK FALSE
