SPECIFICATION Spec
CONSTANTS
  nobody = nobody
  null = null
  p1 = p1
  p2 = p2
  p3 = p3
  t1 = t1
  t2 = t2
  u1 = u1
  u2 = u2
  u3 = u3
  u4 = u4
  d1 = d1
  d2 = d2
  r1 = r1
  s1 = s1
  s2 = s2
  s3 = s3
  Processes = {p1, p2, p3}
  Threads = {t1}
  None = nobody
  Actors = {u1, u2, u3, u4}
  MmapLimit = 1
  FdLimit = 1
  MaxItems = 12
  Kinds = {"MANIFEST", "other"}
  MaxPieces = 4
  MaxCrashes = 2
  Manifests = {1, 2, 3}
  Length = 3
  FragmentSize = 2
  MaxKills = 2
INVARIANTS
  EnvIsSound
  
  TextIsTrue
  DecodedIsSent
  
  ReadsBack
PROPERTIES
  NothingDangles
CHECK_DEADLOCK FALSE
