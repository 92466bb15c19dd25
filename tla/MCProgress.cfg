SPECIFICATION FairSpec
CONSTANTS
  alice = alice
  bob = bob
  null = null
  NotBase64 = NotBase64
  Malformed = Malformed
  q1 = q1
  p1 = p1
  w1 = w1
  w2 = w2
  m1 = m1
PROPERTIES
  
  WritesAreAnswered
  CallsReturn
CHECK_DEADLOCK FALSE
