SPECIFICATION PartSpec
CONSTANTS
  alice = alice
  bob = bob
  Nil = Nil
  NotBase64 = NotBase64
  Malformed = Malformed
  q1 = q1
  p1 = p1
  p2 = p2
  Users = {alice, bob}
  Usernames <- JoeAnn
  Websites <- WebOnly
  Passwords <- GenOnly
  Emails <- JoeAnn
  Urls <- WebOnly
  Generated <- GenOnly
  PutsMayFail = FALSE
  ReadsMayFail = FALSE
  Foreign = {}
  MaxPuts = 2
  MaxReads = 2
  MaxSignIns = 1
INVARIANTS
  SingletonIsCurrent
  RowOpensItself
  EditsWhatWasRead
  ListShowsStore
  

  
CHECK_DEADLOCK FALSE
