CONSTANTS
  alice = alice
  bob = bob
  Nil = Nil
  NotBase64 = NotBase64
  Malformed = Malformed
  Users = {alice}
  Usernames <- JoePlus
  Websites <- WebPlus
  Passwords <- GenOnly
  Emails <- JoePlus
  Urls <- WebPlus
  Generated <- GenOnly
  PutsMayFail = FALSE
  ReadsMayFail = FALSE
  Foreign <- NoForeign
  MaxPuts = 1
  MaxReads = 1
  MaxSignIns = 1

SPECIFICATION Spec
PROPERTY CreateOverwritesNothing
