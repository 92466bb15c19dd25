CONSTANTS
  alice = alice
  bob = bob
  Nil = Nil
  NotBase64 = NotBase64
  Malformed = Malformed
  Users = {alice, bob}
  Usernames <- JoeOrNone
  Websites <- WebOnly
  Passwords <- GenOnly
  Emails <- JoeOnly
  Urls <- WebOnly
  Generated <- GenOnly
  PutsMayFail = TRUE
  ReadsMayFail = TRUE
  Foreign <- NoForeign
  MaxPuts = 1
  MaxReads = 1
  MaxSignIns = 1

SPECIFICATION Spec
INVARIANTS
  TypeOK
  PutsSound
  StoredSound
  SaveNeverSilent
  FieldsMatch
PROPERTY VaultSpec
