----------------------------- MODULE Credential -----------------------------
(***************************************************************************)
(* Models/Credential.swift and Extensions/StringExtensions.swift: what a   *)
(* credential is, when it may be saved, where it is stored and what        *)
(* encryption does to it.  Pure definitions, no state.                     *)
(*                                                                         *)
(* A text is a sequence of lexical pieces.  Only two things are done with  *)
(* a text: it is tested against a regular expression (membership in Emails *)
(* or Urls) and it is concatenated with "+" before it is hashed.           *)
(***************************************************************************)
EXTENDS Sequences, Naturals, FiniteSets

CONSTANTS
  Users,       \* Firebase accounts
  Usernames,   \* texts typed into the username field
  Websites,    \* texts typed into the website field
  Passwords,   \* texts typed into the password field, or generated
  Emails,      \* the texts isValidEmail() accepts
  Urls,        \* the texts isValidUrl() accepts
  Generated,   \* what PwGen().ofSize(20).withoutSymbols() may generate
  NotBase64,   \* a stored string that is not base64
  Malformed,   \* a stored child that is not a dictionary
  Nil          \* Swift's nil

Empty == <<>>

\* Neither regular expression accepts the empty text, and PwGen never
\* generates it.
ASSUME TextAssumption ==
  /\ Emails \subseteq Usernames \ {Empty}
  /\ Urls \subseteq Websites \ {Empty}
  /\ Generated \subseteq Passwords \ {Empty}
  /\ Generated # {}

\* nil is not a text, an account or anything else the program stores.
ASSUME NilAssumption ==
  /\ Nil \notin Usernames \cup Websites \cup Passwords \cup {Empty}
  /\ Nil \notin Users
  /\ Nil # NotBase64
  /\ Nil # Malformed

-----------------------------------------------------------------------------
(* Credential objects *)

Credentials ==
  [username : Usernames \cup {Nil},
   website  : Websites  \cup {Nil},
   password : Passwords \cup {Nil}]

\* Credential(): all three fields nil.
NewCredential == [username |-> Nil, website |-> Nil, password |-> Nil]

isValidEmail(t) == t \in Emails
isValidUrl(t) == t \in Urls

\* Only nil is rejected for the password: the empty text passes.
validate(c) ==
  /\ c.username # Nil
  /\ c.website # Nil
  /\ c.password # Nil
  /\ isValidEmail(c.username)
  /\ isValidUrl(c.website)

ValidCredentials == {c \in Credentials : validate(c)}

-----------------------------------------------------------------------------
(* Digests and the database path *)

\* SwiftyHash's SHA-256, taken to be collision free.
sha256(x) == <<"sha256", x>>

\* The hash of the uid names the user's node and is the encryption key.
uidHash(u) == sha256(u)

\* The digest of "\(username)+\(website)": a concatenation, so two different
\* credentials may share it when a text contains "+".
credHash(c) == sha256(c.username \o <<"+">> \o c.website)

Ids == {credHash(c) : c \in ValidCredentials}

\* There are finitely many SHA-256 digests.
ASSUME IdsAssumption == IsFiniteSet(Ids)

\* The last component of dbPath.
CredPath(c, credId) == IF credId = Nil THEN credHash(c) ELSE credId

-----------------------------------------------------------------------------
(* Encryption.  RNCryptor authenticates what it encrypts: decryption with  *)
(* the key returns the plain text, with any other key it throws.           *)

Ciphers(T) == [key : {uidHash(u) : u \in Users}, plain : T]

\* Mistake: text and key are swapped.
encrypt_Swapped(t, key) == [key |-> t, plain |-> key]

encrypt(t, key) == [key |-> key, plain |-> t]

\* A cipher text is neither nil nor anything but base64.
ASSUME CipherAssumption ==
  {Nil, NotBase64} \cap
    (Ciphers(Usernames) \cup Ciphers(Websites) \cup Ciphers(Passwords)) = {}

\* Mistake: the password does not get into the dictionary.
EncryptFields_NoPassword(c, key) ==
  [username |-> encrypt(c.username, key),
   website  |-> encrypt(c.website, key),
   password |-> Nil]

\* What save() writes: the dictionary of the three encrypted fields.
EncryptFields(c, key) ==
  [username |-> encrypt(c.username, key),
   website  |-> encrypt(c.website, key),
   password |-> encrypt(c.password, key)]

\* The dictionaries a child of a user's node may hold.  A field is nil when
\* the key is missing or its value is not a string.
RawCredentials ==
  [username : Ciphers(Usernames) \cup {Nil, NotBase64},
   website  : Ciphers(Websites)  \cup {Nil, NotBase64},
   password : Ciphers(Passwords) \cup {Nil, NotBase64}]

\* Neither nil nor a malformed child is a dictionary.
ASSUME RawAssumption == Nil \notin RawCredentials /\ Malformed \notin RawCredentials

\* decrypt() of one field: the force-unwrapped base64 decoding traps, a wrong
\* key throws.
FieldOutcome(f, key) ==
  IF f = NotBase64 THEN "trap" ELSE IF f.key = key THEN "ok" ELSE "throws"

\* Credential.decrypt(): a missing field throws incompleteCredential before
\* anything is decrypted; then username, password and website are decrypted
\* in this order and the first failure decides.
DecryptOutcome(raw, key) ==
  LET usn == FieldOutcome(raw.username, key)
      pw  == FieldOutcome(raw.password, key)
      url == FieldOutcome(raw.website, key)
  IN  IF Nil \in {raw.username, raw.password, raw.website} THEN "throws"
      ELSE IF usn # "ok" THEN usn
      ELSE IF pw # "ok" THEN pw
      ELSE url

Decrypted(raw) ==
  [username |-> raw.username.plain,
   website  |-> raw.website.plain,
   password |-> raw.password.plain]

=============================================================================
