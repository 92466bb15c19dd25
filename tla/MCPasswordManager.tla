------------------------- MODULE MCPasswordManager -------------------------
(***************************************************************************)
(* Instances of PasswordManager for TLC.                                   *)
(***************************************************************************)
EXTENDS PasswordManager

CONSTANTS alice, bob

joe == <<"joe">>
ann == <<"ann">>
web == <<"web">>
gen == <<"gen">>

JoeOnly == {joe}
JoeOrNone == {Empty, joe}
JoeAnn == {joe, ann}
WebOnly == {web}
GenOnly == {gen}
GenOrNone == {Empty, gen}

\* "joe" + "x+web" and "joe+x" + "web" are hashed as the same text.
JoePlus == {joe, <<"joe", "+", "x">>}
WebPlus == {web, <<"x", "+", "web">>}

NoForeign == {}

\* A child without a password.
Incomplete ==
  {[username |-> encrypt(joe, uidHash(alice)),
    website  |-> encrypt(web, uidHash(alice)),
    password |-> Nil]}

\* Children the application never writes, one for each way the loop of
\* reloadData can go wrong, and one that decrypts to an invalid credential.
BadChildren ==
  Incomplete \cup
  {Malformed,
   [username |-> encrypt(joe, uidHash(alice)),
    website  |-> encrypt(web, uidHash(alice)),
    password |-> NotBase64],
   [username |-> encrypt(Empty, uidHash(alice)),
    website  |-> encrypt(web, uidHash(alice)),
    password |-> encrypt(gen, uidHash(alice))]}

=============================================================================
