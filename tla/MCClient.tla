------------------------------ MODULE MCClient ------------------------------
(***************************************************************************)
(* The application and the database client below it, for TLC.  A behaviour *)
(* is one of one part: "part" says of which.  Two parts are instances of   *)
(* the application and have its variables; the others have theirs in the   *)
(* slots v1, v2 and so on, and the application's are not used.             *)
(***************************************************************************)
EXTENDS PasswordManager

CONSTANTS
  alice, bob, q1, p1, p2

VARIABLES
  part,   \* the part that runs; it never changes
  v1, v2, v3, v4, v5, v6, v7, v8, v9, v10, v11, v12, v13, v14

slots == <<v1, v2, v3, v4, v5, v6, v7, v8, v9, v10, v11, v12, v13, v14>>
allVars == <<part, vars, slots>>

joe == <<"joe">>
ann == <<"ann">>
web == <<"web">>
gen == <<"gen">>

JoeAnn == {joe, ann}
WebOnly == {web}
GenOnly == {gen}

\* Children the application never writes, one for each way the loop of
\* reloadData can go wrong, and one that decrypts to an invalid credential.
BadChildren ==
  LET For(text) == encrypt(text, uidHash(alice))
      Child(username, password) ==
        [username |-> username, website |-> For(web), password |-> password]
  IN  {Malformed, Child(For(joe), Nil), Child(For(joe), NotBase64), Child(For(<<>>), For(gen))}

-----------------------------------------------------------------------------
(* The parts.  "sessions" is the application as the configuration sizes    *)
(* it: two users one after the other, two requests of each kind under way. *)

\* Two credentials of one user.
Records == INSTANCE PasswordManager WITH Users <- {alice}, MaxPuts <- 1, MaxReads <- 1

\* Two attempts to sign in at a time.
SignIns == INSTANCE PasswordManager WITH
  MaxPuts <- 1, MaxReads <- 1, MaxSignIns <- 2,
  db <- v1, puts <- v2, reads <- v3, mainQueue <- v4, screen <- v5, tab <- v6,
  pushed <- v7, overlay <- v8, instance <- v9, crashed <- v10, list <- v11, form <- v12,
  auth <- v13, signIns <- v14

\* Another client writes what this one never would.
Others == INSTANCE PasswordManager WITH
  Users <- {alice}, Foreign <- BadChildren, MaxPuts <- 1, MaxReads <- 1,
  db <- v1, puts <- v2, reads <- v3, mainQueue <- v4, screen <- v5, tab <- v6,
  pushed <- v7, overlay <- v8, instance <- v9, crashed <- v10, list <- v11, form <- v12,
  auth <- v13, signIns <- v14

\* Writes to two places, transactions and purges; the connection is lost twice.
Writes == INSTANCE PersistentConnection WITH
  Queries <- {q1}, Paths <- {p1, p2}, Tokens <- {1}, Reasons <- {},
  Calls <- {"hash", "purge"}, MaxPuts <- 3, MaxSpecs <- 1, MaxTokens <- 0, MaxDrops <- 2,
  c <- v1, server <- v2, want <- v3, refused <- v4, used <- v5

\* Tokens, listens and interrupts.
Session == INSTANCE PersistentConnection WITH
  Queries <- {q1}, Paths <- {p1}, Tokens <- {1, 2},
  Reasons <- {"repo_interrupt", "server_kill"}, Calls <- {"unlisten"}, MaxPuts <- 1,
  MaxSpecs <- 1, MaxTokens <- 2, MaxDrops <- 2,
  c <- v1, server <- v2, want <- v3, refused <- v4, used <- v5

-----------------------------------------------------------------------------

\* Slots and variables that a part leaves alone.
Off5 == v6 = 0 /\ v7 = 0 /\ v8 = 0 /\ v9 = 0 /\ v10 = 0 /\ v11 = 0 /\ v12 = 0 /\ v13 = 0
  /\ v14 = 0
Off0 == v1 = 0 /\ v2 = 0 /\ v3 = 0 /\ v4 = 0 /\ v5 = 0 /\ Off5
NotUsed == Init /\ auth = Nil
Rest5 == <<part, vars, v6, v7, v8, v9, v10, v11, v12, v13, v14>>

\* All parts but "records" have one credential: only joe is ever typed, and other
\* clients store theirs in joe's place.
OnlyJoe(f) == \A v \in Forms : f[v].fields.username # ann
AnnId == credHash([username |-> ann, website |-> web])
OnlyJoesId(tree) == tree[alice][AnnId] = Nil

PartInit ==
  \/ part = "sessions" /\ Init /\ Off0
  \/ part = "records" /\ Records!Init /\ Off0
  \/ part = "sign-ins" /\ SignIns!Init /\ NotUsed
  \/ part = "foreign" /\ Others!Init /\ NotUsed
  \/ part = "writes" /\ Writes!Init /\ Off5 /\ NotUsed
  \/ part = "session" /\ Session!Init /\ Off5 /\ NotUsed

PartNext ==
  \/ part = "sessions" /\ Next /\ OnlyJoe(form') /\ UNCHANGED <<part, slots>>
  \/ part = "records" /\ Records!Next /\ UNCHANGED <<part, slots>>
  \/ part = "sign-ins" /\ SignIns!Next /\ OnlyJoe(v12') /\ UNCHANGED <<part, vars>>
  \/ part = "foreign" /\ Others!Next /\ OnlyJoe(v12') /\ OnlyJoesId(v1') /\ UNCHANGED <<part, vars>>
  \/ part = "writes" /\ Writes!Next /\ UNCHANGED Rest5
  \/ part = "session" /\ Session!Next /\ UNCHANGED Rest5

PartSpec == PartInit /\ [][PartNext]_allVars

-----------------------------------------------------------------------------
(* Properties, besides SingletonIsCurrent, RowOpensItself,                 *)
(* EditsWhatWasRead and ListShowsStore of the application.                 *)

\* The application in harder settings.  While two sign-ins are under way the
\* screens stay with the user FIRAuth has, and rows open what they show
\* (Authentication.swift, AuthenticatedUser.swift); whatever others have
\* written, what this client sends is a whole credential encrypted for its user
\* (Credential.swift); and the application traps only when a row is tapped
\* while the list is being reloaded (ListViewController.swift).
HardSettings ==
  /\ [](part = "sign-ins" => SignIns!SingletonIsCurrent /\ SignIns!RowOpensItself)
  /\ [](part = "foreign" => Others!PutsSound)
  /\ [][TrapsOnlyWhileLoading]_vars

\* A write whose block was called with success is in the database and was not
\* overtaken by an older one, however often all were sent again; a block is
\* called once at most (FPersistentConnection, restoreState and ackPuts).  And
\* the connection and the session on the server agree when nothing is under
\* way: the newest token counts, listens are kept, the number of unacknowledged
\* listens is right, and no reconnect is forgotten.
ConnectionIsSound ==
  /\ part = "writes" => Writes!AckedIsThere /\ Writes!CalledOnce
  /\ part = "session" =>
       /\ Session!SessionMatches /\ Session!NeverStranded
       /\ Session!CountMatches /\ Session!KeepsListens

=============================================================================
