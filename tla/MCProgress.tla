----------------------------- MODULE MCProgress -----------------------------
(***************************************************************************)
(* What must eventually happen, for TLC: overlays come off, writes are     *)
(* answered, calls on a database return.  A behaviour is one of one part:  *)
(* "part" says of which, and the variables of its module are in the slots  *)
(* v1, v2 and so on.  Fairness is that of the module, for the part that    *)
(* runs.                                                                   *)
(***************************************************************************)
EXTENDS Integers, Sequences

CONSTANTS
  alice, bob, null, NotBase64, Malformed, q1, p1, w1, w2, m1

VARIABLES
  part,   \* the part that runs; it never changes
  v1, v2, v3, v4, v5, v6, v7, v8, v9, v10, v11, v12, v13, v14, v15, v16, v17, v18, v19,
  v20, v21, v22, v23, v24, v25

vars == <<part, v1, v2, v3, v4, v5, v6, v7, v8, v9, v10, v11, v12, v13, v14, v15, v16, v17, v18,
          v19, v20, v21, v22, v23, v24, v25>>

joe == <<"joe">>
web == <<"web">>
gen == <<"gen">>

-----------------------------------------------------------------------------
(* The parts                                                               *)

\* For constants of machines that do not run here.
NotUsed == {}

\* Two users; writes are denied or acknowledged.
App == INSTANCE PasswordManager WITH
  Users <- {alice, bob}, Usernames <- {joe}, Websites <- {web}, Passwords <- {gen},
  Emails <- {joe}, Urls <- {web}, Generated <- {gen}, NotBase64 <- NotBase64,
  Malformed <- Malformed, Nil <- null, PutsMayFail <- TRUE, ReadsMayFail <- FALSE,
  Foreign <- {}, MaxPuts <- 1, MaxReads <- 1, MaxSignIns <- 1,
  db <- v1, puts <- v2, reads <- v3, mainQueue <- v4, screen <- v5, tab <- v6,
  pushed <- v7, overlay <- v8, instance <- v9, crashed <- v10, list <- v11, form <- v12,
  auth <- v13, signIns <- v14

\* Signing in and up, and changing the password, with forced sign-outs.
Forms == INSTANCE AccountForms WITH
  Users <- {"u1", "u2"}, Texts <- {"a", "b"}, MaxForced <- 2,
  screen <- v1, field <- v2, enabled <- v3, user <- v4, listened <- v5, overlay <- v6,
  request <- v7, forced <- v8

\* Writes and transactions; the connection is lost once.
Connection == INSTANCE PersistentConnection WITH
  Queries <- {q1}, Paths <- {p1}, Tokens <- {1}, Reasons <- {}, Calls <- {"hash"},
  MaxPuts <- 2, MaxSpecs <- 1, MaxTokens <- 1, MaxDrops <- 1,
  c <- v1, server <- v2, want <- v3, refused <- v4, used <- v5

\* Two writers and a manual compaction; every write fills the memtable and one
\* file at level 0 stops writers.
DB == INSTANCE DBThreads WITH
  Writers <- {w1, w2}, Manuals <- {m1}, BufferSize <- 0, MaxGroup <- 2, L0Trigger <- 1,
  L0Slowdown <- 1, L0Stop <- 1, MaxWrites <- 2, MaxManual <- 1, MaxFiles <- 1,
  MayFail <- {}, Nil <- null,
  writers <- v1, w <- v2, pc <- v3, signalled <- v4, bgWait <- v5, mem <- v6, imm <- v7,
  log <- v8, oldLogs <- v9, lastSeq <- v10, scheduled <- v11, bgError <- v12,
  shutting <- v13, manual <- v14, done <- v15, todo <- v16, l0 <- v17, inputs <- v18,
  bg <- v19, tables <- v20, calls <- v21, manuals <- v22, acked <- v23, syncFailed <- v24,
  forced <- v25

\* A reader searches while a writer inserts.
List == INSTANCE SkipList WITH
  N <- 2, MaxHeight <- 2,
  mem <- v1, seen <- v2, dirty <- v3, ins <- v4, published <- v5, rd <- v6

\* Work for the background thread.
Env == INSTANCE PosixEnv WITH
  Processes <- NotUsed, Threads <- NotUsed, None <- NotUsed, Actors <- NotUsed,
  MmapLimit <- NotUsed, FdLimit <- NotUsed, MaxItems <- 2, Kinds <- NotUsed,
  MaxPieces <- NotUsed, MaxCrashes <- NotUsed, Manifests <- NotUsed, Length <- NotUsed,
  FragmentSize <- NotUsed, MaxKills <- NotUsed,
  locked <- v1, listed <- v2, lockPc <- v3, allowed <- v1, readPc <- v2, fds <- v3,
  maps <- v4, started <- v1, bg <- v2, queue <- v3, item <- v4, calls <- v5, ran <- v6,
  kind <- v1, open <- v2, named <- v3, buf <- v4, kernel <- v5, disk <- v6, sync <- v7,
  safe <- v8, flushed <- v9, gone <- v10, failed <- v11, next <- v12, crashes <- v13,
  current <- v1, tmp <- v2, setPc <- v3, manifest <- v4, tmpBuf <- v5, setOk <- v6,
  was <- v7, read <- v8, kills <- v9

-----------------------------------------------------------------------------

\* What a part with so many variables leaves alone.
Rest5 == <<part, v6, v7, v8, v9, v10, v11, v12, v13, v14, v15, v16, v17, v18, v19, v20, v21, v22,
            v23, v24, v25>>
Rest6 == <<part, v7, v8, v9, v10, v11, v12, v13, v14, v15, v16, v17, v18, v19, v20, v21, v22, v23,
            v24, v25>>
Rest8 == <<part, v9, v10, v11, v12, v13, v14, v15, v16, v17, v18, v19, v20, v21, v22, v23, v24, v25>>
Rest14 == <<part, v15, v16, v17, v18, v19, v20, v21, v22, v23, v24, v25>>
Off14 == v15 = 0 /\ v16 = 0 /\ v17 = 0 /\ v18 = 0 /\ v19 = 0 /\ v20 = 0 /\ v21 = 0 /\
  v22 = 0 /\ v23 = 0 /\ v24 = 0 /\ v25 = 0
Off8 == v9 = 0 /\ v10 = 0 /\ v11 = 0 /\ v12 = 0 /\ v13 = 0 /\ v14 = 0 /\ Off14
Off6 == v7 = 0 /\ v8 = 0 /\ Off8
Off5 == v6 = 0 /\ Off6

Init ==
  \/ part = "app" /\ App!Init /\ Off14
  \/ part = "forms" /\ Forms!Init /\ Off8
  \/ part = "connection" /\ Connection!Init /\ Off5
  \/ part = "db" /\ DB!Init
  \/ part = "list" /\ List!Init /\ Off6
  \/ part = "env" /\ Env!ThreadInit /\ Off6

Next ==
  \/ part = "app" /\ App!Next /\ UNCHANGED Rest14
  \/ part = "forms" /\ Forms!Next /\ UNCHANGED Rest8
  \/ part = "connection" /\ Connection!Next /\ UNCHANGED Rest5
  \/ part = "db" /\ DB!Next /\ UNCHANGED part
  \/ part = "list" /\ List!Next /\ UNCHANGED Rest6
  \/ part = "env" /\ Env!ThreadNext /\ UNCHANGED Rest6

Spec == Init /\ [][Next]_vars

\* The main queue runs, the database and the authentication servers answer.
AppFairness ==
  /\ WF_vars(part = "app" /\ App!Main /\ UNCHANGED Rest14)
  /\ WF_vars(part = "app" /\ App!AnswerRead /\ App!DatabaseOnly /\ UNCHANGED Rest14)
  /\ WF_vars(part = "app" /\ (App!AckPut \/ App!DenyPut) /\ App!DatabaseOnly /\ UNCHANGED Rest14)
  /\ WF_vars(part = "app" /\ 1 \in DOMAIN v14 /\ App!CompleteSignIn(1) /\ UNCHANGED Rest14)

\* FIRAuth answers every request, in the end with a completion.
FormsFairness ==
  WF_vars(part = "forms" /\ (\E ok, known \in BOOLEAN : Forms!Complete(ok, known)) /\ UNCHANGED Rest8)

\* The repo opens the connection; the queue runs what was put on it; sockets
\* open and the server answers unless the connection is lost.
ConnectionFairness ==
  /\ WF_vars(part = "connection" /\ Connection!Resume("waiting_for_open") /\ UNCHANGED Rest5)
  /\ WF_vars(part = "connection" /\ Connection!RetryFires /\ UNCHANGED Rest5)
  /\ WF_vars(part = "connection" /\ Connection!OnReady /\ UNCHANGED Rest5)
  /\ WF_vars(part = "connection" /\ Connection!Receive /\ UNCHANGED Rest5)
  /\ WF_vars(part = "connection" /\ (\E f \in v1.fetches : Connection!TokenFetched(f))
               /\ UNCHANGED Rest5)
  /\ WF_vars(part = "connection" /\ UNCHANGED Rest5
               /\ (\E status \in Connection!Refusals : Connection!Serve(status)))

\* Every thread that can take a step eventually does, the background thread
\* included.  Nobody has to call.
DBFairness ==
  /\ \A t \in {w1, w2, m1} : WF_vars(part = "db" /\ DB!WriterStep(t) /\ UNCHANGED part)
  /\ WF_vars(part = "db" /\ DB!ManualStep(m1) /\ UNCHANGED part)
  /\ WF_vars(part = "db" /\ DB!BgStep /\ UNCHANGED part)

\* The thread of the reader goes on; the background thread goes on, and the
\* functions it runs return.
ThreadFairness ==
  /\ WF_vars(part = "list" /\ List!Read /\ UNCHANGED Rest6)
  /\ WF_vars(part = "env" /\ Env!BGThread /\ UNCHANGED Rest6)

FairSpec ==
  /\ Spec
  /\ AppFairness /\ FormsFairness /\ ConnectionFairness /\ DBFairness /\ ThreadFairness

-----------------------------------------------------------------------------

\* What the modules assume of their constants.
ASSUME Assumptions ==
  /\ DB!ThreadsAssumption
  /\ List!SizesAssumption

-----------------------------------------------------------------------------
(* Properties                                                              *)

\* An overlay comes off again, whatever the server answers, with one exception:
\* the password of nobody is to be changed, after FIRAuth has signed the user out
\* (Authentication.swift, resetPassword).
OverlaysComeOff ==
  /\ (part = "app" /\ v8) ~> (part = "app" /\ ~v8)
  /\ (part = "forms" /\ v6) ~> (part = "forms" /\ (~v6 \/ Forms!ResetOfNobody))

\* The block of every write is called in the end, although connections are lost
\* and acknowledgements wait for listens (FPersistentConnection, ackPuts).
WritesAreAnswered ==
  \A i \in 1..2 :
    (part = "connection" /\ v5.puts >= i) ~> (part = "connection" /\ v1.called[i] # <<>>)

\* Calls return: writers, CompactRange and the background thread never all wait
\* for each other (db_impl.cc), a search of the skip list ends although nodes are
\* inserted meanwhile (skiplist.h), and what is scheduled runs (env_posix.cc).
\* What holds for one writer holds for the other: they are interchangeable.
CallsReturn ==
  /\ \A t \in {w1, m1} :
       (part = "db" /\ v3[t] # "idle") ~> (part = "db" /\ v3[t] = "idle")
  /\ (part = "list" /\ v6.pc = "search") ~> (part = "list" /\ v6.pc # "search")
  /\ \A i \in 1..2 : (part = "env" /\ Len(v5) >= i) ~> (part = "env" /\ Len(v6) >= i)

=============================================================================
