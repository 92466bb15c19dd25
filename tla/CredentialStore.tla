--------------------------- MODULE CredentialStore ---------------------------
(***************************************************************************)
(* The Firebase Realtime Database as the application uses it: setValue     *)
(* from Credential.save() and observeSingleEvent from                      *)
(* ListViewController.reloadData(), with the client's pending writes and   *)
(* the main dispatch queue on which every callback runs.                   *)
(*                                                                         *)
(* A write is applied to the client's own view at once (FRepo set), sent   *)
(* to the server, and acknowledged later; writes are acknowledged in the   *)
(* order they were made, and never while a listen is unacknowledged        *)
(* (FPersistentConnection putsToAck).  Persistence is off: a write that is *)
(* still pending when the process dies is lost unless it had reached the   *)
(* server.                                                                 *)
(***************************************************************************)
EXTENDS Credential

CONSTANTS
  PutsMayFail,   \* the server may reject a write
  ReadsMayFail,  \* the server may reject a listen (no cancel block is given)
  Foreign,       \* children another client may store under a user's node
  MaxPuts,       \* bound: saves in flight when one more is made
  MaxReads       \* bound: reads in flight when the user causes one more

ASSUME StoreAssumption ==
  /\ PutsMayFail \in BOOLEAN
  /\ ReadsMayFail \in BOOLEAN
  /\ Foreign \subseteq RawCredentials \cup {Malformed}
  /\ MaxPuts \in Nat
  /\ MaxReads \in Nat

VARIABLES
  db,         \* the server's tree under Credentials: user -> id -> child
  puts,       \* writes not yet acknowledged, oldest first
  reads,      \* single-event listens not yet answered, oldest first
  mainQueue   \* blocks dispatched to the main queue and not yet run

storeVars == <<db, puts, reads, mainQueue>>

Children == RawCredentials \cup {Malformed, Nil}
Nodes == [Ids -> Children]

\* The view controller a write's callback is for.  "gone": that controller
\* has left the screen for good, only its callback is left of it.
Savers == {"new", "edit", "gone"}
Readers == {"list", "gone"}

Puts == [user : Users, id : Ids, child : RawCredentials, saver : Savers]
Reads == [user : Users, reader : Readers]

Blocks ==
  [type : {"authState", "authInitial", "signedIn"}]
    \cup [type : {"read"}, user : Users, node : Nodes, reader : Readers]
    \cup [type : {"put"}, ok : BOOLEAN, saver : Savers]

StoreTypeOK ==
  /\ db \in [Users -> Nodes]
  /\ puts \in Seq(Puts)
  /\ reads \in Seq(Reads)
  /\ mainQueue \in Seq(Blocks)

-----------------------------------------------------------------------------

EmptyNode == [id \in Ids |-> Nil]

StoreInit ==
  /\ db = [u \in Users |-> EmptyNode]
  /\ puts = <<>>
  /\ reads = <<>>

\* Mistake: the user's node is left out of the path.
Newest_IdOnly(i, u, id, n) ==
  /\ puts[i].id = id
  /\ \A j \in (i+1)..n : puts[j].id # id

\* Write i is the newest of the first n pending writes to (u, id).
Newest(i, u, id, n) ==
  /\ puts[i].user = u /\ puts[i].id = id
  /\ \A j \in (i+1)..n : ~(puts[j].user = u /\ puts[j].id = id)

\* The tree with the first n pending writes applied to it.
Applied(n) ==
  [u \in Users |-> [id \in Ids |->
     IF \E i \in 1..n : Newest(i, u, id, n)
     THEN puts[CHOOSE i \in 1..n : Newest(i, u, id, n)].child
     ELSE db[u][id]]]

\* What the client sees: the server's tree under all its pending writes.
LocalView == Applied(Len(puts))

\* FIRDatabaseReference setValue: one whole child is replaced.
SetValue(u, id, child, saver) ==
  puts' = Append(puts, [user |-> u, id |-> id, child |-> child,
                        saver |-> saver])

\* FIRDatabaseQuery observeSingleEvent on the user's node.
ObserveSingleEvent(u, reader) ==
  reads' = Append(reads, [user |-> u, reader |-> reader])

Dispatch(blocks) == mainQueue' = mainQueue \o blocks

\* The blocks of a type that are queued, and with them the requests whose
\* callback has not run.
Queued(type) == Cardinality({i \in DOMAIN mainQueue : mainQueue[i].type = type})
SavesInFlight == Len(puts) + Queued("put")
ReadsInFlight == Len(reads) + Queued("read")

\* When a controller goes for good, its requests and its blocks lose their
\* addressee.
OrphanSaves(q, who) ==
  [i \in DOMAIN q |->
     IF q[i].saver \in who THEN [q[i] EXCEPT !.saver = "gone"] ELSE q[i]]
OrphanReads(q) == [i \in DOMAIN q |-> [q[i] EXCEPT !.reader = "gone"]]
OrphanBlocks(q, who) ==
  [i \in DOMAIN q |->
     IF q[i].type = "put" /\ q[i].saver \in who
       THEN [q[i] EXCEPT !.saver = "gone"]
     ELSE IF q[i].type = "read" /\ "list" \in who
       THEN [q[i] EXCEPT !.reader = "gone"]
     ELSE q[i]]

-----------------------------------------------------------------------------

\* The listen's data arrives: the event is raised with the pending writes
\* applied, and its callback goes to the main queue.
AnswerRead ==
  /\ reads # <<>>
  /\ reads' = Tail(reads)
  /\ Dispatch(<<[type |-> "read", user |-> Head(reads).user,
                 node |-> LocalView[Head(reads).user],
                 reader |-> Head(reads).reader]>>)
  /\ UNCHANGED <<db, puts>>

\* The listen is rejected: reloadData() gives no cancel block, so nobody is
\* told.
DenyRead ==
  /\ ReadsMayFail
  /\ reads # <<>>
  /\ reads' = Tail(reads)
  /\ UNCHANGED <<db, puts, mainQueue>>

\* Mistake: an acknowledged write stays among the outstanding ones.
AckPut_Kept ==
  /\ puts # <<>>
  /\ reads = <<>>
  /\ db' = Applied(1)
  /\ Dispatch(<<[type |-> "put", ok |-> TRUE, saver |-> Head(puts).saver]>>)
  /\ UNCHANGED <<puts, reads>>

\* The oldest write has reached the server and is acknowledged.
AckPut ==
  /\ puts # <<>>
  /\ reads = <<>>
  /\ db' = Applied(1)
  /\ puts' = Tail(puts)
  /\ Dispatch(<<[type |-> "put", ok |-> TRUE, saver |-> Head(puts).saver]>>)
  /\ UNCHANGED reads

\* The oldest write is rejected; the client reverts it.
DenyPut ==
  /\ PutsMayFail
  /\ puts # <<>>
  /\ reads = <<>>
  /\ puts' = Tail(puts)
  /\ Dispatch(<<[type |-> "put", ok |-> FALSE, saver |-> Head(puts).saver]>>)
  /\ UNCHANGED <<db, reads>>

\* Another client writes to a user's node.
ForeignWrite(u, id, child) ==
  /\ child \in Foreign
  /\ db' = [db EXCEPT ![u][id] = child]
  /\ UNCHANGED <<puts, reads, mainQueue>>

\* The process dies with the pending writes: those the server had received
\* are kept, the others are lost.
LosePending ==
  /\ \E n \in 0..Len(puts) : db' = Applied(n)
  /\ puts' = <<>>
  /\ reads' = <<>>

=============================================================================
