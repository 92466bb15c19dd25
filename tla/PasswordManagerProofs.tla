----------------------- MODULE PasswordManagerProofs -----------------------
(***************************************************************************)
(* Proofs about PasswordManager, for every value of the constants.         *)
(*                                                                         *)
(* Type correctness comes first, with the facts about sequences, orphaned  *)
(* requests, pending writes and the list's callback that the other proofs  *)
(* use as well.                                                            *)
(*                                                                         *)
(* SaveNeverSilent is not inductive: the edit form never validates the     *)
(* credential it is given.  The invariant that carries the proof follows a *)
(* credential around the whole circle: what save() sends is valid, so what *)
(* is stored is, so what a read's callback will find is, so what the list  *)
(* hands to the edit form is.  That what a callback finds can be decrypted *)
(* keeps the three arrays of the list in step, too.                        *)
(*                                                                         *)
(* FieldsMatch is proved for every form, on the screen or off it.          *)
(* SingletonIsCurrent rests on what the singleton's listener has seen: it  *)
(* is behind FIRAuth only while one of the listeners' blocks is queued.    *)
(*                                                                         *)
(* EditsWhatWasRead and ListShowsStore need to know whose answers are      *)
(* still to come.  Behind a login screen nothing is left of the last tab   *)
(* bar (FreshInv), so the callbacks that find a list or a form find that   *)
(* of the user they were asked for; and of the reloads of a list on the    *)
(* screen, the last one to be answered carries what the client sees        *)
(* (CurrentInv).  Both fail when two sign-ins overlap.                     *)
(*                                                                         *)
(* Last comes the refinement: PasswordManager implements Vault.            *)
(***************************************************************************)
EXTENDS PasswordManager, SequenceTheorems, FiniteSetTheorems,
        WellFoundedInduction, TLAPS

-----------------------------------------------------------------------------
(* Sequences built element by element *)

\* A sequence mapped into a set is a sequence over that set.
LEMMA MapSeq ==
  ASSUME NEW S, NEW T, NEW q \in Seq(S), NEW f,
         f = [i \in DOMAIN q |-> f[i]],
         \A i \in DOMAIN q : f[i] \in T
  PROVE  f \in Seq(T) /\ Len(f) = Len(q)
<1>1. Len(q) \in Nat /\ DOMAIN q = 1..Len(q)
  BY LenProperties
<1>2. f \in [1..Len(q) -> T]
  BY <1>1
<1> QED
  BY <1>1, <1>2, SeqDef, SMT

\* Orphaning keeps the type of the requests and blocks it is applied to.
LEMMA OrphanTypes ==
  ASSUME NEW who
  PROVE  /\ \A q \in Seq(Puts) : OrphanSaves(q, who) \in Seq(Puts)
         /\ \A q \in Seq(Reads) : OrphanReads(q) \in Seq(Reads)
         /\ \A q \in Seq(Blocks) : OrphanBlocks(q, who) \in Seq(Blocks)
<1>1. ASSUME NEW q \in Seq(Puts)
      PROVE  OrphanSaves(q, who) \in Seq(Puts)
  <2> DEFINE f == OrphanSaves(q, who)
  <2>1. \A i \in DOMAIN q : q[i] \in Puts
    BY ElementOfSeq, LenProperties
  <2>2. \A i \in DOMAIN q : f[i] \in Puts
    BY <2>1 DEF OrphanSaves, Puts, Savers
  <2>3. f = [i \in DOMAIN q |-> f[i]]
    BY DEF OrphanSaves
  <2> QED
    BY <2>2, <2>3, MapSeq
<1>2. ASSUME NEW q \in Seq(Reads)
      PROVE  OrphanReads(q) \in Seq(Reads)
  <2> DEFINE f == OrphanReads(q)
  <2>1. \A i \in DOMAIN q : q[i] \in Reads
    BY ElementOfSeq, LenProperties
  <2>2. \A i \in DOMAIN q : f[i] \in Reads
    BY <2>1 DEF OrphanReads, Reads, Readers
  <2>3. f = [i \in DOMAIN q |-> f[i]]
    BY DEF OrphanReads
  <2> QED
    BY <2>2, <2>3, MapSeq
<1>3. ASSUME NEW q \in Seq(Blocks)
      PROVE  OrphanBlocks(q, who) \in Seq(Blocks)
  <2> DEFINE f == OrphanBlocks(q, who)
  <2>1. \A i \in DOMAIN q : q[i] \in Blocks
    BY ElementOfSeq, LenProperties
  <2>2. \A i \in DOMAIN q : f[i] \in Blocks
    BY <2>1 DEF OrphanBlocks, Blocks, Savers, Readers
  <2>3. f = [i \in DOMAIN q |-> f[i]]
    BY DEF OrphanBlocks
  <2> QED
    BY <2>2, <2>3, MapSeq
<1> QED
  BY <1>1, <1>2, <1>3

\* Applying pending writes gives a tree.
LEMMA AppliedType ==
  ASSUME StoreTypeOK, NEW n \in 0..Len(puts)
  PROVE  Applied(n) \in [Users -> Nodes]
<1>1. \A i \in 1..n : puts[i].child \in Children
  <2>1. puts \in Seq(Puts) /\ Len(puts) \in Nat
    BY LenProperties DEF StoreTypeOK
  <2>2. \A i \in 1..n : puts[i] \in Puts
    BY <2>1, ElementOfSeq
  <2> QED
    BY <2>2 DEF Puts, Children
<1>2. \A u \in Users, id \in Ids : db[u][id] \in Children
  BY DEF StoreTypeOK, Nodes
<1>3. ASSUME NEW u \in Users, NEW id \in Ids
      PROVE  (IF \E i \in 1..n : Newest(i, u, id, n)
              THEN puts[CHOOSE i \in 1..n : Newest(i, u, id, n)].child
              ELSE db[u][id]) \in Children
  BY <1>1, <1>2
<1> QED
  BY <1>3 DEF Applied, Nodes

-----------------------------------------------------------------------------
(* The callback of a read *)

\* What decrypts is a credential.
LEMMA DecryptedType ==
  ASSUME NEW raw \in RawCredentials, NEW key, DecryptOutcome(raw, key) = "ok"
  PROVE  /\ Decrypted(raw) \in Credentials
         /\ raw.username # Nil /\ raw.website # Nil /\ raw.password # Nil
<1>1. Nil \notin {raw.username, raw.password, raw.website}
  BY DEF DecryptOutcome
<1>2. /\ FieldOutcome(raw.username, key) = "ok"
      /\ FieldOutcome(raw.password, key) = "ok"
      /\ FieldOutcome(raw.website, key) = "ok"
  BY <1>1 DEF DecryptOutcome
<1>3. NotBase64 \notin {raw.username, raw.password, raw.website}
  BY <1>2 DEF FieldOutcome
<1>4. /\ raw.username \in Ciphers(Usernames)
      /\ raw.website \in Ciphers(Websites)
      /\ raw.password \in Ciphers(Passwords)
  BY <1>1, <1>3 DEF RawCredentials
<1> QED
  BY <1>1, <1>4 DEF Decrypted, Credentials, Ciphers

\* The keys come as a sequence of ids that have a child.
LEMMA KeysType ==
  ASSUME NEW node \in Nodes, NEW keys \in KeyOrders(node)
  PROVE  /\ keys \in Seq(Ids)
         /\ \A i \in 1..Len(keys) : node[keys[i]] # Nil
<1> DEFINE K == {id \in Ids : node[id] # Nil}
<1>1. Cardinality(K) \in Nat
  BY IdsAssumption, FS_Subset, FS_CardinalityType, K \in SUBSET Ids
<1>2. keys \in [1..Cardinality(K) -> K]
  BY DEF KeyOrders, Injection
<1>3. keys \in Seq(K)
  BY <1>1, <1>2, SeqDef
<1>4. keys \in Seq(Ids)
  BY <1>3, SeqMonotonic, K \subseteq Ids
<1>5. \A i \in 1..Len(keys) : keys[i] \in K
  BY <1>3, ElementOfSeq
<1> QED
  BY <1>4, <1>5

\* The list is left alone, or filled with credentials decrypted from children
\* of the node.
Filled(node, u) ==
  \/ list' = list
  \/ \E creds \in Seq(Entries), ids \in Seq(Ids), rows \in Seq(Entries) :
       /\ list' = [list EXCEPT !.credentials = creds, !.credentialIDs = ids,
                               !.rows = rows]
       /\ rows = creds \/ rows = list.rows
       /\ \A i \in DOMAIN creds : \E id \in Ids :
            /\ node[id] \in RawCredentials
            /\ node[id] # Nil
            /\ creds[i] = Entry(node, u, id)

\* That is what the callback does.
LEMMA SnapshotFacts ==
  ASSUME TypeOK, NEW node \in Nodes, NEW u \in Users, NEW reader,
         OnSnapshot(node, u, reader)
  PROVE  /\ overlay' \in BOOLEAN
         /\ crashed' \in BOOLEAN
         /\ Filled(node, u)
<1> DEFINE key == uidHash(instance.user)
<1>1. CASE /\ \A id \in Ids : node[id] = Nil
           /\ overlay' = FALSE
           /\ UNCHANGED <<list, crashed>>
  BY <1>1 DEF TypeOK, WindowTypeOK, Filled
<1>2. ASSUME NEW keys \in KeyOrders(node), NEW n \in 0..Len(keys),
             crashed' = (LoopEnd(node, keys, key, n) = "trap"),
             overlay' = (overlay /\ LoopEnd(node, keys, key, n) # "done"),
             NEW good \in Increasing(Decrypting(node, keys, key, n)),
             list' = LET creds == [i \in DOMAIN good |->
                                     Entry(node, u, keys[good[i]])]
                     IN  IF reader # "list" THEN list
                         ELSE [list EXCEPT
                                 !.credentials = creds,
                                 !.credentialIDs = KeptIDs(keys, n),
                                 !.rows = IF LoopEnd(node, keys, key, n)
                                               = "done"
                                          THEN creds ELSE @]
      PROVE  /\ overlay' \in BOOLEAN
             /\ crashed' \in BOOLEAN
             /\ Filled(node, u)
  <2> DEFINE G == Decrypting(node, keys, key, n)
             creds == [i \in DOMAIN good |-> Entry(node, u, keys[good[i]])]
             ids == KeptIDs(keys, n)
             rows == IF LoopEnd(node, keys, key, n) = "done"
                     THEN creds ELSE list.rows
  <2>1. /\ keys \in Seq(Ids)
        /\ \A i \in 1..Len(keys) : node[keys[i]] # Nil
    BY KeysType
  <2>2. Len(keys) \in Nat /\ \A i \in 1..Len(keys) : keys[i] \in Ids
    BY <2>1, LenProperties, ElementOfSeq
  <2>3. IsFiniteSet(G) /\ G \in SUBSET (1..n)
    <3>1. n \in Int /\ 1 \in Int
      BY <2>2
    <3>2. IsFiniteSet(1..n)
      BY <3>1, FS_Interval
    <3>3. G \in SUBSET (1..n)
      BY DEF Decrypting
    <3> QED
      BY <3>2, <3>3, FS_Subset
  <2>4. Cardinality(G) \in Nat /\ good \in [1..Cardinality(G) -> G]
    BY <2>3, FS_CardinalityType DEF Increasing, Injection
  <2>5. \A i \in DOMAIN good :
          /\ keys[good[i]] \in Ids
          /\ node[keys[good[i]]] # Nil
          /\ ChildOutcome(node[keys[good[i]]], key) = "ok"
    <3>1. \A i \in DOMAIN good : good[i] \in G
      BY <2>4
    <3>2. \A j \in G : j \in 1..Len(keys)
      BY <2>2, <2>3
    <3>3. \A j \in G : ChildOutcome(node[keys[j]], key) = "ok"
      BY DEF Decrypting
    <3> HIDE DEF G
    <3> QED
      BY <2>1, <2>2, <3>1, <3>2, <3>3
  <2>6. \A i \in DOMAIN good :
          /\ node[keys[good[i]]] \in RawCredentials
          /\ DecryptOutcome(node[keys[good[i]]], key) = "ok"
    BY <2>5 DEF Nodes, Children, ChildOutcome
  <2>7. \A i \in DOMAIN good : Entry(node, u, keys[good[i]]) \in Entries
    BY <2>5, <2>6, DecryptedType DEF Entry, Entries, Paths
  <2>8. creds \in [1..Cardinality(G) -> Entries]
    BY <2>4, <2>7
  <2>9. creds \in Seq(Entries)
    BY <2>4, <2>8, SeqDef
  <2>10. ids \in Seq(Ids)
    <3>1. \A i \in 1..n : keys[i] \in Ids
      BY <2>2
    <3> QED
      BY <3>1, SubSeqProperties DEF KeptIDs
  <2>11. list.rows \in Seq(Entries) /\ rows \in Seq(Entries)
    BY <2>9 DEF TypeOK, ListTypeOK
  <2>12. \A i \in DOMAIN creds : \E id \in Ids :
           /\ node[id] \in RawCredentials
           /\ node[id] # Nil
           /\ creds[i] = Entry(node, u, id)
    BY <2>5, <2>6
  <2>13. list' = list \/ list' = [list EXCEPT !.credentials = creds,
                                  !.credentialIDs = ids, !.rows = rows]
    BY <1>2
  <2>14. overlay' \in BOOLEAN /\ crashed' \in BOOLEAN
    BY <1>2
  <2>15. rows = creds \/ rows = list.rows
    OBVIOUS
  <2> HIDE DEF creds, ids, rows
  <2>16. Filled(node, u)
    BY <2>9, <2>10, <2>11, <2>12, <2>13, <2>15, Zenon DEF Filled
  <2> QED
    BY <2>14, <2>16
<1> QED
  BY <1>1, <1>2, Zenon DEF OnSnapshot

-----------------------------------------------------------------------------
(* The controllers' operators *)

ListRecords ==
  [credentials : Seq(Entries), credentialIDs : Seq(Ids), rows : Seq(Entries),
   observing : BOOLEAN]

FormRecords ==
  [credential : Credentials, fields : Texts, canSave : BOOLEAN,
   credId : Ids \cup {Nil}, origin : Paths \cup {Nil}]

Instances ==
  [exists : BOOLEAN, user : Users \cup {Nil}, seen : Users \cup {Nil}]

SignInRequests == [user : Users, posted : BOOLEAN]

\* A form is a form after every operation on it.
LEMMA FormTypes ==
  /\ NewForm \in FormRecords
  /\ \A f \in FormRecords : validateCredentials(f) \in FormRecords
  /\ \A f \in FormRecords, p \in Passwords :
       regeneratePassword(f, p) \in FormRecords
  /\ \A f \in FormRecords : EditWillAppear(f) \in FormRecords
<1>1. NewForm \in FormRecords
  BY DEF NewForm, FormRecords, NewCredential, Credentials, EmptyFields, Texts
<1>2. ASSUME NEW f \in FormRecords
      PROVE  validateCredentials(f) \in FormRecords
  <2>1. validate(f.credential) \in BOOLEAN
    BY DEF validate
  <2>2. \A b \in BOOLEAN : [f EXCEPT !.canSave = b] \in FormRecords
    BY DEF FormRecords
  <2> QED
    BY <2>1, <2>2 DEF validateCredentials
<1>3. \A f \in FormRecords, p \in Passwords :
        regeneratePassword(f, p) \in FormRecords
  BY DEF FormRecords, regeneratePassword, Credentials, Texts
<1>4. ASSUME NEW f \in FormRecords
      PROVE  EditWillAppear(f) \in FormRecords
  <2> DEFINE t == [username |-> FieldText(f.credential.username),
                   website  |-> FieldText(f.credential.website),
                   password |-> FieldText(f.credential.password)]
  <2>1. t \in Texts
    BY DEF FormRecords, Credentials, FieldText, Texts
  <2>2. EditWillAppear(f) = [f EXCEPT !.fields = t]
    BY DEF EditWillAppear
  <2> HIDE DEF t
  <2> QED
    BY <2>1, <2>2 DEF FormRecords
<1> QED
  BY <1>1, <1>2, <1>3, <1>4

\* A credential opened from a row makes a form.
LEMMA EditForType ==
  ASSUME NEW entry \in Entries, NEW id \in Ids
  PROVE  editFor(entry, id) \in FormRecords
<1> DEFINE f == [NewForm EXCEPT !.credential = entry.cred, !.credId = id,
                                !.origin = entry.path]
<1>1. f \in FormRecords
  BY FormTypes DEF FormRecords, Entries
<1>2. editFor(entry, id) = EditWillAppear(f)
  BY DEF editFor
<1> HIDE DEF f
<1> QED
  BY <1>1, <1>2, FormTypes

\* Typing keeps a form a form.
LEMMA TypedType ==
  ASSUME NEW f \in FormRecords
  PROVE  /\ \A t \in Usernames : Typed(f, "username", t) \in FormRecords
         /\ \A t \in Websites : Typed(f, "website", t) \in FormRecords
         /\ \A t \in Passwords : Typed(f, "password", t) \in FormRecords
<1>1. ASSUME NEW t \in Usernames
      PROVE  [f EXCEPT !.fields["username"] = t, !.credential["username"] = t]
               \in FormRecords
  BY DEF FormRecords, Credentials, Texts
<1>2. ASSUME NEW t \in Websites
      PROVE  [f EXCEPT !.fields["website"] = t, !.credential["website"] = t]
               \in FormRecords
  BY DEF FormRecords, Credentials, Texts
<1>3. ASSUME NEW t \in Passwords
      PROVE  [f EXCEPT !.fields["password"] = t, !.credential["password"] = t]
               \in FormRecords
  BY DEF FormRecords, Credentials, Texts
<1> QED
  BY <1>1, <1>2, <1>3, FormTypes DEF Typed

\* The new tab's form as it appears.
LEMMA NewAppearsType ==
  ASSUME EditorTypeOK, NEW p \in Passwords
  PROVE  NewWillAppear(p) \in FormRecords
<1> DEFINE f == [form["new"] EXCEPT !.fields = EmptyFields,
                                    !.credential = NewCredential]
<1>1. form["new"] \in FormRecords
  BY DEF EditorTypeOK, FormRecords, Forms
<1>2. f \in FormRecords
  BY <1>1 DEF FormRecords, NewCredential, Credentials, EmptyFields, Texts
<1>3. NewWillAppear(p) = validateCredentials(regeneratePassword(f, p))
  BY DEF NewWillAppear
<1> HIDE DEF f
<1> QED
  BY <1>2, <1>3, FormTypes

\* The list's appearance.
LEMMA AppearsType ==
  ASSUME StoreTypeOK, NEW l \in ListRecords, NEW u \in Users \cup {Nil},
         NEW covered \in BOOLEAN, ListWillAppear(l, u, covered)
  PROVE  /\ list' \in ListRecords
         /\ overlay' \in BOOLEAN
         /\ reads' \in Seq(Reads)
<1>1. list' \in ListRecords
  <2>1. <<>> \in Seq(Entries)
    BY EmptySeq
  <2> QED
    BY <2>1 DEF ListWillAppear, ListRecords
<1>2. CASE u = Nil
  BY <1>1, <1>2 DEF ListWillAppear, StoreTypeOK
<1>3. CASE u \in Users
  <2>1. u # Nil
    BY <1>3, NilAssumption
  <2>2. [user |-> u, reader |-> "list"] \in Reads
    BY <1>3 DEF Reads, Readers
  <2>3. Append(reads, [user |-> u, reader |-> "list"]) \in Seq(Reads)
    BY <2>2, AppendProperties DEF StoreTypeOK
  <2> QED
    BY <1>1, <2>1, <2>3 DEF ListWillAppear, reloadData, ObserveSingleEvent
<1> QED
  BY <1>2, <1>3

-----------------------------------------------------------------------------
(* Type correctness *)

\* TypeOK, variable by variable.
Typing ==
  /\ db \in [Users -> Nodes]
  /\ puts \in Seq(Puts)
  /\ reads \in Seq(Reads)
  /\ mainQueue \in Seq(Blocks)
  /\ screen \in {"login", "main"}
  /\ tab \in Tabs
  /\ pushed \in BOOLEAN
  /\ overlay \in BOOLEAN
  /\ instance \in Instances
  /\ crashed \in BOOLEAN
  /\ list \in ListRecords
  /\ form \in [Forms -> FormRecords]
  /\ auth \in Users \cup {Nil}
  /\ signIns \in Seq(SignInRequests)

\* It says the same as TypeOK, in a state and in the next one.
LEMMA TypingIsTypeOK == (Typing <=> TypeOK) /\ (Typing' <=> TypeOK')
BY DEF Typing, TypeOK, StoreTypeOK, WindowTypeOK, ListTypeOK, EditorTypeOK,
       ListRecords, FormRecords, Instances, SignInRequests

\* The blocks and requests the actions make.
LEMMA BlockTypes ==
  /\ AuthState \in Blocks /\ AuthInitial \in Blocks /\ SignedIn \in Blocks
  /\ \A ok \in BOOLEAN, saver \in Savers :
       [type |-> "put", ok |-> ok, saver |-> saver] \in Blocks
  /\ \A u \in Users, node \in Nodes, reader \in Readers :
       [type |-> "read", user |-> u, node |-> node, reader |-> reader]
         \in Blocks
BY DEF AuthState, AuthInitial, SignedIn, Blocks

\* A launch queue is a queue, and so is one with a block dispatched to it.
LEMMA QueueTypes ==
  /\ \A u : LaunchQueue(u) \in Seq(Blocks)
  /\ \A q \in Seq(Blocks), b \in Blocks : q \o <<b>> \in Seq(Blocks)
<1>1. \A b \in Blocks : <<b>> \in Seq(Blocks)
  OBVIOUS
<1>2. <<>> \in Seq(Blocks)
  BY EmptySeq
<1>3. \A u : LaunchQueue(u) \in Seq(Blocks)
  <2>1. <<AuthState>> \in Seq(Blocks)
    BY <1>1, BlockTypes
  <2> QED
    BY <1>2, <2>1, Zenon DEF LaunchQueue
<1>4. \A q \in Seq(Blocks), b \in Blocks : q \o <<b>> \in Seq(Blocks)
  BY <1>1, ConcatProperties
<1> QED
  BY <1>3, <1>4

\* A list and a form as they are made.
LEMMA FreshTypes ==
  /\ NewList \in ListRecords
  /\ [v \in Forms |-> NewForm] \in [Forms -> FormRecords]
<1>1. <<>> \in Seq(Entries) /\ <<>> \in Seq(Ids)
  BY EmptySeq
<1> QED
  BY <1>1, FormTypes DEF NewList, ListRecords

\* A process that starts is well typed.
LEMMA InitTyping == Init => Typing
<1>1. EmptyNode \in Nodes
  BY DEF EmptyNode, Nodes, Children
<1>2. /\ <<>> \in Seq(Puts) /\ <<>> \in Seq(Reads)
      /\ <<>> \in Seq(SignInRequests)
  BY EmptySeq
<1>3. [exists |-> FALSE, user |-> Nil, seen |-> Nil] \in Instances
  BY DEF Instances
<1>4. [u \in Users |-> EmptyNode] \in [Users -> Nodes]
  BY <1>1
<1>5. "list" \in Tabs /\ "login" \in {"login", "main"}
  BY DEF Tabs
<1> QED
  BY <1>2, <1>3, <1>4, <1>5, QueueTypes, FreshTypes, Zenon
  DEF Init, StoreInit, WindowInit, Typing

\* Requests and queue after the actions of the database.
LEMMA ServerTyping ==
  ASSUME Typing, Server
  PROVE  Typing'
<1> USE DEF Typing
<1>0. StoreTypeOK
  BY DEF StoreTypeOK
<1>1. CASE AnswerRead /\ DatabaseOnly
  <2>1. Head(reads) \in Reads /\ Tail(reads) \in Seq(Reads)
    BY <1>1, HeadTailProperties DEF AnswerRead
  <2>2. 0 <= Len(puts) /\ Len(puts) \in 0..Len(puts)
    BY LenProperties
  <2>3. LocalView \in [Users -> Nodes]
    BY <1>0, <2>2, AppliedType DEF LocalView
  <2>4. mainQueue' \in Seq(Blocks)
    <3> DEFINE b == [type |-> "read", user |-> Head(reads).user,
                     node |-> LocalView[Head(reads).user],
                     reader |-> Head(reads).reader]
    <3>1. b \in Blocks
      BY <2>1, <2>3, BlockTypes DEF Reads
    <3>2. mainQueue' = mainQueue \o <<b>>
      BY <1>1 DEF AnswerRead, Dispatch
    <3> HIDE DEF b
    <3> QED
      BY <3>1, <3>2, QueueTypes
  <2> QED
    BY <1>1, <2>1, <2>4 DEF AnswerRead, DatabaseOnly, windowVars, authVars
<1>2. CASE DenyRead /\ DatabaseOnly
  BY <1>2, HeadTailProperties DEF DenyRead, DatabaseOnly, windowVars, authVars
<1>3. CASE AckPut /\ DatabaseOnly
  <2>1. Head(puts) \in Puts /\ Tail(puts) \in Seq(Puts) /\ 1 \in 0..Len(puts)
    <3>1. Len(puts) \in Nat \ {0}
      BY <1>3, EmptySeq DEF AckPut
    <3> QED
      BY <1>3, <3>1, HeadTailProperties DEF AckPut
  <2>2. db' \in [Users -> Nodes]
    BY <1>0, <1>3, <2>1, AppliedType DEF AckPut
  <2>3. mainQueue' \in Seq(Blocks)
    BY <1>3, <2>1, BlockTypes, QueueTypes DEF AckPut, Dispatch, Puts
  <2> QED
    BY <1>3, <2>1, <2>2, <2>3 DEF AckPut, DatabaseOnly, windowVars, authVars
<1>4. CASE DenyPut /\ DatabaseOnly
  <2>1. Head(puts) \in Puts /\ Tail(puts) \in Seq(Puts)
    BY <1>4, HeadTailProperties DEF DenyPut
  <2>2. mainQueue' \in Seq(Blocks)
    BY <1>4, <2>1, BlockTypes, QueueTypes DEF DenyPut, Dispatch, Puts
  <2> QED
    BY <1>4, <2>1, <2>2 DEF DenyPut, DatabaseOnly, windowVars, authVars
<1>5. ASSUME NEW u \in Users, NEW id \in Ids, NEW child \in Foreign,
             ForeignWrite(u, id, child), DatabaseOnly
      PROVE  Typing'
  <2>1. child \in Children
    BY StoreAssumption DEF Children
  <2>2. db' \in [Users -> Nodes]
    BY <1>5, <2>1 DEF ForeignWrite, Nodes
  <2> QED
    BY <1>5, <2>2 DEF ForeignWrite, DatabaseOnly, windowVars, authVars
<1>6. ASSUME NEW i \in DOMAIN signIns, SignInSucceeds(i)
      PROVE  Typing'
  <2>1. i \in 1..Len(signIns)
    BY LenProperties
  <2>2. signIns[i] \in SignInRequests
    BY <2>1, ElementOfSeq
  <2>3. [signIns[i] EXCEPT !.posted = TRUE] \in SignInRequests
    BY <2>2 DEF SignInRequests
  <2>4. signIns' \in Seq(SignInRequests)
    BY <1>6, <2>1, <2>3, ExceptSeq DEF SignInSucceeds
  <2>5. mainQueue' \in Seq(Blocks)
    BY <1>6, BlockTypes, QueueTypes DEF SignInSucceeds, Dispatch
  <2> QED
    BY <1>6, <2>2, <2>4, <2>5 DEF SignInSucceeds, windowVars, SignInRequests
<1>7. ASSUME NEW i \in DOMAIN signIns, CompleteSignIn(i)
      PROVE  Typing'
  <2>1. Len(signIns) \in Nat /\ i \in 1..Len(signIns)
    BY LenProperties
  <2>2. \A j \in 1..Len(signIns) : signIns[j] \in SignInRequests
    BY ElementOfSeq
  <2>3. SubSeq(signIns, 1, i-1) \in Seq(SignInRequests)
    <3>1. i-1 \in Int /\ \A j \in 1..(i-1) : signIns[j] \in SignInRequests
      BY <2>1, <2>2
    <3> QED
      BY <3>1, SubSeqProperties
  <2>4. SubSeq(signIns, i+1, Len(signIns)) \in Seq(SignInRequests)
    <3>1. /\ i+1 \in Int /\ Len(signIns) \in Int
          /\ \A j \in (i+1)..Len(signIns) : signIns[j] \in SignInRequests
      BY <2>1, <2>2
    <3> QED
      BY <3>1, SubSeqProperties
  <2>5. signIns' \in Seq(SignInRequests)
    BY <1>7, <2>3, <2>4, ConcatProperties DEF CompleteSignIn, RemoveAt
  <2>6. mainQueue' \in Seq(Blocks)
    BY <1>7, BlockTypes, QueueTypes DEF CompleteSignIn, Dispatch
  <2> QED
    BY <1>7, <2>5, <2>6 DEF CompleteSignIn, windowVars
<1> QED
  BY <1>1, <1>2, <1>3, <1>4, <1>5, <1>6, <1>7 DEF Server

\* A form may be replaced, and a controller may disappear.
LEMMA ReplaceTypes ==
  ASSUME Typing
  PROVE  /\ \A v \in Forms, f \in FormRecords :
              [form EXCEPT ![v] = f] \in [Forms -> FormRecords]
         /\ form["new"] \in FormRecords /\ form["edit"] \in FormRecords
         /\ NewTabLeft \in [Forms -> FormRecords]
         /\ [NewTabLeft EXCEPT !["edit"] = EditWillAppear(@)]
              \in [Forms -> FormRecords]
         /\ [list EXCEPT !.observing = FALSE] \in ListRecords
<1>1. /\ \A v \in Forms, f \in FormRecords :
           [form EXCEPT ![v] = f] \in [Forms -> FormRecords]
      /\ form["new"] \in FormRecords /\ form["edit"] \in FormRecords
  BY DEF Typing, Forms
<1>2. NewTabLeft \in [Forms -> FormRecords]
  BY <1>1, FormTypes DEF NewTabLeft, Forms
<1>3. [NewTabLeft EXCEPT !["edit"] = EditWillAppear(@)]
        \in [Forms -> FormRecords]
  <2>1. EditWillAppear(NewTabLeft["edit"]) \in FormRecords
    BY <1>2, FormTypes DEF Forms
  <2> QED
    BY <1>2, <2>1
<1>4. [list EXCEPT !.observing = FALSE] \in ListRecords
  BY DEF Typing, ListRecords
<1> QED
  BY <1>1, <1>2, <1>3, <1>4

\* The list's tab comes to the front.
LEMMA TabAppearsType ==
  ASSUME Typing, ListTabAppears
  PROVE  /\ form' \in [Forms -> FormRecords]
         /\ list' \in ListRecords
         /\ overlay' \in BOOLEAN
         /\ reads' \in Seq(Reads)
<1>1. CASE pushed
  BY <1>1, ReplaceTypes, Zenon DEF ListTabAppears, Typing
<1>2. CASE ~pushed
  <2>1. form' = NewTabLeft /\ ListWillAppear(list, instance.user, FALSE)
    BY <1>2, Zenon DEF ListTabAppears
  <2>2. StoreTypeOK /\ list \in ListRecords /\ instance.user \in Users \cup {Nil}
    BY DEF Typing, StoreTypeOK, Instances
  <2> QED
    BY <2>1, <2>2, ReplaceTypes, AppearsType
<1> QED
  BY <1>1, <1>2

\* A valid credential has an id, and its encrypted fields can be stored.
LEMMA SavedType ==
  ASSUME NEW c \in Credentials, validate(c), NEW credId \in Ids \cup {Nil},
         NEW u \in Users, NEW saver \in Forms
  PROVE  /\ CredPath(c, credId) \in Ids
         /\ EncryptFields(c, uidHash(u)) \in RawCredentials
         /\ [user |-> u, id |-> CredPath(c, credId),
             child |-> EncryptFields(c, uidHash(u)), saver |-> saver] \in Puts
<1>1. CredPath(c, credId) \in Ids
  BY DEF CredPath, Ids, ValidCredentials
<1>2. /\ c.username \in Usernames /\ c.website \in Websites
      /\ c.password \in Passwords
  BY DEF Credentials, validate
<1>3. EncryptFields(c, uidHash(u)) \in RawCredentials
  BY <1>2 DEF EncryptFields, encrypt, RawCredentials, Ciphers
<1> QED
  BY <1>1, <1>3 DEF Puts, Forms, Savers

\* What onSaveButtonPressed sends.
LEMMA SavePressed ==
  ASSUME Typing, NEW v \in Forms, onSaveButtonPressed(v)
  PROVE  \/ puts' = puts /\ crashed' \in BOOLEAN
         \/ /\ crashed' = crashed
            /\ validate(form[v].credential)
            /\ instance.user \in Users
            /\ puts' = Append(puts,
                 [user |-> instance.user,
                  id |-> CredPath(form[v].credential, form[v].credId),
                  child |-> EncryptFields(form[v].credential,
                                          uidHash(instance.user)),
                  saver |-> v])
<1>1. instance.user \in Users \cup {Nil}
  BY DEF Typing, Instances
<1>2. CASE ~validate(form[v].credential)
  BY <1>2, Zenon DEF onSaveButtonPressed, save, Typing
<1>3. CASE validate(form[v].credential) /\ ~hasSignedIn
  BY <1>3, Zenon DEF onSaveButtonPressed
<1>4. CASE validate(form[v].credential) /\ hasSignedIn
  <2>1. instance.user \in Users
    BY <1>1, <1>4 DEF hasSignedIn
  <2>2. save(form[v].credential, form[v].credId, v) /\ UNCHANGED crashed
    BY <1>4, Zenon DEF onSaveButtonPressed
  <2> QED
    BY <1>4, <2>1, <2>2, Zenon DEF save, SetValue
<1> QED
  BY <1>2, <1>3, <1>4

\* What the user does by touching the screen keeps the types.
LEMMA TouchTyping ==
  ASSUME Typing, Touch
  PROVE  Typing'
<1> USE DEF Typing
<1>0. StoreTypeOK /\ EditorTypeOK /\ instance.user \in Users \cup {Nil}
  BY DEF StoreTypeOK, EditorTypeOK, FormRecords, Instances
<1>1. ASSUME NEW u \in Users, login(u)
      PROVE  Typing'
  <2>1. [user |-> u, posted |-> FALSE] \in SignInRequests
    BY DEF SignInRequests
  <2>2. signIns' \in Seq(SignInRequests)
    BY <1>1, <2>1, AppendProperties DEF login
  <2> QED
    BY <1>1, <2>2 DEF login, storeVars
<1>2. CASE signOut
  <2>1. puts' \in Seq(Puts) /\ reads' \in Seq(Reads)
    BY <1>2, OrphanTypes DEF signOut
  <2>2. mainQueue' \in Seq(Blocks)
    <3>1. OrphanBlocks(mainQueue, {"new", "edit", "list"}) \in Seq(Blocks)
      BY OrphanTypes
    <3> QED
      BY <1>2, <3>1, AppendProperties, BlockTypes DEF signOut
  <2> QED
    BY <1>2, <2>1, <2>2, FreshTypes DEF signOut, Tabs
<1>3. CASE SelectList
  <2>1. ListTabAppears
    BY <1>3 DEF SelectList
  <2> QED
    BY <1>3, <2>1, TabAppearsType DEF SelectList, Tabs, authVars
<1>4. ASSUME NEW t \in {"new", "settings"}, SelectOther(t)
      PROVE  Typing'
  <2>1. list' \in ListRecords
    BY <1>4, ReplaceTypes DEF SelectOther, ListWillDisappear
  <2>2. form' \in [Forms -> FormRecords]
    <3>1. CASE t = "new"
      <4>1. PICK p \in Generated : form' = [form EXCEPT !["new"] = NewWillAppear(p)]
        BY <1>4, <3>1 DEF SelectOther
      <4>2. NewWillAppear(p) \in FormRecords
        BY <1>0, NewAppearsType, TextAssumption
      <4> QED
        BY <4>1, <4>2, ReplaceTypes DEF Forms
    <3>2. CASE t # "new"
      BY <1>4, <3>2, ReplaceTypes DEF SelectOther
    <3> QED
      BY <3>1, <3>2
  <2> QED
    BY <1>4, <2>1, <2>2 DEF SelectOther, Tabs, storeVars, authVars
<1>5. ASSUME NEW i, didSelectRow(i)
      PROVE  Typing'
  <2>1. CASE i \in DOMAIN list.credentials /\ i \in DOMAIN list.credentialIDs
    <3>1. /\ list.credentials \in Seq(Entries)
          /\ list.credentialIDs \in Seq(Ids)
      BY DEF ListRecords
    <3>2. list.credentials[i] \in Entries /\ list.credentialIDs[i] \in Ids
      BY <2>1, <3>1, LenProperties, ElementOfSeq
    <3>3. editFor(list.credentials[i], list.credentialIDs[i]) \in FormRecords
      BY <3>2, EditForType
    <3>4. /\ pushed' = TRUE
          /\ form' = [form EXCEPT !["edit"] =
                        editFor(list.credentials[i], list.credentialIDs[i])]
          /\ ListWillDisappear
          /\ crashed' = crashed
      BY <1>5, <2>1, Zenon DEF didSelectRow
    <3>5. form' \in [Forms -> FormRecords] /\ list' \in ListRecords
      BY <3>3, <3>4, ReplaceTypes DEF ListWillDisappear, Forms
    <3> QED
      BY <1>5, <3>4, <3>5 DEF didSelectRow, storeVars, authVars
  <2>2. CASE ~(/\ i \in DOMAIN list.credentials
               /\ i \in DOMAIN list.credentialIDs)
    BY <1>5, <2>2 DEF didSelectRow, storeVars, authVars
  <2> QED
    BY <2>1, <2>2
<1>6. CASE Back
  <2>1. ListWillAppear(list, instance.user, FALSE)
    BY <1>6 DEF Back
  <2>2. puts' \in Seq(Puts) /\ mainQueue' \in Seq(Blocks)
    BY <1>6, OrphanTypes DEF Back, PopEdit
  <2>3. form' \in [Forms -> FormRecords]
    BY <1>6, ReplaceTypes, FormTypes DEF Back, PopEdit, Forms
  <2>4. list' \in ListRecords /\ overlay' \in BOOLEAN /\ reads' \in Seq(Reads)
    BY <1>0, <2>1, AppearsType
  <2> QED
    BY <1>6, <2>2, <2>3, <2>4 DEF Back, PopEdit, authVars
<1>7. ASSUME NEW v \in Forms,
             \/ onUsernameChanged(v) /\ UNCHANGED authVars
             \/ onWebsiteChanged(v) /\ UNCHANGED authVars
             \/ onPasswordChanged(v) /\ UNCHANGED authVars
             \/ onRegenerateTapped(v) /\ UNCHANGED authVars
      PROVE  Typing'
  <2>1. form[v] \in FormRecords
    OBVIOUS
  <2>2. form' \in [Forms -> FormRecords]
    <3>1. CASE onUsernameChanged(v)
      BY <2>1, <3>1, TypedType, ReplaceTypes DEF onUsernameChanged, onChanged
    <3>2. CASE onWebsiteChanged(v)
      BY <2>1, <3>2, TypedType, ReplaceTypes DEF onWebsiteChanged, onChanged
    <3>3. CASE onPasswordChanged(v)
      BY <2>1, <3>3, TypedType, ReplaceTypes DEF onPasswordChanged, onChanged
    <3>4. CASE onRegenerateTapped(v)
      BY <2>1, <3>4, FormTypes, ReplaceTypes, TextAssumption
      DEF onRegenerateTapped
    <3> QED
      BY <1>7, <3>1, <3>2, <3>3, <3>4
  <2>3. UNCHANGED <<storeVars, windowVars, list, authVars>>
    BY <1>7 DEF onUsernameChanged, onWebsiteChanged, onPasswordChanged,
                onChanged, onRegenerateTapped
  <2> QED
    BY <2>2, <2>3 DEF storeVars, windowVars, authVars
<1>8. ASSUME NEW v \in Forms, onSaveButtonPressed(v), UNCHANGED authVars
      PROVE  Typing'
  <2>1. puts' \in Seq(Puts) /\ crashed' \in BOOLEAN
    <3>1. CASE puts' = puts /\ crashed' \in BOOLEAN
      BY <3>1
    <3>2. CASE /\ crashed' = crashed
               /\ validate(form[v].credential)
               /\ instance.user \in Users
               /\ puts' = Append(puts,
                    [user |-> instance.user,
                     id |-> CredPath(form[v].credential, form[v].credId),
                     child |-> EncryptFields(form[v].credential,
                                             uidHash(instance.user)),
                     saver |-> v])
      <4>1. form[v].credential \in Credentials /\ form[v].credId \in Ids \cup {Nil}
        BY DEF FormRecords
      <4> QED
        BY <3>2, <4>1, SavedType, AppendProperties
    <3> QED
      BY <1>8, <3>1, <3>2, SavePressed
  <2> QED
    BY <1>8, <2>1 DEF onSaveButtonPressed, authVars
<1> QED
  BY <1>1, <1>2, <1>3, <1>4, <1>5, <1>6, <1>7, <1>8 DEF Touch

\* The singleton after its listener may have been called.
LEMMA ListenedType ==
  ASSUME Typing
  PROVE  Listened \in Instances /\ Listened.user \in Users \cup {Nil}
<1>1. /\ \A a, b \in Users \cup {Nil} :
           [instance EXCEPT !.seen = a, !.user = b] \in Instances
      /\ instance.seen \in Users \cup {Nil}
      /\ instance.user \in Users \cup {Nil}
      /\ auth \in Users \cup {Nil}
  BY DEF Typing, Instances
<1>2. Listened \in Instances
  BY <1>1 DEF Listened
<1> QED
  BY <1>2 DEF Instances

\* The first block of a queue and the others.
LEMMA RunType ==
  ASSUME Typing, NEW type, Run(type)
  PROVE  /\ Head(mainQueue) \in Blocks
         /\ Head(mainQueue).type = type
         /\ Tail(mainQueue) \in Seq(Blocks)
BY HeadTailProperties DEF Run, Typing

\* A block of a read says what was read.
LEMMA ReadBlockType ==
  ASSUME NEW b \in Blocks, b.type = "read"
  PROVE  b.user \in Users /\ b.node \in Nodes /\ b.reader \in Readers
BY DEF Blocks

\* The blocks of the main queue keep the types.
LEMMA MainTyping ==
  ASSUME Typing, Main
  PROVE  Typing'
<1> USE DEF Typing
<1>0. StoreTypeOK /\ instance.user \in Users \cup {Nil}
  BY DEF StoreTypeOK, Instances
<1>1. CASE OnAuthState
  <2>1. Tail(mainQueue) \in Seq(Blocks)
    BY <1>1, RunType DEF OnAuthState
  <2>2. overlay' \in BOOLEAN /\ reads' \in Seq(Reads)
    <3>1. CASE ListenerCalled /\ auth # Nil /\ list.observing
      <4>1. [user |-> auth, reader |-> "list"] \in Reads
        BY <3>1 DEF Reads, Readers
      <4>2. Append(reads, [user |-> auth, reader |-> "list"]) \in Seq(Reads)
        BY <4>1, AppendProperties
      <4> QED
        BY <1>1, <3>1, <4>2 DEF OnAuthState, reloadData, ObserveSingleEvent
    <3>2. CASE ~(ListenerCalled /\ auth # Nil /\ list.observing)
      BY <1>1, <3>2 DEF OnAuthState
    <3> QED
      BY <3>1, <3>2
  <2> QED
    BY <1>1, <2>1, <2>2, ListenedType DEF OnAuthState, authVars
<1>2. CASE SegueFirst
  <2>1. ListWillAppear(list, Nil, overlay)
    BY <1>2 DEF SegueFirst
  <2>2. list' \in ListRecords /\ overlay' \in BOOLEAN /\ reads' \in Seq(Reads)
    BY <1>0, <2>1, AppearsType
  <2>3. mainQueue' \in Seq(Blocks)
    BY <1>2, RunType, BlockTypes, AppendProperties DEF SegueFirst, Segue
  <2>4. instance' \in Instances
    BY <1>2 DEF SegueFirst, Instances
  <2> QED
    BY <1>2, <2>2, <2>3, <2>4 DEF SegueFirst, Segue, authVars
<1>3. CASE SegueKnown
  <2>1. ListWillAppear(list, Listened.user, overlay)
    BY <1>3 DEF SegueKnown
  <2>2. list' \in ListRecords /\ overlay' \in BOOLEAN /\ reads' \in Seq(Reads)
    BY <1>0, <2>1, ListenedType, AppearsType
  <2>3. mainQueue' \in Seq(Blocks)
    BY <1>3, RunType DEF SegueKnown, Segue
  <2> QED
    BY <1>3, <2>2, <2>3, ListenedType DEF SegueKnown, Segue, authVars
<1>4. CASE SegueStale
  <2>1. /\ [user |-> instance.user, reader |-> "list"] \in Reads
        /\ [user |-> auth, reader |-> "list"] \in Reads
    BY <1>0, <1>4 DEF SegueStale, Segue, Reads, Readers
  <2>2. reads' \in Seq(Reads)
    <3>1. << [user |-> instance.user, reader |-> "list"],
             [user |-> auth, reader |-> "list"] >> \in Seq(Reads)
      BY <2>1
    <3> QED
      BY <1>4, <3>1, ConcatProperties DEF SegueStale
  <2>3. mainQueue' \in Seq(Blocks)
    BY <1>4, RunType DEF SegueStale, Segue
  <2>4. list' \in ListRecords
    <3>1. <<>> \in Seq(Entries)
      BY EmptySeq
    <3> QED
      BY <1>4, <3>1 DEF SegueStale, ListRecords
  <2> QED
    BY <1>4, <2>2, <2>3, <2>4, ListenedType DEF SegueStale, Segue, authVars
<1>5. CASE OnSignedIn
  BY <1>5, RunType DEF OnSignedIn, authVars
<1>6. CASE OnValue
  <2> DEFINE b == Head(mainQueue)
  <2>1. b \in Blocks /\ b.type = "read" /\ Tail(mainQueue) \in Seq(Blocks)
    BY <1>6, RunType DEF OnValue
  <2>2. b.user \in Users /\ b.node \in Nodes
    BY <2>1, ReadBlockType
  <2>3. OnSnapshot(b.node, b.user, b.reader)
    BY <1>6 DEF OnValue
  <2>4. /\ overlay' \in BOOLEAN /\ crashed' \in BOOLEAN
        /\ Filled(b.node, b.user)
    BY <2>2, <2>3, SnapshotFacts, TypingIsTypeOK
  <2>5. list' \in ListRecords
    BY <2>4 DEF Filled, ListRecords
  <2> QED
    BY <1>6, <2>1, <2>4, <2>5 DEF OnValue, authVars
<1>7. CASE OnSavedNew
  <2>1. /\ form' \in [Forms -> FormRecords] /\ list' \in ListRecords
        /\ overlay' \in BOOLEAN /\ reads' \in Seq(Reads)
    <3>1. CASE tab = "list"
      BY <1>7, <3>1 DEF OnSavedNew
    <3>2. CASE tab # "list"
      BY <1>7, <3>2, TabAppearsType DEF OnSavedNew
    <3> QED
      BY <3>1, <3>2
  <2>2. mainQueue' \in Seq(Blocks)
    BY <1>7, RunType DEF OnSavedNew
  <2> QED
    BY <1>7, <2>1, <2>2 DEF OnSavedNew, Tabs, authVars
<1>8. CASE OnSavedEdit
  <2>1. list' \in ListRecords /\ overlay' \in BOOLEAN /\ reads' \in Seq(Reads)
    <3>1. CASE tab = "list"
      BY <1>0, <1>8, <3>1, AppearsType DEF OnSavedEdit
    <3>2. CASE tab # "list"
      BY <1>8, <3>2 DEF OnSavedEdit
    <3> QED
      BY <3>1, <3>2
  <2>2. puts' \in Seq(Puts) /\ mainQueue' \in Seq(Blocks)
    BY <1>8, RunType, OrphanTypes DEF OnSavedEdit, PopEdit
  <2>3. form' \in [Forms -> FormRecords]
    BY <1>8, ReplaceTypes, FormTypes DEF OnSavedEdit, PopEdit, Forms
  <2> QED
    BY <1>8, <2>1, <2>2, <2>3 DEF OnSavedEdit, PopEdit, authVars
<1>9. CASE OnSavedGone
  BY <1>9, RunType DEF OnSavedGone, authVars
<1> QED
  BY <1>1, <1>2, <1>3, <1>4, <1>5, <1>6, <1>7, <1>8, <1>9 DEF Main

\* The death of the process and its next launch keep the types.
LEMMA RelaunchTyping ==
  ASSUME Typing, Relaunch
  PROVE  Typing'
<1> USE DEF Typing
<1>1. db' \in [Users -> Nodes]
  <2>1. StoreTypeOK
    BY DEF StoreTypeOK
  <2> QED
    BY <2>1, AppliedType DEF Relaunch, LosePending
<1>2. puts' \in Seq(Puts) /\ reads' \in Seq(Reads)
      /\ signIns' \in Seq(SignInRequests)
  BY EmptySeq DEF Relaunch, LosePending
<1>3. instance' \in Instances
  BY DEF Relaunch, Instances
<1> QED
  BY <1>1, <1>2, <1>3, QueueTypes, FreshTypes DEF Relaunch, Tabs

\* So does every step.
LEMMA NextTyping ==
  ASSUME Typing, [Next]_vars
  PROVE  Typing'
<1>1. CASE Next
  BY <1>1, TouchTyping, MainTyping, ServerTyping, RelaunchTyping DEF Next
<1>2. CASE UNCHANGED vars
  BY <1>2 DEF vars, storeVars, windowVars, authVars, Typing
<1> QED
  BY <1>1, <1>2

\* Every variable keeps its type through all the handlers, callbacks and
\* process deaths, for any users, texts, foreign children and bounds.  In
\* particular what the list decrypts is a credential, whatever was stored.
THEOREM TypeCorrect == Spec => []TypeOK
<1>1. Init => Typing
  BY InitTyping
<1>2. Typing /\ [Next]_vars => Typing'
  BY NextTyping
<1>3. Typing => TypeOK
  BY TypingIsTypeOK
<1> QED
  BY <1>1, <1>2, <1>3, PTL DEF Spec

-----------------------------------------------------------------------------
(* Writes *)

\* What is encrypted for a user decrypts for that user to what it was.
LEMMA EncryptThenDecrypt ==
  ASSUME NEW c \in Credentials, validate(c), NEW u \in Users
  PROVE  /\ DecryptOutcome(EncryptFields(c, uidHash(u)), uidHash(u)) = "ok"
         /\ Decrypted(EncryptFields(c, uidHash(u))) = c
         /\ Sound(EncryptFields(c, uidHash(u)), u)
<1> DEFINE key == uidHash(u)
           raw == EncryptFields(c, key)
<1>1. /\ c.username \in Usernames /\ c.website \in Websites
      /\ c.password \in Passwords
  BY DEF Credentials, validate
<1>2. /\ encrypt(c.username, key) \in Ciphers(Usernames)
      /\ encrypt(c.website, key) \in Ciphers(Websites)
      /\ encrypt(c.password, key) \in Ciphers(Passwords)
  BY <1>1 DEF encrypt, Ciphers
<1>3. /\ raw.username = encrypt(c.username, key)
      /\ raw.website = encrypt(c.website, key)
      /\ raw.password = encrypt(c.password, key)
  BY DEF EncryptFields
<1>4. \A f \in {raw.username, raw.website, raw.password} :
        f # Nil /\ f # NotBase64
  BY <1>2, <1>3, CipherAssumption
<1>5. \A f \in {raw.username, raw.website, raw.password} : f.key = key
  BY <1>3 DEF encrypt
<1>6. DecryptOutcome(raw, key) = "ok"
  BY <1>4, <1>5 DEF DecryptOutcome, FieldOutcome
<1>7. Decrypted(raw) = c
  BY DEF Decrypted, EncryptFields, encrypt, Credentials
<1>8. raw \in RawCredentials
  BY <1>2 DEF EncryptFields, RawCredentials
<1> QED
  BY <1>6, <1>7, <1>8 DEF Sound

\* Requests that stay outstanding keep user and child.
LEMMA OrphansKeepWrites ==
  ASSUME NEW q \in Seq(Puts), NEW who
  PROVE  /\ DOMAIN OrphanSaves(q, who) = DOMAIN q
         /\ \A i \in DOMAIN q : /\ OrphanSaves(q, who)[i].user = q[i].user
                               /\ OrphanSaves(q, who)[i].id = q[i].id
                               /\ OrphanSaves(q, who)[i].child = q[i].child
<1>1. \A i \in DOMAIN q : q[i] \in Puts
  BY ElementOfSeq, LenProperties
<1> QED
  BY <1>1 DEF OrphanSaves, Puts

\* What a step may do to the store and the outstanding writes: nothing, give
\* up the addressees, add a write that is sound, finish the oldest, or, when
\* the process dies, carry out some and drop all.  Only another client changes
\* the store otherwise.
StoreStep ==
  \/ puts' = puts /\ (db' = db \/ Foreign # {})
  \/ db' = db /\ \E who : puts' = OrphanSaves(puts, who)
  \/ /\ db' = db
     /\ \E p \in Puts : Sound(p.child, p.user) /\ puts' = Append(puts, p)
  \/ /\ puts # <<>>
     /\ puts' = Tail(puts)
     /\ db' = Applied(1) \/ (PutsMayFail /\ db' = db)
  \/ /\ Relaunch
     /\ puts' = <<>>
     /\ \E n \in 0..Len(puts) : db' = Applied(n)

\* onSaveButtonPressed sends nothing or a write that is sound.
LEMMA SaveStep ==
  ASSUME Typing, NEW v \in Forms, onSaveButtonPressed(v)
  PROVE  StoreStep
<1>0. db' = db
  BY DEF onSaveButtonPressed
<1>1. CASE puts' = puts
  BY <1>0, <1>1 DEF StoreStep
<1>2. CASE puts' # puts
  <2> DEFINE c == form[v].credential
             p == [user |-> instance.user, id |-> CredPath(c, form[v].credId),
                   child |-> EncryptFields(c, uidHash(instance.user)),
                   saver |-> v]
  <2>1. /\ validate(c)
        /\ instance.user \in Users
        /\ puts' = Append(puts, p)
    BY <1>2, SavePressed
  <2>2. c \in Credentials /\ form[v].credId \in Ids \cup {Nil}
    BY DEF Typing, FormRecords
  <2>3. p \in Puts
    BY <2>1, <2>2, SavedType
  <2>4. Sound(p.child, p.user)
    BY <2>1, <2>2, EncryptThenDecrypt
  <2> HIDE DEF p
  <2> QED
    BY <1>0, <2>1, <2>3, <2>4 DEF StoreStep
<1> QED
  BY <1>1, <1>2

\* No action does anything else to the store and the writes.
LEMMA NextStore ==
  ASSUME Typing, [Next]_vars
  PROVE  StoreStep
<1>1. CASE Touch
  <2>1. ASSUME NEW v \in Forms, onSaveButtonPressed(v)
        PROVE  StoreStep
    BY <2>1, SaveStep
  <2>2. CASE \E u \in Users : login(u)
    BY <2>2 DEF login, storeVars, StoreStep
  <2>3. CASE signOut
    BY <2>3 DEF signOut, StoreStep
  <2>4. CASE SelectList \/ \E t \in {"new", "settings"} : SelectOther(t)
    BY <2>4 DEF SelectList, SelectOther, storeVars, StoreStep
  <2>5. CASE \E i \in DOMAIN list.rows : didSelectRow(i)
    BY <2>5 DEF didSelectRow, storeVars, StoreStep
  <2>6. CASE Back
    BY <2>6 DEF Back, PopEdit, StoreStep
  <2>7. CASE \E v \in Forms : \/ onUsernameChanged(v) \/ onWebsiteChanged(v)
                             \/ onPasswordChanged(v) \/ onRegenerateTapped(v)
    BY <2>7 DEF onUsernameChanged, onWebsiteChanged, onPasswordChanged,
                onChanged, onRegenerateTapped, storeVars, StoreStep
  <2> QED
    BY <1>1, <2>1, <2>2, <2>3, <2>4, <2>5, <2>6, <2>7 DEF Touch
<1>2. CASE Main
  <2>1. CASE OnSavedEdit
    BY <2>1 DEF OnSavedEdit, PopEdit, StoreStep
  <2>2. CASE OnAuthState \/ SegueFirst \/ SegueKnown \/ SegueStale
             \/ OnSignedIn \/ OnValue \/ OnSavedNew \/ OnSavedGone
    BY <2>2 DEF OnAuthState, SegueFirst, SegueKnown, SegueStale, Segue,
                OnSignedIn, OnValue, OnSavedNew, OnSavedGone, StoreStep
  <2> QED
    BY <1>2, <2>1, <2>2 DEF Main
<1>3. CASE Server
  <2>1. CASE AckPut
    BY <2>1, Zenon DEF AckPut, StoreStep
  <2>3. CASE DenyPut
    <3>1. puts # <<>> /\ puts' = Tail(puts) /\ db' = db
      BY <2>3 DEF DenyPut
    <3>2. PutsMayFail
      BY <2>3, Zenon DEF DenyPut
    <3> QED
      BY <3>1, <3>2, Zenon DEF StoreStep
  <2>2. CASE ~AckPut /\ ~DenyPut
    <3>1. puts' = puts /\ (db' = db \/ Foreign # {})
      BY <1>3, <2>2 DEF Server, AnswerRead, DenyRead, ForeignWrite,
         SignInSucceeds, CompleteSignIn
    <3> QED
      BY <3>1, Zenon DEF StoreStep
  <2> QED
    BY <2>1, <2>2, <2>3
<1>4. CASE Relaunch
  <2>1. puts' = <<>> /\ \E n \in 0..Len(puts) : db' = Applied(n)
    BY <1>4 DEF Relaunch, LosePending
  <2> QED
    BY <1>4, <2>1 DEF StoreStep
<1>5. CASE UNCHANGED vars
  BY <1>5 DEF vars, storeVars, StoreStep
<1> QED
  BY <1>1, <1>2, <1>3, <1>4, <1>5 DEF Next

\* Such a step keeps the outstanding writes sound.
LEMMA WritesStaySound ==
  ASSUME Typing, PutsSound, StoreStep
  PROVE  PutsSound'
<1>0. puts \in Seq(Puts) /\ Len(puts) \in Nat /\ DOMAIN puts = 1..Len(puts)
  BY LenProperties DEF Typing
<1>1. CASE puts' = puts
  BY <1>1 DEF PutsSound
<1>2. ASSUME NEW who, puts' = OrphanSaves(puts, who)
      PROVE  PutsSound'
  BY <1>0, <1>2, OrphansKeepWrites DEF PutsSound
<1>3. CASE puts # <<>> /\ puts' = Tail(puts)
  <2>1. /\ puts' \in Seq(Puts) /\ Len(puts') = Len(puts) - 1
        /\ \A i \in 1..Len(puts') : puts'[i] = puts[i+1]
    BY <1>0, <1>3, HeadTailProperties
  <2>2. DOMAIN puts' = 1..Len(puts')
    BY <2>1, LenProperties
  <2>3. \A i \in DOMAIN puts' : i+1 \in DOMAIN puts /\ puts'[i] = puts[i+1]
    BY <1>0, <2>1, <2>2
  <2> QED
    BY <2>3 DEF PutsSound
<1>4. CASE puts' = <<>>
  BY <1>4 DEF PutsSound
<1>5. ASSUME NEW p \in Puts, Sound(p.child, p.user), puts' = Append(puts, p)
      PROVE  PutsSound'
  <2>1. /\ puts' \in Seq(Puts) /\ Len(puts') = Len(puts) + 1
        /\ \A i \in 1..Len(puts) : puts'[i] = puts[i]
        /\ puts'[Len(puts) + 1] = p
    BY <1>0, <1>5, AppendProperties
  <2>2. DOMAIN puts' = 1..(Len(puts) + 1)
    BY <2>1, LenProperties
  <2>3. \A i \in DOMAIN puts' :
          (i \in DOMAIN puts /\ puts'[i] = puts[i]) \/ puts'[i] = p
    BY <1>0, <2>1, <2>2
  <2> QED
    BY <1>5, <2>3 DEF PutsSound
<1> QED
  BY <1>1, <1>2, <1>3, <1>4, <1>5 DEF StoreStep

\* save() only ever sends complete credentials, encrypted for the user whose
\* node they are written to: whatever another client has stored, whichever
\* form they come from and however many sign-ins have overlapped.
THEOREM WritesAreSound == Spec => []PutsSound
<1>1. Init => Typing /\ PutsSound
  BY InitTyping DEF Init, StoreInit, PutsSound
<1>2. Typing /\ PutsSound /\ [Next]_vars => (Typing /\ PutsSound)'
  BY NextTyping, NextStore, WritesStaySound
<1> QED
  BY <1>1, <1>2, PTL DEF Spec

-----------------------------------------------------------------------------
(* The store *)

\* Every child of a node is sound for a user.
NodeSound(node, u) == \A id \in Ids : node[id] # Nil => Sound(node[id], u)

\* Sound writes applied to a sound tree give a sound tree.
LEMMA AppliedSound ==
  ASSUME Typing, PutsSound, StoredSound, NEW n \in 0..Len(puts),
         NEW u \in Users
  PROVE  NodeSound(Applied(n)[u], u)
<1>1. SUFFICES ASSUME NEW id \in Ids
               PROVE  Applied(n)[u][id] # Nil => Sound(Applied(n)[u][id], u)
  BY DEF NodeSound
<1>2. CASE \E i \in 1..n : Newest(i, u, id, n)
  <2> DEFINE i == CHOOSE i \in 1..n : Newest(i, u, id, n)
  <2>1. i \in 1..n /\ Newest(i, u, id, n)
    BY <1>2
  <2>2. Applied(n)[u][id] = puts[i].child
    BY <1>2 DEF Applied
  <2> HIDE DEF i
  <2>3. i \in DOMAIN puts
    BY <2>1, LenProperties DEF Typing
  <2>4. puts[i].user = u
    BY <2>1 DEF Newest
  <2> QED
    BY <2>2, <2>3, <2>4 DEF PutsSound
<1>3. CASE ~\E i \in 1..n : Newest(i, u, id, n)
  BY <1>3 DEF Applied, StoredSound
<1> QED
  BY <1>2, <1>3

\* Such a step keeps the store sound when no other client writes.
LEMMA StoreStaysSound ==
  ASSUME Foreign = {}, Typing, PutsSound, StoredSound, StoreStep
  PROVE  StoredSound'
<1>1. CASE db' = db
  BY <1>1 DEF StoredSound
<1>2. ASSUME NEW n \in 0..Len(puts), db' = Applied(n)
      PROVE  StoredSound'
  <2>1. \A u \in Users, id \in Ids : db'[u][id] # Nil => Sound(db'[u][id], u)
    BY <1>2, AppliedSound DEF NodeSound
  <2> QED
    BY <2>1 DEF StoredSound
<1>3. 0 < Len(puts) => 1 \in 0..Len(puts)
  BY LenProperties DEF Typing
<1>4. puts # <<>> => 0 < Len(puts)
  BY EmptySeq DEF Typing
<1> QED
  BY <1>1, <1>2, <1>3, <1>4 DEF StoreStep

\* When no other client writes to the users' nodes, everything stored can be
\* decrypted by its owner and is a credential validate() accepts, whatever
\* was rejected, lost or killed on the way.
THEOREM StoreIsSound ==
  ASSUME Foreign = {}
  PROVE  Spec => []StoredSound
<1> DEFINE I == Typing /\ PutsSound /\ StoredSound
<1>1. Init => I
  BY InitTyping DEF Init, StoreInit, PutsSound, StoredSound, EmptyNode
<1>2. I /\ [Next]_vars => I'
  BY NextTyping, NextStore, WritesStaySound, StoreStaysSound
<1>3. I => StoredSound
  OBVIOUS
<1> QED
  BY <1>1, <1>2, <1>3, PTL DEF Spec

-----------------------------------------------------------------------------
(* From the store back to the save button *)

\* The snapshots that wait on the main queue are sound.
SnapshotsSound ==
  \A i \in DOMAIN mainQueue :
    mainQueue[i].type = "read" => NodeSound(mainQueue[i].node, mainQueue[i].user)

\* The list holds credentials that may be saved.
ListValid ==
  \A i \in DOMAIN list.credentials : validate(list.credentials[i].cred)

\* A save button that is enabled belongs to a credential that may be saved.
FormValid(f) == f.canSave => validate(f.credential)

\* That holds of the forms that are on their tab.
FormsValid ==
  /\ pushed => FormValid(form["edit"])
  /\ tab = "new" => FormValid(form["new"])

\* The inductive invariant.
CircleInv ==
  /\ Typing
  /\ PutsSound
  /\ StoredSound
  /\ SnapshotsSound
  /\ ListValid
  /\ FormsValid

\* A queue holds the snapshot of a node for a user.
HasSnapshot(q, u, node) ==
  \E i \in DOMAIN q : q[i].type = "read" /\ q[i].user = u /\ q[i].node = node

\* No operation on a queue makes a snapshot, except dispatching one.
LEMMA QueueSnapshots ==
  ASSUME NEW q \in Seq(Blocks)
  PROVE  /\ \A u, node : q # <<>> /\ HasSnapshot(Tail(q), u, node)
                         => HasSnapshot(q, u, node)
         /\ \A b \in Blocks : \A u, node :
              HasSnapshot(q \o <<b>>, u, node)
              => \/ HasSnapshot(q, u, node)
                 \/ b.type = "read" /\ b.user = u /\ b.node = node
         /\ \A who, u, node : HasSnapshot(OrphanBlocks(q, who), u, node)
                             => HasSnapshot(q, u, node)
<1>0. Len(q) \in Nat /\ DOMAIN q = 1..Len(q)
  BY LenProperties
<1>1. ASSUME NEW u, NEW node, q # <<>>, HasSnapshot(Tail(q), u, node)
      PROVE  HasSnapshot(q, u, node)
  <2>1. /\ Tail(q) \in Seq(Blocks) /\ Len(Tail(q)) = Len(q) - 1
        /\ \A i \in 1..Len(Tail(q)) : Tail(q)[i] = q[i+1]
    BY <1>1, HeadTailProperties
  <2>2. DOMAIN Tail(q) = 1..Len(Tail(q))
    BY <2>1, LenProperties
  <2>3. \A i \in DOMAIN Tail(q) : i+1 \in DOMAIN q /\ Tail(q)[i] = q[i+1]
    BY <1>0, <2>1, <2>2
  <2> QED
    BY <1>1, <2>3 DEF HasSnapshot
<1>2. ASSUME NEW b \in Blocks, NEW u, NEW node,
             HasSnapshot(q \o <<b>>, u, node)
      PROVE  \/ HasSnapshot(q, u, node)
             \/ b.type = "read" /\ b.user = u /\ b.node = node
  <2>1. <<b>> \in Seq(Blocks) /\ Len(<<b>>) = 1 /\ <<b>>[1] = b
    OBVIOUS
  <2>2. /\ q \o <<b>> \in Seq(Blocks)
        /\ Len(q \o <<b>>) = Len(q) + 1
        /\ \A i \in 1..(Len(q) + 1) :
             (q \o <<b>>)[i] = IF i <= Len(q) THEN q[i] ELSE <<b>>[i - Len(q)]
    BY <2>1, ConcatProperties
  <2>3. DOMAIN (q \o <<b>>) = 1..(Len(q) + 1)
    BY <2>2, LenProperties
  <2>4. \A i \in 1..(Len(q) + 1) :
          \/ i \in DOMAIN q /\ (q \o <<b>>)[i] = q[i]
          \/ (q \o <<b>>)[i] = b
    BY <1>0, <2>1, <2>2
  <2> HIDE <2>1, <2>2
  <2> QED
    BY <1>2, <2>3, <2>4 DEF HasSnapshot
<1>3. ASSUME NEW who, NEW u, NEW node,
             HasSnapshot(OrphanBlocks(q, who), u, node)
      PROVE  HasSnapshot(q, u, node)
  <2>1. \A i \in DOMAIN q : q[i] \in Blocks
    BY <1>0, ElementOfSeq
  <2>2. DOMAIN OrphanBlocks(q, who) = DOMAIN q
    BY DEF OrphanBlocks
  <2>3. ASSUME NEW i \in DOMAIN q, OrphanBlocks(q, who)[i].type = "read"
        PROVE  /\ q[i].type = "read"
               /\ OrphanBlocks(q, who)[i].user = q[i].user
               /\ OrphanBlocks(q, who)[i].node = q[i].node
    BY <2>1, <2>3 DEF OrphanBlocks, Blocks
  <2> QED
    BY <1>3, <2>2, <2>3 DEF HasSnapshot
<1> QED
  BY <1>1, <1>2, <1>3

\* A block that is dispatched by anything but AnswerRead is no snapshot.
LEMMA OtherBlocks ==
  /\ AuthState.type # "read" /\ AuthInitial.type # "read"
  /\ SignedIn.type # "read"
  /\ \A ok, saver : [type |-> "put", ok |-> ok, saver |-> saver].type # "read"
BY DEF AuthState, AuthInitial, SignedIn

\* A step keeps a snapshot, or raises it from the client's view.
LEMMA NextSnapshots ==
  ASSUME Typing, [Next]_vars, NEW u, NEW node,
         HasSnapshot(mainQueue', u, node)
  PROVE  \/ HasSnapshot(mainQueue, u, node)
         \/ u \in Users /\ node = LocalView[u]
<1>0. mainQueue \in Seq(Blocks)
  BY DEF Typing
<1>1. CASE Touch
  <2>1. CASE signOut
    <3>1. OrphanBlocks(mainQueue, {"new", "edit", "list"}) \in Seq(Blocks)
      BY <1>0, OrphanTypes
    <3>2. mainQueue' = OrphanBlocks(mainQueue, {"new", "edit", "list"})
                         \o <<AuthState>>
      BY <2>1, <3>1, BlockTypes, AppendIsConcat DEF signOut
    <3> QED
      BY <1>0, <3>1, <3>2, QueueSnapshots, BlockTypes, OtherBlocks
  <2>2. CASE Back
    BY <1>0, <2>2, QueueSnapshots DEF Back
  <2>3. CASE ~signOut /\ ~Back
    BY <1>1, <2>3 DEF Touch, login, SelectList, SelectOther, didSelectRow,
       onUsernameChanged, onWebsiteChanged, onPasswordChanged, onChanged,
       onRegenerateTapped, onSaveButtonPressed, storeVars
  <2> QED
    BY <2>1, <2>2, <2>3
<1>2. CASE Main
  <2>1. mainQueue # <<>> /\ Tail(mainQueue) \in Seq(Blocks)
    <3>1. mainQueue # <<>>
      BY <1>2 DEF Main, OnAuthState, SegueFirst, SegueKnown, SegueStale, Segue,
         OnSignedIn, OnValue, OnSavedNew, OnSavedEdit, OnSavedGone, Run
    <3> QED
      BY <1>0, <3>1, HeadTailProperties
  <2>2. CASE SegueFirst
    <3>1. mainQueue' = Tail(mainQueue) \o <<AuthInitial>>
      BY <2>1, <2>2, BlockTypes, AppendIsConcat DEF SegueFirst
    <3> QED
      BY <1>0, <2>1, <3>1, QueueSnapshots, BlockTypes, OtherBlocks
  <2>3. CASE OnSavedEdit
    BY <1>0, <2>1, <2>3, QueueSnapshots DEF OnSavedEdit
  <2>4. CASE ~SegueFirst /\ ~OnSavedEdit
    <3>1. mainQueue' = Tail(mainQueue)
      BY <1>2, <2>4 DEF Main, OnAuthState, SegueKnown, SegueStale,
         OnSignedIn, OnValue, OnSavedNew, OnSavedGone
    <3> QED
      BY <1>0, <2>1, <3>1, QueueSnapshots
  <2> QED
    BY <2>2, <2>3, <2>4
<1>3. CASE Server
  <2>1. CASE AnswerRead
    <3> DEFINE b == [type |-> "read", user |-> Head(reads).user,
                     node |-> LocalView[Head(reads).user],
                     reader |-> Head(reads).reader]
    <3>1. Head(reads) \in Reads
      BY <2>1, HeadTailProperties DEF AnswerRead, Typing
    <3>2. StoreTypeOK /\ Len(puts) \in 0..Len(puts)
      BY LenProperties DEF Typing, StoreTypeOK
    <3>3. LocalView \in [Users -> Nodes]
      BY <3>2, AppliedType DEF LocalView
    <3>4. b \in Blocks
      BY <3>1, <3>3, BlockTypes DEF Reads
    <3>5. mainQueue' = mainQueue \o <<b>>
      BY <2>1 DEF AnswerRead, Dispatch
    <3>6. b.user \in Users /\ b.node = LocalView[b.user]
      BY <3>1 DEF Reads
    <3> HIDE DEF b
    <3> QED
      BY <1>0, <3>4, <3>5, <3>6, QueueSnapshots
  <2>2. CASE AckPut \/ DenyPut
    <3>1. Head(puts) \in Puts
      BY <2>2, HeadTailProperties DEF AckPut, DenyPut, Typing
    <3>2. \E ok \in BOOLEAN :
            mainQueue' = mainQueue \o <<[type |-> "put", ok |-> ok,
                                         saver |-> Head(puts).saver]>>
      BY <2>2 DEF AckPut, DenyPut, Dispatch
    <3> QED
      BY <1>0, <3>1, <3>2, QueueSnapshots, BlockTypes, OtherBlocks DEF Puts
  <2>3. CASE \E i \in DOMAIN signIns : SignInSucceeds(i) \/ CompleteSignIn(i)
    <3>1. \/ mainQueue' = mainQueue \o <<AuthState>>
          \/ mainQueue' = mainQueue \o <<SignedIn>>
      BY <2>3 DEF SignInSucceeds, CompleteSignIn, Dispatch
    <3>2. CASE mainQueue' = mainQueue \o <<AuthState>>
      BY <1>0, <3>2, QueueSnapshots, BlockTypes, OtherBlocks
    <3>3. CASE mainQueue' = mainQueue \o <<SignedIn>>
      BY <1>0, <3>3, QueueSnapshots, BlockTypes, OtherBlocks
    <3> QED
      BY <3>1, <3>2, <3>3
  <2>4. CASE DenyRead \/ \E w \in Users, id \in Ids, child \in Foreign :
                            ForeignWrite(w, id, child)
    BY <2>4 DEF DenyRead, ForeignWrite
  <2> QED
    BY <1>3, <2>1, <2>2, <2>3, <2>4 DEF Server
<1>4. CASE Relaunch
  <2>1. mainQueue' = <<>> \/ mainQueue' = <<AuthState>>
    BY <1>4 DEF Relaunch, LaunchQueue
  <2>2. \A i \in DOMAIN mainQueue' : mainQueue'[i] = AuthState
    BY <2>1
  <2> QED
    BY <2>2, OtherBlocks DEF HasSnapshot
<1>5. CASE UNCHANGED vars
  BY <1>5 DEF vars, storeVars
<1> QED
  BY <1>1, <1>2, <1>3, <1>4, <1>5 DEF Next

\* A step keeps the snapshots on the main queue sound.
LEMMA SnapshotsStaySound ==
  ASSUME Typing, PutsSound, StoredSound, SnapshotsSound, [Next]_vars
  PROVE  SnapshotsSound'
<1>1. \A u \in Users : NodeSound(LocalView[u], u)
  <2>1. Len(puts) \in 0..Len(puts)
    BY LenProperties DEF Typing
  <2> QED
    BY <2>1, AppliedSound DEF LocalView
<1>2. \A u, node : HasSnapshot(mainQueue, u, node) => NodeSound(node, u)
  BY DEF SnapshotsSound, HasSnapshot
<1>3. \A u, node : HasSnapshot(mainQueue', u, node) => NodeSound(node, u)
  BY <1>1, <1>2, NextSnapshots
<1>4. \A i \in DOMAIN mainQueue' :
        mainQueue'[i].type = "read" =>
          HasSnapshot(mainQueue', mainQueue'[i].user, mainQueue'[i].node)
  BY DEF HasSnapshot
<1>5. \A i \in DOMAIN mainQueue' :
        mainQueue'[i].type = "read" =>
          NodeSound(mainQueue'[i].node, mainQueue'[i].user)
  BY <1>3, <1>4
<1> QED
  BY <1>5 DEF SnapshotsSound, NodeSound

\* What the callback of a read hands to the list may be saved.
LEMMA FilledValid ==
  ASSUME Typing, ListValid, NEW node \in Nodes, NEW u \in Users,
         NodeSound(node, u), Filled(node, u)
  PROVE  ListValid'
<1>1. CASE list' = list
  BY <1>1 DEF ListValid
<1>2. ASSUME NEW creds \in Seq(Entries), NEW ids \in Seq(Ids),
             NEW rows \in Seq(Entries),
             list' = [list EXCEPT !.credentials = creds,
                                  !.credentialIDs = ids, !.rows = rows],
             \A i \in DOMAIN creds : \E id \in Ids :
               /\ node[id] \in RawCredentials
               /\ node[id] # Nil
               /\ creds[i] = Entry(node, u, id)
      PROVE  ListValid'
  <2>1. list'.credentials = creds
    BY <1>2 DEF Typing, ListRecords
  <2>2. \A i \in DOMAIN creds : validate(creds[i].cred)
    BY <1>2 DEF NodeSound, Sound, Entry
  <2> QED
    BY <2>1, <2>2 DEF ListValid
<1> QED
  BY <1>1, <1>2 DEF Filled

\* A list that appears holds no credentials.
LEMMA AppearsValid ==
  ASSUME Typing, NEW u, NEW covered, ListWillAppear(list, u, covered)
  PROVE  ListValid'
<1>1. list'.credentials = <<>>
  BY DEF ListWillAppear, Typing, ListRecords
<1> QED
  BY <1>1 DEF ListValid

\* How the operations on a form treat its save button.
LEMMA FormOperations ==
  /\ \A f \in FormRecords : FormValid(validateCredentials(f))
  /\ \A f \in FormRecords : FormValid(f) => FormValid(EditWillAppear(f))
  /\ \A f \in FormRecords, p \in Passwords :
       FormValid(f) => FormValid(regeneratePassword(f, p))
  /\ \A entry \in Entries, id \in Ids :
       validate(entry.cred) => FormValid(editFor(entry, id))
<1>1. ASSUME NEW f \in FormRecords
      PROVE  FormValid(validateCredentials(f))
  <2>1. /\ validateCredentials(f).canSave = validate(f.credential)
        /\ validateCredentials(f).credential = f.credential
    BY DEF validateCredentials, FormRecords
  <2> QED
    BY <2>1 DEF FormValid
<1>2. ASSUME NEW f \in FormRecords, FormValid(f)
      PROVE  FormValid(EditWillAppear(f))
  <2>1. /\ EditWillAppear(f).canSave = f.canSave
        /\ EditWillAppear(f).credential = f.credential
    BY DEF EditWillAppear, FormRecords
  <2> QED
    BY <1>2, <2>1 DEF FormValid
<1>3. ASSUME NEW f \in FormRecords, NEW p \in Passwords, FormValid(f)
      PROVE  FormValid(regeneratePassword(f, p))
  <2> DEFINE g == regeneratePassword(f, p)
  <2>1. /\ g.canSave = f.canSave
        /\ g.credential.username = f.credential.username
        /\ g.credential.website = f.credential.website
        /\ g.credential.password = p
    BY DEF regeneratePassword, FormRecords, Credentials, Texts
  <2> HIDE DEF g
  <2>2. p # Nil
    BY NilAssumption
  <2> QED
    BY <1>3, <2>1, <2>2 DEF FormValid, validate, g
<1>4. ASSUME NEW entry \in Entries, NEW id \in Ids, validate(entry.cred)
      PROVE  FormValid(editFor(entry, id))
  <2> DEFINE f == [NewForm EXCEPT !.credential = entry.cred, !.credId = id,
                                  !.origin = entry.path]
  <2>1. f \in FormRecords
    BY FormTypes DEF FormRecords, Entries
  <2>2. f.credential = entry.cred
    BY DEF NewForm
  <2>3. editFor(entry, id) = EditWillAppear(f)
    BY DEF editFor
  <2> HIDE DEF f
  <2>4. FormValid(f)
    BY <1>4, <2>2 DEF FormValid
  <2> QED
    BY <1>2, <2>1, <2>3, <2>4
<1> QED
  BY <1>1, <1>2, <1>3, <1>4

\* The list's tab comes to the front.
LEMMA TabAppearsValid ==
  ASSUME Typing, ListValid, FormsValid, ListTabAppears,
         tab' = "list", pushed' = pushed
  PROVE  ListValid' /\ FormsValid'
<1>1. CASE pushed
  <2>1. /\ form' = [NewTabLeft EXCEPT !["edit"] = EditWillAppear(@)]
        /\ list' = list
    BY <1>1, Zenon DEF ListTabAppears
  <2>2. form'["edit"] = EditWillAppear(form["edit"])
    BY <2>1, ReplaceTypes DEF NewTabLeft, Forms, Typing
  <2>3. FormValid(form'["edit"])
    BY <1>1, <2>2, ReplaceTypes, FormOperations DEF FormsValid
  <2>4. FormsValid'
    BY <2>3 DEF FormsValid
  <2> QED
    BY <2>1, <2>4 DEF ListValid
<1>2. CASE ~pushed
  <2>1. ListWillAppear(list, instance.user, FALSE)
    BY <1>2, Zenon DEF ListTabAppears
  <2>2. FormsValid'
    BY <1>2 DEF FormsValid
  <2> QED
    BY <2>1, <2>2, AppearsValid
<1> QED
  BY <1>1, <1>2

\* Typing into a form recomputes its save button.
LEMMA TypedValid ==
  ASSUME NEW f \in FormRecords
  PROVE  /\ \A t \in Usernames : FormValid(Typed(f, "username", t))
         /\ \A t \in Websites : FormValid(Typed(f, "website", t))
         /\ \A t \in Passwords : FormValid(Typed(f, "password", t))
<1>1. ASSUME NEW t \in Usernames
      PROVE  [f EXCEPT !.fields["username"] = t, !.credential["username"] = t]
               \in FormRecords
  BY DEF FormRecords, Credentials, Texts
<1>2. ASSUME NEW t \in Websites
      PROVE  [f EXCEPT !.fields["website"] = t, !.credential["website"] = t]
               \in FormRecords
  BY DEF FormRecords, Credentials, Texts
<1>3. ASSUME NEW t \in Passwords
      PROVE  [f EXCEPT !.fields["password"] = t, !.credential["password"] = t]
               \in FormRecords
  BY DEF FormRecords, Credentials, Texts
<1> QED
  BY <1>1, <1>2, <1>3, FormOperations DEF Typed

\* What the user does keeps the list and the forms valid: a row hands a
\* valid credential to the edit form, and typing recomputes the save button.
LEMMA TouchValid ==
  ASSUME Typing, ListValid, FormsValid, Touch
  PROVE  ListValid' /\ FormsValid'
<1>0. /\ form["new"] \in FormRecords /\ form["edit"] \in FormRecords
      /\ form \in [Forms -> FormRecords]
  BY ReplaceTypes DEF Typing
<1>1. CASE \E u \in Users : login(u)
  BY <1>1 DEF login, ListValid, FormsValid
<1>2. CASE signOut
  BY <1>2 DEF signOut, NewList, ListValid, FormsValid
<1>3. CASE SelectList
  BY <1>3, TabAppearsValid DEF SelectList
<1>4. ASSUME NEW t \in {"new", "settings"}, SelectOther(t)
      PROVE  ListValid' /\ FormsValid'
  <2>1. list'.credentials = list.credentials
    BY <1>4 DEF SelectOther, ListWillDisappear, Typing, ListRecords
  <2>2. CASE t = "new"
    <3>1. PICK p \in Generated :
            form' = [form EXCEPT !["new"] = NewWillAppear(p)]
      BY <1>4, <2>2 DEF SelectOther
    <3>2. form'["new"] = NewWillAppear(p) /\ form'["edit"] = form["edit"]
      BY <1>0, <3>1 DEF Forms
    <3>3. FormValid(NewWillAppear(p))
      <4> DEFINE f == [form["new"] EXCEPT !.fields = EmptyFields,
                                          !.credential = NewCredential]
      <4>1. f \in FormRecords
        BY <1>0 DEF FormRecords, NewCredential, Credentials, EmptyFields, Texts
      <4>2. NewWillAppear(p) = validateCredentials(regeneratePassword(f, p))
        BY DEF NewWillAppear
      <4> HIDE DEF f
      <4>3. regeneratePassword(f, p) \in FormRecords
        BY <4>1, FormTypes, TextAssumption
      <4> QED
        BY <4>2, <4>3, FormOperations
    <3> QED
      BY <1>4, <2>1, <3>2, <3>3 DEF SelectOther, ListValid, FormsValid
  <2>3. CASE t = "settings"
    <3>1. form' = NewTabLeft
      BY <1>4, <2>3 DEF SelectOther
    <3>2. form'["edit"] = form["edit"]
      BY <1>0, <3>1 DEF NewTabLeft, Forms
    <3> QED
      BY <1>4, <2>1, <2>3, <3>2 DEF SelectOther, ListValid, FormsValid
  <2> QED
    BY <2>2, <2>3
<1>5. ASSUME NEW i, didSelectRow(i)
      PROVE  ListValid' /\ FormsValid'
  <2>1. CASE i \in DOMAIN list.credentials /\ i \in DOMAIN list.credentialIDs
    <3>1. /\ list.credentials \in Seq(Entries)
          /\ list.credentialIDs \in Seq(Ids)
      BY DEF Typing, ListRecords
    <3>2. list.credentials[i] \in Entries /\ list.credentialIDs[i] \in Ids
      BY <2>1, <3>1, LenProperties, ElementOfSeq
    <3>3. /\ form' = [form EXCEPT !["edit"] =
                        editFor(list.credentials[i], list.credentialIDs[i])]
          /\ list' = [list EXCEPT !.observing = FALSE]
          /\ tab' = tab
      BY <1>5, <2>1, Zenon DEF didSelectRow, ListWillDisappear
    <3>4. FormValid(editFor(list.credentials[i], list.credentialIDs[i]))
      BY <2>1, <3>2, FormOperations DEF ListValid
    <3>5. /\ form'["edit"] = editFor(list.credentials[i], list.credentialIDs[i])
          /\ form'["new"] = form["new"]
      BY <1>0, <3>3 DEF Forms
    <3>6. list'.credentials = list.credentials
      BY <3>3 DEF Typing, ListRecords
    <3> QED
      BY <3>3, <3>4, <3>5, <3>6 DEF ListValid, FormsValid
  <2>2. CASE ~(/\ i \in DOMAIN list.credentials
               /\ i \in DOMAIN list.credentialIDs)
    BY <1>5, <2>2 DEF didSelectRow, ListValid, FormsValid
  <2> QED
    BY <2>1, <2>2
<1>6. CASE Back
  <2>1. ListWillAppear(list, instance.user, FALSE)
    BY <1>6 DEF Back
  <2>2. form'["new"] = form["new"] /\ pushed' = FALSE /\ tab' = tab
    BY <1>0, <1>6 DEF Back, PopEdit, Forms
  <2> QED
    BY <2>1, <2>2, AppearsValid DEF FormsValid
<1>7. ASSUME NEW v \in Forms,
             \/ onUsernameChanged(v) \/ onWebsiteChanged(v)
             \/ onPasswordChanged(v) \/ onRegenerateTapped(v)
      PROVE  ListValid' /\ FormsValid'
  <2>1. PICK f \in FormRecords :
          /\ form' = [form EXCEPT ![v] = f]
          /\ FormValid(form[v]) => FormValid(f)
    <3>0. form[v] \in FormRecords
      BY <1>0
    <3>1. CASE onUsernameChanged(v)
      <4>1. PICK t \in Usernames :
              form' = [form EXCEPT ![v] = Typed(form[v], "username", t)]
        BY <3>1 DEF onUsernameChanged, onChanged
      <4> QED
        BY <3>0, <4>1, TypedType, TypedValid
    <3>2. CASE onWebsiteChanged(v)
      <4>1. PICK t \in Websites :
              form' = [form EXCEPT ![v] = Typed(form[v], "website", t)]
        BY <3>2 DEF onWebsiteChanged, onChanged
      <4> QED
        BY <3>0, <4>1, TypedType, TypedValid
    <3>3. CASE onPasswordChanged(v)
      <4>1. PICK t \in Passwords :
              form' = [form EXCEPT ![v] = Typed(form[v], "password", t)]
        BY <3>3 DEF onPasswordChanged, onChanged
      <4> QED
        BY <3>0, <4>1, TypedType, TypedValid
    <3>4. CASE onRegenerateTapped(v)
      <4>1. PICK p \in Generated : form' = [form EXCEPT ![v] = regeneratePassword(@, p)]
        BY <3>4 DEF onRegenerateTapped
      <4>2. p \in Passwords
        BY TextAssumption
      <4>3. /\ regeneratePassword(form[v], p) \in FormRecords
            /\ FormValid(form[v]) => FormValid(regeneratePassword(form[v], p))
        BY <3>0, <4>2, FormTypes, FormOperations
      <4>4. form' = [form EXCEPT ![v] = regeneratePassword(form[v], p)]
        BY <4>1
      <4> QED
        BY <4>3, <4>4
    <3> QED
      BY <1>7, <3>1, <3>2, <3>3, <3>4
  <2>2. form'[v] = f /\ \A w \in Forms \ {v} : form'[w] = form[w]
    BY <1>0, <2>1
  <2>3. list' = list /\ pushed' = pushed /\ tab' = tab
    BY <1>7 DEF onUsernameChanged, onWebsiteChanged, onPasswordChanged,
                onChanged, onRegenerateTapped, windowVars
  <2>4. \A w \in Forms : FormValid(form[w]) => FormValid(form'[w])
    BY <2>1, <2>2
  <2> QED
    BY <2>3, <2>4 DEF ListValid, FormsValid, Forms
<1>8. CASE \E v \in Forms : onSaveButtonPressed(v)
  BY <1>8 DEF onSaveButtonPressed, ListValid, FormsValid
<1> QED
  BY <1>1, <1>2, <1>3, <1>4, <1>5, <1>6, <1>7, <1>8 DEF Touch

\* The blocks of the main queue do, since a snapshot they run on is sound.
LEMMA MainValid ==
  ASSUME Typing, SnapshotsSound, ListValid, FormsValid, Main
  PROVE  ListValid' /\ FormsValid'
<1>1. CASE OnAuthState
  BY <1>1 DEF OnAuthState, ListValid, FormsValid
<1>2. CASE SegueFirst
  BY <1>2, AppearsValid DEF SegueFirst, Segue, FormsValid
<1>3. CASE SegueKnown
  BY <1>3, AppearsValid DEF SegueKnown, Segue, FormsValid
<1>4. CASE SegueStale
  <2>1. list'.credentials = <<>>
    BY <1>4 DEF SegueStale, Typing, ListRecords
  <2> QED
    BY <1>4, <2>1 DEF SegueStale, Segue, ListValid, FormsValid
<1>5. CASE OnSignedIn
  BY <1>5 DEF OnSignedIn, ListValid, FormsValid
<1>6. CASE OnValue
  <2> DEFINE b == Head(mainQueue)
  <2>1. b \in Blocks /\ b.type = "read"
    BY <1>6, RunType DEF OnValue
  <2>2. b.user \in Users /\ b.node \in Nodes
    BY <2>1, ReadBlockType
  <2>3. OnSnapshot(b.node, b.user, b.reader)
    BY <1>6 DEF OnValue
  <2>4. Filled(b.node, b.user)
    BY <2>2, <2>3, SnapshotFacts, TypingIsTypeOK
  <2>5. NodeSound(b.node, b.user)
    <3>1. mainQueue \in Seq(Blocks) /\ mainQueue # <<>>
      BY <1>6 DEF Typing, OnValue, Run
    <3>2. 1 \in DOMAIN mainQueue /\ b = mainQueue[1]
      BY <3>1, EmptySeq, LenProperties
    <3> QED
      BY <2>1, <3>2 DEF SnapshotsSound
  <2>6. ListValid'
    BY <2>2, <2>4, <2>5, FilledValid
  <2> QED
    BY <1>6, <2>6 DEF OnValue, FormsValid
<1>7. CASE OnSavedNew
  <2>1. CASE tab = "list"
    BY <1>7, <2>1 DEF OnSavedNew, ListValid, FormsValid
  <2>2. CASE tab # "list"
    BY <1>7, <2>2, TabAppearsValid DEF OnSavedNew
  <2> QED
    BY <2>1, <2>2
<1>8. CASE OnSavedEdit
  <2>1. form'["new"] = form["new"] /\ pushed' = FALSE /\ tab' = tab
    BY <1>8 DEF OnSavedEdit, PopEdit, Forms, Typing
  <2>2. ListValid'
    <3>1. CASE tab = "list"
      BY <1>8, <3>1, AppearsValid DEF OnSavedEdit
    <3>2. CASE tab # "list"
      BY <1>8, <3>2 DEF OnSavedEdit, ListValid
    <3> QED
      BY <3>1, <3>2
  <2> QED
    BY <2>1, <2>2 DEF FormsValid
<1>9. CASE OnSavedGone
  BY <1>9 DEF OnSavedGone, ListValid, FormsValid
<1> QED
  BY <1>1, <1>2, <1>3, <1>4, <1>5, <1>6, <1>7, <1>8, <1>9 DEF Main

\* So does every step.
LEMMA NextValid ==
  ASSUME Typing, SnapshotsSound, ListValid, FormsValid, [Next]_vars
  PROVE  ListValid' /\ FormsValid'
<1>1. CASE Server
  BY <1>1 DEF Server, DatabaseOnly, SignInSucceeds, CompleteSignIn, windowVars,
              ListValid, FormsValid
<1>2. CASE Relaunch
  BY <1>2 DEF Relaunch, NewList, ListValid, FormsValid
<1>3. CASE UNCHANGED vars
  BY <1>3 DEF vars, windowVars, ListValid, FormsValid
<1> QED
  BY <1>1, <1>2, <1>3, TouchValid, MainValid DEF Next

\* When no other client writes to the users' nodes, a save button that can be
\* pressed always belongs to a credential save() accepts, so the overlay
\* onSaveButtonPressed puts up always has a request behind it.
THEOREM SaveIsNeverSilent ==
  ASSUME Foreign = {}
  PROVE  Spec => []SaveNeverSilent
<1>1. Init => CircleInv
  <2> SUFFICES ASSUME Init
               PROVE  CircleInv
    OBVIOUS
  <2>1. Typing
    BY InitTyping
  <2>2. PutsSound /\ StoredSound
    BY DEF Init, StoreInit, PutsSound, StoredSound, EmptyNode
  <2>3. SnapshotsSound
    <3>1. \A i \in DOMAIN mainQueue : mainQueue[i] = AuthState
      BY DEF Init, LaunchQueue
    <3> QED
      BY <3>1, OtherBlocks DEF SnapshotsSound
  <2>4. ListValid /\ FormsValid
    BY DEF Init, WindowInit, NewList, ListValid, FormsValid
  <2> QED
    BY <2>1, <2>2, <2>3, <2>4 DEF CircleInv
<1>2. CircleInv /\ [Next]_vars => CircleInv'
  BY NextTyping, NextStore, WritesStaySound, StoreStaysSound,
     SnapshotsStaySound, NextValid DEF CircleInv
<1>3. CircleInv => SaveNeverSilent
  <2> SUFFICES ASSUME CircleInv, NEW v \in Forms, Touchable(v),
                      form[v].canSave
               PROVE  validate(form[v].credential)
    BY DEF SaveNeverSilent
  <2>1. Visible = v
    BY DEF Touchable
  <2>2. v = "edit" => pushed
    BY <2>1 DEF Visible, Shown, CircleInv, Typing, Tabs
  <2>3. v = "new" => tab = "new"
    BY <2>1 DEF Visible, Shown
  <2> QED
    BY <2>2, <2>3 DEF CircleInv, FormsValid, FormValid, Forms
<1> QED
  BY <1>1, <1>2, <1>3, PTL DEF Spec

-----------------------------------------------------------------------------
(* What a form shows is what it saves *)

\* A form shows its credential.
FormMatches(f) ==
  \A k \in {"username", "website", "password"} :
    f.fields[k] = FieldText(f.credential[k])

\* The inductive invariant: every form does, on the screen or off it.
FormsMatch == \A v \in Forms : FormMatches(form[v])

\* How the operations on a form treat what it shows.
LEMMA FormsKeepMatching ==
  /\ FormMatches(NewForm)
  /\ \A f \in FormRecords :
       FormMatches(f) => FormMatches(validateCredentials(f))
  /\ \A f \in FormRecords, p \in Passwords :
       FormMatches(f) => FormMatches(regeneratePassword(f, p))
  /\ \A f \in FormRecords : FormMatches(EditWillAppear(f))
  /\ \A entry \in Entries, id \in Ids : FormMatches(editFor(entry, id))
<1>1. FormMatches(NewForm)
  BY DEF FormMatches, NewForm, EmptyFields, NewCredential, FieldText
<1>2. ASSUME NEW f \in FormRecords, FormMatches(f)
      PROVE  FormMatches(validateCredentials(f))
  <2>1. /\ validateCredentials(f).fields = f.fields
        /\ validateCredentials(f).credential = f.credential
    BY DEF validateCredentials, FormRecords
  <2> QED
    BY <1>2, <2>1 DEF FormMatches
<1>3. ASSUME NEW f \in FormRecords, NEW p \in Passwords, FormMatches(f)
      PROVE  FormMatches(regeneratePassword(f, p))
  <2> DEFINE g == regeneratePassword(f, p)
  <2>1. /\ g.credential.username = f.credential.username
        /\ g.credential.website = f.credential.website
        /\ g.credential.password = p
        /\ g.fields.username = f.fields.username
        /\ g.fields.website = f.fields.website
        /\ g.fields.password = p
    BY DEF regeneratePassword, FormRecords, Credentials, Texts
  <2>2. p # Nil
    BY NilAssumption
  <2> HIDE DEF g
  <2>3. /\ f.fields.username = FieldText(f.credential.username)
        /\ f.fields.website = FieldText(f.credential.website)
    BY <1>3 DEF FormMatches
  <2>4. FormMatches(g)
    BY <2>1, <2>2, <2>3 DEF FormMatches, FieldText
  <2> QED
    BY <2>4 DEF g
<1>4. ASSUME NEW f \in FormRecords
      PROVE  FormMatches(EditWillAppear(f))
  <2>1. /\ EditWillAppear(f).credential = f.credential
        /\ EditWillAppear(f).fields =
             [username |-> FieldText(f.credential.username),
              website  |-> FieldText(f.credential.website),
              password |-> FieldText(f.credential.password)]
    BY DEF EditWillAppear, FormRecords
  <2> QED
    BY <2>1 DEF FormMatches
<1>5. ASSUME NEW entry \in Entries, NEW id \in Ids
      PROVE  FormMatches(editFor(entry, id))
  <2> DEFINE f == [NewForm EXCEPT !.credential = entry.cred, !.credId = id,
                                  !.origin = entry.path]
  <2>1. f \in FormRecords
    BY FormTypes DEF FormRecords, Entries
  <2>2. editFor(entry, id) = EditWillAppear(f)
    BY DEF editFor
  <2> HIDE DEF f
  <2> QED
    BY <1>4, <2>1, <2>2
<1> QED
  BY <1>1, <1>2, <1>3, <1>4, <1>5

\* Typing puts the same text into the field and into the credential.
LEMMA TypedMatches ==
  ASSUME NEW f \in FormRecords, FormMatches(f)
  PROVE  /\ \A t \in Usernames : FormMatches(Typed(f, "username", t))
         /\ \A t \in Websites : FormMatches(Typed(f, "website", t))
         /\ \A t \in Passwords : FormMatches(Typed(f, "password", t))
<1>0. /\ f.fields.username = FieldText(f.credential.username)
      /\ f.fields.website = FieldText(f.credential.website)
      /\ f.fields.password = FieldText(f.credential.password)
  BY DEF FormMatches
<1>1. ASSUME NEW t \in Usernames
      PROVE  FormMatches(Typed(f, "username", t))
  <2> DEFINE g == [f EXCEPT !.fields["username"] = t,
                            !.credential["username"] = t]
  <2>1. g \in FormRecords
    BY DEF FormRecords, Credentials, Texts
  <2>2. /\ g.fields.username = t /\ g.credential.username = t
        /\ g.fields.website = f.fields.website
        /\ g.credential.website = f.credential.website
        /\ g.fields.password = f.fields.password
        /\ g.credential.password = f.credential.password
    BY DEF FormRecords, Credentials, Texts
  <2>3. Typed(f, "username", t) = validateCredentials(g)
    BY DEF Typed
  <2>4. t # Nil
    BY NilAssumption
  <2> HIDE DEF g
  <2>5. FormMatches(g)
    BY <1>0, <2>2, <2>4 DEF FormMatches, FieldText
  <2> QED
    BY <2>1, <2>3, <2>5, FormsKeepMatching
<1>2. ASSUME NEW t \in Websites
      PROVE  FormMatches(Typed(f, "website", t))
  <2> DEFINE g == [f EXCEPT !.fields["website"] = t,
                            !.credential["website"] = t]
  <2>1. g \in FormRecords
    BY DEF FormRecords, Credentials, Texts
  <2>2. /\ g.fields.website = t /\ g.credential.website = t
        /\ g.fields.username = f.fields.username
        /\ g.credential.username = f.credential.username
        /\ g.fields.password = f.fields.password
        /\ g.credential.password = f.credential.password
    BY DEF FormRecords, Credentials, Texts
  <2>3. Typed(f, "website", t) = validateCredentials(g)
    BY DEF Typed
  <2>4. t # Nil
    BY NilAssumption
  <2> HIDE DEF g
  <2>5. FormMatches(g)
    BY <1>0, <2>2, <2>4 DEF FormMatches, FieldText
  <2> QED
    BY <2>1, <2>3, <2>5, FormsKeepMatching
<1>3. ASSUME NEW t \in Passwords
      PROVE  FormMatches(Typed(f, "password", t))
  <2> DEFINE g == [f EXCEPT !.fields["password"] = t,
                            !.credential["password"] = t]
  <2>1. g \in FormRecords
    BY DEF FormRecords, Credentials, Texts
  <2>2. /\ g.fields.password = t /\ g.credential.password = t
        /\ g.fields.username = f.fields.username
        /\ g.credential.username = f.credential.username
        /\ g.fields.website = f.fields.website
        /\ g.credential.website = f.credential.website
    BY DEF FormRecords, Credentials, Texts
  <2>3. Typed(f, "password", t) = validateCredentials(g)
    BY DEF Typed
  <2>4. t # Nil
    BY NilAssumption
  <2> HIDE DEF g
  <2>5. FormMatches(g)
    BY <1>0, <2>2, <2>4 DEF FormMatches, FieldText
  <2> QED
    BY <2>1, <2>3, <2>5, FormsKeepMatching
<1> QED
  BY <1>1, <1>2, <1>3

\* The new tab starts over with matching fields.
LEMMA NewAppearsMatches ==
  ASSUME Typing, NEW p \in Generated
  PROVE  FormMatches(NewWillAppear(p))
<1> DEFINE f == [form["new"] EXCEPT !.fields = EmptyFields,
                                    !.credential = NewCredential]
<1>1. form["new"] \in FormRecords /\ p \in Passwords
  BY ReplaceTypes, TextAssumption
<1>2. f \in FormRecords
  BY <1>1 DEF FormRecords, NewCredential, Credentials, EmptyFields, Texts
<1>3. f.fields = EmptyFields /\ f.credential = NewCredential
  BY <1>1 DEF FormRecords
<1>4. NewWillAppear(p) = validateCredentials(regeneratePassword(f, p))
  BY DEF NewWillAppear
<1> HIDE DEF f
<1>5. FormMatches(f)
  BY <1>3 DEF FormMatches, EmptyFields, NewCredential, FieldText
<1>6. /\ regeneratePassword(f, p) \in FormRecords
      /\ FormMatches(regeneratePassword(f, p))
  BY <1>1, <1>2, <1>5, FormTypes, FormsKeepMatching
<1> QED
  BY <1>4, <1>6, FormsKeepMatching

\* Replacing forms by matching ones keeps all of them matching.
LEMMA ReplaceMatches ==
  ASSUME Typing, FormsMatch
  PROVE  /\ \A v \in Forms, f \in FormRecords :
              FormMatches(f) /\ form' = [form EXCEPT ![v] = f] => FormsMatch'
         /\ form' = NewTabLeft => FormsMatch'
         /\ form' = [NewTabLeft EXCEPT !["edit"] = EditWillAppear(@)]
              => FormsMatch'
         /\ form' = [v \in Forms |-> NewForm] => FormsMatch'
         /\ form' = form => FormsMatch'
<1>0. form \in [Forms -> FormRecords]
  BY DEF Typing
<1>1. ASSUME NEW v \in Forms, NEW f \in FormRecords, FormMatches(f),
             form' = [form EXCEPT ![v] = f]
      PROVE  FormsMatch'
  <2>1. \A x \in Forms : form'[x] = IF x = v THEN f ELSE form[x]
    BY <1>0, <1>1
  <2>2. \A x \in Forms : FormMatches(form'[x])
    BY <1>1, <2>1 DEF FormsMatch
  <2> QED
    BY <2>2 DEF FormsMatch, FormMatches, FieldText
<1>2. ASSUME form' = NewTabLeft
      PROVE  FormsMatch'
  BY <1>1, <1>2, FormTypes, FormsKeepMatching DEF NewTabLeft, Forms
<1>3. ASSUME form' = [NewTabLeft EXCEPT !["edit"] = EditWillAppear(@)]
      PROVE  FormsMatch'
  <2>1. /\ form'["new"] = NewForm
        /\ form'["edit"] = EditWillAppear(form["edit"])
    BY <1>0, <1>3 DEF NewTabLeft, Forms
  <2>2. FormMatches(form'["new"]) /\ FormMatches(form'["edit"])
    BY <2>1, ReplaceTypes, FormsKeepMatching
  <2> QED
    BY <2>2 DEF FormsMatch, FormMatches, Forms, FieldText
<1>4. ASSUME form' = [v \in Forms |-> NewForm]
      PROVE  FormsMatch'
  <2>1. \A v \in Forms : FormMatches(form'[v])
    BY <1>4, FormsKeepMatching
  <2> QED
    BY <2>1 DEF FormsMatch, FormMatches, FieldText
<1>5. ASSUME form' = form
      PROVE  FormsMatch'
  BY <1>5 DEF FormsMatch, FormMatches, FieldText
<1> QED
  BY <1>1, <1>2, <1>3, <1>4, <1>5

\* Every step keeps the forms matching.
LEMMA NextMatches ==
  ASSUME Typing, FormsMatch, [Next]_vars
  PROVE  FormsMatch'
<1>0. form \in [Forms -> FormRecords] /\ "new" \in Forms /\ "edit" \in Forms
  BY DEF Typing, Forms
<1>1. CASE Touch
  <2>1. CASE form' = form
    BY <2>1, ReplaceMatches
  <2>2. CASE signOut
    BY <2>2, ReplaceMatches DEF signOut
  <2>3. CASE SelectList
    BY <2>3, ReplaceMatches, Zenon DEF SelectList, ListTabAppears
  <2>4. ASSUME NEW t \in {"new", "settings"}, SelectOther(t)
        PROVE  FormsMatch'
    <3>1. CASE t = "new"
      <4>1. PICK p \in Generated :
              form' = [form EXCEPT !["new"] = NewWillAppear(p)]
        BY <2>4, <3>1 DEF SelectOther
      <4>2. NewWillAppear(p) \in FormRecords /\ p \in Passwords
        BY TypingIsTypeOK, NewAppearsType, TextAssumption DEF TypeOK
      <4> QED
        BY <1>0, <4>1, <4>2, NewAppearsMatches, ReplaceMatches
    <3>2. CASE t # "new"
      BY <2>4, <3>2, ReplaceMatches DEF SelectOther
    <3> QED
      BY <3>1, <3>2
  <2>5. ASSUME NEW i, didSelectRow(i), form' # form
        PROVE  FormsMatch'
    <3>1. i \in DOMAIN list.credentials /\ i \in DOMAIN list.credentialIDs
      BY <2>5, Zenon DEF didSelectRow
    <3>2. /\ list.credentials \in Seq(Entries)
          /\ list.credentialIDs \in Seq(Ids)
      BY DEF Typing, ListRecords
    <3>3. list.credentials[i] \in Entries /\ list.credentialIDs[i] \in Ids
      BY <3>1, <3>2, LenProperties, ElementOfSeq
    <3>4. form' = [form EXCEPT !["edit"] =
                     editFor(list.credentials[i], list.credentialIDs[i])]
      BY <2>5, <3>1, Zenon DEF didSelectRow
    <3> QED
      BY <1>0, <3>3, <3>4, EditForType, FormsKeepMatching, ReplaceMatches
  <2>6. CASE Back
    BY <1>0, <2>6, FormTypes, FormsKeepMatching, ReplaceMatches
    DEF Back, PopEdit
  <2>7. ASSUME NEW v \in Forms,
               \/ onUsernameChanged(v) \/ onWebsiteChanged(v)
               \/ onPasswordChanged(v) \/ onRegenerateTapped(v)
        PROVE  FormsMatch'
    <3>0. form[v] \in FormRecords /\ FormMatches(form[v])
      BY <1>0 DEF FormsMatch
    <3>1. CASE onUsernameChanged(v)
      <4>1. PICK t \in Usernames :
              form' = [form EXCEPT ![v] = Typed(form[v], "username", t)]
        BY <3>1 DEF onUsernameChanged, onChanged
      <4> QED
        BY <3>0, <4>1, TypedType, TypedMatches, ReplaceMatches
    <3>2. CASE onWebsiteChanged(v)
      <4>1. PICK t \in Websites :
              form' = [form EXCEPT ![v] = Typed(form[v], "website", t)]
        BY <3>2 DEF onWebsiteChanged, onChanged
      <4> QED
        BY <3>0, <4>1, TypedType, TypedMatches, ReplaceMatches
    <3>3. CASE onPasswordChanged(v)
      <4>1. PICK t \in Passwords :
              form' = [form EXCEPT ![v] = Typed(form[v], "password", t)]
        BY <3>3 DEF onPasswordChanged, onChanged
      <4> QED
        BY <3>0, <4>1, TypedType, TypedMatches, ReplaceMatches
    <3>4. CASE onRegenerateTapped(v)
      <4>1. PICK p \in Generated :
              form' = [form EXCEPT ![v] = regeneratePassword(form[v], p)]
        BY <3>4 DEF onRegenerateTapped
      <4>2. /\ regeneratePassword(form[v], p) \in FormRecords
            /\ FormMatches(regeneratePassword(form[v], p))
        BY <3>0, TextAssumption, FormTypes, FormsKeepMatching
      <4> QED
        BY <4>1, <4>2, ReplaceMatches
    <3> QED
      BY <2>7, <3>1, <3>2, <3>3, <3>4
  <2>8. ASSUME \/ \E u \in Users : login(u)
               \/ \E v \in Forms : onSaveButtonPressed(v)
        PROVE  form' = form
    BY <2>8 DEF login, onSaveButtonPressed
  <2> QED
    BY <1>1, <2>1, <2>2, <2>3, <2>4, <2>5, <2>6, <2>7, <2>8 DEF Touch
<1>2. CASE Main
  <2>1. CASE OnSavedNew
    BY <2>1, ReplaceMatches, Zenon DEF OnSavedNew, ListTabAppears
  <2>2. CASE OnSavedEdit
    BY <1>0, <2>2, FormTypes, FormsKeepMatching, ReplaceMatches
    DEF OnSavedEdit, PopEdit
  <2>3. CASE ~OnSavedNew /\ ~OnSavedEdit
    <3>1. form' = form
      BY <1>2, <2>3 DEF Main, OnAuthState, SegueFirst, SegueKnown, SegueStale,
         Segue, OnSignedIn, OnValue, OnSavedGone
    <3> QED
      BY <3>1, ReplaceMatches
  <2> QED
    BY <2>1, <2>2, <2>3
<1>3. CASE Server
  <2>1. form' = form
    BY <1>3 DEF Server, DatabaseOnly, SignInSucceeds, CompleteSignIn
  <2> QED
    BY <2>1, ReplaceMatches
<1>4. CASE Relaunch
  BY <1>4, ReplaceMatches DEF Relaunch
<1>5. CASE UNCHANGED vars
  BY <1>5, ReplaceMatches DEF vars
<1> QED
  BY <1>1, <1>2, <1>3, <1>4, <1>5 DEF Next

\* A form on the screen shows the texts save() would send: typing, generated
\* passwords, rows opened while the list reloads, tabs left and found again,
\* sign-outs and process deaths never separate the two.
THEOREM FormsShowWhatTheySave == Spec => []FieldsMatch
<1>1. Init => Typing /\ FormsMatch
  <2> SUFFICES ASSUME Init
               PROVE  FormsMatch
    BY InitTyping
  <2>1. form = [v \in Forms |-> NewForm]
    BY DEF Init
  <2>2. \A v \in Forms : form[v] = NewForm
    BY <2>1
  <2> QED
    BY <2>2, FormsKeepMatching DEF FormsMatch
<1>2. Typing /\ FormsMatch /\ [Next]_vars => (Typing /\ FormsMatch)'
  BY NextTyping, NextMatches
<1>3. FormsMatch => FieldsMatch
  BY DEF FormsMatch, FormMatches, FieldsMatch
<1> QED
  BY <1>1, <1>2, <1>3, PTL DEF Spec

-----------------------------------------------------------------------------
(* The singleton and the user FIRAuth has *)

\* A block of an authentication listener waits on a queue.
AuthType(b) == b.type \in {"authState", "authInitial"}
AuthQueued(q) == \E i \in DOMAIN q : AuthType(q[i])

\* The tab bar is there only for a user and with the singleton; the singleton
\* is behind FIRAuth only while a listener's block waits; and it has the user
\* its listener was last called with, unless that was nil.
SessionInv ==
  /\ screen = "main" => instance.exists /\ auth # Nil
  /\ instance.exists /\ ~AuthQueued(mainQueue) => instance.seen = auth
  /\ instance.seen # Nil => instance.user = instance.seen

\* No operation on a queue loses a listener's block, except running it.
LEMMA QueueKeepsAuth ==
  ASSUME NEW q \in Seq(Blocks)
  PROVE  /\ q # <<>> /\ AuthQueued(q) /\ ~AuthType(Head(q))
              => AuthQueued(Tail(q))
         /\ \A b \in Blocks : AuthQueued(q) => AuthQueued(q \o <<b>>)
         /\ \A b \in Blocks : AuthType(b) => AuthQueued(q \o <<b>>)
         /\ \A who : AuthQueued(q) => AuthQueued(OrphanBlocks(q, who))
<1>0. Len(q) \in Nat /\ DOMAIN q = 1..Len(q)
  BY LenProperties
<1>1. ASSUME q # <<>>, AuthQueued(q), ~AuthType(Head(q))
      PROVE  AuthQueued(Tail(q))
  <2>1. /\ Tail(q) \in Seq(Blocks) /\ Len(Tail(q)) = Len(q) - 1
        /\ \A i \in 1..Len(Tail(q)) : Tail(q)[i] = q[i+1]
        /\ Head(q) = q[1]
    BY <1>1, HeadTailProperties
  <2>2. DOMAIN Tail(q) = 1..Len(Tail(q))
    BY <2>1, LenProperties
  <2>3. PICK i \in 1..Len(q) : AuthType(q[i])
    BY <1>0, <1>1 DEF AuthQueued
  <2>4. i # 1
    BY <1>1, <2>1, <2>3
  <2>5. i - 1 \in DOMAIN Tail(q) /\ Tail(q)[i - 1] = q[i]
    BY <1>0, <2>1, <2>2, <2>4
  <2> QED
    BY <2>3, <2>5 DEF AuthQueued
<1>2. ASSUME NEW b \in Blocks
      PROVE  /\ AuthQueued(q) => AuthQueued(q \o <<b>>)
             /\ AuthType(b) => AuthQueued(q \o <<b>>)
  <2>1. <<b>> \in Seq(Blocks) /\ Len(<<b>>) = 1 /\ <<b>>[1] = b
    OBVIOUS
  <2>2. /\ q \o <<b>> \in Seq(Blocks)
        /\ Len(q \o <<b>>) = Len(q) + 1
        /\ \A i \in 1..(Len(q) + 1) :
             (q \o <<b>>)[i] = IF i <= Len(q) THEN q[i] ELSE <<b>>[i - Len(q)]
    BY <2>1, ConcatProperties
  <2>3. DOMAIN (q \o <<b>>) = 1..(Len(q) + 1)
    BY <2>2, LenProperties
  <2>4. /\ \A i \in DOMAIN q : /\ i \in DOMAIN (q \o <<b>>)
                               /\ (q \o <<b>>)[i] = q[i]
        /\ Len(q) + 1 \in DOMAIN (q \o <<b>>)
        /\ (q \o <<b>>)[Len(q) + 1] = b
    BY <1>0, <2>1, <2>2, <2>3
  <2> QED
    BY <2>4 DEF AuthQueued
<1>3. ASSUME NEW who, AuthQueued(q)
      PROVE  AuthQueued(OrphanBlocks(q, who))
  <2>1. PICK i \in DOMAIN q : AuthType(q[i])
    BY <1>3 DEF AuthQueued
  <2>2. OrphanBlocks(q, who)[i] = q[i] /\ i \in DOMAIN OrphanBlocks(q, who)
    BY <2>1 DEF OrphanBlocks, AuthType
  <2> QED
    BY <2>1, <2>2 DEF AuthQueued
<1> QED
  BY <1>1, <1>2, <1>3

\* What Listened is, field by field.
LEMMA ListenedFields ==
  ASSUME Typing
  PROVE  /\ Listened.exists = instance.exists
         /\ instance.exists => Listened.seen = auth
         /\ (instance.seen # Nil => instance.user = instance.seen)
              => (Listened.seen # Nil => Listened.user = Listened.seen)
<1>1. instance \in Instances
  BY DEF Typing
<1> QED
  BY <1>1 DEF Listened, ListenerCalled, Instances

\* A step that leaves singleton and FIRAuth alone, and no tab bar new, only
\* has to keep the listener's blocks.
LEMMA SessionKept ==
  ASSUME SessionInv, instance' = instance, auth' = auth,
         screen' = screen \/ screen' = "login",
         AuthQueued(mainQueue) => AuthQueued(mainQueue')
  PROVE  SessionInv'
<1>1. AuthQueued(mainQueue)' = AuthQueued(mainQueue')
  BY DEF AuthQueued, AuthType
<1> QED
  BY <1>1 DEF SessionInv

\* Every step keeps singleton and FIRAuth together.
LEMMA NextSession ==
  ASSUME Typing, SessionInv, [Next]_vars
  PROVE  SessionInv'
<1>0. mainQueue \in Seq(Blocks)
  BY DEF Typing
<1>q. AuthQueued(mainQueue)' = AuthQueued(mainQueue')
  BY DEF AuthQueued, AuthType
<1>a. AuthType(AuthState) /\ AuthType(AuthInitial)
  BY DEF AuthType, AuthState, AuthInitial
<1>1. CASE Touch
  <2>1. CASE signOut
    <3>1. OrphanBlocks(mainQueue, {"new", "edit", "list"}) \in Seq(Blocks)
      BY <1>0, OrphanTypes
    <3>2. mainQueue' = OrphanBlocks(mainQueue, {"new", "edit", "list"})
                         \o <<AuthState>>
      BY <2>1, <3>1, BlockTypes, AppendIsConcat DEF signOut
    <3>3. AuthQueued(mainQueue')
      BY <1>a, <3>1, <3>2, QueueKeepsAuth, BlockTypes
    <3> QED
      BY <1>q, <2>1, <3>3 DEF signOut, SessionInv
  <2>2. CASE Back
    BY <1>0, <2>2, QueueKeepsAuth, SessionKept DEF Back, authVars
  <2>3. CASE ~signOut /\ ~Back
    <3>1. UNCHANGED <<mainQueue, instance, auth, screen>>
      BY <1>1, <2>3 DEF Touch, login, SelectList, SelectOther, didSelectRow,
         onUsernameChanged, onWebsiteChanged, onPasswordChanged, onChanged,
         onRegenerateTapped, onSaveButtonPressed, storeVars, windowVars,
         authVars
    <3> QED
      BY <3>1, SessionKept
  <2> QED
    BY <2>1, <2>2, <2>3
<1>2. CASE Main
  <2>1. CASE OnAuthState
    BY <2>1, ListenedFields DEF OnAuthState, authVars, SessionInv
  <2>2. CASE SegueFirst
    <3>1. Tail(mainQueue) \in Seq(Blocks)
      BY <2>2, RunType DEF SegueFirst, Segue
    <3>2. mainQueue' = Tail(mainQueue) \o <<AuthInitial>>
      BY <2>2, <3>1, BlockTypes, AppendIsConcat DEF SegueFirst
    <3>3. AuthQueued(mainQueue')
      BY <1>a, <3>1, <3>2, QueueKeepsAuth, BlockTypes
    <3>4. /\ instance'.exists = TRUE
          /\ instance'.seen = instance.seen /\ instance'.user = instance.user
      BY <2>2 DEF SegueFirst, Typing, Instances
    <3> QED
      BY <1>q, <2>2, <3>3, <3>4 DEF SegueFirst, Segue, authVars, SessionInv
  <2>3. CASE SegueKnown \/ SegueStale
    BY <2>3, ListenedFields DEF SegueKnown, SegueStale, Segue, authVars,
                                SessionInv
  <2>4. CASE OnSignedIn \/ OnValue \/ OnSavedNew \/ OnSavedGone
    <3>1. /\ UNCHANGED <<instance, auth, screen>>
          /\ mainQueue # <<>>
          /\ mainQueue' = Tail(mainQueue)
          /\ Head(mainQueue).type \in {"signedIn", "read", "put"}
      BY <2>4 DEF OnSignedIn, OnValue, OnSavedNew, OnSavedGone, Run, authVars
    <3>2. ~AuthType(Head(mainQueue))
      BY <3>1 DEF AuthType
    <3> QED
      BY <1>0, <3>1, <3>2, QueueKeepsAuth, SessionKept
  <2>5. CASE OnSavedEdit
    <3>1. /\ UNCHANGED <<instance, auth, screen>>
          /\ mainQueue # <<>>
          /\ mainQueue' = OrphanBlocks(Tail(mainQueue), {"edit"})
          /\ Head(mainQueue).type = "put"
      BY <2>5 DEF OnSavedEdit, Run, authVars
    <3>2. ~AuthType(Head(mainQueue))
      BY <3>1 DEF AuthType
    <3>3. Tail(mainQueue) \in Seq(Blocks)
      BY <2>5, RunType DEF OnSavedEdit
    <3> QED
      BY <1>0, <3>1, <3>2, <3>3, QueueKeepsAuth, SessionKept
  <2> QED
    BY <1>2, <2>1, <2>2, <2>3, <2>4, <2>5 DEF Main
<1>3. CASE Server
  <2>1. ASSUME NEW i \in DOMAIN signIns, SignInSucceeds(i)
        PROVE  SessionInv'
    <3>1. AuthQueued(mainQueue')
      BY <1>0, <1>a, <2>1, QueueKeepsAuth, BlockTypes
      DEF SignInSucceeds, Dispatch
    <3>2. auth' # Nil
      <4>1. signIns[i] \in SignInRequests
        BY ElementOfSeq, LenProperties DEF Typing
      <4> QED
        BY <2>1, <4>1, NilAssumption DEF SignInSucceeds, SignInRequests
    <3> QED
      BY <1>q, <2>1, <3>1, <3>2 DEF SignInSucceeds, windowVars, SessionInv
  <2>2. ASSUME NEW i \in DOMAIN signIns, CompleteSignIn(i)
        PROVE  SessionInv'
    BY <1>0, <2>2, QueueKeepsAuth, BlockTypes, SessionKept
    DEF CompleteSignIn, Dispatch, windowVars
  <2>3. ASSUME AnswerRead, DatabaseOnly
        PROVE  SessionInv'
    <3> DEFINE b == [type |-> "read", user |-> Head(reads).user,
                     node |-> LocalView[Head(reads).user],
                     reader |-> Head(reads).reader]
    <3>1. Head(reads) \in Reads
      BY <2>3, HeadTailProperties DEF AnswerRead, Typing
    <3>2. StoreTypeOK /\ Len(puts) \in 0..Len(puts)
      BY LenProperties DEF Typing, StoreTypeOK
    <3>3. LocalView \in [Users -> Nodes]
      BY <3>2, AppliedType DEF LocalView
    <3>4. b \in Blocks
      BY <3>1, <3>3, BlockTypes DEF Reads
    <3>5. mainQueue' = mainQueue \o <<b>>
      BY <2>3 DEF AnswerRead, Dispatch
    <3>6. UNCHANGED <<instance, auth, screen>>
      BY <2>3 DEF DatabaseOnly, windowVars, authVars
    <3> HIDE DEF b
    <3> QED
      BY <1>0, <3>4, <3>5, <3>6, QueueKeepsAuth, SessionKept
  <2>4. ASSUME AckPut \/ DenyPut, DatabaseOnly
        PROVE  SessionInv'
    <3>1. Head(puts) \in Puts
      BY <2>4, HeadTailProperties DEF AckPut, DenyPut, Typing
    <3>2. \E ok \in BOOLEAN :
            mainQueue' = mainQueue \o <<[type |-> "put", ok |-> ok,
                                         saver |-> Head(puts).saver]>>
      BY <2>4 DEF AckPut, DenyPut, Dispatch
    <3>3. AuthQueued(mainQueue) => AuthQueued(mainQueue')
      BY <1>0, <3>1, <3>2, QueueKeepsAuth, BlockTypes DEF Puts
    <3> QED
      BY <2>4, <3>3, SessionKept DEF DatabaseOnly, windowVars, authVars
  <2>5. ASSUME DatabaseOnly,
               \/ DenyRead
               \/ \E u \in Users, id \in Ids, child \in Foreign :
                    ForeignWrite(u, id, child)
        PROVE  SessionInv'
    <3>1. mainQueue' = mainQueue
      BY <2>5 DEF DenyRead, ForeignWrite
    <3> QED
      BY <2>5, <3>1, SessionKept DEF DatabaseOnly, windowVars, authVars
  <2> QED
    BY <1>3, <2>1, <2>2, <2>3, <2>4, <2>5 DEF Server
<1>4. CASE Relaunch
  BY <1>4 DEF Relaunch, SessionInv
<1>5. CASE UNCHANGED vars
  BY <1>5, SessionKept DEF vars, storeVars, windowVars, authVars
<1> QED
  BY <1>1, <1>2, <1>3, <1>4, <1>5 DEF Next

\* The singleton is told of no sign-out and hears of a sign-in only when its
\* listener's block runs; yet whoever can touch the list or a form is the
\* user FIRAuth has, however many sign-ins overlap.
THEOREM SingletonFollowsAuth == Spec => []SingletonIsCurrent
<1>1. Init => Typing /\ SessionInv
  BY InitTyping DEF Init, WindowInit, SessionInv
<1>2. Typing /\ SessionInv /\ [Next]_vars => (Typing /\ SessionInv)'
  BY NextTyping, NextSession
<1>3. Typing /\ SessionInv => SingletonIsCurrent
  <2> SUFFICES ASSUME Typing, SessionInv, NEW s \in {"list", "new", "edit"},
                      Touchable(s)
               PROVE  instance.user = auth
    BY DEF SingletonIsCurrent
  <2>1. screen = "main"
    BY DEF Touchable, Visible, Typing
  <2>2. ~AuthQueued(mainQueue)
    BY DEF Touchable, AuthQueued, AuthType
  <2> QED
    BY <2>1, <2>2 DEF SessionInv
<1> QED
  BY <1>1, <1>2, <1>3, PTL DEF Spec

-----------------------------------------------------------------------------
(* The three arrays of the list *)

\* A set of natural numbers has a least one.
LEMMA LeastNumber ==
  ASSUME NEW T, T \in SUBSET Nat, T # {}
  PROVE  \E x \in T : \A y \in T : x =< y
<1> DEFINE R == {p \in Nat \X Nat : p[1] < p[2]}
<1>1. IsWellFoundedOn(R, Nat)
  BY NatLessThanWellFounded DEF OpToRel
<1>2. PICK x \in T : \A y \in T : ~(<<y, x>> \in R)
  <2> HIDE DEF R
  <2> QED
    BY <1>1, WFMin
<1>3. ASSUME NEW y \in T
      PROVE  x =< y
  <2>1. x \in Nat /\ y \in Nat
    OBVIOUS
  <2>2. <<y, x>> \in Nat \X Nat /\ <<y, x>>[1] = y /\ <<y, x>>[2] = x
    BY <2>1
  <2>3. ~(y < x)
    BY <1>2, <2>2
  <2> QED
    BY <2>1, <2>3
<1> QED
  BY <1>3

\* Listing all of 1..n in increasing order is counting.
LEMMA IncreasingIsCounting ==
  ASSUME NEW n \in Nat, NEW f \in Increasing(1..n)
  PROVE  DOMAIN f = 1..n /\ \A i \in 1..n : f[i] = i
<1>1. Cardinality(1..n) = n
  BY FS_Interval
<1>2. /\ f \in [1..n -> 1..n]
      /\ \A i, j \in 1..n : i < j => f[i] < f[j]
  BY <1>1 DEF Increasing, Injection
<1>3. \A i \in 1..n : f[i] >= i
  <2> DEFINE T == {i \in 1..n : f[i] < i}
  <2>1. SUFFICES ASSUME T # {}
                 PROVE  FALSE
    BY <1>2
  <2>2. PICK m \in T : \A y \in T : m =< y
    BY <2>1, LeastNumber, T \in SUBSET Nat
  <2>3. m \in 1..n /\ f[m] < m /\ f[m] \in 1..n
    BY <1>2, <2>2
  <2>4. m - 1 \in 1..n /\ ~(m - 1 \in T)
    BY <2>2, <2>3
  <2>5. f[m - 1] >= m - 1 /\ f[m - 1] < f[m] /\ f[m - 1] \in 1..n
    BY <1>2, <2>3, <2>4
  <2> QED
    BY <2>3, <2>5
<1>4. \A i \in 1..n : f[i] =< i
  <2> DEFINE T == {k \in 0..n : n - k \in 1..n /\ f[n - k] > n - k}
  <2>1. SUFFICES ASSUME NEW i \in 1..n, f[i] > i
                 PROVE  FALSE
    BY <1>2
  <2>2. n - i \in T
    BY <2>1
  <2>3. PICK k \in T : \A y \in T : k =< y
    BY <2>2, LeastNumber, T \in SUBSET Nat
  <2>4. k \in 0..n /\ n - k \in 1..n /\ f[n - k] > n - k /\ f[n - k] \in 1..n
    BY <1>2, <2>3
  <2>5. k # 0
    BY <2>4
  <2>6. k - 1 \in 0..n /\ n - (k - 1) \in 1..n /\ n - (k - 1) = (n - k) + 1
    BY <2>4, <2>5
  <2>7. ~(k - 1 \in T)
    BY <2>3, <2>6
  <2>8. ~(f[n - (k - 1)] > n - (k - 1))
    BY <2>6, <2>7
  <2>9. f[n - k] < f[n - (k - 1)] /\ f[n - (k - 1)] \in 1..n
    BY <1>2, <2>4, <2>6
  <2> QED
    BY <2>4, <2>6, <2>8, <2>9
<1> QED
  BY <1>2, <1>3, <1>4

\* A sound child decrypts with its user's key and throws with any other.
LEMMA SoundOutcome ==
  ASSUME NEW u \in Users, NEW child, Sound(child, u), NEW key
  PROVE  ChildOutcome(child, key) = IF key = uidHash(u) THEN "ok" ELSE "throws"
<1>1. child \in RawCredentials /\ DecryptOutcome(child, uidHash(u)) = "ok"
  BY DEF Sound
<1>2. child # Malformed
  BY <1>1, RawAssumption
<1>3. Nil \notin {child.username, child.password, child.website}
  BY <1>1 DEF DecryptOutcome
<1>4. \A f \in {child.username, child.password, child.website} :
        FieldOutcome(f, uidHash(u)) = "ok"
  BY <1>1, <1>3 DEF DecryptOutcome
<1>5. \A f \in {child.username, child.password, child.website} :
        f # NotBase64 /\ f.key = uidHash(u)
  BY <1>4 DEF FieldOutcome
<1>6. key # uidHash(u) => DecryptOutcome(child, key) = "throws"
  BY <1>3, <1>5 DEF DecryptOutcome, FieldOutcome
<1> QED
  BY <1>1, <1>2, <1>6 DEF ChildOutcome

\* Behind every credential is its row and its id.
ArraysInStep(l) ==
  \A i \in DOMAIN l.credentials :
    /\ l.rows[i] = l.credentials[i]
    /\ i \in DOMAIN l.credentialIDs
    /\ l.credentialIDs[i] = l.credentials[i].path.id

\* The callback fills the three arrays in step from a node that is sound for
\* the user it was read for, whoever is signed in by now.
LEMMA SnapshotInStep ==
  ASSUME Typing, NEW node \in Nodes, NEW u \in Users, NodeSound(node, u),
         NEW reader, OnSnapshot(node, u, reader), ArraysInStep(list)
  PROVE  ArraysInStep(list')
<1> DEFINE key == uidHash(instance.user)
<1>1. CASE list' = list
  BY <1>1
<1>2. ASSUME NEW keys \in KeyOrders(node), NEW n \in 0..Len(keys),
             Completes(node, keys, key, n),
             NEW good \in Increasing(Decrypting(node, keys, key, n)),
             list' = LET creds == [i \in DOMAIN good |->
                                     Entry(node, u, keys[good[i]])]
                     IN  IF reader # "list" THEN list
                         ELSE [list EXCEPT
                                 !.credentials = creds,
                                 !.credentialIDs = KeptIDs(keys, n),
                                 !.rows = IF LoopEnd(node, keys, key, n)
                                               = "done"
                                          THEN creds ELSE @]
      PROVE  ArraysInStep(list')
  <2> DEFINE creds == [i \in DOMAIN good |-> Entry(node, u, keys[good[i]])]
             rows == IF LoopEnd(node, keys, key, n) = "done"
                     THEN creds ELSE list.rows
  <2>1. /\ keys \in Seq(Ids) /\ Len(keys) \in Nat
        /\ \A i \in 1..Len(keys) : keys[i] \in Ids /\ node[keys[i]] # Nil
    BY KeysType, LenProperties, ElementOfSeq
  <2>2. \A i \in 1..Len(keys) :
          ChildOutcome(node[keys[i]], key) =
            IF key = uidHash(u) THEN "ok" ELSE "throws"
    BY <2>1, SoundOutcome DEF NodeSound
  <2>3. list \in ListRecords
    BY DEF Typing
  <2>4. CASE reader # "list"
    BY <1>2, <2>4
  <2>5. CASE reader = "list"
    <3>1. list' = [list EXCEPT !.credentials = creds,
                               !.credentialIDs = KeptIDs(keys, n),
                               !.rows = rows]
      BY <1>2, <2>5
    <3> HIDE DEF creds, rows
    <3>2. /\ list'.credentials = creds /\ list'.rows = rows
          /\ list'.credentialIDs = KeptIDs(keys, n)
      BY <2>3, <3>1 DEF ListRecords
    <3>3. CASE key = uidHash(u)
      <4>1. n = Len(keys)
        <5>1. SUFFICES ASSUME n < Len(keys)
                       PROVE  FALSE
          BY <2>1
        <5>2. n + 1 \in 1..Len(keys)
          BY <2>1, <5>1
        <5> QED
          BY <1>2, <2>2, <3>3, <5>1, <5>2 DEF Completes
      <4>2. Decrypting(node, keys, key, n) = 1..n
        BY <2>2, <3>3, <4>1 DEF Decrypting
      <4>3. n \in Nat /\ good \in Increasing(1..n)
        BY <2>1, <4>1, <4>2
      <4>4. DOMAIN good = 1..n /\ \A i \in 1..n : good[i] = i
        BY <4>3, IncreasingIsCounting
      <4>5. DOMAIN creds = 1..n /\ \A i \in 1..n : creds[i] = Entry(node, u, keys[i])
        BY <4>4 DEF creds
      <4>6. rows = creds
        BY <4>1 DEF rows, LoopEnd
      <4>7. /\ DOMAIN KeptIDs(keys, n) = 1..n
            /\ \A i \in 1..n : KeptIDs(keys, n)[i] = keys[i]
        <5>1. KeptIDs(keys, n) = keys
          BY <2>1, <4>1, SubSeqFull DEF KeptIDs
        <5> QED
          BY <2>1, <4>1, <5>1, LenProperties
      <4>8. \A i \in 1..n : creds[i].path.id = keys[i]
        BY <4>5 DEF Entry
      <4> QED
        BY <3>2, <4>5, <4>6, <4>7, <4>8 DEF ArraysInStep
    <3>4. CASE key # uidHash(u)
      <4>1. Decrypting(node, keys, key, n) = {}
        BY <2>1, <2>2, <3>4 DEF Decrypting
      <4>2. DOMAIN good = {}
        <5>1. Cardinality({}) = 0
          BY FS_EmptySet
        <5>2. good \in [1..0 -> {}]
          BY <4>1, <5>1 DEF Increasing, Injection
        <5> QED
          BY <5>2
      <4> QED
        BY <3>2, <4>2 DEF ArraysInStep, creds
    <3> QED
      BY <3>3, <3>4
  <2> QED
    BY <2>4, <2>5
<1> QED
  BY <1>1, <1>2, Zenon DEF OnSnapshot

\* A list that appears has no credentials yet, one that disappears keeps all.
LEMMA AppearsInStep ==
  ASSUME Typing
  PROVE  /\ \A u, covered : ListWillAppear(list, u, covered)
                              => ArraysInStep(list')
         /\ ArraysInStep(NewList)
         /\ ListWillDisappear /\ ArraysInStep(list) => ArraysInStep(list')
<1>1. list \in ListRecords
  BY DEF Typing
<1>2. ASSUME NEW u, NEW covered, ListWillAppear(list, u, covered)
      PROVE  ArraysInStep(list')
  <2>1. list'.credentials = <<>>
    BY <1>1, <1>2 DEF ListWillAppear, ListRecords
  <2> QED
    BY <2>1 DEF ArraysInStep
<1>3. ArraysInStep(NewList)
  BY DEF ArraysInStep, NewList
<1>4. ASSUME ListWillDisappear, ArraysInStep(list)
      PROVE  ArraysInStep(list')
  <2>1. /\ list'.credentials = list.credentials /\ list'.rows = list.rows
        /\ list'.credentialIDs = list.credentialIDs
    BY <1>1, <1>4 DEF ListWillDisappear, ListRecords
  <2> QED
    BY <1>4, <2>1 DEF ArraysInStep
<1> QED
  BY <1>2, <1>3, <1>4

\* Every step keeps the arrays in step, since a snapshot it runs on is sound.
LEMMA NextInStep ==
  ASSUME Typing, SnapshotsSound, ArraysInStep(list), [Next]_vars
  PROVE  ArraysInStep(list')
<1>1. CASE Touch
  <2>1. CASE signOut
    BY <2>1, AppearsInStep DEF signOut
  <2>2. CASE SelectList
    BY <2>2, AppearsInStep, Zenon DEF SelectList, ListTabAppears
  <2>3. ASSUME NEW t \in {"new", "settings"}, SelectOther(t)
        PROVE  ArraysInStep(list')
    BY <2>3, AppearsInStep, Zenon DEF SelectOther
  <2>4. ASSUME NEW i, didSelectRow(i)
        PROVE  ArraysInStep(list')
    BY <2>4, AppearsInStep, Zenon DEF didSelectRow
  <2>5. CASE Back
    BY <2>5, AppearsInStep DEF Back
  <2>6. CASE \/ \E u \in Users : login(u)
             \/ \E v \in Forms : \/ onUsernameChanged(v) \/ onWebsiteChanged(v)
                                 \/ onPasswordChanged(v) \/ onRegenerateTapped(v)
                                 \/ onSaveButtonPressed(v)
    <3>1. list' = list
      BY <2>6 DEF login, onUsernameChanged, onWebsiteChanged,
         onPasswordChanged, onChanged, onRegenerateTapped, onSaveButtonPressed
    <3> QED
      BY <3>1
  <2> QED
    BY <1>1, <2>1, <2>2, <2>3, <2>4, <2>5, <2>6 DEF Touch
<1>2. CASE Main
  <2>1. CASE SegueFirst \/ SegueKnown
    BY <2>1, AppearsInStep DEF SegueFirst, SegueKnown
  <2>2. CASE SegueStale
    <3>1. list'.credentials = <<>>
      BY <2>2 DEF SegueStale, Typing, ListRecords
    <3> QED
      BY <3>1 DEF ArraysInStep
  <2>3. CASE OnValue
    <3> DEFINE b == Head(mainQueue)
    <3>1. b \in Blocks /\ b.type = "read"
      BY <2>3, RunType DEF OnValue
    <3>2. b.user \in Users /\ b.node \in Nodes
      BY <3>1, ReadBlockType
    <3>3. OnSnapshot(b.node, b.user, b.reader)
      BY <2>3 DEF OnValue
    <3>4. NodeSound(b.node, b.user)
      <4>1. mainQueue \in Seq(Blocks) /\ mainQueue # <<>>
        BY <2>3 DEF Typing, OnValue, Run
      <4>2. 1 \in DOMAIN mainQueue /\ b = mainQueue[1]
        BY <4>1, EmptySeq, LenProperties
      <4> QED
        BY <3>1, <4>2 DEF SnapshotsSound
    <3> HIDE DEF b
    <3> QED
      BY <3>2, <3>3, <3>4, SnapshotInStep
  <2>4. CASE OnSavedNew
    BY <2>4, AppearsInStep, Zenon DEF OnSavedNew, ListTabAppears
  <2>5. CASE OnSavedEdit
    BY <2>5, AppearsInStep, Zenon DEF OnSavedEdit
  <2>6. CASE OnAuthState \/ OnSignedIn \/ OnSavedGone
    BY <2>6 DEF OnAuthState, OnSignedIn, OnSavedGone
  <2> QED
    BY <1>2, <2>1, <2>2, <2>3, <2>4, <2>5, <2>6 DEF Main
<1>3. CASE Server
  <2>1. list' = list
    BY <1>3 DEF Server, DatabaseOnly, SignInSucceeds, CompleteSignIn
  <2> QED
    BY <2>1
<1>4. CASE Relaunch
  BY <1>4, AppearsInStep DEF Relaunch
<1>5. CASE UNCHANGED vars
  BY <1>5 DEF vars
<1> QED
  BY <1>1, <1>2, <1>3, <1>4, <1>5 DEF Next

\* When no other client writes to the users' nodes, a row with a credential
\* behind it opens the credential it shows under the id it was read from:
\* reloads for a user who is no longer signed in, appearances during a reload
\* and rejected listens never shift the three arrays against each other.
THEOREM RowsOpenThemselves ==
  ASSUME Foreign = {}
  PROVE  Spec => []RowOpensItself
<1> DEFINE I == /\ Typing /\ PutsSound /\ StoredSound /\ SnapshotsSound
                /\ ArraysInStep(list)
<1>1. Init => I
  <2> SUFFICES ASSUME Init
               PROVE  I
    OBVIOUS
  <2>1. PutsSound /\ StoredSound
    BY DEF Init, StoreInit, PutsSound, StoredSound, EmptyNode
  <2>2. SnapshotsSound
    <3>1. \A i \in DOMAIN mainQueue : mainQueue[i] = AuthState
      BY DEF Init, LaunchQueue
    <3> QED
      BY <3>1, OtherBlocks DEF SnapshotsSound
  <2>3. ArraysInStep(list)
    BY DEF Init, NewList, ArraysInStep
  <2> QED
    BY <2>1, <2>2, <2>3, InitTyping
<1>2. I /\ [Next]_vars => I'
  <2> SUFFICES ASSUME I, [Next]_vars
               PROVE  I'
    OBVIOUS
  <2>1. Typing' /\ PutsSound' /\ StoredSound' /\ SnapshotsSound'
    BY NextTyping, NextStore, WritesStaySound, StoreStaysSound,
       SnapshotsStaySound
  <2>2. ArraysInStep(list')
    BY NextInStep
  <2>3. ArraysInStep(list)'
    BY <2>2 DEF ArraysInStep
  <2> QED
    BY <2>1, <2>3
<1>3. I => RowOpensItself
  BY DEF ArraysInStep, RowOpensItself
<1> QED
  BY <1>1, <1>2, <1>3, PTL DEF Spec

-----------------------------------------------------------------------------
(* Where the edit form writes back *)

\* A block that waits for the list or for a form on the screen.
Addressed(b) ==
  \/ b.type = "read" /\ b.reader # "gone"
  \/ b.type = "put" /\ b.saver # "gone"

QueueQuiet(q) == \A i \in DOMAIN q : ~Addressed(q[i])
InitialQueued(q) == \E i \in DOMAIN q : q[i].type = "authInitial"

\* No callback in flight is for a controller on the screen.
Quiet ==
  /\ QueueQuiet(mainQueue)
  /\ \A i \in DOMAIN reads : reads[i].reader = "gone"
  /\ \A i \in DOMAIN puts : puts[i].saver = "gone"

Fresh == Quiet /\ list.credentials = <<>> /\ list.rows = <<>> /\ ~pushed

\* With one request at a time: a sign-in that may still succeed was asked for
\* on a login screen without a user; such a screen with a user is about to be
\* left; and the singleton's first call belongs to the tab bar.
RequestsInv ==
  /\ Len(signIns) =< 1
  /\ \A i \in DOMAIN signIns : ~signIns[i].posted => screen = "login" /\ auth = Nil
  /\ screen = "login" /\ auth # Nil => AuthQueued(mainQueue)
  /\ InitialQueued(mainQueue) => screen = "main"

\* Behind a login screen nothing is left of the last tab bar, and nothing is
\* on the next one before the singleton has caught up with FIRAuth.
FreshInv ==
  /\ screen = "login" => Fresh /\ ~list.observing
  /\ auth # Nil /\ instance.user # auth => Fresh

\* The list and the edit form are the singleton's user's.
OwnInv ==
  /\ \A i \in DOMAIN list.credentials : list.credentials[i].path.user = instance.user
  /\ pushed => form["edit"].origin = [user |-> instance.user,
                                      id |-> form["edit"].credId]

\* What the operations on a queue add and take away.
LEMMA QueueElements ==
  ASSUME NEW q \in Seq(Blocks)
  PROVE  /\ q # <<>> => /\ QueueQuiet(q) => QueueQuiet(Tail(q))
                        /\ InitialQueued(Tail(q)) => InitialQueued(q)
         /\ \A b \in Blocks :
              /\ QueueQuiet(q) /\ ~Addressed(b) => QueueQuiet(q \o <<b>>)
              /\ InitialQueued(q \o <<b>>) => InitialQueued(q) \/ b.type = "authInitial"
         /\ \A who : /\ QueueQuiet(q) => QueueQuiet(OrphanBlocks(q, who))
                     /\ InitialQueued(OrphanBlocks(q, who)) => InitialQueued(q)
         /\ QueueQuiet(OrphanBlocks(q, {"new", "edit", "list"}))
<1>0. Len(q) \in Nat /\ DOMAIN q = 1..Len(q) /\ \A i \in DOMAIN q : q[i] \in Blocks
  BY LenProperties, ElementOfSeq
<1>1. ASSUME q # <<>>
      PROVE  /\ QueueQuiet(q) => QueueQuiet(Tail(q))
             /\ InitialQueued(Tail(q)) => InitialQueued(q)
  <2>1. /\ Tail(q) \in Seq(Blocks) /\ Len(Tail(q)) = Len(q) - 1
        /\ \A i \in 1..Len(Tail(q)) : Tail(q)[i] = q[i+1]
    BY <1>1, HeadTailProperties
  <2>2. DOMAIN Tail(q) = 1..Len(Tail(q))
    BY <2>1, LenProperties
  <2>3. \A i \in DOMAIN Tail(q) : i+1 \in DOMAIN q /\ Tail(q)[i] = q[i+1]
    BY <1>0, <2>1, <2>2
  <2> QED
    BY <2>3 DEF QueueQuiet, InitialQueued
<1>2. ASSUME NEW b \in Blocks
      PROVE  /\ QueueQuiet(q) /\ ~Addressed(b) => QueueQuiet(q \o <<b>>)
             /\ InitialQueued(q \o <<b>>) => InitialQueued(q) \/ b.type = "authInitial"
  <2>1. <<b>> \in Seq(Blocks) /\ Len(<<b>>) = 1 /\ <<b>>[1] = b
    OBVIOUS
  <2>2. /\ q \o <<b>> \in Seq(Blocks)
        /\ Len(q \o <<b>>) = Len(q) + 1
        /\ \A i \in 1..(Len(q) + 1) :
             (q \o <<b>>)[i] = IF i <= Len(q) THEN q[i] ELSE <<b>>[i - Len(q)]
    BY <2>1, ConcatProperties
  <2>3. DOMAIN (q \o <<b>>) = 1..(Len(q) + 1)
    BY <2>2, LenProperties
  <2>4. \A i \in DOMAIN (q \o <<b>>) :
          \/ i \in DOMAIN q /\ (q \o <<b>>)[i] = q[i]
          \/ (q \o <<b>>)[i] = b
    BY <1>0, <2>1, <2>2, <2>3
  <2> HIDE <2>1, <2>2
  <2> QED
    BY <2>4 DEF QueueQuiet, InitialQueued
<1>3. ASSUME NEW who
      PROVE  /\ QueueQuiet(q) => QueueQuiet(OrphanBlocks(q, who))
             /\ InitialQueued(OrphanBlocks(q, who)) => InitialQueued(q)
  <2>1. DOMAIN OrphanBlocks(q, who) = DOMAIN q
    BY DEF OrphanBlocks
  <2>2. ASSUME NEW i \in DOMAIN q
        PROVE  /\ OrphanBlocks(q, who)[i].type = q[i].type
               /\ ~Addressed(q[i]) => ~Addressed(OrphanBlocks(q, who)[i])
    BY <1>0 DEF OrphanBlocks, Blocks, Addressed
  <2> QED
    BY <2>1, <2>2 DEF QueueQuiet, InitialQueued
<1>4. QueueQuiet(OrphanBlocks(q, {"new", "edit", "list"}))
  <2> DEFINE who == {"new", "edit", "list"}
  <2>1. DOMAIN OrphanBlocks(q, who) = DOMAIN q
    BY DEF OrphanBlocks
  <2>2. ASSUME NEW i \in DOMAIN q
        PROVE  ~Addressed(OrphanBlocks(q, who)[i])
    BY <1>0 DEF OrphanBlocks, Blocks, Addressed, Savers, Readers
  <2> QED
    BY <2>1, <2>2 DEF QueueQuiet
<1> QED
  BY <1>1, <1>2, <1>3, <1>4

\* A step that leaves the session alone only has to keep the listeners' blocks.
LEMMA RequestsKept ==
  ASSUME RequestsInv, signIns' = signIns, auth' = auth, screen' = screen,
         AuthQueued(mainQueue) => AuthQueued(mainQueue'),
         InitialQueued(mainQueue') => InitialQueued(mainQueue)
  PROVE  RequestsInv'
<1>1. AuthQueued(mainQueue)' = AuthQueued(mainQueue')
  BY DEF AuthQueued, AuthType
<1>2. InitialQueued(mainQueue)' = InitialQueued(mainQueue')
  BY DEF InitialQueued
<1> QED
  BY <1>1, <1>2 DEF RequestsInv

\* A dispatched block, whatever it is.
LEMMA Dispatched ==
  ASSUME Typing, [Next]_vars, Server
  PROVE  mainQueue' = mainQueue \/ \E b \in Blocks :
           /\ mainQueue' = mainQueue \o <<b>>
           /\ b.type # "authInitial"
           /\ b.type = "read" => b.reader = Head(reads).reader /\ reads # <<>>
           /\ b.type = "put" => b.saver = Head(puts).saver /\ puts # <<>>
<1>1. CASE AnswerRead
  <2> DEFINE b == [type |-> "read", user |-> Head(reads).user,
                   node |-> LocalView[Head(reads).user],
                   reader |-> Head(reads).reader]
  <2>1. Head(reads) \in Reads
    BY <1>1, HeadTailProperties DEF AnswerRead, Typing
  <2>2. StoreTypeOK /\ Len(puts) \in 0..Len(puts)
    BY LenProperties DEF Typing, StoreTypeOK
  <2>3. LocalView \in [Users -> Nodes]
    BY <2>2, AppliedType DEF LocalView
  <2>4. b \in Blocks
    BY <2>1, <2>3, BlockTypes DEF Reads
  <2>5. mainQueue' = mainQueue \o <<b>> /\ reads # <<>>
    BY <1>1 DEF AnswerRead, Dispatch
  <2>6. b.type = "read" /\ b.reader = Head(reads).reader
    OBVIOUS
  <2> HIDE DEF b
  <2> QED
    BY <2>4, <2>5, <2>6
<1>2. ASSUME NEW ok \in BOOLEAN, puts # <<>>,
             mainQueue' = mainQueue \o <<[type |-> "put", ok |-> ok, saver |-> Head(puts).saver]>>
      PROVE  \E b \in Blocks :
               /\ mainQueue' = mainQueue \o <<b>>
               /\ b.type # "authInitial" /\ b.type # "read"
               /\ b.type = "put" => b.saver = Head(puts).saver /\ puts # <<>>
  <2> DEFINE b == [type |-> "put", ok |-> ok, saver |-> Head(puts).saver]
  <2>1. Head(puts) \in Puts
    BY <1>2, HeadTailProperties DEF Typing
  <2>2. b \in Blocks
    BY <2>1, BlockTypes DEF Puts
  <2>3. b.type = "put" /\ b.saver = Head(puts).saver /\ mainQueue' = mainQueue \o <<b>>
    BY <1>2
  <2> HIDE DEF b
  <2> QED
    BY <1>2, <2>2, <2>3
<1>3. CASE AckPut \/ DenyPut
  BY <1>2, <1>3 DEF AckPut, DenyPut, Dispatch
<1>4. CASE \E i \in DOMAIN signIns : SignInSucceeds(i) \/ CompleteSignIn(i)
  <2>1. mainQueue' = mainQueue \o <<AuthState>> \/ mainQueue' = mainQueue \o <<SignedIn>>
    BY <1>4 DEF SignInSucceeds, CompleteSignIn, Dispatch
  <2>2. /\ AuthState.type \notin {"authInitial", "read", "put"}
        /\ SignedIn.type \notin {"authInitial", "read", "put"}
    BY DEF AuthState, SignedIn
  <2> QED
    BY <2>1, <2>2, BlockTypes
<1>5. CASE DenyRead \/ \E u \in Users, id \in Ids, child \in Foreign : ForeignWrite(u, id, child)
  BY <1>5 DEF DenyRead, ForeignWrite
<1> QED
  BY <1>1, <1>3, <1>4, <1>5 DEF Server

\* Whoever touches a screen of the tab bar is the singleton's user.
LEMMA TouchedByUser ==
  ASSUME Typing, SessionInv, NEW s \in {"list", "new", "edit", "settings"}, Touchable(s)
  PROVE  /\ screen = "main" /\ ~AuthQueued(mainQueue)
         /\ auth # Nil /\ instance.user = auth
<1>1. screen = "main"
  BY DEF Touchable, Visible, Typing
<1>2. ~AuthQueued(mainQueue)
  BY DEF Touchable, AuthQueued, AuthType
<1> QED
  BY <1>1, <1>2 DEF SessionInv

\* All touches but those that sign in and out.
OnTabBar == Touch /\ ~signOut /\ \A u \in Users : ~login(u)

LEMMA OnTabBarFacts ==
  ASSUME Typing, SessionInv, OnTabBar
  PROVE  /\ UNCHANGED <<screen, instance, auth, signIns>>
         /\ screen = "main" /\ auth # Nil /\ instance.user = auth
         /\ mainQueue' = mainQueue \/ mainQueue' = OrphanBlocks(mainQueue, {"edit"})
<1>1. \E s \in {"list", "new", "edit", "settings"} : Touchable(s)
  BY DEF OnTabBar, Touch, SelectList, SelectOther, didSelectRow, Back,
     onUsernameChanged, onWebsiteChanged, onPasswordChanged, onChanged,
     onRegenerateTapped, onSaveButtonPressed, Screens, Forms
<1>2. /\ UNCHANGED <<screen, instance, auth, signIns>>
      /\ mainQueue' = mainQueue \/ mainQueue' = OrphanBlocks(mainQueue, {"edit"})
  BY DEF OnTabBar, Touch, SelectList, SelectOther, didSelectRow, Back,
     onUsernameChanged, onWebsiteChanged, onPasswordChanged, onChanged,
     onRegenerateTapped, onSaveButtonPressed, storeVars, windowVars, authVars
<1> QED
  BY <1>1, <1>2, TouchedByUser

\* Every step keeps the requests in order.
LEMMA NextRequests ==
  ASSUME MaxSignIns =< 1, Typing, SessionInv, RequestsInv, [Next]_vars
  PROVE  RequestsInv'
<1>0. mainQueue \in Seq(Blocks) /\ signIns \in Seq(SignInRequests)
  BY DEF Typing
<1>q. /\ AuthQueued(mainQueue)' = AuthQueued(mainQueue')
      /\ InitialQueued(mainQueue)' = InitialQueued(mainQueue')
  BY DEF AuthQueued, AuthType, InitialQueued
<1>a. AuthType(AuthState) /\ AuthState.type # "authInitial"
  BY DEF AuthType, AuthState
<1>l. Len(signIns) \in Nat /\ DOMAIN signIns = 1..Len(signIns)
  BY <1>0, LenProperties
<1>1. ASSUME NEW u \in Users, login(u)
      PROVE  RequestsInv'
  <2>1. screen = "login" /\ ~AuthQueued(mainQueue)
    BY <1>1 DEF login, Touchable, Visible, Shown, Typing, Tabs, AuthQueued, AuthType
  <2>2. auth = Nil
    BY <2>1 DEF RequestsInv
  <2>3. Len(signIns') = Len(signIns) + 1 /\ Len(signIns) < MaxSignIns
    <3>1. [user |-> u, posted |-> FALSE] \in SignInRequests
      BY DEF SignInRequests
    <3> QED
      BY <1>0, <1>1, <3>1, AppendProperties DEF login
  <2>4. Len(signIns') =< 1
    BY <1>l, <2>3, MaxSignInsAssumption
  <2>5. UNCHANGED <<mainQueue, screen, auth>>
    BY <1>1 DEF login, storeVars
  <2> QED
    BY <1>q, <2>1, <2>2, <2>4, <2>5 DEF RequestsInv
<1>2. CASE signOut
  <2> DEFINE q == OrphanBlocks(mainQueue, {"new", "edit", "list"})
  <2>1. screen = "main" /\ ~AuthQueued(mainQueue)
    BY <1>2, TouchedByUser DEF signOut
  <2>2. q \in Seq(Blocks) /\ mainQueue' = q \o <<AuthState>>
    BY <1>0, <1>2, OrphanTypes, BlockTypes, AppendIsConcat DEF signOut
  <2>3. ~InitialQueued(mainQueue)
    BY <2>1 DEF AuthQueued, AuthType, InitialQueued
  <2>4. ~InitialQueued(q)
    BY <1>0, <2>3, QueueElements
  <2> HIDE DEF q
  <2>5. ~InitialQueued(mainQueue')
    BY <1>a, <2>2, <2>4, QueueElements, BlockTypes
  <2>6. screen' = "login" /\ auth' = Nil /\ signIns' = signIns
    BY <1>2 DEF signOut
  <2> QED
    BY <1>q, <2>5, <2>6 DEF RequestsInv
<1>3. CASE OnTabBar
  BY <1>0, <1>3, OnTabBarFacts, QueueElements, QueueKeepsAuth, RequestsKept
<1>4. CASE OnAuthState
  <2>1. UNCHANGED <<screen, auth, signIns>> /\ mainQueue' = Tail(mainQueue) /\ mainQueue # <<>>
    BY <1>4 DEF OnAuthState, authVars, Run
  <2>2. InitialQueued(mainQueue') => InitialQueued(mainQueue)
    BY <1>0, <2>1, QueueElements
  <2>3. ~(screen = "login" /\ auth # Nil)
    <3>1. SUFFICES ASSUME screen = "login", auth # Nil PROVE FALSE
      OBVIOUS
    <3>2. Head(mainQueue).type = "authInitial"
      BY <1>4, <3>1 DEF OnAuthState, Run
    <3>3. 1 \in DOMAIN mainQueue /\ Head(mainQueue) = mainQueue[1]
      BY <1>0, <2>1, EmptySeq, LenProperties
    <3> QED
      BY <3>1, <3>2, <3>3 DEF RequestsInv, InitialQueued
  <2> QED
    BY <1>q, <2>1, <2>2, <2>3 DEF RequestsInv
<1>5. CASE SegueFirst \/ SegueKnown \/ SegueStale
  <2>1. screen' = "main" /\ auth # Nil /\ UNCHANGED <<auth, signIns>>
    BY <1>5 DEF SegueFirst, SegueKnown, SegueStale, Segue, authVars
  <2> QED
    BY <2>1 DEF RequestsInv
<1>6. CASE OnSignedIn \/ OnValue \/ OnSavedNew \/ OnSavedGone \/ OnSavedEdit
  <2>1. /\ UNCHANGED <<screen, auth, signIns>>
        /\ mainQueue # <<>>
        /\ mainQueue' = Tail(mainQueue) \/ mainQueue' = OrphanBlocks(Tail(mainQueue), {"edit"})
        /\ Head(mainQueue).type \in {"signedIn", "read", "put"}
    BY <1>6 DEF OnSignedIn, OnValue, OnSavedNew, OnSavedGone, OnSavedEdit, Run, authVars
  <2>2. ~AuthType(Head(mainQueue))
    BY <2>1 DEF AuthType
  <2>3. Tail(mainQueue) \in Seq(Blocks)
    BY <1>0, <2>1, HeadTailProperties
  <2> QED
    BY <1>0, <2>1, <2>2, <2>3, QueueKeepsAuth, QueueElements, RequestsKept
<1>7. ASSUME NEW i \in DOMAIN signIns, SignInSucceeds(i)
      PROVE  RequestsInv'
  <2>1. i = 1 /\ Len(signIns) = 1
    BY <1>l DEF RequestsInv
  <2>2. signIns[1] \in SignInRequests
    BY <1>0, <2>1, ElementOfSeq
  <2>3. signIns' = [signIns EXCEPT ![1].posted = TRUE]
    BY <1>7, <2>1 DEF SignInSucceeds
  <2>4. DOMAIN signIns' = {1} /\ signIns'[1].posted
    BY <1>l, <2>1, <2>2, <2>3 DEF SignInRequests
  <2>5. Len(signIns') = 1
    <3>1. signIns' \in Seq(SignInRequests)
      BY NextTyping DEF Typing
    <3> QED
      BY <2>4, <3>1, LenProperties
  <2>6. mainQueue' = mainQueue \o <<AuthState>> /\ screen' = screen
    BY <1>7 DEF SignInSucceeds, Dispatch, windowVars
  <2>7. AuthQueued(mainQueue') /\ (InitialQueued(mainQueue') => InitialQueued(mainQueue))
    BY <1>0, <1>a, <2>6, QueueKeepsAuth, QueueElements, BlockTypes
  <2> QED
    BY <1>q, <2>4, <2>5, <2>6, <2>7 DEF RequestsInv
<1>8. ASSUME NEW i \in DOMAIN signIns, CompleteSignIn(i)
      PROVE  RequestsInv'
  <2>1. i = 1 /\ Len(signIns) = 1
    BY <1>l DEF RequestsInv
  <2>2. signIns' = <<>>
    <3>1. signIns' = SubSeq(signIns, 1, 0) \o SubSeq(signIns, 2, 1)
      BY <1>8, <2>1 DEF CompleteSignIn, RemoveAt
    <3> QED
      BY <1>0, <2>1, <3>1
  <2>3. mainQueue' = mainQueue \o <<SignedIn>> /\ UNCHANGED <<screen, auth>>
    BY <1>8 DEF CompleteSignIn, Dispatch, windowVars
  <2>4. /\ AuthQueued(mainQueue) => AuthQueued(mainQueue')
        /\ InitialQueued(mainQueue') => InitialQueued(mainQueue)
    <3>1. SignedIn.type # "authInitial"
      BY DEF SignedIn
    <3> QED
      BY <1>0, <2>3, <3>1, QueueKeepsAuth, QueueElements, BlockTypes
  <2> QED
    BY <1>q, <2>2, <2>3, <2>4 DEF RequestsInv
<1>9. CASE Server /\ DatabaseOnly
  <2>1. mainQueue' = mainQueue \/ \E b \in Blocks :
          mainQueue' = mainQueue \o <<b>> /\ b.type # "authInitial"
    BY <1>9, Dispatched
  <2>2. UNCHANGED <<screen, auth, signIns>>
    BY <1>9 DEF DatabaseOnly, windowVars, authVars
  <2> QED
    BY <1>0, <2>1, <2>2, QueueKeepsAuth, QueueElements, RequestsKept
<1>10. CASE Relaunch
  <2>1. signIns' = <<>> /\ screen' = "login" /\ auth' = auth /\ mainQueue' = LaunchQueue(auth)
    BY <1>10 DEF Relaunch
  <2>2. auth # Nil => AuthQueued(mainQueue')
    BY <1>a, <2>1 DEF LaunchQueue, AuthQueued
  <2>3. ~InitialQueued(mainQueue')
    BY <1>a, <2>1 DEF LaunchQueue, InitialQueued
  <2> QED
    BY <1>q, <2>1, <2>2, <2>3 DEF RequestsInv
<1>11. CASE UNCHANGED vars
  BY <1>11, RequestsKept DEF vars, storeVars, windowVars, authVars
<1> QED
  BY <1>1, <1>2, <1>3, <1>4, <1>5, <1>6, <1>7, <1>8, <1>9, <1>10, <1>11
  DEF Next, Touch, Main, Server, OnTabBar

\* A step that leaves the session alone only has to keep what is fresh.
LEMMA FreshKept ==
  ASSUME FreshInv, UNCHANGED <<screen, auth, instance>>, Fresh => Fresh',
         Fresh /\ ~list.observing => ~list'.observing
  PROVE  FreshInv'
BY DEF FreshInv

\* Taking a block off the main queue or adding one for nobody keeps it quiet.
LEMMA QuietQueue ==
  ASSUME Typing
  PROVE  /\ QueueQuiet(mainQueue)' = QueueQuiet(mainQueue')
         /\ mainQueue # <<>> /\ QueueQuiet(mainQueue) =>
              QueueQuiet(Tail(mainQueue)) /\ ~Addressed(Head(mainQueue))
         /\ QueueQuiet(mainQueue) =>
              /\ QueueQuiet(mainQueue \o <<AuthState>>)
              /\ QueueQuiet(mainQueue \o <<SignedIn>>)
<1>0. mainQueue \in Seq(Blocks)
  BY DEF Typing
<1>1. QueueQuiet(mainQueue)' = QueueQuiet(mainQueue')
  BY DEF QueueQuiet, Addressed
<1>2. ASSUME mainQueue # <<>>, QueueQuiet(mainQueue)
      PROVE  QueueQuiet(Tail(mainQueue)) /\ ~Addressed(Head(mainQueue))
  <2>1. 1 \in DOMAIN mainQueue /\ Head(mainQueue) = mainQueue[1]
    BY <1>0, <1>2, EmptySeq, LenProperties
  <2> QED
    BY <1>0, <1>2, <2>1, QueueElements DEF QueueQuiet
<1>3. ~Addressed(AuthState) /\ ~Addressed(SignedIn)
  BY DEF Addressed, AuthState, SignedIn
<1> QED
  BY <1>0, <1>1, <1>2, <1>3, QueueElements, BlockTypes

\* Requests the server has answered are no longer in flight.
LEMMA TailOf ==
  ASSUME NEW S, NEW q \in Seq(S), q # <<>>
  PROVE  \A i \in DOMAIN Tail(q) : i + 1 \in DOMAIN q /\ Tail(q)[i] = q[i + 1]
<1>1. /\ Tail(q) \in Seq(S) /\ Len(Tail(q)) = Len(q) - 1
      /\ \A i \in 1..Len(Tail(q)) : Tail(q)[i] = q[i+1]
  BY HeadTailProperties
<1>2. Len(q) \in Nat /\ DOMAIN q = 1..Len(q) /\ DOMAIN Tail(q) = 1..Len(Tail(q))
  BY <1>1, LenProperties
<1> QED
  BY <1>1, <1>2

\* The database answers nobody behind a login screen.
LEMMA ServerFresh ==
  ASSUME Typing, [Next]_vars, Server, DatabaseOnly, Fresh
  PROVE  Fresh'
<1>0. mainQueue \in Seq(Blocks) /\ reads \in Seq(Reads) /\ puts \in Seq(Puts)
  BY DEF Typing
<1>1. reads # <<>> => Head(reads).reader = "gone"
  <2>1. reads # <<>> => 1 \in DOMAIN reads /\ Head(reads) = reads[1]
    BY <1>0, EmptySeq, LenProperties
  <2> QED
    BY <2>1 DEF Fresh, Quiet
<1>2. puts # <<>> => Head(puts).saver = "gone"
  <2>1. puts # <<>> => 1 \in DOMAIN puts /\ Head(puts) = puts[1]
    BY <1>0, EmptySeq, LenProperties
  <2> QED
    BY <2>1 DEF Fresh, Quiet
<1>3. QueueQuiet(mainQueue')
  <2>1. CASE mainQueue' = mainQueue
    BY <2>1 DEF Fresh, Quiet
  <2>2. ASSUME NEW b \in Blocks, mainQueue' = mainQueue \o <<b>>,
               b.type = "read" => b.reader = Head(reads).reader /\ reads # <<>>,
               b.type = "put" => b.saver = Head(puts).saver /\ puts # <<>>
        PROVE  QueueQuiet(mainQueue')
    <3>1. ~Addressed(b)
      BY <1>1, <1>2, <2>2 DEF Addressed
    <3> QED
      BY <1>0, <2>2, <3>1, QueueElements DEF Fresh, Quiet
  <2> QED
    BY <2>1, <2>2, Dispatched
<1>4. \/ reads' = reads
      \/ reads # <<>> /\ reads' = Tail(reads)
  BY DEF Server, AnswerRead, DenyRead, AckPut, DenyPut, ForeignWrite, SignInSucceeds,
     CompleteSignIn
<1>5. \/ puts' = puts
      \/ puts # <<>> /\ puts' = Tail(puts)
  BY DEF Server, AnswerRead, DenyRead, AckPut, DenyPut, ForeignWrite, SignInSucceeds,
     CompleteSignIn
<1>6. \A i \in DOMAIN reads' : reads'[i].reader = "gone"
  BY <1>0, <1>4, TailOf DEF Fresh, Quiet
<1>7. \A i \in DOMAIN puts' : puts'[i].saver = "gone"
  BY <1>0, <1>5, TailOf DEF Fresh, Quiet
<1>8. list' = list /\ pushed' = pushed
  BY DEF DatabaseOnly, windowVars
<1> QED
  BY <1>3, <1>6, <1>7, <1>8, QuietQueue DEF Fresh, Quiet

\* Every step keeps what lies behind a login screen, and before the
\* singleton's first call, fresh.
LEMMA NextFresh ==
  ASSUME Typing, SessionInv, RequestsInv, FreshInv, [Next]_vars
  PROVE  FreshInv'
<1>0. /\ mainQueue \in Seq(Blocks) /\ reads \in Seq(Reads) /\ puts \in Seq(Puts)
      /\ list \in ListRecords
  BY DEF Typing
<1>n. NewList.credentials = <<>> /\ NewList.rows = <<>> /\ ~NewList.observing
  BY DEF NewList
<1>1. ASSUME NEW u \in Users, login(u)
      PROVE  FreshInv'
  <2>1. UNCHANGED <<mainQueue, reads, puts, screen, auth, instance, list, pushed>>
    BY <1>1 DEF login, storeVars
  <2>2. Fresh' = Fresh
    BY <2>1 DEF Fresh, Quiet, QueueQuiet, Addressed
  <2> QED
    BY <2>1, <2>2, FreshKept
<1>2. CASE signOut
  <2> DEFINE q == OrphanBlocks(mainQueue, {"new", "edit", "list"})
  <2>1. q \in Seq(Blocks) /\ mainQueue' = q \o <<AuthState>>
    BY <1>0, <1>2, OrphanTypes, BlockTypes, AppendIsConcat DEF signOut
  <2>2. QueueQuiet(q)
    BY <1>0, QueueElements
  <2> HIDE DEF q
  <2>3. QueueQuiet(mainQueue')
    <3>1. ~Addressed(AuthState)
      BY DEF Addressed, AuthState
    <3> QED
      BY <2>1, <2>2, <3>1, QueueElements, BlockTypes
  <2>4. \A i \in DOMAIN reads' : reads'[i].reader = "gone"
    <3>1. \A i \in DOMAIN reads : reads[i] \in Reads
      BY <1>0, ElementOfSeq, LenProperties
    <3>2. reads' = OrphanReads(reads)
      BY <1>2 DEF signOut
    <3> QED
      BY <3>1, <3>2 DEF OrphanReads, Reads
  <2>5. \A i \in DOMAIN puts' : puts'[i].saver = "gone"
    <3>1. \A i \in DOMAIN puts : puts[i] \in Puts
      BY <1>0, ElementOfSeq, LenProperties
    <3>2. puts' = OrphanSaves(puts, {"new", "edit"})
      BY <1>2 DEF signOut
    <3> QED
      BY <3>1, <3>2 DEF OrphanSaves, Puts, Savers
  <2>6. list' = NewList /\ ~pushed'
    BY <1>2 DEF signOut
  <2> QED
    BY <1>n, <2>3, <2>4, <2>5, <2>6, QuietQueue DEF FreshInv, Fresh, Quiet
<1>3. CASE OnTabBar
  BY <1>3, OnTabBarFacts DEF FreshInv
<1>4. CASE OnAuthState
  <2>1. /\ UNCHANGED <<screen, auth, puts, list, pushed>> /\ instance' = Listened
        /\ mainQueue' = Tail(mainQueue) /\ mainQueue # <<>>
    BY <1>4 DEF OnAuthState, authVars, Run
  <2>2. CASE screen = "login"
    <3>1. Fresh /\ ~list.observing
      BY <2>2 DEF FreshInv
    <3>2. reads' = reads
      BY <1>4, <3>1 DEF OnAuthState
    <3>3. Fresh'
      BY <2>1, <3>1, <3>2, QuietQueue DEF Fresh, Quiet
    <3> QED
      BY <2>1, <3>1, <3>3 DEF FreshInv
  <2>3. CASE screen = "main"
    <3>1. instance'.user = auth /\ auth # Nil
      BY <2>1, <2>3, ListenedFields DEF SessionInv
    <3> QED
      BY <2>1, <2>3, <3>1 DEF FreshInv
  <2> QED
    BY <2>2, <2>3 DEF Typing
<1>5. CASE SegueFirst
  <2>1. Fresh /\ UNCHANGED <<puts, pushed, reads, auth>> /\ screen' = "main" /\ mainQueue # <<>>
    BY <1>5 DEF SegueFirst, Segue, FreshInv, ListWillAppear, Run, authVars
  <2>2. list'.credentials = <<>> /\ list'.rows = <<>>
    BY <1>0, <1>5, <2>1 DEF SegueFirst, ListWillAppear, ListRecords, Fresh
  <2>3. QueueQuiet(mainQueue')
    <3>1. Tail(mainQueue) \in Seq(Blocks) /\ QueueQuiet(Tail(mainQueue))
      BY <1>0, <2>1, HeadTailProperties, QuietQueue DEF Fresh, Quiet
    <3>2. mainQueue' = Tail(mainQueue) \o <<AuthInitial>>
      BY <1>5, <3>1, BlockTypes, AppendIsConcat DEF SegueFirst
    <3>3. ~Addressed(AuthInitial)
      BY DEF Addressed, AuthInitial
    <3> QED
      BY <3>1, <3>2, <3>3, QueueElements, BlockTypes
  <2>4. Fresh'
    BY <2>1, <2>2, <2>3, QuietQueue DEF Fresh, Quiet
  <2> QED
    BY <2>1, <2>4 DEF FreshInv
<1>6. CASE SegueKnown \/ SegueStale
  <2>1. /\ screen' = "main" /\ auth' = auth /\ auth # Nil
        /\ instance.exists /\ instance' = Listened
    BY <1>6 DEF SegueKnown, SegueStale, Segue, authVars
  <2>2. instance'.user = auth
    BY <2>1, ListenedFields DEF SessionInv
  <2> QED
    BY <2>1, <2>2 DEF FreshInv
<1>7. CASE OnSignedIn \/ OnSavedGone
  <2>1. /\ UNCHANGED <<reads, puts, screen, auth, instance, list, pushed>>
        /\ mainQueue' = Tail(mainQueue) /\ mainQueue # <<>>
    BY <1>7 DEF OnSignedIn, OnSavedGone, Run, authVars
  <2>2. Fresh => Fresh'
    BY <2>1, QuietQueue DEF Fresh, Quiet
  <2> QED
    BY <2>1, <2>2, FreshKept
<1>8. CASE OnValue
  <2>1. /\ UNCHANGED <<reads, puts, screen, auth, instance, pushed>>
        /\ mainQueue' = Tail(mainQueue) /\ mainQueue # <<>>
        /\ Head(mainQueue).type = "read"
    BY <1>8 DEF OnValue, Run, authVars
  <2>2. ASSUME Fresh
        PROVE  list' = list /\ Fresh'
    <3>1. Head(mainQueue).reader = "gone"
      BY <2>1, <2>2, QuietQueue DEF Fresh, Quiet, Addressed
    <3>2. list' = list
      BY <1>8, <3>1 DEF OnValue, OnSnapshot
    <3> QED
      BY <2>1, <2>2, <3>2, QuietQueue DEF Fresh, Quiet
  <2> QED
    BY <2>1, <2>2, FreshKept
<1>9. CASE OnSavedNew \/ OnSavedEdit
  <2>1. /\ UNCHANGED <<screen, auth, instance>> /\ mainQueue # <<>>
        /\ Addressed(Head(mainQueue))
    BY <1>9 DEF OnSavedNew, OnSavedEdit, Run, authVars, Addressed
  <2>2. ~Fresh
    BY <2>1, QuietQueue DEF Fresh, Quiet
  <2> QED
    BY <2>1, <2>2, FreshKept
<1>10. CASE Server /\ DatabaseOnly
  <2>1. UNCHANGED <<screen, auth, instance, list>>
    BY <1>10 DEF DatabaseOnly, windowVars, authVars
  <2> QED
    BY <1>10, <2>1, ServerFresh, FreshKept
<1>11. ASSUME NEW i \in DOMAIN signIns, SignInSucceeds(i)
       PROVE  FreshInv'
  <2>1. screen = "login"
    BY <1>11 DEF SignInSucceeds, RequestsInv
  <2>2. Fresh /\ ~list.observing
    BY <2>1 DEF FreshInv
  <2>3. UNCHANGED <<reads, puts, list, pushed>> /\ mainQueue' = mainQueue \o <<AuthState>>
    BY <1>11 DEF SignInSucceeds, Dispatch, windowVars
  <2>4. Fresh' /\ ~list'.observing
    BY <2>2, <2>3, QuietQueue DEF Fresh, Quiet
  <2> QED
    BY <2>4 DEF FreshInv
<1>12. ASSUME NEW i \in DOMAIN signIns, CompleteSignIn(i)
       PROVE  FreshInv'
  <2>1. /\ UNCHANGED <<reads, puts, list, pushed, screen, auth, instance>>
        /\ mainQueue' = mainQueue \o <<SignedIn>>
    BY <1>12 DEF CompleteSignIn, Dispatch, windowVars
  <2>2. Fresh => Fresh'
    BY <2>1, QuietQueue DEF Fresh, Quiet
  <2> QED
    BY <2>1, <2>2, FreshKept
<1>13. CASE Relaunch
  <2>1. /\ reads' = <<>> /\ puts' = <<>> /\ list' = NewList /\ pushed' = FALSE
        /\ mainQueue' = LaunchQueue(auth)
    BY <1>13 DEF Relaunch, LosePending
  <2>2. QueueQuiet(mainQueue')
    BY <2>1 DEF LaunchQueue, QueueQuiet, Addressed, AuthState
  <2> QED
    BY <1>n, <2>1, <2>2, QuietQueue DEF FreshInv, Fresh, Quiet
<1>14. CASE UNCHANGED vars
  <2>1. UNCHANGED <<mainQueue, reads, puts, screen, auth, instance, list, pushed>>
    BY <1>14 DEF vars, storeVars, windowVars, authVars
  <2>2. Fresh' = Fresh
    BY <2>1 DEF Fresh, Quiet, QueueQuiet, Addressed
  <2> QED
    BY <2>1, <2>2, FreshKept
<1> QED
  BY <1>1, <1>2, <1>3, <1>4, <1>5, <1>6, <1>7, <1>8, <1>9, <1>10, <1>11, <1>12,
     <1>13, <1>14
  DEF Next, Touch, Main, Server, OnTabBar

\* The callback fills the list with the singleton's user's credentials: those
\* of anybody else do not decrypt.
LEMMA SnapshotOwn ==
  ASSUME Typing, NEW node \in Nodes, NEW u \in Users, NodeSound(node, u),
         NEW reader, OnSnapshot(node, u, reader),
         \A i \in DOMAIN list.credentials :
           list.credentials[i].path.user = instance.user
  PROVE  \A i \in DOMAIN list'.credentials :
           list'.credentials[i].path.user = instance.user
<1> DEFINE key == uidHash(instance.user)
<1>1. CASE list' = list
  BY <1>1
<1>2. ASSUME NEW keys \in KeyOrders(node), NEW n \in 0..Len(keys),
             NEW good \in Increasing(Decrypting(node, keys, key, n)),
             list' = LET creds == [i \in DOMAIN good |->
                                     Entry(node, u, keys[good[i]])]
                     IN  IF reader # "list" THEN list
                         ELSE [list EXCEPT
                                 !.credentials = creds,
                                 !.credentialIDs = KeptIDs(keys, n),
                                 !.rows = IF LoopEnd(node, keys, key, n)
                                               = "done"
                                          THEN creds ELSE @]
      PROVE  \A i \in DOMAIN list'.credentials :
               list'.credentials[i].path.user = instance.user
  <2> DEFINE creds == [i \in DOMAIN good |-> Entry(node, u, keys[good[i]])]
             rows == IF LoopEnd(node, keys, key, n) = "done"
                     THEN creds ELSE list.rows
             G == Decrypting(node, keys, key, n)
  <2>1. list \in ListRecords
    BY DEF Typing
  <2>2. CASE reader # "list"
    BY <1>2, <2>2
  <2>3. CASE reader = "list"
    <3>1. list' = [list EXCEPT !.credentials = creds,
                               !.credentialIDs = KeptIDs(keys, n),
                               !.rows = rows]
      BY <1>2, <2>3
    <3>2. \A i \in DOMAIN creds : creds[i].path.user = u
      BY DEF Entry
    <3>3. ASSUME NEW i \in DOMAIN good
          PROVE  u = instance.user
      <4>1. good \in [1..Cardinality(G) -> G]
        BY <1>2 DEF Increasing, Injection
      <4>2. good[i] \in 1..n /\ ChildOutcome(node[keys[good[i]]], key) = "ok"
        BY <3>3, <4>1 DEF Decrypting
      <4>3. /\ keys \in Seq(Ids) /\ Len(keys) \in Nat
            /\ \A j \in 1..Len(keys) : keys[j] \in Ids /\ node[keys[j]] # Nil
        BY KeysType, LenProperties, ElementOfSeq
      <4>4. Sound(node[keys[good[i]]], u)
        BY <4>2, <4>3 DEF NodeSound
      <4>5. key = uidHash(u)
        BY <4>2, <4>4, SoundOutcome
      <4> QED
        BY <4>5 DEF uidHash, sha256
    <3> HIDE DEF rows
    <3>4. list'.credentials = creds
      BY <2>1, <3>1 DEF ListRecords
    <3> QED
      BY <3>2, <3>3, <3>4
  <2> QED
    BY <2>2, <2>3
<1> QED
  BY <1>1, <1>2, Zenon DEF OnSnapshot

\* Nothing done to a form changes where its credential came from.
LEMMA FormsKeepOrigin ==
  ASSUME NEW f \in FormRecords
  PROVE  /\ EditWillAppear(f).origin = f.origin /\ EditWillAppear(f).credId = f.credId
         /\ \A p : /\ regeneratePassword(f, p).origin = f.origin
                   /\ regeneratePassword(f, p).credId = f.credId
         /\ \A k \in {"username", "website", "password"} : \A t :
              Typed(f, k, t).origin = f.origin /\ Typed(f, k, t).credId = f.credId
         /\ \A entry \in Entries : \A id : /\ editFor(entry, id).origin = entry.path
                                       /\ editFor(entry, id).credId = id
<1>1. EditWillAppear(f).origin = f.origin /\ EditWillAppear(f).credId = f.credId
  BY DEF EditWillAppear, FormRecords
<1>2. \A p : /\ regeneratePassword(f, p).origin = f.origin
             /\ regeneratePassword(f, p).credId = f.credId
  BY DEF regeneratePassword, FormRecords
<1>3. \A k \in {"username", "website", "password"} : \A t :
        Typed(f, k, t).origin = f.origin /\ Typed(f, k, t).credId = f.credId
  BY DEF Typed, validateCredentials, FormRecords
<1>4. \A entry \in Entries : \A id : /\ editFor(entry, id).origin = entry.path
                                 /\ editFor(entry, id).credId = id
  BY DEF editFor, EditWillAppear, NewForm
<1> QED
  BY <1>1, <1>2, <1>3, <1>4

\* A step that keeps the singleton's user, or leaves nothing behind.
LEMMA OwnKept ==
  ASSUME OwnInv, instance'.user = instance.user,
         list'.credentials = list.credentials \/ list'.credentials = <<>>,
         ~pushed' \/ /\ pushed
                     /\ form'["edit"].origin = form["edit"].origin
                     /\ form'["edit"].credId = form["edit"].credId
  PROVE  OwnInv'
BY DEF OwnInv

\* What the list's appearance and disappearance do to its credentials.
LEMMA AppearsEmpty ==
  ASSUME Typing
  PROVE  /\ \A u, covered : ListWillAppear(list, u, covered) => list'.credentials = <<>>
         /\ ListWillDisappear => list'.credentials = list.credentials
BY DEF Typing, ListRecords, ListWillAppear, ListWillDisappear

\* The list's tab comes to the front.
LEMMA TabAppearsOwn ==
  ASSUME Typing, OwnInv, ListTabAppears, pushed' = pushed, instance' = instance
  PROVE  OwnInv'
<1>1. CASE pushed
  <2>1. /\ form' = [NewTabLeft EXCEPT !["edit"] = EditWillAppear(@)]
        /\ list' = list
    BY <1>1, Zenon DEF ListTabAppears
  <2>2. form'["edit"] = EditWillAppear(form["edit"])
    BY <2>1, ReplaceTypes DEF NewTabLeft, Forms, Typing
  <2> QED
    BY <1>1, <2>1, <2>2, ReplaceTypes, FormsKeepOrigin, OwnKept
<1>2. CASE ~pushed
  BY <1>2, AppearsEmpty, OwnKept, Zenon DEF ListTabAppears
<1> QED
  BY <1>1, <1>2

\* Every step leaves the list and the edit form with the singleton's user.
LEMMA NextOwn ==
  ASSUME Typing, SnapshotsSound, ArraysInStep(list), FreshInv, OwnInv, [Next]_vars
  PROVE  OwnInv'
<1>0. list \in ListRecords /\ form["new"] \in FormRecords /\ form["edit"] \in FormRecords
  BY ReplaceTypes DEF Typing
<1>n. NewList.credentials = <<>>
  BY DEF NewList
<1>1. CASE signOut \/ Relaunch
  <2>1. list' = NewList /\ ~pushed'
    BY <1>1 DEF signOut, Relaunch
  <2> QED
    BY <1>n, <2>1 DEF OwnInv
<1>2. CASE SelectList
  BY <1>2, TabAppearsOwn DEF SelectList
<1>3. ASSUME NEW t \in {"new", "settings"}, SelectOther(t)
      PROVE  OwnInv'
  <2>1. pushed' = pushed /\ instance' = instance
    BY <1>3 DEF SelectOther
  <2>2. list'.credentials = list.credentials
    BY <1>3, AppearsEmpty, Zenon DEF SelectOther
  <2>3. form'["edit"] = form["edit"]
    BY <1>3 DEF SelectOther, NewTabLeft, Typing, Forms
  <2> QED
    BY <2>1, <2>2, <2>3, OwnKept DEF Typing
<1>4. ASSUME NEW i, didSelectRow(i)
      PROVE  OwnInv'
  <2>1. CASE i \in DOMAIN list.credentials /\ i \in DOMAIN list.credentialIDs
    <3> DEFINE entry == list.credentials[i]
               id == list.credentialIDs[i]
    <3>1. entry \in Entries
      BY <1>0, <2>1, ElementOfSeq, LenProperties DEF ListRecords
    <3>2. entry.path.id = id /\ entry.path.user = instance.user
      BY <2>1 DEF ArraysInStep, OwnInv
    <3>3. /\ form'["edit"] = editFor(entry, id)
          /\ list'.credentials = list.credentials /\ instance' = instance
      BY <1>4, <2>1, AppearsEmpty DEF didSelectRow, Typing, Forms
    <3> HIDE DEF entry, id
    <3>4. /\ form'["edit"].origin = entry.path /\ form'["edit"].credId = id
      BY <1>0, <3>1, <3>3, FormsKeepOrigin
    <3>5. entry.path = [user |-> instance.user, id |-> id]
      BY <3>1, <3>2 DEF Entries, Paths
    <3> QED
      BY <3>3, <3>4, <3>5 DEF OwnInv
  <2>2. CASE ~(i \in DOMAIN list.credentials /\ i \in DOMAIN list.credentialIDs)
    BY <1>4, <2>2, OwnKept DEF didSelectRow, Typing
  <2> QED
    BY <2>1, <2>2
<1>5. CASE Back
  BY <1>5, AppearsEmpty, OwnKept DEF Back, PopEdit
<1>6. ASSUME NEW v \in Forms, onUsernameChanged(v) \/ onWebsiteChanged(v) \/ onPasswordChanged(v)
      PROVE  OwnInv'
  <2>1. PICK k \in {"username", "website", "password"} :
          \E t : form' = [form EXCEPT ![v] = Typed(@, k, t)]
    BY <1>6, Zenon DEF onUsernameChanged, onWebsiteChanged, onPasswordChanged, onChanged
  <2>2. UNCHANGED <<pushed, instance, list>>
    BY <1>6 DEF onUsernameChanged, onWebsiteChanged, onPasswordChanged, onChanged, windowVars
  <2>3. PICK t : form' = [form EXCEPT ![v] = Typed(@, k, t)]
    BY <2>1
  <2>4. form'["edit"] = form["edit"] \/ form'["edit"] = Typed(form["edit"], k, t)
    BY <2>3 DEF Typing, Forms
  <2> QED
    BY <1>0, <2>2, <2>4, FormsKeepOrigin, OwnKept
<1>7. ASSUME NEW v \in Forms, onRegenerateTapped(v)
      PROVE  OwnInv'
  <2>1. PICK p : form' = [form EXCEPT ![v] = regeneratePassword(@, p)]
    BY <1>7, Zenon DEF onRegenerateTapped
  <2>2. UNCHANGED <<pushed, instance, list>>
    BY <1>7 DEF onRegenerateTapped, windowVars
  <2>3. form'["edit"] = form["edit"] \/ form'["edit"] = regeneratePassword(form["edit"], p)
    BY <2>1 DEF Typing, Forms
  <2> QED
    BY <1>0, <2>2, <2>3, FormsKeepOrigin, OwnKept
<1>8. CASE OnAuthState
  <2>1. UNCHANGED <<auth, pushed, list, form>> /\ instance' = Listened
    BY <1>8 DEF OnAuthState, authVars
  <2>2. CASE instance'.user = instance.user
    BY <2>1, <2>2, OwnKept
  <2>3. CASE instance'.user # instance.user
    <3>1. auth # Nil /\ instance.user # auth
      BY <2>1, <2>3 DEF Listened, Typing, Instances
    <3>2. list.credentials = <<>> /\ ~pushed
      BY <3>1 DEF FreshInv, Fresh
    <3> QED
      BY <2>1, <3>2 DEF OwnInv
  <2> QED
    BY <2>2, <2>3
<1>9. CASE SegueFirst \/ SegueKnown \/ SegueStale
  <2>1. screen = "login" /\ pushed' = pushed
    BY <1>9 DEF SegueFirst, SegueKnown, SegueStale, Segue
  <2>2. list'.credentials = <<>>
    BY <1>0, <1>9, AppearsEmpty DEF SegueFirst, SegueKnown, SegueStale, ListRecords
  <2>3. ~pushed
    BY <2>1 DEF FreshInv, Fresh
  <2> QED
    BY <2>1, <2>2, <2>3 DEF OwnInv
<1>10. CASE OnValue
  <2> DEFINE b == Head(mainQueue)
  <2>1. b \in Blocks /\ b.type = "read"
    BY <1>10, RunType DEF OnValue
  <2>2. b.user \in Users /\ b.node \in Nodes
    BY <2>1, ReadBlockType
  <2>3. OnSnapshot(b.node, b.user, b.reader) /\ UNCHANGED <<pushed, instance, form>>
    BY <1>10 DEF OnValue
  <2>4. NodeSound(b.node, b.user)
    <3>1. mainQueue \in Seq(Blocks) /\ mainQueue # <<>>
      BY <1>10 DEF Typing, OnValue, Run
    <3>2. 1 \in DOMAIN mainQueue /\ b = mainQueue[1]
      BY <3>1, EmptySeq, LenProperties
    <3> QED
      BY <2>1, <3>2 DEF SnapshotsSound
  <2> HIDE DEF b
  <2>5. \A i \in DOMAIN list'.credentials : list'.credentials[i].path.user = instance.user
    BY <2>2, <2>3, <2>4, SnapshotOwn DEF OwnInv
  <2> QED
    BY <2>3, <2>5 DEF OwnInv
<1>11. CASE OnSavedNew
  <2>1. pushed' = pushed /\ instance' = instance
    BY <1>11 DEF OnSavedNew
  <2>2. CASE tab = "list"
    BY <1>11, <2>1, <2>2, OwnKept DEF OnSavedNew, Typing
  <2>3. CASE tab # "list"
    BY <1>11, <2>1, <2>3, TabAppearsOwn DEF OnSavedNew
  <2> QED
    BY <2>2, <2>3
<1>12. CASE OnSavedEdit
  <2>1. ~pushed' /\ instance' = instance
    BY <1>12 DEF OnSavedEdit, PopEdit
  <2>2. list'.credentials = list.credentials \/ list'.credentials = <<>>
    BY <1>12, AppearsEmpty, Zenon DEF OnSavedEdit
  <2> QED
    BY <2>1, <2>2, OwnKept
<1>13. CASE \/ \E u \in Users : login(u)
            \/ \E v \in Forms : onSaveButtonPressed(v)
            \/ OnSignedIn \/ OnSavedGone \/ Server \/ UNCHANGED vars
  <2>1. UNCHANGED <<pushed, instance, list, form>>
    BY <1>13 DEF login, onSaveButtonPressed, OnSignedIn, OnSavedGone, Server, DatabaseOnly,
       SignInSucceeds, CompleteSignIn, vars, windowVars
  <2> QED
    BY <2>1, OwnKept DEF Typing
<1> QED
  BY <1>1, <1>2, <1>3, <1>4, <1>5, <1>6, <1>7, <1>8, <1>9, <1>10, <1>11, <1>12, <1>13
  DEF Next, Touch, Main

\* When no other client writes to the users' nodes and one sign-in at a time
\* is asked for, the edit form writes back to the id and the user its
\* credential was read from, whatever reloads, late answers, sign-outs and
\* sign-ins of others come between opening a row and saving it.
THEOREM EditsGoBackWhereRead ==
  ASSUME Foreign = {}, MaxSignIns =< 1
  PROVE  Spec => []EditsWhatWasRead
<1> DEFINE I == /\ Typing /\ PutsSound /\ StoredSound /\ SnapshotsSound
                /\ ArraysInStep(list) /\ SessionInv /\ RequestsInv /\ FreshInv
                /\ OwnInv
<1>1. Init => I
  <2> SUFFICES ASSUME Init
               PROVE  I
    OBVIOUS
  <2>1. PutsSound /\ StoredSound
    BY DEF Init, StoreInit, PutsSound, StoredSound, EmptyNode
  <2>2. \A i \in DOMAIN mainQueue : mainQueue[i] = AuthState
    BY DEF Init, LaunchQueue
  <2>3. SnapshotsSound
    BY <2>2, OtherBlocks DEF SnapshotsSound
  <2>4. ArraysInStep(list)
    BY DEF Init, NewList, ArraysInStep
  <2>5. /\ screen = "login" /\ ~pushed /\ reads = <<>> /\ puts = <<>>
        /\ list.credentials = <<>> /\ list.rows = <<>> /\ ~list.observing /\ signIns = <<>>
        /\ ~instance.exists /\ instance.seen = Nil
    BY DEF Init, StoreInit, WindowInit, NewList
  <2>6. SessionInv
    BY <2>5 DEF SessionInv
  <2>7. FreshInv
    <3>1. QueueQuiet(mainQueue)
      BY <2>2 DEF QueueQuiet, Addressed, AuthState
    <3> QED
      BY <2>5, <3>1 DEF FreshInv, Fresh, Quiet
  <2>8. RequestsInv
    <3>1. ~InitialQueued(mainQueue)
      BY <2>2 DEF InitialQueued, AuthState
    <3>2. auth # Nil => AuthQueued(mainQueue)
      BY DEF Init, LaunchQueue, AuthQueued, AuthType, AuthState
    <3> QED
      BY <2>5, <3>1, <3>2 DEF RequestsInv
  <2>9. OwnInv
    BY <2>5 DEF OwnInv
  <2> QED
    BY <2>1, <2>3, <2>4, <2>6, <2>7, <2>8, <2>9, InitTyping
<1>2. I /\ [Next]_vars => I'
  <2> SUFFICES ASSUME I, [Next]_vars
               PROVE  I'
    OBVIOUS
  <2>1. Typing' /\ PutsSound' /\ StoredSound' /\ SnapshotsSound'
    BY NextTyping, NextStore, WritesStaySound, StoreStaysSound,
       SnapshotsStaySound
  <2>2. ArraysInStep(list)'
    BY NextInStep DEF ArraysInStep
  <2>3. SessionInv' /\ RequestsInv' /\ FreshInv' /\ OwnInv'
    BY NextSession, NextRequests, NextFresh, NextOwn
  <2> QED
    BY <2>1, <2>2, <2>3
<1>3. I => EditsWhatWasRead
  BY DEF OwnInv, EditsWhatWasRead
<1> QED
  BY <1>1, <1>2, <1>3, PTL DEF Spec

-----------------------------------------------------------------------------
(* What the list shows *)

\* Something is stored for a user under an id, or about to be.
Known(u, id) ==
  db[u][id] # Nil \/ \E j \in DOMAIN puts : puts[j].user = u /\ puts[j].id = id

\* If there is a write, there is a newest one.
LEMMA NewestExists ==
  ASSUME NEW n \in Nat, NEW u, NEW id, NEW j \in 1..n,
         puts[j].user = u, puts[j].id = id
  PROVE  \E i \in 1..n : Newest(i, u, id, n)
<1> DEFINE M == {i \in 1..n : puts[i].user = u /\ puts[i].id = id}
           T == {k \in Nat : n - k \in M}
<1>1. n - j \in T /\ T \in SUBSET Nat
  OBVIOUS
<1>2. PICK k \in T : \A l \in T : k =< l
  BY <1>1, LeastNumber
<1>3. n - k \in 1..n /\ puts[n - k].user = u /\ puts[n - k].id = id
  BY <1>2
<1>4. ASSUME NEW i \in (n - k + 1)..n, puts[i].user = u, puts[i].id = id
      PROVE  FALSE
  <2>1. i \in 1..n /\ n - i \in Nat /\ n - (n - i) = i
    BY <1>3, <1>4
  <2>2. n - i \in T
    BY <1>4, <2>1
  <2>3. k =< n - i
    BY <1>2, <2>2
  <2> QED
    BY <1>2, <1>4, <2>1, <2>3
<1>5. Newest(n - k, u, id, n)
  BY <1>3, <1>4 DEF Newest
<1> QED
  BY <1>3, <1>5

\* The client sees what is known.
LEMMA ViewKnown ==
  ASSUME Typing, NEW u \in Users, NEW id \in Ids, NEW n \in 0..Len(puts)
  PROVE  Applied(n)[u][id] # Nil <=>
           \/ db[u][id] # Nil
           \/ \E j \in 1..n : puts[j].user = u /\ puts[j].id = id
<1>0. puts \in Seq(Puts) /\ Len(puts) \in Nat /\ n \in Nat
  BY LenProperties DEF Typing
<1>1. CASE \E i \in 1..n : Newest(i, u, id, n)
  <2> DEFINE i == CHOOSE i \in 1..n : Newest(i, u, id, n)
  <2>1. i \in 1..n /\ Newest(i, u, id, n)
    BY <1>1
  <2>2. Applied(n)[u][id] = puts[i].child
    BY <1>1 DEF Applied
  <2> HIDE DEF i
  <2>3. puts[i] \in Puts
    BY <1>0, <2>1, ElementOfSeq
  <2>4. puts[i].child # Nil
    BY <2>3, RawAssumption DEF Puts
  <2> QED
    BY <2>1, <2>2, <2>4 DEF Newest
<1>2. CASE ~\E i \in 1..n : Newest(i, u, id, n)
  <2>1. Applied(n)[u][id] = db[u][id]
    BY <1>2 DEF Applied
  <2> QED
    BY <1>0, <1>2, <2>1, NewestExists
<1> QED
  BY <1>1, <1>2

LEMMA LocalViewKnown ==
  ASSUME Typing, NEW u \in Users, NEW id \in Ids
  PROVE  LocalView[u][id] # Nil <=> Known(u, id)
<1>1. Len(puts) \in 0..Len(puts) /\ DOMAIN puts = 1..Len(puts)
  BY LenProperties DEF Typing
<1> QED
  BY <1>1, ViewKnown DEF LocalView, Known

\* What is known stays known while the process lives and the server accepts.
LEMMA KnownStays ==
  ASSUME Foreign = {}, ~PutsMayFail, Typing, StoreStep, ~Relaunch,
         NEW u \in Users, NEW id \in Ids, Known(u, id)
  PROVE  Known(u, id)'
<1>0. puts \in Seq(Puts) /\ Len(puts) \in Nat /\ DOMAIN puts = 1..Len(puts)
  BY LenProperties DEF Typing
<1>1. CASE puts' = puts /\ db' = db
  BY <1>1 DEF Known
<1>2. ASSUME NEW who, puts' = OrphanSaves(puts, who), db' = db
      PROVE  Known(u, id)'
  BY <1>0, <1>2, OrphansKeepWrites DEF Known
<1>3. ASSUME NEW p \in Puts, puts' = Append(puts, p), db' = db
      PROVE  Known(u, id)'
  <2>1. /\ puts' \in Seq(Puts) /\ Len(puts') = Len(puts) + 1
        /\ \A i \in 1..Len(puts) : puts'[i] = puts[i]
    BY <1>0, <1>3, AppendProperties
  <2>2. DOMAIN puts' = 1..(Len(puts) + 1)
    BY <2>1, LenProperties
  <2>3. \A i \in DOMAIN puts : i \in DOMAIN puts' /\ puts'[i] = puts[i]
    BY <1>0, <2>1, <2>2
  <2> QED
    BY <1>3, <2>3 DEF Known
<1>4. CASE puts # <<>> /\ puts' = Tail(puts) /\ db' = Applied(1)
  <2>1. /\ puts' \in Seq(Puts) /\ Len(puts') = Len(puts) - 1
        /\ \A i \in 1..Len(puts') : puts'[i] = puts[i+1]
    BY <1>0, <1>4, HeadTailProperties
  <2>2. DOMAIN puts' = 1..Len(puts')
    BY <2>1, LenProperties
  <2>3. 1 \in 0..Len(puts)
    BY <1>0, <1>4, EmptySeq
  <2>4. CASE db[u][id] # Nil \/ (puts[1].user = u /\ puts[1].id = id)
    <3>1. Applied(1)[u][id] # Nil
      BY <2>3, <2>4, ViewKnown
    <3> QED
      BY <1>4, <3>1 DEF Known
  <2>5. ASSUME NEW j \in DOMAIN puts, j # 1, puts[j].user = u, puts[j].id = id
        PROVE  Known(u, id)'
    <3>1. j - 1 \in DOMAIN puts' /\ puts'[j - 1] = puts[j]
      BY <1>0, <2>1, <2>2, <2>5
    <3> QED
      BY <2>5, <3>1 DEF Known
  <2>6. db[u][id] # Nil \/ \E j \in DOMAIN puts : puts[j].user = u /\ puts[j].id = id
    BY DEF Known
  <2>7. CASE db[u][id] # Nil
    BY <2>4, <2>7
  <2>8. ASSUME NEW j \in DOMAIN puts, puts[j].user = u, puts[j].id = id
        PROVE  Known(u, id)'
    <3>1. CASE j = 1
      BY <2>4, <2>8, <3>1
    <3>2. CASE j # 1
      BY <2>5, <2>8, <3>2
    <3> QED
      BY <3>1, <3>2
  <2> QED
    BY <2>6, <2>7, <2>8
<1> QED
  BY <1>1, <1>2, <1>3, <1>4 DEF StoreStep

\* What the client sees, as a function of the tree and the writes.
NewestOf(q, i, u, id) ==
  /\ q[i].user = u /\ q[i].id = id
  /\ \A j \in (i+1)..Len(q) : ~(q[j].user = u /\ q[j].id = id)
View(d, q) ==
  [u \in Users |-> [id \in Ids |->
     IF \E i \in 1..Len(q) : NewestOf(q, i, u, id)
     THEN q[CHOOSE i \in 1..Len(q) : NewestOf(q, i, u, id)].child
     ELSE d[u][id]]]

LEMMA LocalViewIs == LocalView = View(db, puts) /\ LocalView' = View(db', puts')
BY DEF LocalView, Applied, Newest, View, NewestOf

LEMMA ViewValue ==
  ASSUME NEW d, NEW q, Len(q) \in Nat, NEW u \in Users, NEW id \in Ids
  PROVE  /\ \A i \in 1..Len(q) : NewestOf(q, i, u, id) => View(d, q)[u][id] = q[i].child
         /\ ~(\E i \in 1..Len(q) : NewestOf(q, i, u, id)) => View(d, q)[u][id] = d[u][id]
<1>1. ASSUME NEW i \in 1..Len(q), NewestOf(q, i, u, id)
      PROVE  View(d, q)[u][id] = q[i].child
  <2> DEFINE k == CHOOSE j \in 1..Len(q) : NewestOf(q, j, u, id)
  <2>1. k \in 1..Len(q) /\ NewestOf(q, k, u, id)
    BY <1>1
  <2>2. View(d, q)[u][id] = q[k].child
    BY <1>1 DEF View
  <2> HIDE DEF k
  <2>3. ~(i < k) /\ ~(k < i)
    BY <1>1, <2>1 DEF NewestOf
  <2>4. k = i
    BY <1>1, <2>1, <2>3
  <2> QED
    BY <2>2, <2>4
<1> QED
  BY <1>1 DEF View

\* Giving up addressees changes nothing of what the client sees ...
LEMMA OrphansKeepView ==
  ASSUME Typing, db' = db, NEW who, puts' = OrphanSaves(puts, who)
  PROVE  LocalView' = LocalView
<1>0. puts \in Seq(Puts) /\ Len(puts) \in Nat /\ DOMAIN puts = 1..Len(puts)
  BY LenProperties DEF Typing
<1>1. puts' \in Seq(Puts) /\ DOMAIN puts' = DOMAIN puts
  BY <1>0, OrphanTypes, OrphansKeepWrites
<1>2. Len(puts') = Len(puts)
  BY <1>0, <1>1, LenProperties
<1>3. \A i \in 1..Len(puts) : /\ puts'[i].user = puts[i].user
                              /\ puts'[i].id = puts[i].id
                              /\ puts'[i].child = puts[i].child
  BY <1>0, OrphansKeepWrites
<1>4. \A u, id : \A i \in 1..Len(puts) : NewestOf(puts', i, u, id) <=> NewestOf(puts, i, u, id)
  <2>1. \A i \in 1..Len(puts) : \A j \in (i+1)..Len(puts) : j \in 1..Len(puts)
    BY <1>0
  <2> QED
    BY <1>2, <1>3, <2>1 DEF NewestOf
<1>5. ASSUME NEW u \in Users, NEW id \in Ids
      PROVE  View(db', puts')[u][id] = View(db, puts)[u][id]
  <2>1. CASE \E i \in 1..Len(puts) : NewestOf(puts, i, u, id)
    BY <1>0, <1>2, <1>3, <1>4, <2>1, ViewValue
  <2>2. CASE ~\E i \in 1..Len(puts) : NewestOf(puts, i, u, id)
    BY <1>0, <1>2, <1>4, <2>2, ViewValue
  <2> QED
    BY <2>1, <2>2
<1>6. View(db', puts') = View(db, puts)
  BY <1>5 DEF View
<1> QED
  BY <1>6, LocalViewIs

\* ... and an acknowledged write only moves from the client to the server.
LEMMA AckKeepsView ==
  ASSUME Typing, AckPut
  PROVE  LocalView' = LocalView
<1>0. /\ puts \in Seq(Puts) /\ Len(puts) \in Nat /\ DOMAIN puts = 1..Len(puts)
      /\ puts # <<>> /\ Len(puts) # 0
  BY LenProperties, EmptySeq DEF Typing, AckPut
<1>1. /\ puts' = Tail(puts) /\ Len(puts') = Len(puts) - 1
      /\ \A i \in 1..Len(puts') : puts'[i] = puts[i+1]
  BY <1>0, HeadTailProperties DEF AckPut
<1>n. Len(puts') \in Nat
  BY <1>0, <1>1
<1>2. \A u, id : \A i \in 1..Len(puts') : NewestOf(puts', i, u, id) <=> NewestOf(puts, i+1, u, id)
  <2>1. ASSUME NEW u, NEW id, NEW i \in 1..Len(puts')
        PROVE  NewestOf(puts', i, u, id) <=> NewestOf(puts, i+1, u, id)
    <3>1. \A j \in (i+1)..Len(puts') : j \in 1..Len(puts') /\ j+1 \in (i+1+1)..Len(puts)
      BY <1>0, <1>1
    <3>2. \A j \in (i+1+1)..Len(puts) : j-1 \in (i+1)..Len(puts') /\ j-1+1 = j /\ j-1 \in 1..Len(puts')
      BY <1>0, <1>1
    <3>3. puts'[i] = puts[i+1]
      BY <1>1
    <3>4. (\A j \in (i+1)..Len(puts') : ~(puts'[j].user = u /\ puts'[j].id = id))
            <=> (\A j \in (i+1+1)..Len(puts) : ~(puts[j].user = u /\ puts[j].id = id))
      <4>1. ASSUME \A j \in (i+1)..Len(puts') : ~(puts'[j].user = u /\ puts'[j].id = id),
                   NEW j \in (i+1+1)..Len(puts)
            PROVE  ~(puts[j].user = u /\ puts[j].id = id)
        <5>1. puts'[j-1] = puts[j]
          BY <1>1, <3>2, <4>1
        <5> QED
          BY <3>2, <4>1, <5>1
      <4>2. ASSUME \A j \in (i+1+1)..Len(puts) : ~(puts[j].user = u /\ puts[j].id = id),
                   NEW j \in (i+1)..Len(puts')
            PROVE  ~(puts'[j].user = u /\ puts'[j].id = id)
        BY <1>1, <3>1, <4>2
      <4> QED
        BY <4>1, <4>2
    <3> QED
      BY <3>3, <3>4 DEF NewestOf
  <2> QED
    BY <2>1
<1>3. ASSUME NEW u \in Users, NEW id \in Ids
      PROVE  View(db', puts')[u][id] = View(db, puts)[u][id]
  <2>1. ASSUME NEW i \in 1..Len(puts'), NewestOf(puts', i, u, id)
        PROVE  View(db', puts')[u][id] = View(db, puts)[u][id]
    <3>1. i+1 \in 1..Len(puts) /\ NewestOf(puts, i+1, u, id)
      BY <1>0, <1>1, <1>2, <2>1
    <3>2. View(db', puts')[u][id] = puts'[i].child
      BY <1>n, <2>1, ViewValue
    <3>3. View(db, puts)[u][id] = puts[i+1].child
      BY <1>0, <3>1, ViewValue
    <3> QED
      BY <1>1, <3>2, <3>3
  <2>2. CASE ~\E i \in 1..Len(puts') : NewestOf(puts', i, u, id)
    <3>1. View(db', puts')[u][id] = Applied(1)[u][id]
      <4>1. View(db', puts')[u][id] = db'[u][id]
        BY <1>n, <2>2, ViewValue
      <4> QED
        BY <4>1 DEF AckPut
    <3>2. ASSUME NEW j \in 2..Len(puts)
          PROVE  ~(puts[j].user = u /\ puts[j].id = id)
      <4>1. SUFFICES ASSUME puts[j].user = u, puts[j].id = id
                     PROVE  FALSE
        OBVIOUS
      <4>2. PICK i \in 1..Len(puts) : Newest(i, u, id, Len(puts))
        BY <1>0, <4>1, NewestExists
      <4>3. ~(i < j)
        BY <4>1, <4>2 DEF Newest
      <4>4. i - 1 \in 1..Len(puts') /\ i - 1 + 1 = i
        BY <1>0, <1>1, <4>2, <4>3
      <4>5. NewestOf(puts, i, u, id)
        BY <4>2 DEF Newest, NewestOf
      <4> QED
        BY <1>2, <2>2, <4>4, <4>5
    <3>3. CASE puts[1].user = u /\ puts[1].id = id
      <4>1. NewestOf(puts, 1, u, id) /\ 1 \in 1..Len(puts)
        BY <1>0, <3>2, <3>3 DEF NewestOf
      <4>2. View(db, puts)[u][id] = puts[1].child
        BY <1>0, <4>1, ViewValue
      <4>3. \A i \in 1..1 : i = 1
        OBVIOUS
      <4>4. Newest(1, u, id, 1) /\ 1 \in 1..1
        BY <3>3 DEF Newest
      <4>5. (CHOOSE i \in 1..1 : Newest(i, u, id, 1)) = 1
        BY <4>3, <4>4
      <4>6. Applied(1)[u][id] = puts[1].child
        BY <4>4, <4>5 DEF Applied
      <4> QED
        BY <3>1, <4>2, <4>6
    <3>4. CASE ~(puts[1].user = u /\ puts[1].id = id)
      <4>1. ~\E i \in 1..Len(puts) : NewestOf(puts, i, u, id)
        BY <1>0, <3>2, <3>4 DEF NewestOf
      <4>2. View(db, puts)[u][id] = db[u][id]
        BY <1>0, <4>1, ViewValue
      <4>3. ~\E i \in 1..1 : Newest(i, u, id, 1)
        BY <3>4 DEF Newest
      <4>4. Applied(1)[u][id] = db[u][id]
        BY <4>3 DEF Applied
      <4> QED
        BY <3>1, <4>2, <4>4
    <3> QED
      BY <3>3, <3>4
  <2> QED
    BY <2>1, <2>2
<1>4. View(db', puts') = View(db, puts)
  BY <1>3 DEF View
<1> QED
  BY <1>4, LocalViewIs

\* The list shows what a node holds for a user.
ShowsNode(l, node, u) ==
  /\ l.rows = l.credentials
  /\ {l.rows[i] : i \in DOMAIN l.rows} =
       {Entry(node, u, id) : id \in {id \in Ids : node[id] # Nil}}

\* What the list's callback does with a node that is sound for the user it was
\* read for: nothing if the node is empty; else it shows the node, or nothing
\* at all to another user.
LEMMA SnapshotShows ==
  ASSUME Typing, NEW node \in Nodes, NEW u \in Users, NodeSound(node, u),
         NEW reader, OnSnapshot(node, u, reader)
  PROVE  /\ crashed' => crashed
         /\ list'.observing = list.observing
         /\ (\A id \in Ids : node[id] = Nil) \/ reader # "list" => list' = list
         /\ (\E id \in Ids : node[id] # Nil) /\ reader = "list" =>
              IF u = instance.user THEN ShowsNode(list', node, u)
              ELSE list'.rows = <<>> /\ list'.credentials = <<>>
<1> DEFINE key == uidHash(instance.user)
           K == {id \in Ids : node[id] # Nil}
<1>0. list \in ListRecords
  BY DEF Typing
<1>1. CASE /\ \A id \in Ids : node[id] = Nil
           /\ overlay' = FALSE
           /\ UNCHANGED <<list, crashed>>
  BY <1>1
<1>2. ASSUME NEW keys \in KeyOrders(node), NEW n \in 0..Len(keys), keys # <<>>,
             Completes(node, keys, key, n),
             crashed' = (LoopEnd(node, keys, key, n) = "trap"),
             NEW good \in Increasing(Decrypting(node, keys, key, n)),
             list' = LET creds == [i \in DOMAIN good |->
                                     Entry(node, u, keys[good[i]])]
                     IN  IF reader # "list" THEN list
                         ELSE [list EXCEPT
                                 !.credentials = creds,
                                 !.credentialIDs = KeptIDs(keys, n),
                                 !.rows = IF LoopEnd(node, keys, key, n)
                                               = "done"
                                          THEN creds ELSE @]
      PROVE  /\ crashed' => crashed
             /\ list'.observing = list.observing
             /\ (\A id \in Ids : node[id] = Nil) \/ reader # "list" => list' = list
             /\ (\E id \in Ids : node[id] # Nil) /\ reader = "list" =>
                  IF u = instance.user THEN ShowsNode(list', node, u)
                  ELSE list'.rows = <<>> /\ list'.credentials = <<>>
  <2> DEFINE creds == [i \in DOMAIN good |-> Entry(node, u, keys[good[i]])]
  <2>1. /\ keys \in Seq(Ids) /\ Len(keys) \in Nat /\ Len(keys) # 0
        /\ \A i \in 1..Len(keys) : keys[i] \in Ids /\ node[keys[i]] # Nil
    BY <1>2, KeysType, LenProperties, ElementOfSeq, EmptySeq
  <2>2. \A i \in 1..Len(keys) :
          ChildOutcome(node[keys[i]], key) =
            IF key = uidHash(u) THEN "ok" ELSE "throws"
    BY <2>1, SoundOutcome DEF NodeSound
  <2>3. n = Len(keys)
    <3>1. SUFFICES ASSUME n < Len(keys)
                   PROVE  FALSE
      BY <2>1
    <3>2. n + 1 \in 1..Len(keys)
      BY <2>1, <3>1
    <3>3. ChildOutcome(node[keys[n+1]], key) \in {"ok", "throws"}
      BY <2>2, <3>2
    <3> QED
      BY <1>2, <3>1, <3>3 DEF Completes
  <2>4. LoopEnd(node, keys, key, n) = "done"
    BY <2>1, <2>3 DEF LoopEnd
  <2>5. ~crashed'
    BY <1>2, <2>4
  <2>6. ~\A id \in Ids : node[id] = Nil
    <3>1. 1 \in 1..Len(keys)
      BY <2>1
    <3> QED
      BY <2>1, <3>1
  <2>7. CASE reader # "list"
    BY <1>2, <2>5, <2>7
  <2>8. CASE reader = "list"
    <3>1. list' = [list EXCEPT !.credentials = creds,
                               !.credentialIDs = KeptIDs(keys, n),
                               !.rows = creds]
      BY <1>2, <2>4, <2>8
    <3> HIDE DEF creds
    <3>2. /\ list'.credentials = creds /\ list'.rows = creds
          /\ list'.observing = list.observing
      BY <1>0, <3>1 DEF ListRecords
    <3>3. CASE u = instance.user
      <4>1. Decrypting(node, keys, key, n) = 1..n
        BY <2>2, <2>3, <3>3 DEF Decrypting
      <4>2. n \in Nat /\ good \in Increasing(1..n)
        BY <2>1, <2>3, <4>1
      <4>3. DOMAIN good = 1..n /\ \A i \in 1..n : good[i] = i
        BY <4>2, IncreasingIsCounting
      <4>4. DOMAIN creds = 1..n /\ \A i \in 1..n : creds[i] = Entry(node, u, keys[i])
        BY <4>3 DEF creds
      <4>5. {keys[i] : i \in 1..n} = K
        <5>1. IsFiniteSet(K) /\ Cardinality(K) \in Nat
          BY IdsAssumption, FS_Subset, FS_CardinalityType, K \in SUBSET Ids
        <5>2. keys \in Injection(1..Cardinality(K), K)
          BY DEF KeyOrders
        <5>3. Cardinality(1..Cardinality(K)) = Cardinality(K)
          BY <5>1, FS_Interval
        <5>4. keys \in Surjection(1..Cardinality(K), K)
          BY <5>1, <5>2, <5>3, FS_Injection
        <5>5. DOMAIN keys = 1..Cardinality(K) /\ DOMAIN keys = 1..n
          BY <2>1, <2>3, <5>2, LenProperties DEF Injection
        <5> HIDE DEF K
        <5>6. \A k \in K : \E i \in 1..n : keys[i] = k
          BY <5>4, <5>5 DEF Surjection
        <5>7. \A i \in 1..n : keys[i] \in K
          BY <5>2, <5>5 DEF Injection
        <5> QED
          BY <5>6, <5>7
      <4>6. {creds[i] : i \in DOMAIN creds} = {Entry(node, u, id) : id \in K}
        <5> HIDE DEF K
        <5> QED
          BY <4>4, <4>5
      <4> QED
        BY <2>5, <2>6, <2>8, <3>2, <3>3, <4>6 DEF ShowsNode
    <3>4. CASE u # instance.user
      <4>1. key # uidHash(u)
        BY <3>4 DEF uidHash, sha256
      <4>2. Decrypting(node, keys, key, n) = {}
        BY <2>1, <2>2, <2>3, <4>1 DEF Decrypting
      <4>3. creds = <<>>
        <5>1. Cardinality({}) = 0
          BY FS_EmptySet
        <5>2. good \in [1..0 -> {}]
          BY <4>2, <5>1 DEF Increasing, Injection
        <5>3. DOMAIN good = 1..0
          BY <5>2
        <5> QED
          BY <5>3 DEF creds
      <4> QED
        BY <2>5, <2>6, <2>8, <3>2, <3>4, <4>3
    <3> QED
      BY <3>3, <3>4
  <2> QED
    BY <2>7, <2>8
<1> QED
  BY <1>1, <1>2, Zenon DEF OnSnapshot

\* Only a callback puts anything on the list.
LEMMA RowsStep ==
  ASSUME Typing, [Next]_vars, ~OnValue
  PROVE  \/ list' = NewList
         \/ /\ list'.rows = list.rows
            /\ list'.credentials = list.credentials \/ list'.credentials = <<>>
<1> DEFINE Less == /\ list'.rows = list.rows
                   /\ list'.credentials = list.credentials \/ list'.credentials = <<>>
<1>0. list \in ListRecords
  BY DEF Typing
<1>1. ASSUME NEW u, NEW covered, ListWillAppear(list, u, covered)
      PROVE  Less
  BY <1>0, <1>1 DEF ListWillAppear, ListRecords
<1>2. ListWillDisappear => Less
  BY <1>0 DEF ListWillDisappear, ListRecords
<1>3. list' = list => Less
  OBVIOUS
<1> SUFFICES list' = NewList \/ Less
  BY DEF Less
<1> HIDE DEF Less
<1>4. CASE Touch
  <2>1. CASE signOut
    BY <2>1 DEF signOut
  <2>2. CASE SelectList
    <3>1. CASE pushed
      BY <2>2, <3>1, <1>3, Zenon DEF SelectList, ListTabAppears
    <3>2. CASE ~pushed
      BY <2>2, <3>2, <1>1, Zenon DEF SelectList, ListTabAppears
    <3> QED
      BY <3>1, <3>2
  <2>3. ASSUME NEW t \in {"new", "settings"}, SelectOther(t)
        PROVE  Less
    BY <2>3, <1>2, <1>3, Zenon DEF SelectOther
  <2>4. ASSUME NEW i, didSelectRow(i)
        PROVE  Less
    <3>1. CASE i \in DOMAIN list.credentials /\ i \in DOMAIN list.credentialIDs
      BY <2>4, <3>1, <1>2, Zenon DEF didSelectRow
    <3>2. CASE ~(i \in DOMAIN list.credentials /\ i \in DOMAIN list.credentialIDs)
      BY <2>4, <3>2, <1>3 DEF didSelectRow
    <3> QED
      BY <3>1, <3>2
  <2>5. CASE Back
    BY <2>5, <1>1 DEF Back
  <2>6. CASE \/ \E u \in Users : login(u)
             \/ \E v \in Forms : \/ onUsernameChanged(v) \/ onWebsiteChanged(v)
                                 \/ onPasswordChanged(v) \/ onRegenerateTapped(v)
                                 \/ onSaveButtonPressed(v)
    <3>1. list' = list
      BY <2>6 DEF login, onUsernameChanged, onWebsiteChanged,
         onPasswordChanged, onChanged, onRegenerateTapped, onSaveButtonPressed
    <3> QED
      BY <3>1, <1>3
  <2> QED
    BY <1>4, <2>1, <2>2, <2>3, <2>4, <2>5, <2>6 DEF Touch
<1>5. CASE Main
  <2>1. CASE SegueFirst \/ SegueKnown
    BY <2>1, <1>1 DEF SegueFirst, SegueKnown
  <2>2. CASE SegueStale
    BY <1>0, <2>2 DEF SegueStale, ListRecords, Less
  <2>3. CASE OnSavedNew
    <3>1. CASE tab = "list" \/ pushed
      BY <2>3, <3>1, <1>3, Zenon DEF OnSavedNew, ListTabAppears
    <3>2. CASE tab # "list" /\ ~pushed
      BY <2>3, <3>2, <1>1, Zenon DEF OnSavedNew, ListTabAppears
    <3> QED
      BY <3>1, <3>2
  <2>4. CASE OnSavedEdit
    BY <2>4, <1>1, <1>3, Zenon DEF OnSavedEdit
  <2>5. CASE OnAuthState \/ OnSignedIn \/ OnSavedGone
    BY <2>5, <1>3 DEF OnAuthState, OnSignedIn, OnSavedGone
  <2> QED
    BY <1>5, <2>1, <2>2, <2>3, <2>4, <2>5 DEF Main
<1>6. CASE Server
  BY <1>3, <1>6 DEF Server, DatabaseOnly, SignInSucceeds, CompleteSignIn
<1>7. CASE Relaunch
  BY <1>7 DEF Relaunch
<1>8. CASE UNCHANGED vars
  BY <1>3, <1>8 DEF vars
<1> QED
  BY <1>4, <1>5, <1>6, <1>7, <1>8 DEF Next

\* The singleton changes its user only before an empty list.
LEMMA UserStep ==
  ASSUME Typing, FreshInv, [Next]_vars
  PROVE  \/ instance'.user = instance.user
         \/ list'.rows = <<>> /\ list'.credentials = <<>>
<1>1. CASE OnAuthState
  <2>1. list' = list /\ instance' = Listened
    BY <1>1 DEF OnAuthState
  <2>2. CASE instance'.user # instance.user
    <3>1. auth # Nil /\ instance.user # auth
      BY <2>1, <2>2 DEF Listened, Typing, Instances
    <3> QED
      BY <2>1, <3>1 DEF FreshInv, Fresh
  <2> QED
    BY <2>2
<1>2. CASE SegueFirst \/ SegueKnown \/ SegueStale
  <2>1. Fresh /\ ~OnValue
    BY <1>2 DEF SegueFirst, SegueKnown, SegueStale, Segue, FreshInv, OnValue, Run
  <2> QED
    BY <2>1, RowsStep DEF Fresh, NewList
<1>3. CASE Relaunch
  BY <1>3 DEF Relaunch, NewList
<1>4. CASE ~OnAuthState /\ ~SegueFirst /\ ~SegueKnown /\ ~SegueStale /\ ~Relaunch
  <2>1. instance' = instance
    <3>1. CASE Touch
      BY <3>1 DEF Touch, login, signOut, SelectList, SelectOther, didSelectRow, Back,
         onUsernameChanged, onWebsiteChanged, onPasswordChanged, onChanged,
         onRegenerateTapped, onSaveButtonPressed, windowVars
    <3>2. CASE Main
      BY <1>4, <3>2 DEF Main, OnSignedIn, OnValue, OnSavedNew, OnSavedEdit, OnSavedGone
    <3>3. CASE Server
      BY <3>3 DEF Server, DatabaseOnly, SignInSucceeds, CompleteSignIn, windowVars
    <3>4. CASE UNCHANGED vars
      BY <3>4 DEF vars, windowVars
    <3> QED
      BY <1>4, <3>1, <3>2, <3>3, <3>4 DEF Next
  <2> QED
    BY <2>1
<1> QED
  BY <1>1, <1>2, <1>3, <1>4

\* What a callback will find, and what the list shows, is known.
KnownInv ==
  /\ \A u, node : HasSnapshot(mainQueue, u, node) =>
       \A id \in Ids : node[id] # Nil => Known(u, id)
  /\ list.rows # <<>> \/ list.credentials # <<>> =>
       instance.user \in Users /\ \E id \in Ids : Known(instance.user, id)

LEMMA NextKnown ==
  ASSUME Foreign = {}, ~PutsMayFail, Typing, SnapshotsSound, FreshInv, KnownInv, [Next]_vars
  PROVE  KnownInv'
<1>0. mainQueue \in Seq(Blocks)
  BY DEF Typing
<1>1. CASE Relaunch
  <2>1. list' = NewList /\ mainQueue' = LaunchQueue(auth)
    BY <1>1 DEF Relaunch
  <2>2. \A u, node : ~HasSnapshot(mainQueue', u, node)
    BY <2>1 DEF LaunchQueue, HasSnapshot, AuthState
  <2>3. \A u, node : HasSnapshot(mainQueue, u, node)' = HasSnapshot(mainQueue', u, node)
    BY DEF HasSnapshot
  <2> QED
    BY <2>1, <2>2, <2>3 DEF KnownInv, NewList
<1>2. CASE ~Relaunch
  <2>1. \A u \in Users, id \in Ids : Known(u, id) => Known(u, id)'
    BY <1>2, NextStore, KnownStays
  <2>2. ASSUME NEW u, NEW node, HasSnapshot(mainQueue', u, node), NEW id \in Ids,
               node[id] # Nil
        PROVE  Known(u, id)'
    <3>1. CASE HasSnapshot(mainQueue, u, node)
      <4>1. u \in Users
        <5>1. PICK i \in DOMAIN mainQueue : mainQueue[i].type = "read" /\ mainQueue[i].user = u
          BY <3>1 DEF HasSnapshot
        <5>2. mainQueue[i] \in Blocks
          BY <1>0, ElementOfSeq, LenProperties
        <5> QED
          BY <5>1, <5>2, ReadBlockType
      <4> QED
        BY <2>1, <2>2, <3>1, <4>1 DEF KnownInv
    <3>2. CASE u \in Users /\ node = LocalView[u]
      BY <2>1, <2>2, <3>2, LocalViewKnown
    <3> QED
      BY <2>2, <3>1, <3>2, NextSnapshots
  <2>3. ASSUME list'.rows # <<>> \/ list'.credentials # <<>>
        PROVE  instance'.user \in Users /\ \E id \in Ids : Known(instance.user, id)'
    <3>1. instance'.user = instance.user
      BY <2>3, UserStep
    <3>2. CASE ~OnValue
      <4>1. list.rows # <<>> \/ list.credentials # <<>>
        BY <2>3, <3>2, RowsStep DEF NewList
      <4> QED
        BY <2>1, <3>1, <4>1 DEF KnownInv
    <3>3. CASE OnValue
      <4> DEFINE b == Head(mainQueue)
      <4>1. b \in Blocks /\ b.type = "read"
        BY <3>3, RunType DEF OnValue
      <4>2. b.user \in Users /\ b.node \in Nodes
        BY <4>1, ReadBlockType
      <4>3. OnSnapshot(b.node, b.user, b.reader)
        BY <3>3 DEF OnValue
      <4>4. mainQueue # <<>>
        BY <3>3 DEF OnValue, Run
      <4>5. 1 \in DOMAIN mainQueue /\ b = mainQueue[1]
        BY <1>0, <4>4, EmptySeq, LenProperties
      <4>6. NodeSound(b.node, b.user) /\ HasSnapshot(mainQueue, b.user, b.node)
        BY <4>1, <4>5 DEF SnapshotsSound, HasSnapshot
      <4> HIDE DEF b
      <4>7. CASE list' = list
        BY <2>1, <2>3, <3>1, <4>7 DEF KnownInv
      <4>8. CASE list' # list
        <5>1. b.user = instance.user /\ \E id \in Ids : b.node[id] # Nil
          BY <2>3, <4>2, <4>3, <4>6, <4>8, SnapshotShows
        <5> QED
          BY <2>1, <3>1, <4>2, <4>6, <5>1 DEF KnownInv
      <4> QED
        BY <4>7, <4>8
    <3> QED
      BY <3>2, <3>3
  <2>4. \A u, node : HasSnapshot(mainQueue, u, node)' = HasSnapshot(mainQueue', u, node)
    BY DEF HasSnapshot
  <2> QED
    BY <2>2, <2>3, <2>4 DEF KnownInv
<1> QED
  BY <1>1, <1>2

\* A callback that will fill the list.
ForList(b) == b.type = "read" /\ b.reader = "list"
NoneFor(rs) == \A i \in DOMAIN rs : rs[i].reader = "gone"
NoBlocks(q) == \A i \in DOMAIN q : ~ForList(q[i])

\* The last reload asked for is u's; the last one answered is u's, with a node.
Asked(rs, u) == rs # <<>> /\ rs[Len(rs)] = [user |-> u, reader |-> "list"]
Answered(q, u, node) ==
  \E i \in DOMAIN q :
    /\ ForList(q[i]) /\ q[i].user = u /\ q[i].node = node
    /\ \A j \in DOMAIN q : i < j => ~ForList(q[j])

\* Whatever callbacks come first, the last one leaves the list with what the
\* client sees for u: it is asked for, answered, or has run.
CurrentFor(u, rs, q, l, node) ==
  \/ Asked(rs, u)
  \/ NoneFor(rs) /\ Answered(q, u, node)
  \/ NoneFor(rs) /\ NoBlocks(q) /\ ShowsNode(l, node, u)
Current(u) == CurrentFor(u, reads, mainQueue, list, LocalView[u])

\* A list on the screen is told of the singleton's next user, and current for
\* the one it has.
OnList == screen = "main" /\ tab = "list" /\ ~pushed
CurrentInv ==
  /\ ~instance.exists => instance.user = Nil
  /\ OnList => list.observing /\ (instance.user = auth => Current(auth))

\* Running another block, dispatching one and orphaning the edit form's leave
\* the reloads in the queue alone.
LEMMA QueueReloads ==
  ASSUME NEW q \in Seq(Blocks), NEW u, NEW node
  PROVE  /\ q # <<>> /\ ~ForList(Head(q)) =>
              /\ Answered(q, u, node) => Answered(Tail(q), u, node)
              /\ NoBlocks(q) => NoBlocks(Tail(q))
         /\ \A b \in Blocks : ~ForList(b) =>
              /\ Answered(q, u, node) => Answered(q \o <<b>>, u, node)
              /\ NoBlocks(q) => NoBlocks(q \o <<b>>)
         /\ \A b \in Blocks : ForList(b) /\ b.user = u /\ b.node = node =>
              Answered(q \o <<b>>, u, node)
<1>0. Len(q) \in Nat /\ DOMAIN q = 1..Len(q) /\ \A i \in DOMAIN q : q[i] \in Blocks
  BY LenProperties, ElementOfSeq
<1>1. ASSUME q # <<>>, ~ForList(Head(q))
      PROVE  /\ Answered(q, u, node) => Answered(Tail(q), u, node)
             /\ NoBlocks(q) => NoBlocks(Tail(q))
  <2>1. /\ Tail(q) \in Seq(Blocks) /\ Len(Tail(q)) = Len(q) - 1
        /\ \A i \in 1..Len(Tail(q)) : Tail(q)[i] = q[i+1]
        /\ Head(q) = q[1]
    BY <1>1, HeadTailProperties
  <2>2. DOMAIN Tail(q) = 1..Len(Tail(q))
    BY <2>1, LenProperties
  <2>3. \A i \in DOMAIN Tail(q) : i \in Nat /\ i+1 \in DOMAIN q /\ Tail(q)[i] = q[i+1]
    BY <1>0, <2>1, <2>2
  <2>4. \A i \in DOMAIN q : i # 1 => i-1 \in DOMAIN Tail(q) /\ Tail(q)[i-1] = q[i] /\ i \in Nat
    BY <1>0, <2>1, <2>2
  <2>5. ASSUME NEW i \in DOMAIN q, ForList(q[i]), q[i].user = u, q[i].node = node,
               \A j \in DOMAIN q : i < j => ~ForList(q[j])
        PROVE  Answered(Tail(q), u, node)
    <3>1. i # 1
      BY <1>1, <2>1, <2>5
    <3>2. \A j \in DOMAIN Tail(q) : i-1 < j => i < j+1
      BY <2>3, <2>4, <3>1, <2>5
    <3>3. \A j \in DOMAIN Tail(q) : i-1 < j => ~ForList(Tail(q)[j])
      BY <2>3, <2>5, <3>2
    <3> QED
      BY <2>4, <2>5, <3>1, <3>3 DEF Answered
  <2>6. NoBlocks(q) => NoBlocks(Tail(q))
    BY <2>3 DEF NoBlocks
  <2> QED
    BY <2>5, <2>6 DEF Answered
<1>2. ASSUME NEW b \in Blocks
      PROVE  /\ ~ForList(b) => /\ Answered(q, u, node) => Answered(q \o <<b>>, u, node)
                               /\ NoBlocks(q) => NoBlocks(q \o <<b>>)
             /\ ForList(b) /\ b.user = u /\ b.node = node => Answered(q \o <<b>>, u, node)
  <2>1. <<b>> \in Seq(Blocks) /\ Len(<<b>>) = 1 /\ <<b>>[1] = b
    OBVIOUS
  <2>2. /\ q \o <<b>> \in Seq(Blocks)
        /\ Len(q \o <<b>>) = Len(q) + 1
        /\ \A i \in 1..(Len(q) + 1) :
             (q \o <<b>>)[i] = IF i <= Len(q) THEN q[i] ELSE <<b>>[i - Len(q)]
    BY <2>1, ConcatProperties
  <2>3. DOMAIN (q \o <<b>>) = 1..(Len(q) + 1)
    BY <2>2, LenProperties
  <2> DEFINE r == q \o <<b>>
             n == Len(q) + 1
  <2>4. /\ DOMAIN r = 1..n /\ n \in DOMAIN r /\ r[n] = b
        /\ \A i \in DOMAIN q : i \in DOMAIN r /\ r[i] = q[i] /\ i \in Nat
        /\ \A i \in DOMAIN r : i \in DOMAIN q \/ i = n
        /\ \A i \in DOMAIN r : ~(n < i)
    BY <1>0, <2>1, <2>2, <2>3
  <2> HIDE DEF r
  <2>5. ASSUME ~ForList(b), NEW i \in DOMAIN q, ForList(q[i]), q[i].user = u, q[i].node = node,
               \A j \in DOMAIN q : i < j => ~ForList(q[j])
        PROVE  Answered(r, u, node)
    <3>1. \A j \in DOMAIN r : i < j => ~ForList(r[j])
      BY <2>4, <2>5
    <3>2. i \in DOMAIN r /\ r[i] = q[i]
      BY <2>4, <2>5
    <3> QED
      BY <2>5, <3>1, <3>2 DEF Answered
  <2>6. ~ForList(b) /\ NoBlocks(q) => NoBlocks(r)
    BY <2>4 DEF NoBlocks
  <2>7. ASSUME ForList(b), b.user = u, b.node = node
        PROVE  Answered(r, u, node)
    BY <2>4, <2>7 DEF Answered
  <2>8. r = q \o <<b>>
    BY DEF r
  <2>9. ~ForList(b) => (Answered(q, u, node) => Answered(r, u, node))
    BY <2>5 DEF Answered
  <2> QED
    BY <2>6, <2>7, <2>8, <2>9
<1> QED
  BY <1>1, <1>2

LEMMA OrphansKeepReloads ==
  ASSUME NEW q \in Seq(Blocks), NEW u, NEW node
  PROVE  /\ Answered(q, u, node) => Answered(OrphanBlocks(q, {"edit"}), u, node)
         /\ NoBlocks(q) => NoBlocks(OrphanBlocks(q, {"edit"}))
<1> DEFINE r == OrphanBlocks(q, {"edit"})
<1>0. \A i \in DOMAIN q : q[i] \in Blocks
  BY LenProperties, ElementOfSeq
<1>1. DOMAIN r = DOMAIN q
  BY DEF OrphanBlocks
<1>2. ASSUME NEW i \in DOMAIN q
      PROVE  /\ ForList(q[i]) => r[i] = q[i]
             /\ ~ForList(q[i]) => ~ForList(r[i])
  <2>1. q[i] \in Blocks
    BY <1>0
  <2> QED
    BY <2>1 DEF OrphanBlocks, Blocks, ForList
<1> HIDE DEF r
<1>3. NoBlocks(q) => NoBlocks(r)
  BY <1>1, <1>2 DEF NoBlocks
<1>4. Answered(q, u, node) => Answered(r, u, node)
  BY <1>1, <1>2 DEF Answered
<1>5. r = OrphanBlocks(q, {"edit"})
  BY DEF r
<1> QED
  BY <1>3, <1>4, <1>5

\* A step that leaves the list and what the client sees alone, and no reload
\* behind, keeps the list current.
LEMMA CurrentKept ==
  ASSUME CurrentInv, OnList' => OnList, auth' = auth, instance' = instance,
         list' = list, reads' = reads, LocalView' = LocalView,
         \A u, node : /\ Answered(mainQueue, u, node) => Answered(mainQueue', u, node)
                      /\ NoBlocks(mainQueue) => NoBlocks(mainQueue')
  PROVE  CurrentInv'
<1>1. Current(auth)' = CurrentFor(auth', reads', mainQueue', list', LocalView'[auth'])
  BY DEF Current, CurrentFor, Asked, NoneFor, NoBlocks, Answered, ForList, ShowsNode, Entry
<1>2. ASSUME OnList, instance.user = auth
      PROVE  CurrentFor(auth, reads, mainQueue', list, LocalView[auth])
  <2>1. CurrentFor(auth, reads, mainQueue, list, LocalView[auth])
    BY <1>2 DEF CurrentInv, Current
  <2> QED
    BY <2>1 DEF CurrentFor
<1> QED
  BY <1>1, <1>2 DEF CurrentInv

\* A list that appears for the singleton's user asks for a reload.
LEMMA AppearsCurrent ==
  ASSUME Typing, NEW u \in Users \cup {Nil}, NEW covered, ListWillAppear(list, u, covered),
         instance'.user = auth' => u = auth' /\ auth' # Nil,
         ~instance'.exists => instance'.user = Nil
  PROVE  CurrentInv'
<1>1. list'.observing
  BY DEF ListWillAppear, Typing, ListRecords
<1>2. ASSUME u # Nil
      PROVE  Asked(reads', u)
  <2>1. reads \in Seq(Reads) /\ reads' = Append(reads, [user |-> u, reader |-> "list"])
    BY <1>2 DEF ListWillAppear, reloadData, ObserveSingleEvent, Typing
  <2>2. [user |-> u, reader |-> "list"] \in Reads
    BY <1>2 DEF Reads, Readers
  <2>3. /\ reads' \in Seq(Reads) /\ Len(reads') = Len(reads) + 1
        /\ reads'[Len(reads) + 1] = [user |-> u, reader |-> "list"]
    BY <2>1, <2>2, AppendProperties
  <2>4. reads' # <<>>
    BY <2>1, <2>3, EmptySeq, LenProperties
  <2> QED
    BY <2>3, <2>4 DEF Asked
<1>3. Current(auth)' = CurrentFor(auth', reads', mainQueue', list', LocalView'[auth'])
  BY DEF Current, CurrentFor, Asked, NoneFor, NoBlocks, Answered, ForList, ShowsNode, Entry
<1>4. ASSUME instance'.user = auth'
      PROVE  CurrentFor(auth', reads', mainQueue', list', LocalView'[auth'])
  BY <1>2, <1>4 DEF CurrentFor
<1> QED
  BY <1>1, <1>3, <1>4 DEF CurrentInv

\* The callback of the list's last reload leaves the list current.
LEMMA ValueCurrent ==
  ASSUME Typing, SnapshotsSound, SessionInv, KnownInv, CurrentInv, OnValue
  PROVE  CurrentInv'
<1> DEFINE b == Head(mainQueue)
<1>0. mainQueue \in Seq(Blocks) /\ mainQueue # <<>>
  BY DEF Typing, OnValue, Run
<1>1. b \in Blocks /\ b.type = "read"
  BY RunType DEF OnValue
<1>2. b.user \in Users /\ b.node \in Nodes /\ b.reader \in Readers
  BY <1>1, ReadBlockType
<1>3. /\ OnSnapshot(b.node, b.user, b.reader) /\ mainQueue' = Tail(mainQueue)
      /\ UNCHANGED <<db, puts, reads, screen, tab, pushed, instance, auth>>
  BY DEF OnValue, authVars
<1>4. 1 \in DOMAIN mainQueue /\ b = mainQueue[1]
  BY <1>0, EmptySeq, LenProperties
<1>5. NodeSound(b.node, b.user)
  BY <1>1, <1>4 DEF SnapshotsSound
<1>6. LocalView' = LocalView
  BY <1>3, LocalViewIs
<1> HIDE DEF b
<1>7. list'.observing = list.observing
  BY <1>2, <1>3, <1>5, SnapshotShows
<1>8. CASE ~ForList(b)
  <2>1. list' = list
    BY <1>1, <1>2, <1>3, <1>5, <1>8, SnapshotShows DEF ForList
  <2>2. \A u, node : /\ Answered(mainQueue, u, node) => Answered(mainQueue', u, node)
                     /\ NoBlocks(mainQueue) => NoBlocks(mainQueue')
    BY <1>0, <1>3, <1>8, QueueReloads DEF b
  <2> QED
    BY <1>3, <1>6, <2>1, <2>2, CurrentKept DEF OnList
<1>9. CASE ForList(b)
  <2>0. Current(auth)' = CurrentFor(auth', reads', mainQueue', list', LocalView'[auth'])
    BY DEF Current, CurrentFor, Asked, NoneFor, NoBlocks, Answered, ForList, ShowsNode, Entry
  <2> SUFFICES ASSUME OnList, instance.user = auth
               PROVE  CurrentFor(auth, reads, mainQueue', list', LocalView[auth])
    BY <1>3, <1>6, <1>7, <2>0 DEF CurrentInv, OnList
  <2>1. CurrentFor(auth, reads, mainQueue, list, LocalView[auth])
    BY DEF CurrentInv, Current
  <2>2. CASE Asked(reads, auth)
    BY <2>2 DEF CurrentFor
  <2>3. CASE NoneFor(reads) /\ Answered(mainQueue, auth, LocalView[auth])
    <3>1. PICK i \in DOMAIN mainQueue :
            /\ ForList(mainQueue[i]) /\ mainQueue[i].user = auth
            /\ mainQueue[i].node = LocalView[auth]
            /\ \A j \in DOMAIN mainQueue : i < j => ~ForList(mainQueue[j])
      BY <2>3 DEF Answered
    <3>2. DOMAIN mainQueue = 1..Len(mainQueue) /\ Len(mainQueue) \in Nat
      BY <1>0, LenProperties
    <3>3. CASE i = 1
      <4>1. b.user = auth /\ b.node = LocalView[auth] /\ b.reader = "list"
        BY <1>4, <1>9, <3>1, <3>3 DEF ForList
      <4>2. NoBlocks(Tail(mainQueue))
        <5>1. \A j \in DOMAIN Tail(mainQueue) :
                /\ j + 1 \in DOMAIN mainQueue /\ Tail(mainQueue)[j] = mainQueue[j + 1]
          BY <1>0, TailOf
        <5>2. \A j \in DOMAIN Tail(mainQueue) : 1 < j + 1
          <6>1. Tail(mainQueue) \in Seq(Blocks)
            BY <1>0, HeadTailProperties
          <6>2. \A j \in DOMAIN Tail(mainQueue) : j \in Nat /\ j >= 1
            BY <6>1, LenProperties
          <6> QED
            BY <6>2
        <5> QED
          BY <3>1, <3>3, <5>1, <5>2 DEF NoBlocks
      <4>3. ShowsNode(list', LocalView[auth], auth)
        <5>1. CASE \E id \in Ids : b.node[id] # Nil
          BY <1>2, <1>3, <1>5, <4>1, <5>1, SnapshotShows
        <5>2. CASE \A id \in Ids : b.node[id] = Nil
          <6>1. list' = list
            BY <1>2, <1>3, <1>5, <5>2, SnapshotShows
          <6>2. auth \in Users
            BY <1>2, <4>1
          <6>3. \A id \in Ids : ~Known(auth, id)
            BY <4>1, <5>2, <6>2, LocalViewKnown
          <6>4. list.rows = <<>> /\ list.credentials = <<>>
            BY <6>3 DEF KnownInv
          <6>5. {id \in Ids : LocalView[auth][id] # Nil} = {}
            BY <4>1, <5>2
          <6> QED
            BY <6>1, <6>4, <6>5 DEF ShowsNode
        <5> QED
          BY <5>1, <5>2
      <4> QED
        BY <1>3, <2>3, <4>2, <4>3 DEF CurrentFor
    <3>4. CASE i # 1
      <4>1. /\ Tail(mainQueue) \in Seq(Blocks) /\ Len(Tail(mainQueue)) = Len(mainQueue) - 1
            /\ \A j \in 1..Len(Tail(mainQueue)) : Tail(mainQueue)[j] = mainQueue[j+1]
        BY <1>0, HeadTailProperties
      <4>2. DOMAIN Tail(mainQueue) = 1..Len(Tail(mainQueue))
        BY <4>1, LenProperties
      <4>3. i - 1 \in DOMAIN Tail(mainQueue) /\ Tail(mainQueue)[i - 1] = mainQueue[i]
        BY <3>2, <3>4, <4>1, <4>2
      <4>4. ASSUME NEW j \in DOMAIN Tail(mainQueue), i - 1 < j
            PROVE  ~ForList(Tail(mainQueue)[j])
        <5>1. j + 1 \in DOMAIN mainQueue /\ Tail(mainQueue)[j] = mainQueue[j + 1] /\ i < j + 1
          BY <3>2, <4>1, <4>2, <4>4
        <5> QED
          BY <3>1, <5>1
      <4>5. Answered(Tail(mainQueue), auth, LocalView[auth])
        BY <3>1, <4>3, <4>4 DEF Answered
      <4> QED
        BY <1>3, <2>3, <4>5 DEF CurrentFor
    <3> QED
      BY <3>3, <3>4
  <2>4. CASE NoBlocks(mainQueue)
    BY <1>4, <1>9, <2>4 DEF NoBlocks
  <2> QED
    BY <2>1, <2>2, <2>3, <2>4 DEF CurrentFor
<1> QED
  BY <1>8, <1>9

\* The answer to the last listen moves into the main queue.
LEMMA AnswerCurrent ==
  ASSUME Typing, SessionInv, CurrentInv, AnswerRead, DatabaseOnly
  PROVE  CurrentInv'
<1> DEFINE b == [type |-> "read", user |-> Head(reads).user,
                 node |-> LocalView[Head(reads).user],
                 reader |-> Head(reads).reader]
<1>0. mainQueue \in Seq(Blocks) /\ reads \in Seq(Reads) /\ reads # <<>>
  BY DEF Typing, AnswerRead
<1>1. Head(reads) \in Reads /\ Head(reads) = reads[1]
  BY <1>0, HeadTailProperties
<1>2. b \in Blocks
  <2>1. StoreTypeOK /\ Len(puts) \in 0..Len(puts)
    BY LenProperties DEF Typing, StoreTypeOK
  <2>2. LocalView \in [Users -> Nodes]
    BY <2>1, AppliedType DEF LocalView
  <2> QED
    BY <1>1, <2>2, BlockTypes DEF Reads
<1>3. /\ mainQueue' = mainQueue \o <<b>> /\ reads' = Tail(reads)
      /\ UNCHANGED <<db, puts, screen, tab, pushed, instance, auth, list>>
  BY DEF AnswerRead, Dispatch, DatabaseOnly, windowVars, authVars
<1>4. LocalView' = LocalView
  BY <1>3, LocalViewIs
<1>5. /\ ForList(b) <=> Head(reads).reader = "list"
      /\ b.user = Head(reads).user /\ b.node = LocalView[Head(reads).user]
  BY DEF ForList
<1> HIDE DEF b
<1>6. Current(auth)' = CurrentFor(auth', reads', mainQueue', list', LocalView'[auth'])
  BY DEF Current, CurrentFor, Asked, NoneFor, NoBlocks, Answered, ForList, ShowsNode, Entry
<1> SUFFICES ASSUME OnList, instance.user = auth
             PROVE  CurrentFor(auth, Tail(reads), mainQueue \o <<b>>, list, LocalView[auth])
  BY <1>3, <1>4, <1>6 DEF CurrentInv, OnList
<1>7. CurrentFor(auth, reads, mainQueue, list, LocalView[auth])
  BY DEF CurrentInv, Current
<1>8. /\ Tail(reads) \in Seq(Reads) /\ Len(Tail(reads)) = Len(reads) - 1
      /\ \A i \in 1..Len(Tail(reads)) : Tail(reads)[i] = reads[i+1]
      /\ Len(reads) \in Nat /\ DOMAIN reads = 1..Len(reads) /\ Len(reads) # 0
  BY <1>0, HeadTailProperties, LenProperties, EmptySeq
<1>9. CASE Asked(reads, auth)
  <2>1. CASE Len(reads) = 1
    <3>1. reads[1] = [user |-> auth, reader |-> "list"]
      BY <1>9, <2>1 DEF Asked
    <3>2. Head(reads).user = auth /\ Head(reads).reader = "list"
      BY <1>1, <3>1
    <3>3. Answered(mainQueue \o <<b>>, auth, LocalView[auth])
      BY <1>0, <1>2, <1>5, <3>2, QueueReloads
    <3>4. DOMAIN Tail(reads) = {}
      <4>1. DOMAIN Tail(reads) = 1..Len(Tail(reads))
        BY <1>8, LenProperties
      <4>2. Len(Tail(reads)) = 0
        BY <1>8, <2>1
      <4>3. 1..0 = {}
        OBVIOUS
      <4> QED
        BY <4>1, <4>2, <4>3
    <3> QED
      BY <3>3, <3>4 DEF CurrentFor, NoneFor
  <2>2. CASE Len(reads) # 1
    <3>1. /\ Len(Tail(reads)) \in 1..Len(Tail(reads)) /\ Len(Tail(reads)) + 1 = Len(reads)
      BY <1>8, <2>2
    <3>2. Tail(reads)[Len(Tail(reads))] = reads[Len(reads)]
      BY <1>8, <3>1
    <3>3. Tail(reads) # <<>>
      <4>1. Len(Tail(reads)) # 0
        BY <1>8, <3>1
      <4> QED
        BY <1>8, <4>1, EmptySeq
    <3> QED
      BY <1>9, <3>2, <3>3 DEF CurrentFor, Asked
  <2> QED
    BY <2>1, <2>2
<1>10. CASE NoneFor(reads)
  <2>1. 1 \in DOMAIN reads
    BY <1>8
  <2>2. ~ForList(b)
    BY <1>1, <1>5, <1>10, <2>1 DEF NoneFor
  <2>3. NoneFor(Tail(reads))
    BY <1>0, <1>10, TailOf DEF NoneFor
  <2>4. /\ Answered(mainQueue, auth, LocalView[auth]) =>
             Answered(mainQueue \o <<b>>, auth, LocalView[auth])
        /\ NoBlocks(mainQueue) => NoBlocks(mainQueue \o <<b>>)
    BY <1>0, <1>2, <2>2, QueueReloads
  <2>5. CASE Asked(reads, auth)
    BY <1>9, <2>5
  <2> QED
    BY <1>7, <2>3, <2>4, <2>5 DEF CurrentFor
<1> QED
  BY <1>7, <1>9, <1>10 DEF CurrentFor

\* Every step keeps the list on the screen current.
LEMMA NextCurrent ==
  ASSUME Foreign = {}, ~PutsMayFail, ~ReadsMayFail, Typing, SnapshotsSound, SessionInv,
         RequestsInv, FreshInv, KnownInv, CurrentInv, [Next]_vars
  PROVE  CurrentInv'
<1>0. /\ mainQueue \in Seq(Blocks) /\ instance \in Instances /\ list \in ListRecords
      /\ reads \in Seq(Reads) /\ auth \in Users \cup {Nil}
  BY DEF Typing
<1>v. db' = db /\ puts' = puts => LocalView' = LocalView
  BY LocalViewIs
<1>q. \A b \in Blocks : ~ForList(b) => \A u, node :
        /\ Answered(mainQueue, u, node) => Answered(mainQueue \o <<b>>, u, node)
        /\ NoBlocks(mainQueue) => NoBlocks(mainQueue \o <<b>>)
  BY <1>0, QueueReloads
<1>t. mainQueue # <<>> /\ ~ForList(Head(mainQueue)) => \A u, node :
        /\ Answered(mainQueue, u, node) => Answered(Tail(mainQueue), u, node)
        /\ NoBlocks(mainQueue) => NoBlocks(Tail(mainQueue))
  BY <1>0, QueueReloads
<1>1. ASSUME screen' # "main", ~instance'.exists => instance'.user = Nil
      PROVE  CurrentInv'
  BY <1>1 DEF CurrentInv, OnList
<1>2. CASE signOut \/ Relaunch \/ \E u \in Users : login(u)
  <2>1. CASE signOut
    BY <1>1, <2>1 DEF signOut, CurrentInv
  <2>2. CASE Relaunch
    BY <1>1, <2>2 DEF Relaunch
  <2>3. CASE \E u \in Users : login(u)
    <3>1. screen = "login"
      BY <2>3 DEF login, Touchable, Visible, Shown, Typing, Tabs
    <3> QED
      BY <1>1, <2>3, <3>1 DEF login, CurrentInv
  <2> QED
    BY <1>2, <2>1, <2>2, <2>3
<1>3. CASE SelectList
  <2>1. instance' = instance /\ auth' = auth /\ pushed' = pushed
    BY <1>3 DEF SelectList, authVars
  <2>2. auth # Nil /\ instance.user = auth
    BY <1>3, TouchedByUser DEF SelectList
  <2>3. CASE pushed
    BY <2>1, <2>3 DEF CurrentInv, OnList
  <2>4. CASE ~pushed
    <3>1. ListWillAppear(list, instance.user, FALSE)
      BY <1>3, <2>4, Zenon DEF SelectList, ListTabAppears
    <3> QED
      BY <1>0, <2>1, <2>2, <3>1, AppearsCurrent DEF CurrentInv, Instances
  <2> QED
    BY <2>3, <2>4
<1>4. ASSUME NEW t \in {"new", "settings"}, SelectOther(t)
      PROVE  CurrentInv'
  BY <1>4 DEF SelectOther, CurrentInv, OnList
<1>5. ASSUME NEW i, didSelectRow(i)
      PROVE  CurrentInv'
  <2>1. CASE pushed'
    BY <1>5, <2>1 DEF didSelectRow, CurrentInv, OnList
  <2>2. CASE ~pushed'
    <3>1. /\ UNCHANGED <<db, puts, reads, mainQueue, screen, tab, pushed, instance, auth, list>>
      BY <1>5, <2>2 DEF didSelectRow, storeVars, authVars
    <3> QED
      BY <1>v, <3>1, CurrentKept DEF OnList
  <2> QED
    BY <2>1, <2>2
<1>6. CASE Back
  <2>1. auth # Nil /\ instance.user = auth
    BY <1>6, TouchedByUser DEF Back
  <2>2. ListWillAppear(list, instance.user, FALSE) /\ instance' = instance /\ auth' = auth
    BY <1>6 DEF Back, authVars
  <2> QED
    BY <1>0, <2>1, <2>2, AppearsCurrent DEF CurrentInv, Instances
<1>7. ASSUME NEW v \in Forms, \/ onUsernameChanged(v) \/ onWebsiteChanged(v)
                              \/ onPasswordChanged(v) \/ onRegenerateTapped(v)
                              \/ onSaveButtonPressed(v)
      PROVE  CurrentInv'
  <2>1. UNCHANGED <<screen, tab, pushed, instance>> /\ Visible = v
    BY <1>7 DEF onUsernameChanged, onWebsiteChanged, onPasswordChanged, onChanged,
       onRegenerateTapped, onSaveButtonPressed, windowVars, Touchable
  <2>2. ~OnList
    BY <2>1 DEF OnList, Visible, Shown, Forms
  <2> QED
    BY <2>1, <2>2 DEF CurrentInv, OnList
<1>8. CASE OnAuthState
  <2>1. /\ instance' = Listened /\ mainQueue' = Tail(mainQueue) /\ mainQueue # <<>>
        /\ UNCHANGED <<db, puts, screen, tab, pushed, auth, list>>
        /\ ~ForList(Head(mainQueue))
    BY <1>8 DEF OnAuthState, authVars, Run, ForList
  <2>2. Listened.exists = instance.exists
    BY ListenedFields
  <2>3. CASE ~OnList
    <3>1. ~Listened.exists => Listened.user = Nil
      BY <1>0, <2>2 DEF Listened, ListenerCalled, Instances, CurrentInv
    <3> QED
      BY <2>1, <2>3, <3>1 DEF CurrentInv, OnList
  <2>4. CASE OnList
    <3>1. list.observing /\ auth # Nil
      BY <2>4 DEF CurrentInv, OnList, SessionInv
    <3>2. CASE ListenerCalled
      <4>1. reloadData(auth) /\ list' = list
        BY <1>8, <3>1, <3>2 DEF OnAuthState
      <4>2. instance'.exists
        BY <2>1, <2>2, <3>2 DEF ListenerCalled
      <4>3. Asked(reads', auth)
        <5>1. reads' = Append(reads, [user |-> auth, reader |-> "list"])
          BY <4>1 DEF reloadData, ObserveSingleEvent
        <5>2. [user |-> auth, reader |-> "list"] \in Reads
          BY <1>0, <3>1 DEF Reads, Readers
        <5>3. /\ reads' \in Seq(Reads) /\ Len(reads') = Len(reads) + 1 /\ Len(reads) \in Nat
              /\ reads'[Len(reads) + 1] = [user |-> auth, reader |-> "list"]
          BY <1>0, <5>1, <5>2, AppendProperties, LenProperties
        <5>4. reads' # <<>>
          BY <5>3, EmptySeq
        <5> QED
          BY <5>3, <5>4 DEF Asked
      <4>4. Current(auth)'
        <5>1. Current(auth)' = CurrentFor(auth', reads', mainQueue', list', LocalView'[auth'])
          BY DEF Current, CurrentFor, Asked, NoneFor, NoBlocks, Answered, ForList, ShowsNode,
             Entry
        <5> QED
          BY <2>1, <4>3, <5>1 DEF CurrentFor
      <4> QED
        BY <2>1, <3>1, <4>2, <4>4 DEF CurrentInv
    <3>3. CASE ~ListenerCalled
      <4>1. instance' = instance /\ reads' = reads
        BY <1>0, <1>8, <2>1, <3>3 DEF OnAuthState, Listened, Instances
      <4> QED
        BY <1>t, <1>v, <2>1, <4>1, CurrentKept DEF OnList
    <3> QED
      BY <3>2, <3>3
  <2> QED
    BY <2>3, <2>4
<1>9. CASE SegueFirst
  <2>1. /\ auth # Nil /\ auth' = auth /\ ~instance.exists
        /\ instance' = [instance EXCEPT !.exists = TRUE]
        /\ ListWillAppear(list, Nil, overlay)
    BY <1>9 DEF SegueFirst, Segue, authVars
  <2>2. instance'.exists /\ instance'.user = Nil
    BY <1>0, <2>1 DEF Instances, CurrentInv
  <2> QED
    BY <2>1, <2>2, AppearsCurrent
<1>10. CASE SegueKnown
  <2>1. /\ auth # Nil /\ auth' = auth /\ instance.exists /\ instance' = Listened
        /\ ListWillAppear(list, Listened.user, overlay)
    BY <1>10 DEF SegueKnown, Segue, authVars
  <2>2. Listened.exists /\ Listened.user \in Users \cup {Nil}
    BY <1>0, <2>1 DEF Listened, ListenerCalled, Instances
  <2> QED
    BY <2>1, <2>2, AppearsCurrent
<1>11. CASE SegueStale
  <2>1. /\ auth # Nil /\ auth' = auth /\ instance.exists /\ instance' = Listened
        /\ list' = [list EXCEPT !.credentials = <<>>, !.observing = TRUE]
        /\ instance.user # Nil
        /\ reads' = reads \o << [user |-> instance.user, reader |-> "list"],
                                [user |-> auth, reader |-> "list"] >>
    BY <1>11 DEF SegueStale, Segue, authVars
  <2>2. Listened.exists /\ list'.observing
    BY <1>0, <2>1, ListenedFields DEF ListRecords
  <2>3. Asked(reads', auth)
    <3> DEFINE x == [user |-> instance.user, reader |-> "list"]
               y == [user |-> auth, reader |-> "list"]
    <3>1. x \in Reads /\ y \in Reads
      BY <1>0, <2>1 DEF Reads, Readers, Instances
    <3>2. reads' = reads \o <<x, y>>
      BY <2>1
    <3> HIDE DEF x, y
    <3>3. <<x, y>> \in Seq(Reads) /\ Len(<<x, y>>) = 2 /\ <<x, y>>[2] = y
      BY <3>1
    <3>4. /\ reads' \in Seq(Reads) /\ Len(reads') = Len(reads) + 2 /\ Len(reads) \in Nat
          /\ \A i \in 1..(Len(reads) + 2) :
               reads'[i] = IF i <= Len(reads) THEN reads[i] ELSE <<x, y>>[i - Len(reads)]
      BY <1>0, <3>2, <3>3, ConcatProperties, LenProperties
    <3>5. reads'[Len(reads')] = y
      BY <3>3, <3>4
    <3>6. reads' # <<>>
      BY <3>4, EmptySeq
    <3> QED
      BY <3>5, <3>6 DEF Asked, y
  <2>4. Current(auth)'
    <3>1. Current(auth)' = CurrentFor(auth', reads', mainQueue', list', LocalView'[auth'])
      BY DEF Current, CurrentFor, Asked, NoneFor, NoBlocks, Answered, ForList, ShowsNode, Entry
    <3> QED
      BY <2>1, <2>3, <3>1 DEF CurrentFor
  <2> QED
    BY <2>1, <2>2, <2>4 DEF CurrentInv
<1>12. CASE OnSignedIn \/ OnSavedGone
  <2>1. /\ mainQueue # <<>> /\ ~ForList(Head(mainQueue)) /\ mainQueue' = Tail(mainQueue)
        /\ UNCHANGED <<db, puts, reads, screen, tab, pushed, instance, auth, list>>
    BY <1>12 DEF OnSignedIn, OnSavedGone, Run, ForList, authVars
  <2> QED
    BY <1>t, <1>v, <2>1, CurrentKept DEF OnList
<1>13. CASE OnValue
  BY <1>13, ValueCurrent
<1>14. CASE OnSavedNew
  <2>1. /\ mainQueue # <<>> /\ ~ForList(Head(mainQueue)) /\ mainQueue' = Tail(mainQueue)
        /\ UNCHANGED <<db, puts, screen, pushed, instance, auth>> /\ tab' = "list"
    BY <1>14 DEF OnSavedNew, Run, ForList, authVars
  <2>2. CASE tab = "list"
    <3>1. UNCHANGED <<list, reads>>
      BY <1>14, <2>2 DEF OnSavedNew
    <3> QED
      BY <1>t, <1>v, <2>1, <2>2, <3>1, CurrentKept DEF OnList
  <2>3. CASE pushed \/ screen # "main"
    BY <2>1, <2>3 DEF CurrentInv, OnList
  <2>4. CASE tab # "list" /\ ~pushed /\ screen = "main"
    <3>1. ListWillAppear(list, instance.user, FALSE)
      BY <1>14, <2>4, Zenon DEF OnSavedNew, ListTabAppears
    <3>2. auth # Nil /\ instance.exists
      BY <2>4 DEF SessionInv
    <3> QED
      BY <1>0, <2>1, <3>1, <3>2, AppearsCurrent DEF Instances
  <2> QED
    BY <2>2, <2>3, <2>4
<1>15. CASE OnSavedEdit
  <2>1. UNCHANGED <<screen, tab, instance, auth>>
    BY <1>15 DEF OnSavedEdit, authVars
  <2>2. CASE tab # "list" \/ screen # "main"
    BY <2>1, <2>2 DEF CurrentInv, OnList
  <2>3. CASE tab = "list" /\ screen = "main"
    <3>1. ListWillAppear(list, instance.user, FALSE)
      BY <1>15, <2>3 DEF OnSavedEdit
    <3>2. auth # Nil /\ instance.exists
      BY <2>3 DEF SessionInv
    <3> QED
      BY <1>0, <2>1, <3>1, <3>2, AppearsCurrent DEF Instances
  <2> QED
    BY <2>2, <2>3
<1>16. CASE AnswerRead /\ DatabaseOnly
  BY <1>16, AnswerCurrent
<1>17. CASE AckPut /\ DatabaseOnly
  <2> DEFINE b == [type |-> "put", ok |-> TRUE, saver |-> Head(puts).saver]
  <2>1. Head(puts) \in Puts
    BY <1>17, HeadTailProperties DEF Typing, AckPut
  <2>2. b \in Blocks /\ ~ForList(b)
    BY <2>1, BlockTypes DEF Puts, ForList
  <2>3. mainQueue' = mainQueue \o <<b>>
    BY <1>17 DEF AckPut, Dispatch
  <2>4. UNCHANGED <<reads, screen, tab, pushed, instance, auth, list>>
    BY <1>17 DEF AckPut, DatabaseOnly, windowVars, authVars
  <2>5. LocalView' = LocalView
    BY <1>17, AckKeepsView
  <2> HIDE DEF b
  <2> QED
    BY <1>q, <2>2, <2>3, <2>4, <2>5, CurrentKept DEF OnList
<1>18. ASSUME NEW i \in DOMAIN signIns, SignInSucceeds(i)
      PROVE  CurrentInv'
  <2>1. screen = "login"
    BY <1>18 DEF SignInSucceeds, RequestsInv
  <2> QED
    BY <1>1, <1>18, <2>1 DEF SignInSucceeds, windowVars, CurrentInv
<1>19. ASSUME NEW i \in DOMAIN signIns, CompleteSignIn(i)
      PROVE  CurrentInv'
  <2>1. SignedIn \in Blocks /\ ~ForList(SignedIn)
    BY BlockTypes DEF SignedIn, ForList
  <2>2. /\ mainQueue' = mainQueue \o <<SignedIn>>
        /\ UNCHANGED <<db, puts, reads, screen, tab, pushed, instance, auth, list>>
    BY <1>19 DEF CompleteSignIn, Dispatch, windowVars
  <2> QED
    BY <1>q, <1>v, <2>1, <2>2, CurrentKept DEF OnList
<1>20. CASE UNCHANGED vars
  <2>1. UNCHANGED <<db, puts, reads, mainQueue, screen, tab, pushed, instance, auth, list>>
    BY <1>20 DEF vars, storeVars, windowVars, authVars
  <2> QED
    BY <1>v, <2>1, CurrentKept DEF OnList
<1>21. CASE Touch
  BY <1>2, <1>3, <1>4, <1>5, <1>6, <1>7, <1>21 DEF Touch
<1>22. CASE Main
  BY <1>8, <1>9, <1>10, <1>11, <1>12, <1>13, <1>14, <1>15, <1>22 DEF Main
<1>23. CASE Server
  <2>1. /\ ~DenyRead /\ ~DenyPut
        /\ ~\E u \in Users, id \in Ids, child \in Foreign : ForeignWrite(u, id, child)
    BY DEF DenyRead, DenyPut
  <2> QED
    BY <1>16, <1>17, <1>18, <1>19, <1>23, <2>1 DEF Server
<1> QED
  BY <1>2, <1>20, <1>21, <1>22, <1>23 DEF Next

\* What holds while the list is current.
ListInv ==
  /\ Typing /\ PutsSound /\ StoredSound /\ SnapshotsSound
  /\ ArraysInStep(list) /\ SessionInv /\ RequestsInv /\ FreshInv
  /\ KnownInv /\ CurrentInv

LEMMA ListInvariant ==
  ASSUME Foreign = {}, ~PutsMayFail, ~ReadsMayFail, MaxSignIns =< 1
  PROVE  Spec => []ListInv
<1>1. Init => ListInv
  <2> SUFFICES ASSUME Init
               PROVE  ListInv
    OBVIOUS
  <2>1. PutsSound /\ StoredSound
    BY DEF Init, StoreInit, PutsSound, StoredSound, EmptyNode
  <2>2. \A i \in DOMAIN mainQueue : mainQueue[i] = AuthState
    BY DEF Init, LaunchQueue
  <2>3. SnapshotsSound
    BY <2>2, OtherBlocks DEF SnapshotsSound
  <2>4. ArraysInStep(list)
    BY DEF Init, NewList, ArraysInStep
  <2>5. /\ screen = "login" /\ ~pushed /\ reads = <<>> /\ puts = <<>>
        /\ list.credentials = <<>> /\ list.rows = <<>> /\ ~list.observing /\ signIns = <<>>
        /\ ~instance.exists /\ instance.seen = Nil /\ instance.user = Nil
    BY DEF Init, StoreInit, WindowInit, NewList
  <2>6. SessionInv
    BY <2>5 DEF SessionInv
  <2>7. FreshInv
    <3>1. QueueQuiet(mainQueue)
      BY <2>2 DEF QueueQuiet, Addressed, AuthState
    <3> QED
      BY <2>5, <3>1 DEF FreshInv, Fresh, Quiet
  <2>8. RequestsInv
    <3>1. ~InitialQueued(mainQueue)
      BY <2>2 DEF InitialQueued, AuthState
    <3>2. auth # Nil => AuthQueued(mainQueue)
      BY DEF Init, LaunchQueue, AuthQueued, AuthType, AuthState
    <3> QED
      BY <2>5, <3>1, <3>2 DEF RequestsInv
  <2>9. KnownInv
    <3>1. \A u, node : ~HasSnapshot(mainQueue, u, node)
      BY <2>2 DEF HasSnapshot, AuthState
    <3> QED
      BY <2>5, <3>1 DEF KnownInv
  <2>10. CurrentInv
    BY <2>5 DEF CurrentInv, OnList
  <2> QED
    BY <2>1, <2>3, <2>4, <2>6, <2>7, <2>8, <2>9, <2>10, InitTyping DEF ListInv
<1>2. ListInv /\ [Next]_vars => ListInv'
  <2> SUFFICES ASSUME ListInv, [Next]_vars
               PROVE  ListInv'
    OBVIOUS
  <2> USE DEF ListInv
  <2>1. Typing' /\ PutsSound' /\ StoredSound' /\ SnapshotsSound'
    BY NextTyping, NextStore, WritesStaySound, StoreStaysSound,
       SnapshotsStaySound
  <2>2. ArraysInStep(list)'
    BY NextInStep DEF ArraysInStep
  <2>3. SessionInv' /\ RequestsInv' /\ FreshInv'
    BY NextSession, NextRequests, NextFresh
  <2>4. KnownInv' /\ CurrentInv'
    BY NextKnown, NextCurrent
  <2> QED
    BY <2>1, <2>2, <2>3, <2>4
<1> QED
  BY <1>1, <1>2, PTL DEF Spec

\* When the server accepts what is asked of it, no other client writes and one
\* sign-in at a time is asked for, a list that can be touched while nothing is
\* in flight shows exactly what is stored for the signed-in user: the reloads
\* of viewWillAppear and of the observer, answered early or late, in whatever
\* order the two listeners of FIRAuth run, never leave an older answer behind.
THEOREM ListShowsWhatIsStored ==
  ASSUME Foreign = {}, ~PutsMayFail, ~ReadsMayFail, MaxSignIns =< 1
  PROVE  Spec => []ListShowsStore
<1>1. ListInv => ListShowsStore
  <2> SUFFICES ASSUME ListInv, Touchable("list"), reads = <<>>, puts = <<>>, mainQueue = <<>>
               PROVE  Shows(list.rows, auth) /\ list.credentials = list.rows
    BY DEF ListShowsStore
  <2> USE DEF ListInv
  <2>1. screen = "main" /\ auth # Nil /\ instance.user = auth
    BY TouchedByUser
  <2>2. OnList
    BY <2>1 DEF Touchable, Visible, Shown, OnList, Typing
  <2>3. CurrentFor(auth, reads, mainQueue, list, LocalView[auth])
    BY <2>1, <2>2 DEF CurrentInv, Current
  <2>4. ShowsNode(list, LocalView[auth], auth)
    BY <2>3 DEF CurrentFor, Asked, Answered
  <2>5. auth \in Users
    BY <2>1 DEF Typing
  <2>6. ASSUME NEW id \in Ids
        PROVE  LocalView[auth][id] = db[auth][id]
    <3>1. Len(puts) = 0 /\ 1..0 = {}
      OBVIOUS
    <3> QED
      BY <2>5, <3>1 DEF LocalView, Applied
  <2>7. ASSUME NEW id \in Ids
        PROVE  Entry(LocalView[auth], auth, id) = Entry(db[auth], auth, id)
    BY <2>6 DEF Entry
  <2>8. {id \in Ids : LocalView[auth][id] # Nil} = {id \in Ids : db[auth][id] # Nil}
    BY <2>6
  <2>9. {Entry(LocalView[auth], auth, id) : id \in {id \in Ids : LocalView[auth][id] # Nil}}
          = {Entry(db[auth], auth, id) : id \in {id \in Ids : db[auth][id] # Nil}}
    BY <2>7, <2>8
  <2> QED
    BY <2>4, <2>9 DEF ShowsNode, Shows
<1> QED
  BY <1>1, ListInvariant, PTL

\* Under the same conditions the application traps only when a row is tapped
\* while the list is being reloaded: neither a save nor a callback traps, and
\* a list that is not being reloaded has a credential and an id for every row.
THEOREM TrapsOnlyOnReload ==
  ASSUME Foreign = {}, ~PutsMayFail, ~ReadsMayFail, MaxSignIns =< 1
  PROVE  Spec => [][TrapsOnlyWhileLoading]_vars
<1>1. ListInv /\ [Next]_vars => TrapsOnlyWhileLoading
  <2> SUFFICES ASSUME ListInv, [Next]_vars, ~crashed, crashed'
               PROVE  Loading
    BY DEF TrapsOnlyWhileLoading
  <2> USE DEF ListInv
  <2>1. ASSUME NEW i \in DOMAIN list.rows, didSelectRow(i)
        PROVE  Loading
    <3>1. Touchable("list") /\ ~(i \in DOMAIN list.credentials /\ i \in DOMAIN list.credentialIDs)
      BY <2>1 DEF didSelectRow
    <3>2. screen = "main" /\ instance.user = auth
      BY <3>1, TouchedByUser
    <3>3. OnList
      BY <3>1, <3>2 DEF Touchable, Visible, Shown, OnList, Typing
    <3>4. CurrentFor(auth, reads, mainQueue, list, LocalView[auth])
      BY <3>2, <3>3 DEF CurrentInv, Current
    <3>5. CASE Asked(reads, auth)
      <4>1. reads \in Seq(Reads) /\ reads # <<>>
        BY <3>5 DEF Asked, Typing
      <4>2. Len(reads) \in DOMAIN reads
        BY <4>1, EmptySeq, LenProperties
      <4> QED
        BY <3>5, <4>2 DEF Asked, Loading
    <3>6. CASE Answered(mainQueue, auth, LocalView[auth])
      BY <3>6 DEF Answered, ForList, Loading
    <3>7. CASE ShowsNode(list, LocalView[auth], auth)
      BY <2>1, <3>1, <3>7 DEF ShowsNode, ArraysInStep
    <3> QED
      BY <3>4, <3>5, <3>6, <3>7 DEF CurrentFor
  <2>2. ASSUME NEW v \in Forms, onSaveButtonPressed(v)
        PROVE  FALSE
    <3>1. Touchable(v)
      BY <2>2 DEF onSaveButtonPressed
    <3>2. hasSignedIn
      BY <3>1, TouchedByUser DEF Forms, hasSignedIn
    <3> QED
      BY <2>2, <3>2 DEF onSaveButtonPressed
  <2>3. CASE OnValue
    <3> DEFINE b == Head(mainQueue)
    <3>1. b \in Blocks /\ b.type = "read"
      BY <2>3, RunType DEF OnValue
    <3>2. b.user \in Users /\ b.node \in Nodes
      BY <3>1, ReadBlockType
    <3>3. OnSnapshot(b.node, b.user, b.reader)
      BY <2>3 DEF OnValue
    <3>4. mainQueue \in Seq(Blocks) /\ mainQueue # <<>>
      BY <2>3 DEF Typing, OnValue, Run
    <3>5. 1 \in DOMAIN mainQueue /\ b = mainQueue[1]
      BY <3>4, EmptySeq, LenProperties
    <3>6. NodeSound(b.node, b.user)
      BY <3>1, <3>5 DEF SnapshotsSound
    <3> HIDE DEF b
    <3> QED
      BY <3>2, <3>3, <3>6, SnapshotShows
  <2>4. CASE Touch
    BY <2>1, <2>2, <2>4 DEF Touch, login, signOut, SelectList, SelectOther, Back,
       onUsernameChanged, onWebsiteChanged, onPasswordChanged, onChanged,
       onRegenerateTapped, windowVars
  <2>5. CASE Main
    BY <2>3, <2>5 DEF Main, OnAuthState, SegueFirst, SegueKnown, SegueStale, Segue,
       OnSignedIn, OnSavedNew, OnSavedEdit, OnSavedGone
  <2>6. CASE Server \/ Relaunch \/ UNCHANGED vars
    BY <2>6 DEF Server, DatabaseOnly, SignInSucceeds, CompleteSignIn, Relaunch, vars,
       windowVars
  <2> QED
    BY <2>4, <2>5, <2>6 DEF Next
<1> QED
  BY <1>1, ListInvariant, PTL DEF Spec

-----------------------------------------------------------------------------
(* PasswordManager implements Vault, for every value of the constants, when
   no other client writes to the users' nodes. *)

\* The refinement mapping.
StoreOf(d) == [u \in Users |-> DecryptedNode(d[u])]
PendingOf(q) ==
  [i \in DOMAIN q |-> [user |-> q[i].user, id |-> q[i].id,
                       cred |-> Decrypted(q[i].child)]]
Pending == PendingOf(puts)

\* There is only one newest write.
LEMMA NewestUnique ==
  ASSUME NEW n \in Nat, NEW u, NEW id, NEW i \in 1..n, NEW j \in 1..n,
         Newest(i, u, id, n), Newest(j, u, id, n)
  PROVE  i = j
<1>1. ~(i < j) /\ ~(j < i)
  BY DEF Newest
<1> QED
  BY <1>1

\* The vault sees the same newest write ...
LEMMA NewestMaps ==
  ASSUME Typing, NEW n \in 0..Len(puts), NEW u, NEW id, NEW i \in 1..n
  PROVE  V!Newest(i, u, id, n) <=> Newest(i, u, id, n)
<1>1. Len(puts) \in Nat /\ DOMAIN puts = 1..Len(puts)
  BY LenProperties DEF Typing
<1>2. \A j \in 1..n : /\ Pending[j].user = puts[j].user
                      /\ Pending[j].id = puts[j].id
  BY <1>1 DEF Pending, PendingOf
<1>3. \A j \in (i+1)..n : j \in 1..n
  BY <1>1
<1> QED
  BY <1>2, <1>3 DEF V!Newest, Newest, Pending, PendingOf

\* ... so applying writes and decrypting commute.
LEMMA AppliedMaps ==
  ASSUME Typing, NEW n \in 0..Len(puts)
  PROVE  V!Applied(n) = StoreOf(Applied(n))
<1>1. Len(puts) \in Nat /\ DOMAIN puts = 1..Len(puts)
  BY LenProperties DEF Typing
<1>2. ASSUME NEW u \in Users, NEW id \in Ids
      PROVE  V!Applied(n)[u][id] = DecryptedNode(Applied(n)[u])[id]
  <2>1. CASE \E i \in 1..n : Newest(i, u, id, n)
    <3> DEFINE i == CHOOSE i \in 1..n : Newest(i, u, id, n)
               j == CHOOSE j \in 1..n : V!Newest(j, u, id, n)
    <3>1. i \in 1..n /\ Newest(i, u, id, n)
      BY <2>1
    <3>2. \E k \in 1..n : V!Newest(k, u, id, n)
      BY <2>1, NewestMaps
    <3>3. j \in 1..n /\ V!Newest(j, u, id, n)
      BY <3>2
    <3>4. Applied(n)[u][id] = puts[i].child
      BY <2>1 DEF Applied
    <3>5. V!Applied(n)[u][id] = Pending[j].cred
      BY <3>2 DEF V!Applied, Pending, PendingOf
    <3> HIDE DEF i, j
    <3>6. j = i
      BY <1>1, <3>1, <3>3, NewestMaps, NewestUnique
    <3>7. i \in DOMAIN puts /\ puts[i] \in Puts
      BY <1>1, <3>1, ElementOfSeq DEF Typing
    <3>8. puts[i].child # Nil
      BY <3>7, RawAssumption DEF Puts
    <3>9. Pending[i].cred = Decrypted(puts[i].child)
      BY <3>7 DEF Pending, PendingOf
    <3> QED
      BY <3>4, <3>5, <3>6, <3>8, <3>9 DEF DecryptedNode
  <2>2. CASE ~\E i \in 1..n : Newest(i, u, id, n)
    <3>1. ~\E i \in 1..n : V!Newest(i, u, id, n)
      BY <2>2, NewestMaps
    <3>2. V!Applied(n)[u][id] = DecryptedNode(db[u])[id]
      BY <3>1 DEF V!Applied
    <3>3. Applied(n)[u][id] = db[u][id]
      BY <2>2 DEF Applied
    <3> QED
      BY <3>2, <3>3 DEF DecryptedNode
  <2> QED
    BY <2>1, <2>2
<1>3. ASSUME NEW u \in Users
      PROVE  V!Applied(n)[u] = DecryptedNode(Applied(n)[u])
  <2>1. V!Applied(n)[u] = [id \in Ids |-> V!Applied(n)[u][id]]
    BY DEF V!Applied
  <2>2. DecryptedNode(Applied(n)[u])
          = [id \in Ids |-> DecryptedNode(Applied(n)[u])[id]]
    BY DEF DecryptedNode
  <2> QED
    BY <1>2, <2>1, <2>2
<1>4. V!Applied(n) = [u \in Users |-> V!Applied(n)[u]]
  BY DEF V!Applied
<1> QED
  BY <1>3, <1>4 DEF StoreOf

\* Requests as writes of any kind would make them.
RawRequests ==
  [user : Users, id : Ids, cred : {Decrypted(r) : r \in RawCredentials}]

\* A sequence of writes is a sequence of requests.
LEMMA PendingType ==
  ASSUME NEW q \in Seq(Puts)
  PROVE  /\ PendingOf(q) \in Seq(RawRequests)
         /\ Len(PendingOf(q)) = Len(q)
         /\ Len(q) \in Nat
         /\ DOMAIN q = 1..Len(q)
         /\ \A i \in 1..Len(q) :
              PendingOf(q)[i] = [user |-> q[i].user, id |-> q[i].id,
                                 cred |-> Decrypted(q[i].child)]
<1>1. Len(q) \in Nat /\ DOMAIN q = 1..Len(q)
  BY LenProperties
<1>2. \A i \in DOMAIN q : q[i] \in Puts
  BY <1>1, ElementOfSeq
<1>3. \A i \in DOMAIN q : PendingOf(q)[i] \in RawRequests
  BY <1>2 DEF PendingOf, RawRequests, Puts
<1>4. PendingOf(q) = [i \in DOMAIN q |-> PendingOf(q)[i]]
  BY DEF PendingOf
<1>5. PendingOf(q) \in Seq(RawRequests) /\ Len(PendingOf(q)) = Len(q)
  BY <1>3, <1>4, MapSeq
<1> QED
  BY <1>1, <1>5 DEF PendingOf

\* A write that is added is a request that is added.
LEMMA AppendMaps ==
  ASSUME NEW q \in Seq(Puts), NEW p \in Puts
  PROVE  PendingOf(Append(q, p))
           = Append(PendingOf(q), [user |-> p.user, id |-> p.id,
                                   cred |-> Decrypted(p.child)])
<1> DEFINE r == [user |-> p.user, id |-> p.id, cred |-> Decrypted(p.child)]
           a == Append(q, p)
           b == Append(PendingOf(q), r)
<1>1. /\ a \in Seq(Puts) /\ Len(a) = Len(q) + 1
      /\ \A i \in 1..Len(q) : a[i] = q[i]
      /\ a[Len(q) + 1] = p
  BY AppendProperties
<1>2. r \in RawRequests
  BY DEF RawRequests, Puts
<1>3. /\ PendingOf(q) \in Seq(RawRequests) /\ Len(PendingOf(q)) = Len(q)
      /\ Len(q) \in Nat
      /\ \A i \in 1..Len(q) :
           PendingOf(q)[i] = [user |-> q[i].user, id |-> q[i].id,
                              cred |-> Decrypted(q[i].child)]
  BY PendingType
<1> HIDE DEF r
<1>4. /\ b \in Seq(RawRequests) /\ Len(b) = Len(q) + 1
      /\ \A i \in 1..Len(q) : b[i] = PendingOf(q)[i]
      /\ b[Len(q) + 1] = r
  BY <1>2, <1>3, AppendProperties
<1>5. /\ PendingOf(a) \in Seq(RawRequests) /\ Len(PendingOf(a)) = Len(q) + 1
      /\ \A i \in 1..(Len(q) + 1) :
           PendingOf(a)[i] = [user |-> a[i].user, id |-> a[i].id,
                              cred |-> Decrypted(a[i].child)]
  BY <1>1, PendingType
<1> HIDE DEF a, b
<1>6. \A i \in 1..(Len(q) + 1) : PendingOf(a)[i] = b[i]
  <2>1. ASSUME NEW i \in 1..Len(q)
        PROVE  PendingOf(a)[i] = b[i]
    <3>1. i \in 1..(Len(q) + 1)
      BY <1>3
    <3>2. a[i] = q[i] /\ b[i] = PendingOf(q)[i]
      BY <1>1, <1>4
    <3> QED
      BY <1>3, <1>5, <3>1, <3>2
  <2>2. PendingOf(a)[Len(q) + 1] = b[Len(q) + 1]
    BY <1>1, <1>3, <1>4, <1>5 DEF r
  <2> QED
    BY <1>3, <2>1, <2>2
<1>7. PendingOf(a) = b
  BY <1>4, <1>5, <1>6, SeqEqual
<1> QED
  BY <1>7 DEF a, b, r

\* Finishing the oldest write finishes the oldest request.
LEMMA TailMaps ==
  ASSUME NEW q \in Seq(Puts), q # <<>>
  PROVE  PendingOf(q) # <<>> /\ PendingOf(Tail(q)) = Tail(PendingOf(q))
<1> DEFINE a == Tail(q)
           b == Tail(PendingOf(q))
<1>1. /\ a \in Seq(Puts) /\ Len(a) = Len(q) - 1
      /\ \A i \in 1..Len(a) : a[i] = q[i+1]
  BY HeadTailProperties
<1>2. /\ PendingOf(q) \in Seq(RawRequests) /\ Len(PendingOf(q)) = Len(q)
      /\ Len(q) \in Nat
      /\ \A i \in 1..Len(q) :
           PendingOf(q)[i] = [user |-> q[i].user, id |-> q[i].id,
                              cred |-> Decrypted(q[i].child)]
  BY PendingType
<1>3. PendingOf(q) # <<>>
  <2>1. Len(q) # 0
    BY EmptySeq
  <2>2. Len(<<>>) = 0
    BY EmptySeq
  <2> QED
    BY <1>2, <2>1, <2>2
<1>4. /\ b \in Seq(RawRequests) /\ Len(b) = Len(q) - 1
      /\ \A i \in 1..Len(b) : b[i] = PendingOf(q)[i+1]
  BY <1>2, <1>3, HeadTailProperties
<1>5. /\ PendingOf(a) \in Seq(RawRequests) /\ Len(PendingOf(a)) = Len(a)
      /\ \A i \in 1..Len(a) :
           PendingOf(a)[i] = [user |-> a[i].user, id |-> a[i].id,
                              cred |-> Decrypted(a[i].child)]
  BY <1>1, PendingType
<1> HIDE DEF a, b
<1>6. ASSUME NEW i \in 1..Len(a)
      PROVE  PendingOf(a)[i] = b[i]
  <2>1. i + 1 \in 1..Len(q) /\ i \in 1..Len(b)
    BY <1>1, <1>2, <1>4
  <2>2. a[i] = q[i+1] /\ b[i] = PendingOf(q)[i+1]
    BY <1>1, <1>4, <2>1
  <2> QED
    BY <1>2, <1>5, <2>1, <2>2
<1>7. PendingOf(a) = b
  BY <1>1, <1>4, <1>5, <1>6, SeqEqual
<1> QED
  BY <1>3, <1>7 DEF a, b

\* Losing the addressees changes no request.
LEMMA OrphansMap ==
  ASSUME NEW q \in Seq(Puts), NEW who
  PROVE  PendingOf(OrphanSaves(q, who)) = PendingOf(q)
BY OrphansKeepWrites DEF PendingOf

\* Every step is a step of the vault, or changes nothing it sees.
LEMMA StepMaps ==
  ASSUME Foreign = {}, Typing, StoreStep
  PROVE  [V!Next]_(V!vaultVars)
<1>0. puts \in Seq(Puts) /\ Len(puts) \in Nat
  BY LenProperties DEF Typing
<1> DEFINE S == [u \in Users |-> DecryptedNode(db[u])]
           P == [i \in DOMAIN puts |-> [user |-> puts[i].user,
                   id |-> puts[i].id, cred |-> Decrypted(puts[i].child)]]
<1>1. S = StoreOf(db) /\ S' = StoreOf(db')
  BY DEF StoreOf
<1>2. P = PendingOf(puts) /\ P' = PendingOf(puts')
  BY DEF PendingOf
<1>3. CASE puts' = puts /\ db' = db
  BY <1>3 DEF V!vaultVars, DecryptedNode
<1>4. ASSUME db' = db, NEW who, puts' = OrphanSaves(puts, who)
      PROVE  UNCHANGED V!vaultVars
  <2>1. P' = P
    BY <1>0, <1>2, <1>4, OrphansMap
  <2>2. S' = S
    BY <1>1, <1>4
  <2> QED
    BY <2>1, <2>2 DEF V!vaultVars
<1>5. ASSUME db' = db, NEW p \in Puts, Sound(p.child, p.user),
             puts' = Append(puts, p)
      PROVE  V!Request
  <2> DEFINE r == [user |-> p.user, id |-> p.id, cred |-> Decrypted(p.child)]
  <2>1. Decrypted(p.child) \in ValidCredentials
    BY <1>5, DecryptedType DEF Sound, ValidCredentials
  <2>2. r \in V!Requests
    BY <2>1 DEF V!Requests, Puts
  <2>3. P' = Append(P, r)
    <3>1. PendingOf(Append(puts, p)) = Append(PendingOf(puts), r)
      BY <1>0, AppendMaps
    <3> HIDE DEF P, r
    <3> QED
      BY <1>2, <1>5, <3>1
  <2>4. S' = S
    BY <1>1, <1>5
  <2> HIDE DEF r
  <2> QED
    BY <2>2, <2>3, <2>4 DEF V!Request
<1>6. CASE puts # <<>> /\ puts' = Tail(puts) /\ db' = db
  <2>1. P # <<>> /\ P' = Tail(P)
    BY <1>0, <1>2, <1>6, TailMaps
  <2>2. S' = S
    BY <1>1, <1>6
  <2> QED
    BY <2>1, <2>2 DEF V!Refuse, V!Next
<1>7. CASE puts # <<>> /\ puts' = Tail(puts) /\ db' = Applied(1)
  <2>1. P # <<>> /\ P' = Tail(P)
    BY <1>0, <1>2, <1>7, TailMaps
  <2>2. 1 \in 0..Len(puts)
    BY <1>0, <1>7, EmptySeq
  <2>3. S' = V!Applied(1)
    BY <1>1, <1>7, <2>2, AppliedMaps
  <2> QED
    BY <2>1, <2>3 DEF V!Commit, V!Next
<1>8. ASSUME puts' = <<>>, NEW n \in 0..Len(puts), db' = Applied(n)
      PROVE  V!Restart
  <2>1. P' = <<>>
    BY <1>2, <1>8 DEF PendingOf
  <2>2. S' = V!Applied(n)
    BY <1>1, <1>8, AppliedMaps
  <2>3. Len(P) = Len(puts)
    BY <1>0, <1>2, PendingType
  <2> QED
    BY <2>1, <2>2, <2>3 DEF V!Restart
<1> QED
  BY <1>3, <1>4, <1>5, <1>6, <1>7, <1>8 DEF StoreStep, V!Next

\* When no other client writes to the users' nodes, the application with its
\* screens, callbacks and process deaths implements the vault: requests for
\* valid credentials, carried out in order, refused, or cut to a prefix.
THEOREM ImplementsVault ==
  ASSUME Foreign = {}
  PROVE  Spec => VaultSpec
<1>1. Init => V!Init
  BY DEF Init, StoreInit, EmptyNode, DecryptedNode, V!Init
<1>2. Init => Typing
  BY InitTyping
<1>3. Typing /\ [Next]_vars => Typing' /\ [V!Next]_(V!vaultVars)
  BY NextTyping, NextStore, StepMaps
<1> QED
  BY <1>1, <1>2, <1>3, PTL DEF Spec, VaultSpec, V!Spec

=============================================================================
