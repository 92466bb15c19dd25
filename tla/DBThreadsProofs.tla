--------------------------- MODULE DBThreadsProofs ---------------------------
(***************************************************************************)
(* The threads of a database: what TLC checks of DBThreads for a few       *)
(* threads and writes, proved for any number of them.                      *)
(*                                                                         *)
(* The argument. At most one thread is inside Write and past its wait: the *)
(* head of the queue (Queue). So nobody but the head changes mem_ and the  *)
(* log, and what it found while it built its group still holds when it has *)
(* the mutex again (Groups): the batches of the group are in mem_ and in   *)
(* the log (Kept, Logged) and are numbered above all earlier ones          *)
(* (Numbered). That waiting threads are woken follows from                 *)
(* MaybeScheduleCompaction having been called wherever work may appear     *)
(* (Scheduling).                                                           *)
(***************************************************************************)
EXTENDS DBThreads, SequenceTheorems, FiniteSetTheorems, TLAPS

Records ==
  [batch : Nat \cup {Nil}, sync : BOOLEAN, done : BOOLEAN, ok : BOOLEAN, force : BOOLEAN,
   delay : BOOLEAN, last : Threads \cup {Nil}, synced : BOOLEAN]

Entries == [id : Nat, seq : Nat, synced : BOOLEAN]

Places == {"none", "start", "build", "apply", "work", "wbuild", "wapply",
           "manual", "mbuild", "mapply", "crashed"}

\* Where Write is when its thread is the head of the queue and awake.
Heading == {"room", "sleep", "bgwait", "log", "commit"}

-----------------------------------------------------------------------------
(* The inductive invariant                                                 *)

\* The writers and what they write.
WriteTypes ==
  /\ writers \in Seq(Threads)
  /\ w \in [Threads -> Records]
  /\ pc \in [Threads -> Pcs]
  /\ signalled \subseteq Threads
  /\ mem \in Seq(Nat) /\ imm \in Seq(Nat) \cup {Nil}
  /\ log \in Seq(Entries) /\ oldLogs \in Nat /\ lastSeq \in Nat
  /\ calls \in Nat

\* The background thread and those who wait for it; it builds a table of imm_ while
\* there is one, and its inputs are files of level 0.
BgTypes ==
  /\ bgWait \subseteq Threads
  /\ scheduled \in BOOLEAN /\ bgError \in BOOLEAN /\ shutting \in BOOLEAN
  /\ manual \in Manuals \cup {Nil}
  /\ done \in [Manuals -> BOOLEAN] /\ todo \in [Manuals -> Nat]
  /\ l0 \in Nat /\ inputs \in Nat
  /\ bg \in Places
  /\ bg \in {"build", "apply", "wbuild", "wapply", "mbuild", "mapply"} => imm # Nil
  /\ bg \in {"work", "wbuild", "wapply", "manual", "mbuild", "mapply"} => inputs =< l0

\* A thread is in the queue once; all but its head wait, and the head waits only
\* until it has noticed that it was signalled.
Queue ==
  /\ \A i, j \in DOMAIN writers : writers[i] = writers[j] => i = j
  /\ \A i \in DOMAIN writers :
       /\ ~w[writers[i]].done
       /\ pc[writers[i]] \in Heading \cup {"wait"}
       /\ i > 1 => pc[writers[i]] = "wait"
  /\ \A t \in Threads : pc[t] \in Heading => 1 \in DOMAIN writers /\ writers[1] = t
  /\ \A t \in Threads : pc[t] = "wait" =>
       w[t].done \/ \E i \in DOMAIN writers : writers[i] = t
  /\ 1 \in DOMAIN writers /\ pc[writers[1]] = "wait" => writers[1] \in signalled

\* A background call is under way whenever there is work or somebody waits.
Scheduling ==
  /\ scheduled <=> bg # "none"
  /\ WorkPending(imm, manual, l0, bgError) => scheduled
  /\ bgWait # {} => scheduled
  /\ shutting => \A t \in Threads : pc[t] = "idle"

\* The group of t ends at place n of the queue.
EndsAt(t, n) == n \in DOMAIN writers /\ writers[n] = w[t].last

\* Batches are numbered by call; a group is a beginning of the queue, and those in
\* it that ask for a sync have a head that does.
Groups ==
  /\ \A t \in Threads : w[t].batch # Nil => w[t].batch \in 1..calls
  /\ \A t, u \in Threads : t # u /\ w[t].batch = w[u].batch => w[t].batch = Nil
  /\ \A t \in Threads : pc[t] \in {"log", "commit"} =>
       \E n \in DOMAIN writers : EndsAt(t, n) /\ \A i \in 1..n : w[writers[i]].sync => w[t].sync

\* What is about to be acknowledged is in mem_.
Kept ==
  /\ AckedIsKept
  /\ \A t \in Threads : pc[t] = "commit" /\ w[t].ok =>
       \A n \in DOMAIN writers : EndsAt(t, n) => \A i \in 1..n :
         w[writers[i]].batch # Nil => w[writers[i]].batch \in ToSet(mem)

\* The log is numbered up to lastSeq, or up to what lastSeq is going to be.
Numbered ==
  /\ SequencesIncrease
  /\ \A i \in DOMAIN log :
       \/ log[i].seq =< lastSeq
       \/ \E t \in Threads : pc[t] = "commit" /\ log[i].seq =< lastSeq + Len(GroupOf(t))

IsSynced(id) == \E k \in DOMAIN log : log[k].id = id /\ log[k].synced

\* A batch is logged once, and acknowledged only after it was called for.
LoggedOnce ==
  /\ \A i, j \in DOMAIN log : log[i].id = log[j].id => i = j
  /\ \A i \in DOMAIN log : log[i].id \in 1..calls
  /\ acked \subseteq 1..calls

\* Whose batch is logged and who is still in the queue is in the group being committed.
LoggedByGroup ==
  \A j \in DOMAIN writers, i \in DOMAIN log : w[writers[j]].batch = log[i].id =>
    pc[writers[1]] = "commit" /\ \E n \in DOMAIN writers : EndsAt(writers[1], n) /\ j =< n

\* What is about to be acknowledged, or was, is synced if its writer asked for it.
AskedIsSynced ==
  /\ \A t \in Threads : w[t].sync /\ w[t].batch \in acked => IsSynced(w[t].batch)
  /\ \A t \in Threads : pc[t] = "commit" /\ w[t].ok /\ w[t].sync =>
       \A n \in DOMAIN writers : EndsAt(t, n) => \A i \in 1..n :
         w[writers[i]].batch # Nil => IsSynced(w[writers[i]].batch)

Logged == LoggedOnce /\ LoggedByGroup /\ AskedIsSynced

\* After a failed sync nobody is past MakeRoomForWrite.
Stopped == syncFailed => bgError /\ \A t \in Threads : pc[t] \notin {"log", "commit"}

IInv ==
  /\ WriteTypes /\ BgTypes /\ Queue /\ Scheduling /\ Groups
  /\ Kept /\ Numbered /\ Logged /\ Stopped

-----------------------------------------------------------------------------
(* Numbers and sequences                                                   *)

\* A set of natural numbers has a least one.
LEMMA LeastNat ==
  ASSUME NEW T, T \in SUBSET Nat, T # {}
  PROVE  \E x \in T : \A y \in T : x =< y
<1> DEFINE R == {p \in Nat \X Nat : p[1] < p[2]}
<1>1. IsWellFoundedOn(R, Nat)
  BY NatLessThanWellFounded DEF OpToRel
<1>2. PICK x \in T : \A y \in T : ~(<<y, x>> \in R)
  <2> HIDE DEF R
  <2> QED BY <1>1, WFMin
<1>3. ASSUME NEW y \in T PROVE x =< y
  <2>1. x \in Nat /\ y \in Nat
    OBVIOUS
  <2>2. <<y, x>> \in Nat \X Nat /\ <<y, x>>[1] = y /\ <<y, x>>[2] = x
    BY <2>1
  <2>3. ~(y < x)
    BY <1>2, <2>2
  <2> QED BY <2>1, <2>3
<1> QED BY <1>3

\* How many members of A come up to i.
Rank(A, i) == Cardinality({j \in A : j =< i})

\* The members of a finite set of numbers are counted off by their ranks.
LEMMA RanksCount ==
  ASSUME NEW n \in Nat, NEW A \in SUBSET (1..n)
  PROVE  /\ Cardinality(A) \in Nat
         /\ \A i \in A : Rank(A, i) \in 1..Cardinality(A)
         /\ \A i, j \in A : Rank(A, i) = Rank(A, j) => i = j
         /\ \A k \in 1..Cardinality(A) : \E i \in A : Rank(A, i) = k
<1>1. IsFiniteSet(A) /\ Cardinality(A) \in Nat
  <2>1. IsFiniteSet(1..n)
    BY FS_Interval
  <2> QED BY <2>1, FS_Subset, FS_CardinalityType
<1> DEFINE B(i) == {j \in A : j =< i}
<1>2. \A i : IsFiniteSet(B(i)) /\ Cardinality(B(i)) \in Nat /\ Cardinality(B(i)) =< Cardinality(A)
  <2> TAKE i
  <2>1. B(i) \in SUBSET A
    OBVIOUS
  <2> QED BY <1>1, <2>1, FS_Subset, FS_CardinalityType
<1>3. ASSUME NEW i \in A PROVE Rank(A, i) \in 1..Cardinality(A)
  <2>1. i \in B(i) /\ B(i) # {}
    OBVIOUS
  <2>2. Cardinality(B(i)) # 0
    BY <1>2, <2>1, FS_EmptySet
  <2> QED BY <1>1, <1>2, <2>2 DEF Rank
<1>4. ASSUME NEW i \in A, NEW j \in A, i < j PROVE Rank(A, i) # Rank(A, j)
  <2>0. i \in Int /\ j \in Int /\ \A k \in A : k \in Int
    OBVIOUS
  <2>1. B(i) \in SUBSET B(j) /\ j \in B(j) /\ j \notin B(i)
    <3>1. \A k \in A : k =< i => k =< j
      BY <1>4, <2>0
    <3>2. \A k \in B(i) : k \in B(j)
      BY <3>1
    <3>3. j \in B(j)
      BY <2>0
    <3>4. j \notin B(i)
      BY <1>4, <2>0
    <3> QED BY <3>2, <3>3, <3>4
  <2>2. IsFiniteSet(B(j)) /\ B(i) # B(j)
    BY <1>2, <2>1
  <2>3. Cardinality(B(j)) # Cardinality(B(i))
    BY <2>1, <2>2, FS_Subset
  <2> QED BY <2>3 DEF Rank
<1>5. \A i, j \in A : Rank(A, i) = Rank(A, j) => i = j
  BY <1>4
<1>6. \A k \in 1..Cardinality(A) : \E i \in A : Rank(A, i) = k
  <2> DEFINE C == Cardinality(A)
             f == [i \in A |-> Rank(A, i)]
  <2>0. C \in Nat
    BY <1>1
  <2>1. f \in Injection(A, 1..C)
    BY <1>3, <1>5 DEF Injection, IsInjective
  <2>2. IsFiniteSet(1..C) /\ Cardinality(1..C) = C
    BY <2>0, FS_Interval
  <2> HIDE DEF f
  <2>3. f \in Surjection(A, 1..C)
    BY <2>1, <2>2, FS_Injection
  <2>4. \A k \in 1..C : \E i \in A : f[i] = k
    BY <2>3 DEF Surjection
  <2> QED BY <2>4 DEF f
<1> QED BY <1>1, <1>3, <1>5, <1>6

\* What is left of a queue when its first n members have gone.
LEMMA Rest ==
  ASSUME NEW S, NEW q \in Seq(S), NEW n \in DOMAIN q
  PROVE  LET r == SubSeq(q, n + 1, Len(q)) IN
         /\ r \in Seq(S) /\ Len(r) = Len(q) - n
         /\ \A i \in DOMAIN r : n + i \in DOMAIN q /\ r[i] = q[n + i]
         /\ r # <<>> => 1 \in DOMAIN r /\ Head(r) = r[1]
<1> DEFINE r == SubSeq(q, n + 1, Len(q))
<1>1. n \in 1..Len(q) /\ Len(q) \in Nat
  OBVIOUS
<1>2. \A i \in (n + 1)..Len(q) : q[i] \in S
  BY <1>1
<1>3. /\ r \in Seq(S)
      /\ Len(r) = IF n + 1 =< Len(q) THEN Len(q) - (n + 1) + 1 ELSE 0
      /\ \A i \in 1..(Len(q) - (n + 1) + 1) : r[i] = q[(n + 1) + i - 1]
  BY <1>1, <1>2, SubSeqProperties
<1>4. Len(r) = Len(q) - n
  BY <1>1, <1>3
<1>5. DOMAIN r = 1..(Len(q) - n)
  BY <1>3, <1>4
<1>6. ASSUME NEW i \in DOMAIN r PROVE n + i \in DOMAIN q /\ r[i] = q[n + i]
  <2>1. i \in 1..(Len(q) - (n + 1) + 1) /\ (n + 1) + i - 1 = n + i /\ n + i \in 1..Len(q)
    BY <1>1, <1>5
  <2>2. r[i] = q[(n + 1) + i - 1]
    BY <1>3, <2>1
  <2> QED BY <2>1, <2>2
<1> HIDE DEF r
<1>7. r # <<>> => 1 \in DOMAIN r /\ Head(r) = r[1]
  BY <1>3
<1> QED BY <1>3, <1>4, <1>6, <1>7 DEF r

\* A queue with one more member.
LEMMA Appended ==
  ASSUME NEW S, NEW q \in Seq(S), NEW e \in S
  PROVE  /\ Append(q, e) \in Seq(S)
         /\ DOMAIN Append(q, e) = (DOMAIN q) \cup {Len(q) + 1}
         /\ \A i \in DOMAIN q : Append(q, e)[i] = q[i]
         /\ Append(q, e)[Len(q) + 1] = e
         /\ Len(q) + 1 \notin DOMAIN q /\ Len(q) + 1 \in Nat /\ Len(q) + 1 > 0
  BY AppendProperties

-----------------------------------------------------------------------------
(* The batches of a group                                                  *)

\* GroupOf, of any queue q and records r: the batches among the first n.
Filled(q, r, n) == {i \in 1..n : r[q[i]].batch # Nil}
Nth(A, k) == CHOOSE i \in A : Rank(A, i) = k
BatchesOf(q, r, n) ==
  [k \in 1..Cardinality(Filled(q, r, n)) |-> r[q[Nth(Filled(q, r, n), k)]].batch]

\* The end of the group is the only place in the queue where its last member is.
LEMMA GroupIs ==
  ASSUME Queue, NEW t, NEW n, EndsAt(t, n)
  PROVE  /\ (CHOOSE i \in DOMAIN writers : writers[i] = w[t].last) = n
         /\ GroupOf(t) = BatchesOf(writers, w, n)
<1>1. (CHOOSE i \in DOMAIN writers : writers[i] = w[t].last) = n
  BY DEF Queue, EndsAt
<1>2. GroupOf(t) = BatchesOf(writers, w, CHOOSE i \in DOMAIN writers : writers[i] = w[t].last)
  BY DEF GroupOf, BatchesOf, Filled, Nth, Rank
<1> QED BY <1>1, <1>2

\* A group holds the batches of its members, each once.
LEMMA GroupHolds ==
  ASSUME NEW q \in Seq(Threads), NEW r \in [Threads -> Records], NEW n \in DOMAIN q
  PROVE  LET g == BatchesOf(q, r, n) IN
         /\ g \in Seq(Nat)
         /\ \A k \in DOMAIN g : \E i \in 1..n : r[q[i]].batch # Nil /\ g[k] = r[q[i]].batch
         /\ \A i \in 1..n : r[q[i]].batch # Nil => \E k \in DOMAIN g : g[k] = r[q[i]].batch
         /\ \A k, l \in DOMAIN g : k # l => \E i, j \in 1..n :
              i # j /\ r[q[i]].batch # Nil /\ g[k] = r[q[i]].batch /\ g[l] = r[q[j]].batch
<1> DEFINE A == Filled(q, r, n)
           c == Cardinality(A)
           g == BatchesOf(q, r, n)
<1>0. n \in Nat /\ \A i \in 1..n : i \in DOMAIN q /\ q[i] \in Threads
  OBVIOUS
<1>1. A \in SUBSET (1..n) /\ \A i \in A : r[q[i]].batch # Nil
  BY DEF Filled
<1>2. /\ c \in Nat
      /\ \A i \in A : Rank(A, i) \in 1..c
      /\ \A i, j \in A : Rank(A, i) = Rank(A, j) => i = j
      /\ \A k \in 1..c : \E i \in A : Rank(A, i) = k
  <2> HIDE DEF A
  <2> QED BY <1>0, <1>1, RanksCount
<1>3. \A k \in 1..c : Nth(A, k) \in A /\ Rank(A, Nth(A, k)) = k
  <2> HIDE DEF A
  <2> QED BY <1>2 DEF Nth
<1>4. \A i \in A : Nth(A, Rank(A, i)) = i
  <2> HIDE DEF A
  <2> QED BY <1>2, <1>3
<1>5. g = [k \in 1..c |-> r[q[Nth(A, k)]].batch]
  BY DEF BatchesOf
<1>6. \A i \in A : r[q[i]].batch \in Nat
  <2> SUFFICES ASSUME NEW i \in A PROVE r[q[i]].batch \in Nat
    OBVIOUS
  <2>1. r[q[i]] \in Records /\ r[q[i]].batch # Nil
    BY <1>0, <1>1
  <2> QED BY <2>1 DEF Records
<1> HIDE DEF A, g
<1>7. g \in Seq(Nat) /\ DOMAIN g = 1..c /\ \A k \in 1..c : g[k] = r[q[Nth(A, k)]].batch
  <2>1. \A k \in 1..c : r[q[Nth(A, k)]].batch \in Nat
    BY <1>3, <1>6
  <2> HIDE DEF c
  <2> QED BY <2>1, <1>2, <1>5
<1>8. \A k \in DOMAIN g : \E i \in 1..n : r[q[i]].batch # Nil /\ g[k] = r[q[i]].batch
  BY <1>1, <1>3, <1>7
<1>9. ASSUME NEW i \in 1..n, r[q[i]].batch # Nil PROVE \E k \in DOMAIN g : g[k] = r[q[i]].batch
  <2>1. i \in A
    BY <1>9 DEF A, Filled
  <2>2. Rank(A, i) \in DOMAIN g /\ g[Rank(A, i)] = r[q[i]].batch
    BY <2>1, <1>2, <1>4, <1>7
  <2> QED BY <2>2
<1>10. ASSUME NEW k \in DOMAIN g, NEW l \in DOMAIN g, k # l
       PROVE  \E i, j \in 1..n :
                i # j /\ r[q[i]].batch # Nil /\ g[k] = r[q[i]].batch /\ g[l] = r[q[j]].batch
  <2>1. Nth(A, k) # Nth(A, l) /\ Nth(A, k) \in A /\ Nth(A, l) \in A
    BY <1>3, <1>7, <1>10
  <2>2. Nth(A, k) \in 1..n /\ Nth(A, l) \in 1..n /\ r[q[Nth(A, k)]].batch # Nil
    BY <2>1, <1>1
  <2> QED BY <2>1, <2>2, <1>7
<1> QED BY <1>7, <1>8, <1>9, <1>10 DEF g

\* The group depends on the records of its members alone.
LEMMA GroupStays ==
  ASSUME NEW q, NEW r, NEW p, NEW s, NEW n \in Nat,
         \A i \in 1..n : s[p[i]].batch = r[q[i]].batch
  PROVE  BatchesOf(p, s, n) = BatchesOf(q, r, n)
<1>1. Filled(p, s, n) = Filled(q, r, n)
  BY DEF Filled
<1> DEFINE A == Filled(q, r, n)
<1>2. \A k \in 1..Cardinality(A) : s[p[Nth(A, k)]].batch = r[q[Nth(A, k)]].batch
  <2> SUFFICES ASSUME NEW k \in 1..Cardinality(A)
               PROVE  s[p[Nth(A, k)]].batch = r[q[Nth(A, k)]].batch
    OBVIOUS
  <2>1. A \in SUBSET (1..n)
    BY DEF Filled
  <2>2. \E i \in A : Rank(A, i) = k
    <3> HIDE DEF A
    <3> QED BY <2>1, RanksCount
  <2>3. Nth(A, k) \in A
    <3> HIDE DEF A
    <3> QED BY <2>2 DEF Nth
  <2> QED BY <2>1, <2>3
<1> QED BY <1>1, <1>2 DEF BatchesOf

\* BuildBatchGroup: a beginning of the queue, in which nobody asks for more than
\* the head does.
LEMMA GroupEnds ==
  ASSUME WriteTypes, 1 \in DOMAIN writers
  PROVE  /\ GroupSize \in DOMAIN writers
         /\ \A i \in 1..GroupSize : w[writers[i]].sync => w[writers[1]].sync
<1> DEFINE first == Head(writers)
           Batches(n) == Cardinality({i \in 1..n : w[writers[i]].batch # Nil})
           Fits(n) == /\ \A i \in 2..n : MayJoin(first, writers[i])
                      /\ Batches(n) =< MaxGroup \/ w[writers[n]].batch = Nil \/ n = 1
           Good(n) == /\ \A i \in 1..n : Fits(i)
                      /\ n < Len(writers) => ~Fits(n + 1)
<1>1. GroupSize = CHOOSE n \in 1..Len(writers) : Good(n)
  BY DEF GroupSize
<1>2. writers \in Seq(Threads) /\ Len(writers) \in Nat /\ Len(writers) >= 1 /\ DOMAIN writers = 1..Len(writers)
      /\ first = writers[1]
  BY DEF WriteTypes
<1>3. Fits(1)
  OBVIOUS
<1>4. \A n : Fits(n) => \A i \in 2..n : MayJoin(first, writers[i])
  OBVIOUS
<1> HIDE DEF Fits, first
<1>5. \E n \in 1..Len(writers) : Good(n)
  <2> DEFINE T == {n \in 1..Len(writers) : ~Fits(n)}
  <2>1. CASE T = {}
    <3>1. Good(Len(writers))
      BY <2>1, <1>2
    <3> QED BY <3>1, <1>2
  <2>2. CASE T # {}
    <3>1. T \in SUBSET Nat
      BY <1>2
    <3>2. PICK m \in T : \A y \in T : m =< y
      <4> HIDE DEF T
      <4> QED BY <2>2, <3>1, LeastNat
    <3>3. m \in 1..Len(writers) /\ m # 1 /\ ~Fits(m)
      BY <3>2, <1>3
    <3>4. m - 1 \in 1..Len(writers) /\ (m - 1) + 1 = m
      BY <3>3, <1>2
    <3>5. ASSUME NEW i \in 1..(m - 1) PROVE Fits(i)
      <4>1. i \in 1..Len(writers) /\ ~(m =< i)
        BY <3>3, <1>2
      <4> QED BY <4>1, <3>2
    <3>6. Good(m - 1)
      BY <3>3, <3>4, <3>5
    <3> QED BY <3>4, <3>6
  <2> QED BY <2>1, <2>2
<1>6. GroupSize \in 1..Len(writers) /\ Good(GroupSize)
  <2> HIDE DEF Good
  <2> QED BY <1>1, <1>5
<1>7. ASSUME NEW i \in 1..GroupSize, w[writers[i]].sync PROVE w[writers[1]].sync
  <2>1. i = 1 \/ i \in 2..i
    BY <1>6
  <2>2. i \in 2..i => MayJoin(first, writers[i])
    BY <1>4, <1>6
  <2> QED BY <2>1, <2>2, <1>2, <1>7 DEF MayJoin
<1> QED BY <1>2, <1>6, <1>7

-----------------------------------------------------------------------------
(* What the steps do to the queue                                          *)

\* The fields of a thread's Writer.
LEMMA RecordTypes ==
  ASSUME WriteTypes, NEW t \in Threads
  PROVE  /\ w[t] \in Records /\ pc[t] \in Pcs
         /\ w[t].batch \in Nat \cup {Nil} /\ w[t].sync \in BOOLEAN /\ w[t].done \in BOOLEAN
         /\ w[t].ok \in BOOLEAN /\ w[t].force \in BOOLEAN /\ w[t].delay \in BOOLEAN
         /\ w[t].last \in Threads \cup {Nil} /\ w[t].synced \in BOOLEAN
<1>1. w[t] \in Records /\ pc[t] \in Pcs
  BY DEF WriteTypes
<1> QED BY <1>1 DEF Records

\* A Writer that was just made.
LEMMA NewRecord ==
  ASSUME NEW b \in Nat \cup {Nil}, NEW s \in BOOLEAN
  PROVE  /\ NewWriter(b, s) \in Records
         /\ NewWriter(b, s).batch = b /\ NewWriter(b, s).sync = s /\ ~NewWriter(b, s).done
<1>1. (b = Nil) \in BOOLEAN /\ (b # Nil) \in BOOLEAN
  OBVIOUS
<1> QED BY <1>1 DEF NewWriter, Records

\* A thread joins the queue.
LEMMA EnqueueIs ==
  ASSUME WriteTypes, Queue, NEW t \in Threads, NEW b \in Nat \cup {Nil}, NEW s \in BOOLEAN,
         pc[t] = "idle", Enqueue(t, b, s)
  PROVE  /\ writers' \in Seq(Threads) /\ w' \in [Threads -> Records] /\ pc' \in [Threads -> Pcs]
         /\ Len(writers) \in Nat /\ DOMAIN writers = 1..Len(writers)
         /\ DOMAIN writers' = 1..(Len(writers) + 1)
         /\ \A i \in DOMAIN writers : i \in DOMAIN writers' /\ writers'[i] = writers[i]
                                      /\ writers[i] # t /\ writers[i] \in Threads
         /\ writers'[Len(writers) + 1] = t
         /\ \A u \in Threads : u # t => w'[u] = w[u] /\ pc'[u] = pc[u]
         /\ w'[t].batch = b /\ w'[t].sync = s /\ ~w'[t].done
         /\ pc'[t] = IF Len(writers) = 0 THEN "room" ELSE "wait"
<1>1. writers \in Seq(Threads) /\ w \in [Threads -> Records] /\ pc \in [Threads -> Pcs]
      /\ Len(writers) \in Nat /\ DOMAIN writers = 1..Len(writers)
  BY DEF WriteTypes
<1>2. writers' = Append(writers, t) /\ w' = [w EXCEPT ![t] = NewWriter(b, s)]
      /\ pc' = [pc EXCEPT ![t] = IF writers = <<>> THEN "room" ELSE "wait"]
  BY DEF Enqueue
<1>3. writers = <<>> <=> Len(writers) = 0
  BY <1>1
<1>4. w' \in [Threads -> Records] /\ w'[t] = NewWriter(b, s) /\ \A u \in Threads : u # t => w'[u] = w[u]
  BY <1>1, <1>2, NewRecord
<1>5. /\ pc' \in [Threads -> Pcs] /\ pc'[t] = IF Len(writers) = 0 THEN "room" ELSE "wait"
      /\ \A u \in Threads : u # t => pc'[u] = pc[u]
  BY <1>1, <1>2, <1>3 DEF Pcs
<1>6. /\ writers' \in Seq(Threads) /\ DOMAIN writers' = 1..(Len(writers) + 1)
      /\ \A i \in DOMAIN writers : i \in DOMAIN writers' /\ writers'[i] = writers[i]
      /\ writers'[Len(writers) + 1] = t
  BY <1>1, <1>2, AppendProperties
<1>7. \A i \in DOMAIN writers : writers[i] # t /\ writers[i] \in Threads
  BY <1>1 DEF Queue, Heading
<1> QED BY <1>1, <1>4, <1>5, <1>6, <1>7, NewRecord

\* A group leaves the queue.
LEMMA PopIs ==
  ASSUME WriteTypes, Queue, NEW t \in Threads, pc[t] \in Heading,
         NEW n \in DOMAIN writers, NEW ok \in BOOLEAN, PopWriters(t, writers[n], ok)
  PROVE  /\ writers' \in Seq(Threads) /\ w' \in [Threads -> Records] /\ pc' \in [Threads -> Pcs]
         /\ signalled' \subseteq Threads
         /\ 1 \in DOMAIN writers /\ writers[1] = t
         /\ \A i \in DOMAIN writers' : n + i \in DOMAIN writers /\ writers'[i] = writers[n + i]
         /\ \A i \in DOMAIN writers' : w'[writers'[i]] = w[writers'[i]] /\ writers'[i] # t
                                       /\ pc'[writers'[i]] = pc[writers'[i]]
         /\ \A u \in Threads : w'[u].batch = w[u].batch /\ w'[u].sync = w[u].sync
         /\ \A u \in Threads : w[u].done => w'[u].done
         /\ \A i \in 2..n : w'[writers[i]].done
         /\ pc'[t] = AfterWrite(t, ok) /\ \A u \in Threads : u # t => pc'[u] = pc[u]
         /\ 1 \in DOMAIN writers' => writers'[1] \in signalled'
         /\ \A b : b \in acked' <=>
              b \in acked \/ (ok /\ \E i \in 1..n : w[writers[i]].batch # Nil /\ b = w[writers[i]].batch)
<1> DEFINE m == CHOOSE i \in DOMAIN writers : writers[i] = writers[n]
           group == {writers[i] : i \in 1..n} \ {t}
           rest == SubSeq(writers, n + 1, Len(writers))
<1>1. writers \in Seq(Threads) /\ w \in [Threads -> Records] /\ pc \in [Threads -> Pcs] /\ signalled \subseteq Threads
      /\ n \in Nat /\ n >= 1 /\ Len(writers) \in Nat /\ DOMAIN writers = 1..Len(writers)
      /\ \A i \in 1..n : i \in DOMAIN writers /\ writers[i] \in Threads
  BY DEF WriteTypes
<1>2. 1 \in DOMAIN writers /\ writers[1] = t
  BY DEF Queue
<1>3. m = n
  BY DEF Queue
<1>4. /\ writers' = rest
      /\ w' = [u \in Threads |-> IF u \in group THEN [w[u] EXCEPT !.done = TRUE, !.ok = ok] ELSE w[u]]
      /\ signalled' = signalled \cup group \cup NewHead(rest)
      /\ pc' = [pc EXCEPT ![t] = AfterWrite(t, ok)]
      /\ Acknowledge(group \cup {t}, ok)
  BY <1>3 DEF PopWriters
<1>5. /\ rest \in Seq(Threads) /\ Len(rest) = Len(writers) - n
      /\ \A i \in DOMAIN rest : n + i \in DOMAIN writers /\ rest[i] = writers[n + i]
      /\ rest # <<>> => 1 \in DOMAIN rest /\ Head(rest) = rest[1]
  BY <1>1, Rest
<1>6. group \subseteq Threads /\ \A i \in 2..n : writers[i] \in group
  <2>1. \A i \in 2..n : i \in DOMAIN writers /\ i # 1 /\ i \in 1..n
    BY <1>1
  <2> QED BY <2>1, <1>1, <1>2 DEF Queue
<1>7. \A i \in DOMAIN rest : rest[i] \in Threads /\ rest[i] \notin group /\ rest[i] # t
  <2> SUFFICES ASSUME NEW i \in DOMAIN rest
               PROVE  rest[i] \in Threads /\ rest[i] \notin group /\ rest[i] # t
    OBVIOUS
  <2>1. n + i \in DOMAIN writers /\ rest[i] = writers[n + i]
    BY <1>5
  <2>2. i \in Nat /\ i > 0
    BY <1>5
  <2>3. writers[n + i] \in Threads
    BY <2>1, <1>1
  <2>4. ASSUME NEW j \in 1..n PROVE writers[j] # writers[n + i]
    <3> HIDE DEF rest
    <3>1. j # n + i /\ j \in DOMAIN writers
      BY <2>2, <1>1
    <3> QED BY <3>1, <2>1 DEF Queue
  <2>5. \A u \in group \cup {t} : \E j \in 1..n : u = writers[j]
    BY <1>1, <1>2
  <2> HIDE DEF group, rest
  <2> QED BY <2>1, <2>3, <2>4, <2>5
<1>8. \A u \in group \cup {t} : \E i \in 1..n : u = writers[i]
  BY <1>1, <1>2
<1> HIDE DEF group, rest, m
<1>9. /\ w' \in [Threads -> Records]
      /\ \A u \in Threads : w'[u].batch = w[u].batch /\ w'[u].sync = w[u].sync /\ (w[u].done => w'[u].done)
      /\ \A u \in group : w'[u].done
      /\ \A u \in Threads : u \notin group => w'[u] = w[u]
  <2>1. \A u \in Threads : u \notin group => w'[u] = w[u]
    BY <1>4
  <2>2. ASSUME NEW u \in group
        PROVE  w'[u] \in Records /\ w'[u].batch = w[u].batch /\ w'[u].sync = w[u].sync /\ w'[u].done
    <3>1. w[u] \in Records /\ u \in Threads
      BY <1>1, <1>6
    <3>2. w'[u] = [w[u] EXCEPT !.done = TRUE, !.ok = ok]
      BY <1>4, <3>1
    <3>3. ok = TRUE \/ ok = FALSE
      OBVIOUS
    <3>4. CASE ok = TRUE
      BY <3>1, <3>2, <3>4 DEF Records
    <3>5. CASE ok = FALSE
      BY <3>1, <3>2, <3>5 DEF Records
    <3> QED BY <3>3, <3>4, <3>5
  <2>3. \A u \in Threads : w'[u] \in Records
    BY <1>1, <2>1, <2>2
  <2>4. w' \in [Threads -> Records]
    BY <1>4, <2>3
  <2>5. \A u \in Threads : w'[u].batch = w[u].batch /\ w'[u].sync = w[u].sync /\ (w[u].done => w'[u].done)
    BY <2>1, <2>2
  <2> QED BY <2>1, <2>2, <2>4, <2>5
<1>10. pc' \in [Threads -> Pcs] /\ pc'[t] = AfterWrite(t, ok) /\ \A u \in Threads : u # t => pc'[u] = pc[u]
  <2>1. AfterWrite(t, ok) \in Pcs
    BY DEF AfterWrite, Pcs
  <2> QED BY <2>1, <1>1, <1>4
<1>11. NewHead(rest) \subseteq Threads /\ (1 \in DOMAIN rest => rest[1] \in NewHead(rest))
  <2>1. CASE rest = <<>>
    BY <2>1, <1>5 DEF NewHead
  <2>2. CASE rest # <<>>
    BY <2>2, <1>5, <1>7 DEF NewHead
  <2> QED BY <2>1, <2>2
<1>12. signalled' \subseteq Threads /\ (1 \in DOMAIN writers' => writers'[1] \in signalled')
  BY <1>1, <1>4, <1>6, <1>11
<1>13. ASSUME NEW b
       PROVE  b \in acked' <=>
                b \in acked \/ (ok /\ \E i \in 1..n : w[writers[i]].batch # Nil /\ b = w[writers[i]].batch)
  <2>1. b \in acked' <=> b \in acked \/ (ok /\ \E u \in group \cup {t} : w[u].batch # Nil /\ b = w[u].batch)
    BY <1>4 DEF Acknowledge
  <2>2. \A i \in 1..n : writers[i] \in group \cup {t}
    BY <1>1 DEF group
  <2> QED BY <2>1, <2>2, <1>8
<1> QED BY <1>1, <1>2, <1>4, <1>5, <1>6, <1>7, <1>9, <1>10, <1>12, <1>13

-----------------------------------------------------------------------------
(* The kinds of steps                                                      *)

\* Nobody joins or leaves the queue, no group is collected, logged or committed.
Quiet ==
  /\ UNCHANGED <<writers, log, lastSeq, calls, acked, syncFailed>>
  /\ \A u \in Threads :
       /\ w'[u].batch = w[u].batch /\ w'[u].sync = w[u].sync
       /\ w'[u].last = w[u].last /\ w'[u].ok = w[u].ok
       /\ (pc[u] \in {"log", "commit"} \/ pc'[u] \in {"log", "commit"}) => pc'[u] = pc[u]

\* A thread calls Write.
Joins(t) ==
  /\ pc[t] = "idle" /\ ~shutting
  /\ \E s \in BOOLEAN : \/ Enqueue(t, calls + 1, s) /\ calls' = calls + 1
                        \/ Enqueue(t, Nil, s) /\ calls' = calls
  /\ done' \in {done, [done EXCEPT ![t] = FALSE]}
  /\ todo' = todo \/ \E n \in 0..MaxFiles : todo' = [todo EXCEPT ![t] = n]
  /\ UNCHANGED <<signalled, mem, imm, log, oldLogs, lastSeq, bgWait, scheduled, bgError,
                 shutting, manual, l0, inputs, bg, tables, acked, syncFailed>>

\* The head leaves alone: there is no room, or it only asked for room.
Leaves(t) ==
  /\ pc[t] = "room"
  /\ \E ok \in BOOLEAN : (ok => w[t].batch = Nil) /\ PopWriters(t, t, ok)
  /\ UNCHANGED <<mem, imm, log, oldLogs, lastSeq, bgVars, calls, manuals, syncFailed, forced>>

\* The head has room and collects its group.
Collects(t) ==
  /\ pc[t] = "room" /\ ~bgError
  /\ pc' = [pc EXCEPT ![t] = "log"]
  /\ w' = [w EXCEPT ![t].last = writers[GroupSize]]
  /\ UNCHANGED <<writers, signalled, mem, imm, log, oldLogs, lastSeq, bgVars, ghosts>>

\* Steps of the background thread leave the writers alone.
LEMMA BgIsQuiet ==
  ASSUME BgStep \/ Close \/ UNCHANGED vars
  PROVE  UNCHANGED <<writers, w, pc, signalled, mem, log, oldLogs, lastSeq, ghosts>>
<1>1. CASE BgStep
  BY <1>1 DEF BgStep, BgRefuse, BgChoose, BgBegin, BgManualDone, BgNothing, BgBuild, BgApply,
              BgPrioritize, BgWork, BgManual, writeVars, ghosts
<1>2. CASE Close
  BY <1>2 DEF Close, writeVars, ghosts
<1>3. CASE UNCHANGED vars
  BY <1>3 DEF vars, writeVars, ghosts
<1> QED BY <1>1, <1>2, <1>3

\* CompactRange, past its Write, leaves the writers alone.
LEMMA ManualIsQuiet ==
  ASSUME WriteTypes, NEW t \in Threads, ManualStep(t)
  PROVE  /\ UNCHANGED <<writers, w, signalled, mem, imm, log, oldLogs, lastSeq, ghosts>>
         /\ pc[t] \in {"flush", "flushed", "range"} /\ \A u \in Threads : u # t => pc'[u] = pc[u]
         /\ pc'[t] \in {"flush", "flushed", "range", "idle"} /\ pc' \in [Threads -> Pcs]
<1>1. pc \in [Threads -> Pcs]
  BY DEF WriteTypes
<1>2. CASE FlushWait(t)
  BY <1>1, <1>2 DEF FlushWait, Pcs, ghosts
<1>3. CASE Flushed(t)
  BY <1>1, <1>3 DEF Flushed, Pcs, ghosts
<1>4. CASE RangeLoop(t)
  BY <1>1, <1>4 DEF RangeLoop, Pcs, ghosts
<1>5. CASE RangeEnd(t)
  BY <1>1, <1>5 DEF RangeEnd, Pcs, ghosts
<1> QED BY <1>2, <1>3, <1>4, <1>5 DEF ManualStep

\* The head turns in the loop of MakeRoomForWrite.
RoomStep(t) == RoomDelay(t) \/ Sleep(t) \/ RoomWait(t) \/ RoomSwitch(t) \/ WakeRoom(t)

\* Nothing but force, delay, mem_ and imm_ changes in that loop.
LEMMA RoomIsQuiet ==
  ASSUME WriteTypes, NEW t \in Threads, RoomStep(t)
  PROVE  /\ UNCHANGED <<writers, signalled, log, lastSeq, ghosts>>
         /\ w' \in [Threads -> Records] /\ pc' \in [Threads -> Pcs]
         /\ pc[t] \in {"room", "sleep", "bgwait"} /\ \A u \in Threads : u # t => pc'[u] = pc[u]
         /\ pc'[t] \in {"room", "sleep", "bgwait"}
         /\ \A u \in Threads :
              /\ w'[u].batch = w[u].batch /\ w'[u].sync = w[u].sync /\ w'[u].done = w[u].done
              /\ w'[u].last = w[u].last /\ w'[u].ok = w[u].ok
<1>1. pc \in [Threads -> Pcs] /\ w \in [Threads -> Records]
  BY DEF WriteTypes
<1>2. CASE RoomDelay(t)
  BY <1>1, <1>2 DEF RoomDelay, Pcs, ghosts
<1>3. CASE Sleep(t)
  <2>1. w' = [w EXCEPT ![t] = [w[t] EXCEPT !.delay = FALSE]]
    BY <1>3 DEF Sleep
  <2>2. w[t] \in Records
    BY <1>1
  <2>3. [w[t] EXCEPT !.delay = FALSE] \in Records
    BY <2>2 DEF Records
  <2>4. w' \in [Threads -> Records] /\ \A u \in Threads :
              /\ w'[u].batch = w[u].batch /\ w'[u].sync = w[u].sync /\ w'[u].done = w[u].done
              /\ w'[u].last = w[u].last /\ w'[u].ok = w[u].ok
    BY <1>1, <2>1, <2>2, <2>3 DEF Records
  <2> QED BY <1>1, <1>3, <2>4 DEF Sleep, Pcs, ghosts
<1>4. CASE RoomWait(t)
  BY <1>1, <1>4 DEF RoomWait, NoRoom, NoDelay, Pcs, ghosts
<1>5. CASE RoomSwitch(t)
  <2>1. w' = [w EXCEPT ![t] = [w[t] EXCEPT !.force = FALSE]]
    BY <1>5 DEF RoomSwitch
  <2>2. w[t] \in Records
    BY <1>1
  <2>3. [w[t] EXCEPT !.force = FALSE] \in Records
    BY <2>2 DEF Records
  <2>4. w' \in [Threads -> Records] /\ \A u \in Threads :
              /\ w'[u].batch = w[u].batch /\ w'[u].sync = w[u].sync /\ w'[u].done = w[u].done
              /\ w'[u].last = w[u].last /\ w'[u].ok = w[u].ok
    BY <1>1, <2>1, <2>2, <2>3 DEF Records
  <2>5. pc[t] = "room" /\ UNCHANGED <<writers, signalled, log, lastSeq, pc, ghosts>>
    BY <1>5 DEF RoomSwitch, NoRoom, NoDelay
  <2> QED BY <1>1, <2>4, <2>5 DEF Pcs, ghosts
<1>6. CASE WakeRoom(t)
  BY <1>1, <1>6 DEF WakeRoom, Pcs, ghosts
<1> QED BY <1>2, <1>3, <1>4, <1>5, <1>6 DEF RoomStep

\* Every step is of one of these kinds.
LEMMA Kinds ==
  ASSUME WriteTypes, [Next]_vars
  PROVE  \/ BgStep \/ Close \/ UNCHANGED vars
         \/ \E t \in Threads : \/ t \in Manuals /\ ManualStep(t)
                               \/ RoomStep(t) \/ WakeWriter(t) \/ Joins(t)
                               \/ Leaves(t) \/ Collects(t) \/ Log(t) \/ Commit(t)
<1>1. CASE \E t \in Writers, sync \in BOOLEAN : Write(t, sync)
  <2>1. PICK t \in Writers, s \in BOOLEAN : Write(t, s)
    BY <1>1
  <2>2. Joins(t)
    BY <2>1 DEF Write, Joins, bgVars
  <2> QED BY <2>2 DEF Threads
<1>2. ASSUME NEW t \in Threads, WriterStep(t)
      PROVE  \/ RoomStep(t) \/ WakeWriter(t) \/ Leaves(t) \/ Collects(t) \/ Log(t) \/ Commit(t)
  <2>1. RoomError(t) => Leaves(t)
    BY DEF RoomError, Leaves
  <2>2. RoomSwitchFails(t) => Leaves(t)
    BY DEF RoomSwitchFails, Leaves, NoRoom, NoDelay
  <2>3. RoomLeft(t) => Leaves(t) \/ Collects(t)
    BY DEF RoomLeft, Leaves, Collects, NoDelay, ghosts
  <2> QED BY <1>2, <2>1, <2>2, <2>3 DEF WriterStep, RoomStep
<1>3. ASSUME NEW t \in Manuals, CompactRange(t) PROVE Joins(t)
  BY <1>3 DEF CompactRange, Joins
<1>4. Manuals \subseteq Threads
  BY DEF Threads
<1> QED BY <1>1, <1>2, <1>3, <1>4 DEF Next

\* A head that leaves alone.
LEMMA LeavesIs ==
  ASSUME WriteTypes, Queue, NEW t \in Threads, Leaves(t)
  PROVE  /\ 1 \in DOMAIN writers /\ writers[1] = t /\ pc[t] \in Heading
         /\ \E ok \in BOOLEAN : (ok => w[t].batch = Nil) /\ PopWriters(t, writers[1], ok)
<1>1. pc[t] \in Heading
  BY DEF Leaves, Heading
<1>2. 1 \in DOMAIN writers /\ writers[1] = t
  BY <1>1 DEF Queue
<1> QED BY <1>1, <1>2 DEF Leaves

\* A head that has been served leaves with its group.
LEMMA CommitIs ==
  ASSUME WriteTypes, Queue, Groups, NEW t \in Threads, Commit(t)
  PROVE  /\ 1 \in DOMAIN writers /\ writers[1] = t /\ pc[t] \in Heading
         /\ \E n \in DOMAIN writers :
              /\ EndsAt(t, n) /\ \A i \in 1..n : w[writers[i]].sync => w[t].sync
              /\ PopWriters(t, writers[n], w[t].ok) /\ w[t].ok \in BOOLEAN
              /\ lastSeq' = lastSeq + Len(BatchesOf(writers, w, n))
<1>1. pc[t] \in Heading /\ pc[t] \in {"log", "commit"}
  BY DEF Commit, Heading
<1>2. 1 \in DOMAIN writers /\ writers[1] = t
  BY <1>1 DEF Queue
<1>3. PICK n \in DOMAIN writers : EndsAt(t, n) /\ \A i \in 1..n : w[writers[i]].sync => w[t].sync
  BY <1>1 DEF Groups
<1>4. writers[n] = w[t].last /\ GroupOf(t) = BatchesOf(writers, w, n)
  BY <1>3, GroupIs DEF EndsAt
<1>5. PopWriters(t, writers[n], w[t].ok) /\ lastSeq' = lastSeq + Len(BatchesOf(writers, w, n))
  BY <1>4 DEF Commit, SetLastSequence
<1>6. w[t].ok \in BOOLEAN
  BY RecordTypes
<1> QED BY <1>1, <1>2, <1>3, <1>5, <1>6

\* What Log appends, when it appends.
NewEntries(g, s) == [i \in DOMAIN g |-> [id |-> g[i], seq |-> lastSeq + i, synced |-> s]]
AllSynced(l) == [i \in DOMAIN l |-> [l[i] EXCEPT !.synced = @ \/ i > oldLogs]]

\* Log, in terms of the end of the group.
LEMMA LogIs ==
  ASSUME WriteTypes, Queue, Groups, NEW t \in Threads, Log(t)
  PROVE  /\ 1 \in DOMAIN writers /\ writers[1] = t /\ pc[t] = "log"
         /\ pc' \in [Threads -> Pcs] /\ pc'[t] = "commit"
         /\ \A u \in Threads : u # t => pc'[u] = pc[u] /\ w'[u] = w[u]
         /\ w' \in [Threads -> Records]
         /\ \A u \in Threads :
              /\ w'[u].batch = w[u].batch /\ w'[u].sync = w[u].sync /\ w'[u].done = w[u].done
              /\ w'[u].last = w[u].last
         /\ UNCHANGED <<writers, signalled, imm, oldLogs, lastSeq, bgVars, ghosts>>
         /\ \E n \in DOMAIN writers :
              /\ EndsAt(t, n) /\ \A i \in 1..n : w[writers[i]].sync => w[t].sync
              /\ LET g == BatchesOf(writers, w, n) IN
                 \/ /\ log' = IF w[t].sync THEN AllSynced(log \o NewEntries(g, TRUE))
                              ELSE log \o NewEntries(g, FALSE)
                    /\ mem' = mem \o g
                 \/ /\ log' \in {log, log \o NewEntries(g, FALSE)}
                    /\ ~w'[t].ok /\ mem' = mem
<1>0. pc \in [Threads -> Pcs] /\ w \in [Threads -> Records] /\ w[t] \in Records
  BY DEF WriteTypes
<1>1. pc[t] = "log" /\ pc[t] \in Heading /\ pc[t] \in {"log", "commit"}
  BY DEF Log, Heading
<1>2. 1 \in DOMAIN writers /\ writers[1] = t
  BY <1>1 DEF Queue
<1>3. PICK n \in DOMAIN writers : EndsAt(t, n) /\ \A i \in 1..n : w[writers[i]].sync => w[t].sync
  BY <1>1 DEF Groups
<1> DEFINE g == BatchesOf(writers, w, n)
<1>4. GroupOf(t) = g
  BY <1>3, GroupIs
<1> HIDE DEF g
<1>5. /\ pc' = [pc EXCEPT ![t] = "commit"]
      /\ UNCHANGED <<writers, signalled, imm, oldLogs, lastSeq, bgVars, ghosts>>
      /\ \/ /\ log' = IF w[t].sync THEN AllSynced(log \o NewEntries(g, TRUE))
                              ELSE log \o NewEntries(g, FALSE)
            /\ mem' = mem \o g
            /\ w' = [w EXCEPT ![t].ok = TRUE]
         \/ /\ log' \in {log, log \o NewEntries(g, FALSE)}
            /\ w' = [w EXCEPT ![t].ok = FALSE]
            /\ mem' = mem
         \/ /\ log' = log \o NewEntries(g, FALSE)
            /\ w' = [w EXCEPT ![t].ok = FALSE, ![t].synced = FALSE]
            /\ mem' = mem
  BY <1>4 DEF Log, NewEntries, AllSynced
<1>6. \/ w' = [w EXCEPT ![t] = [w[t] EXCEPT !.ok = TRUE]]
      \/ w' = [w EXCEPT ![t] = [w[t] EXCEPT !.ok = FALSE]]
      \/ w' = [w EXCEPT ![t] = [[w[t] EXCEPT !.ok = FALSE] EXCEPT !.synced = FALSE]]
  BY <1>5, <1>0
<1>7. /\ [w[t] EXCEPT !.ok = TRUE] \in Records /\ [w[t] EXCEPT !.ok = FALSE] \in Records
      /\ [[w[t] EXCEPT !.ok = FALSE] EXCEPT !.synced = FALSE] \in Records
  BY <1>0 DEF Records
<1>8. /\ w' \in [Threads -> Records]
      /\ \A u \in Threads : u # t => w'[u] = w[u]
      /\ w'[t].batch = w[t].batch /\ w'[t].sync = w[t].sync /\ w'[t].done = w[t].done /\ w'[t].last = w[t].last
  <2>1. ASSUME NEW r \in Records, w' = [w EXCEPT ![t] = r], r.batch = w[t].batch, r.sync = w[t].sync,
               r.done = w[t].done, r.last = w[t].last
        PROVE  /\ w' \in [Threads -> Records]
               /\ \A u \in Threads : u # t => w'[u] = w[u]
               /\ w'[t].batch = w[t].batch /\ w'[t].sync = w[t].sync /\ w'[t].done = w[t].done /\ w'[t].last = w[t].last
    BY <1>0, <2>1
  <2>2. \E r \in Records : /\ w' = [w EXCEPT ![t] = r]
                           /\ r.batch = w[t].batch /\ r.sync = w[t].sync /\ r.done = w[t].done /\ r.last = w[t].last
    <3>1. CASE w' = [w EXCEPT ![t] = [w[t] EXCEPT !.ok = TRUE]]
      BY <1>0, <1>7, <3>1 DEF Records
    <3>2. CASE w' = [w EXCEPT ![t] = [w[t] EXCEPT !.ok = FALSE]]
      BY <1>0, <1>7, <3>2 DEF Records
    <3>3. CASE w' = [w EXCEPT ![t] = [[w[t] EXCEPT !.ok = FALSE] EXCEPT !.synced = FALSE]]
      BY <1>0, <1>7, <3>3 DEF Records
    <3> QED BY <1>6, <3>1, <3>2, <3>3
  <2> QED BY <2>1, <2>2
<1>9. \/ /\ log' = IF w[t].sync THEN AllSynced(log \o NewEntries(g, TRUE))
                          ELSE log \o NewEntries(g, FALSE)
         /\ mem' = mem \o g
      \/ /\ log' \in {log, log \o NewEntries(g, FALSE)}
         /\ ~w'[t].ok
         /\ mem' = mem
  BY <1>5, <1>0 DEF Records
<1>10. pc' \in [Threads -> Pcs] /\ pc'[t] = "commit" /\ \A u \in Threads : u # t => pc'[u] = pc[u]
  BY <1>0, <1>5 DEF Pcs
<1>11. \A u \in Threads :
              /\ w'[u].batch = w[u].batch /\ w'[u].sync = w[u].sync /\ w'[u].done = w[u].done
              /\ w'[u].last = w[u].last
  BY <1>8
<1> QED BY <1>1, <1>2, <1>3, <1>5, <1>8, <1>9, <1>10, <1>11 DEF g

\* What is appended to the log; syncing it changes nothing else.
LEMMA EntriesIs ==
  ASSUME WriteTypes, NEW g \in Seq(Nat), NEW s \in BOOLEAN
  PROVE  LET l == log \o NewEntries(g, s) IN
         /\ l \in Seq(Entries)
         /\ Len(log) \in Nat /\ DOMAIN log = 1..Len(log) /\ Len(g) \in Nat /\ DOMAIN g = 1..Len(g)
         /\ DOMAIN l = 1..(Len(log) + Len(g))
         /\ \A i \in DOMAIN log : i \in DOMAIN l /\ l[i] = log[i]
         /\ \A k \in DOMAIN g : /\ Len(log) + k \in DOMAIN l
                                /\ l[Len(log) + k] = [id |-> g[k], seq |-> lastSeq + k, synced |-> s]
         /\ \A i \in DOMAIN l : i \in DOMAIN log \/ \E k \in DOMAIN g : i = Len(log) + k
<1> DEFINE e == NewEntries(g, s)
           l == log \o e
<1>1. log \in Seq(Entries) /\ lastSeq \in Nat /\ Len(log) \in Nat /\ DOMAIN log = 1..Len(log)
      /\ Len(g) \in Nat /\ DOMAIN g = 1..Len(g)
  BY DEF WriteTypes
<1>2. \A k \in 1..Len(g) : [id |-> g[k], seq |-> lastSeq + k, synced |-> s] \in Entries
  BY <1>1 DEF Entries
<1>3. e \in Seq(Entries) /\ Len(e) = Len(g)
      /\ \A k \in DOMAIN g : e[k] = [id |-> g[k], seq |-> lastSeq + k, synced |-> s]
  <2>1. e = [k \in 1..Len(g) |-> [id |-> g[k], seq |-> lastSeq + k, synced |-> s]]
    BY <1>1 DEF NewEntries
  <2>2. \A k \in 1..Len(g) : e[k] = [id |-> g[k], seq |-> lastSeq + k, synced |-> s]
    BY <2>1
  <2>3. e \in Seq(Entries) /\ Len(e) = Len(g)
    <3> DEFINE f(k) == [id |-> g[k], seq |-> lastSeq + k, synced |-> s]
    <3>1. \A k \in 1..Len(g) : f(k) \in Entries
      BY <1>2
    <3>2. e = [k \in 1..Len(g) |-> f(k)]
      BY <2>1
    <3> HIDE DEF f, e
    <3> QED BY <3>1, <3>2, <1>1
  <2> QED BY <1>1, <2>2, <2>3
<1> HIDE DEF e
<1>4. l \in Seq(Entries) /\ Len(l) = Len(log) + Len(g)
      /\ \A i \in 1..Len(l) : l[i] = IF i =< Len(log) THEN log[i] ELSE e[i - Len(log)]
  BY <1>1, <1>3, ConcatProperties
<1> HIDE DEF l
<1>5. DOMAIN l = 1..(Len(log) + Len(g))
  BY <1>4
<1>6. \A i \in DOMAIN log : i \in DOMAIN l /\ l[i] = log[i]
  BY <1>1, <1>4, <1>5
<1>7. ASSUME NEW k \in DOMAIN g
      PROVE  Len(log) + k \in DOMAIN l /\ l[Len(log) + k] = [id |-> g[k], seq |-> lastSeq + k, synced |-> s]
  <2>1. Len(log) + k \in 1..Len(l) /\ ~(Len(log) + k =< Len(log)) /\ (Len(log) + k) - Len(log) = k
    BY <1>1, <1>4
  <2>2. l[Len(log) + k] = e[k]
    BY <2>1, <1>4
  <2> QED BY <2>1, <2>2, <1>3, <1>4, <1>5
<1>8. ASSUME NEW i \in DOMAIN l, i \notin DOMAIN log PROVE \E k \in DOMAIN g : i = Len(log) + k
  <2>1. i - Len(log) \in DOMAIN g /\ i = Len(log) + (i - Len(log))
    BY <1>1, <1>5, <1>8
  <2> QED BY <2>1
<1> QED BY <1>1, <1>4, <1>5, <1>6, <1>7, <1>8 DEF l, e

\* A sync changes the synced marks alone, and takes none away.
LEMMA SyncedIs ==
  ASSUME NEW l \in Seq(Entries)
  PROVE  /\ AllSynced(l) \in Seq(Entries) /\ DOMAIN AllSynced(l) = DOMAIN l
         /\ \A i \in DOMAIN l : /\ AllSynced(l)[i].id = l[i].id /\ AllSynced(l)[i].seq = l[i].seq
                                /\ l[i].synced => AllSynced(l)[i].synced
<1> DEFINE f(i) == [l[i] EXCEPT !.synced = @ \/ i > oldLogs]
           a == AllSynced(l)
<1>1. Len(l) \in Nat /\ DOMAIN l = 1..Len(l)
  OBVIOUS
<1>2. ASSUME NEW i \in 1..Len(l)
      PROVE  f(i) \in Entries /\ f(i).id = l[i].id /\ f(i).seq = l[i].seq /\ (l[i].synced => f(i).synced)
  <2>1. l[i] \in Entries
    BY <1>1
  <2>2. (l[i].synced \/ i > oldLogs) \in BOOLEAN
    OBVIOUS
  <2>3. ASSUME NEW b \in BOOLEAN
        PROVE  /\ [l[i] EXCEPT !.synced = b] \in Entries /\ [l[i] EXCEPT !.synced = b].id = l[i].id
               /\ [l[i] EXCEPT !.synced = b].seq = l[i].seq /\ [l[i] EXCEPT !.synced = b].synced = b
    BY <2>1 DEF Entries
  <2> QED BY <2>2, <2>3
<1>3. a = [i \in 1..Len(l) |-> f(i)]
  BY <1>1 DEF AllSynced
<1> HIDE DEF f, a
<1>4. a \in Seq(Entries) /\ DOMAIN a = 1..Len(l) /\ \A i \in 1..Len(l) : a[i] = f(i)
  BY <1>1, <1>2, <1>3
<1> QED BY <1>1, <1>2, <1>4 DEF a

-----------------------------------------------------------------------------
(* The types                                                               *)

\* What Log leaves in the log, whichever way it ends.
LEMMA LogTypes ==
  ASSUME WriteTypes, Queue, Groups, NEW t \in Threads, Log(t)
  PROVE  log' \in Seq(Entries) /\ mem' \in Seq(Nat)
<1>1. PICK n \in DOMAIN writers :
        LET g == BatchesOf(writers, w, n) IN
           \/ /\ log' = IF w[t].sync THEN AllSynced(log \o NewEntries(g, TRUE))
                        ELSE log \o NewEntries(g, FALSE)
              /\ mem' = mem \o g
           \/ /\ log' \in {log, log \o NewEntries(g, FALSE)}
              /\ ~w'[t].ok /\ mem' = mem
  BY LogIs
<1> DEFINE g == BatchesOf(writers, w, n)
<1>2. writers \in Seq(Threads) /\ w \in [Threads -> Records] /\ log \in Seq(Entries) /\ mem \in Seq(Nat)
  BY DEF WriteTypes
<1>3. g \in Seq(Nat)
  BY <1>2, GroupHolds
<1> HIDE DEF g
<1>4. log \o NewEntries(g, TRUE) \in Seq(Entries) /\ log \o NewEntries(g, FALSE) \in Seq(Entries)
  BY <1>3, EntriesIs
<1>5. AllSynced(log \o NewEntries(g, TRUE)) \in Seq(Entries)
  BY <1>4, SyncedIs
<1>6. mem \o g \in Seq(Nat)
  BY <1>2, <1>3
<1>7. log' \in Seq(Entries)
  BY <1>1, <1>2, <1>4, <1>5 DEF g
<1>8. mem' \in Seq(Nat)
  BY <1>1, <1>2, <1>6 DEF g
<1> QED BY <1>7, <1>8

\* Every step keeps the types of the writers.
LEMMA WriteTypesStep ==
  ASSUME ThreadsAssumption, WriteTypes, BgTypes, Queue, Groups, [Next]_vars
  PROVE  WriteTypes'
<1>0. /\ writers \in Seq(Threads) /\ w \in [Threads -> Records] /\ pc \in [Threads -> Pcs]
      /\ signalled \subseteq Threads
      /\ mem \in Seq(Nat) /\ imm \in Seq(Nat) \cup {Nil}
      /\ log \in Seq(Entries) /\ oldLogs \in Nat /\ lastSeq \in Nat /\ calls \in Nat
  BY DEF WriteTypes
<1>1. CASE BgStep \/ Close \/ UNCHANGED vars
  <2>1. UNCHANGED <<writers, w, pc, signalled, mem, log, oldLogs, lastSeq, calls>>
    BY <1>1, BgIsQuiet DEF ghosts
  <2>2. imm' = imm \/ imm' = Nil
    BY <1>1 DEF BgStep, BgRefuse, BgChoose, BgBegin, BgManualDone, BgNothing, BgBuild, BgApply,
                BgPrioritize, BgWork, BgManual, Close, vars, writeVars, ghosts, Installed
  <2>3. imm' \in Seq(Nat) \cup {Nil}
    BY <2>2, <1>0
  <2> QED BY <1>0, <2>1, <2>3 DEF WriteTypes
<1>2. ASSUME NEW t \in Threads, ManualStep(t) PROVE WriteTypes'
  BY <1>0, <1>2, ManualIsQuiet DEF WriteTypes, ghosts
<1>3. ASSUME NEW t \in Threads, RoomStep(t) PROVE WriteTypes'
  <2>1. UNCHANGED <<writers, signalled, log, lastSeq, calls>>
        /\ w' \in [Threads -> Records] /\ pc' \in [Threads -> Pcs]
    BY <1>3, RoomIsQuiet DEF ghosts
  <2>2. \/ UNCHANGED <<mem, imm, oldLogs>>
        \/ imm' = mem /\ mem' = <<>> /\ oldLogs' = Len(log)
    BY <1>3 DEF RoomStep, RoomDelay, Sleep, RoomWait, RoomSwitch, WakeRoom
  <2>3. <<>> \in Seq(Nat) /\ Len(log) \in Nat
    BY <1>0
  <2>4. mem' \in Seq(Nat) /\ imm' \in Seq(Nat) \cup {Nil} /\ oldLogs' \in Nat
    BY <2>2, <2>3, <1>0
  <2> QED BY <1>0, <2>1, <2>4 DEF WriteTypes
<1>4. ASSUME NEW t \in Threads, WakeWriter(t) PROVE WriteTypes'
  <2>1. UNCHANGED <<writers, w, mem, imm, log, oldLogs, lastSeq, calls>> /\ signalled' = signalled \ {t}
    BY <1>4 DEF WakeWriter, ghosts
  <2>2. \E p \in Pcs : pc' = [pc EXCEPT ![t] = p]
    BY <1>4 DEF WakeWriter, AfterWrite, Pcs
  <2>3. pc' \in [Threads -> Pcs]
    BY <1>0, <2>2
  <2> QED BY <1>0, <2>1, <2>3 DEF WriteTypes
<1>5. ASSUME NEW t \in Threads, Joins(t) PROVE WriteTypes'
  <2>1. UNCHANGED <<signalled, mem, imm, log, oldLogs, lastSeq>> /\ pc[t] = "idle"
    BY <1>5 DEF Joins
  <2>2. PICK s \in BOOLEAN : \/ Enqueue(t, calls + 1, s) /\ calls' = calls + 1
                             \/ Enqueue(t, Nil, s) /\ calls' = calls
    BY <1>5 DEF Joins
  <2>3. calls + 1 \in Nat \cup {Nil} /\ Nil \in Nat \cup {Nil}
    BY <1>0
  <2>4. writers' \in Seq(Threads) /\ w' \in [Threads -> Records] /\ pc' \in [Threads -> Pcs]
    BY <2>1, <2>2, <2>3, EnqueueIs
  <2>5. calls' \in Nat
    BY <2>2, <1>0
  <2> QED BY <1>0, <2>1, <2>4, <2>5 DEF WriteTypes
<1>6. ASSUME NEW t \in Threads, Leaves(t) PROVE WriteTypes'
  <2>1. UNCHANGED <<mem, imm, log, oldLogs, lastSeq, calls>>
    BY <1>6 DEF Leaves
  <2>2. writers' \in Seq(Threads) /\ w' \in [Threads -> Records] /\ pc' \in [Threads -> Pcs]
        /\ signalled' \subseteq Threads
    BY <1>6, LeavesIs, PopIs
  <2> QED BY <1>0, <2>1, <2>2 DEF WriteTypes
<1>7. ASSUME NEW t \in Threads, Collects(t) PROVE WriteTypes'
  <2>1. UNCHANGED <<writers, signalled, mem, imm, log, oldLogs, lastSeq, calls>>
        /\ pc' = [pc EXCEPT ![t] = "log"] /\ w' = [w EXCEPT ![t] = [w[t] EXCEPT !.last = writers[GroupSize]]]
    BY <1>7 DEF Collects, ghosts
  <2>2. pc[t] \in Heading
    BY <1>7 DEF Collects, Heading
  <2>3. 1 \in DOMAIN writers
    BY <2>2 DEF Queue
  <2>4. writers[GroupSize] \in Threads
    BY <1>0, <2>3, GroupEnds
  <2>5. w[t] \in Records
    BY <1>0
  <2>6. [w[t] EXCEPT !.last = writers[GroupSize]] \in Records
    BY <2>4, <2>5 DEF Records
  <2>7. w' \in [Threads -> Records] /\ pc' \in [Threads -> Pcs]
    BY <1>0, <2>1, <2>6 DEF Pcs
  <2> QED BY <1>0, <2>1, <2>7 DEF WriteTypes
<1>8. ASSUME NEW t \in Threads, Log(t) PROVE WriteTypes'
  <2>1. UNCHANGED <<writers, signalled, imm, oldLogs, lastSeq, calls>>
        /\ w' \in [Threads -> Records] /\ pc' \in [Threads -> Pcs]
    BY <1>8, LogIs DEF ghosts
  <2>2. log' \in Seq(Entries) /\ mem' \in Seq(Nat)
    BY <1>8, LogTypes
  <2> QED BY <1>0, <2>1, <2>2 DEF WriteTypes
<1>9. ASSUME NEW t \in Threads, Commit(t) PROVE WriteTypes'
  <2>1. UNCHANGED <<mem, imm, log, oldLogs, calls>>
    BY <1>9 DEF Commit
  <2>2. PICK n \in DOMAIN writers :
              /\ PopWriters(t, writers[n], w[t].ok) /\ w[t].ok \in BOOLEAN /\ pc[t] \in Heading
              /\ lastSeq' = lastSeq + Len(BatchesOf(writers, w, n))
    BY <1>9, CommitIs
  <2>3. writers' \in Seq(Threads) /\ w' \in [Threads -> Records] /\ pc' \in [Threads -> Pcs]
        /\ signalled' \subseteq Threads
    BY <2>2, PopIs
  <2>4. BatchesOf(writers, w, n) \in Seq(Nat)
    BY <1>0, GroupHolds
  <2>5. lastSeq' \in Nat
    BY <1>0, <2>2, <2>4
  <2> QED BY <1>0, <2>1, <2>3, <2>5 DEF WriteTypes
<1> QED BY <1>1, <1>2, <1>3, <1>4, <1>5, <1>6, <1>7, <1>8, <1>9, Kinds

\* The end of a background call.
LEMMA FinishIs ==
  ASSUME NEW im, NEW man, NEW files, NEW err, BgFinish(im, man, files, err)
  PROVE  /\ scheduled' = WorkPending(im, man, files, err) /\ scheduled' \in BOOLEAN
         /\ bgWait' = {} /\ bg' \in {"start", "none"} /\ (scheduled' <=> bg' # "none")
<1>1. WorkPending(im, man, files, err) \in BOOLEAN
  BY DEF WorkPending
<1> DEFINE p == WorkPending(im, man, files, err)
<1>2. scheduled' = p /\ bg' = (IF p THEN "start" ELSE "none") /\ bgWait' = {}
  BY DEF BgFinish, SignalAll
<1> HIDE DEF p
<1> QED BY <1>1, <1>2 DEF p

\* MaybeScheduleCompaction.
LEMMA ScheduleIs ==
  ASSUME scheduled \in BOOLEAN, NEW im, NEW man, NEW files, NEW err,
         Schedule(MaybeSchedule(im, man, files, err))
  PROVE  /\ scheduled' = (scheduled \/ WorkPending(im, man, files, err)) /\ scheduled' \in BOOLEAN
         /\ bg' = IF scheduled' /\ ~scheduled THEN "start" ELSE bg
<1>1. WorkPending(im, man, files, err) \in BOOLEAN
  BY DEF WorkPending
<1> QED BY <1>1 DEF Schedule, MaybeSchedule

\* Where the background thread goes from where it is.
LEMMA BgTypesStep ==
  ASSUME ThreadsAssumption, WriteTypes, BgTypes, [Next]_vars
  PROVE  BgTypes'
<1> USE DEF BgTypes, Places
<1>0. /\ bgWait \subseteq Threads
      /\ scheduled \in BOOLEAN /\ bgError \in BOOLEAN /\ shutting \in BOOLEAN
      /\ manual \in Manuals \cup {Nil}
      /\ done \in [Manuals -> BOOLEAN] /\ todo \in [Manuals -> Nat]
      /\ l0 \in Nat /\ inputs \in Nat
      /\ Nil \notin Manuals /\ Manuals \subseteq Threads
  BY DEF ThreadsAssumption, Threads
<1>1. CASE UNCHANGED vars
  BY <1>1 DEF vars, bgVars, writeVars
<1>2. CASE Close
  BY <1>2 DEF Close, writeVars
<1>3. CASE BgRefuse \/ BgNothing
  <2>1. BgFinish(imm, manual, l0, bgError)
    BY <1>3 DEF BgRefuse, BgNothing
  <2>2. UNCHANGED <<imm, bgError, shutting, manual, done, todo, l0, inputs>>
    BY <1>3 DEF BgRefuse, BgNothing, writeVars
  <2> QED BY <2>1, <2>2, FinishIs
<1>4. CASE BgChoose
  <2>1. \E n \in 0..l0, p \in {"build", "manual", "work"} : bg' = p /\ inputs' = n /\ (p = "build" => imm # Nil)
    BY <1>0, <1>4 DEF BgChoose, BgBegin
  <2>2. UNCHANGED <<imm, bgWait, scheduled, bgError, shutting, manual, done, todo, l0>>
    BY <1>4 DEF BgChoose, BgBegin, writeVars
  <2> QED BY <1>0, <2>1, <2>2
<1>5. CASE BgManualDone
  <2>1. BgFinish(imm, Nil, l0, bgError) /\ manual' = Nil /\ done' = [done EXCEPT ![manual] = TRUE]
        /\ UNCHANGED <<imm, bgError, shutting, todo, l0, inputs>>
    BY <1>5 DEF BgManualDone, writeVars
  <2>2. done' \in [Manuals -> BOOLEAN]
    BY <1>0, <2>1
  <2> QED BY <2>1, <2>2, FinishIs
<1>6. ASSUME NEW from, NEW to, NEW back, BgBuild(from, to, back),
             <<from, to, back>> \in {<<"build", "apply", "end">>, <<"wbuild", "wapply", "work">>,
                                     <<"mbuild", "mapply", "manual">>}
      PROVE  BgTypes'
  <2>1. UNCHANGED <<imm, shutting, manual, done, todo, l0, inputs>>
    BY <1>6 DEF BgBuild, writeVars
  <2>2. CASE bg' = to /\ UNCHANGED <<bgWait, scheduled, bgError>>
    BY <1>6, <2>1, <2>2 DEF BgBuild
  <2>3. CASE bgError' = TRUE /\ back = "end" /\ BgFinish(imm, manual, l0, TRUE)
    BY <2>1, <2>3, FinishIs
  <2>4. CASE bgError' = TRUE /\ back # "end" /\ bg' = back /\ SignalAll /\ UNCHANGED scheduled
    BY <1>6, <2>1, <2>4 DEF SignalAll, BgBuild
  <2> QED BY <1>6, <2>2, <2>3, <2>4 DEF BgBuild
<1>7. ASSUME NEW from, NEW back, BgApply(from, back),
             <<from, back>> \in {<<"apply", "end">>, <<"wapply", "work">>, <<"mapply", "manual">>}
      PROVE  BgTypes'
  <2>1. UNCHANGED <<shutting, manual, done, todo, inputs>> /\ bg = from
    BY <1>7 DEF BgApply
  <2>2. PICK ok \in BOOLEAN :
       /\ l0' = IF ok /\ imm # <<>> THEN l0 + 1 ELSE l0
       /\ bgError' = (bgError \/ ~ok)
       /\ IF back = "end" THEN BgFinish(imm', manual, l0', bgError')
          ELSE bg' = back /\ SignalAll /\ UNCHANGED scheduled
    BY <1>7 DEF BgApply
  <2>3. l0' \in Nat /\ l0' >= l0 /\ bgError' \in BOOLEAN
    BY <1>0, <2>2
  <2>4. CASE back = "end"
    BY <1>0, <2>1, <2>2, <2>3, <2>4, FinishIs
  <2>5. CASE back # "end"
    <3>1. bg' \in {"work", "manual"} /\ bgWait' = {} /\ scheduled' = scheduled
      BY <1>7, <2>2, <2>5 DEF SignalAll
    <3>2. inputs =< l0
      BY <1>7, <2>1, <2>5
    <3>3. inputs' =< l0'
      BY <1>0, <2>1, <2>3, <3>2
    <3> QED BY <1>0, <2>1, <2>3, <3>1, <3>3
  <2> QED BY <2>4, <2>5
<1>8. CASE BgPrioritize("work", "wbuild") \/ BgPrioritize("manual", "mbuild")
  BY <1>8 DEF BgPrioritize, writeVars
<1>9. CASE BgWork
  <2>1. UNCHANGED <<imm, shutting, manual, done, todo, inputs>> /\ bg = "work"
    BY <1>9 DEF BgWork, writeVars
  <2>2. PICK fails \in BOOLEAN : BgWorked(fails) /\ BgFinish(imm, manual, l0', bgError')
    BY <1>9 DEF BgWork
  <2>3. l0' \in Nat /\ bgError' \in BOOLEAN
    BY <1>0, <2>1, <2>2 DEF BgWorked
  <2> QED BY <1>0, <2>1, <2>2, <2>3, FinishIs
<1>10. CASE BgManual
  <2>1. UNCHANGED <<imm, shutting, inputs>> /\ bg = "manual"
    BY <1>10 DEF BgManual, writeVars
  <2>2. PICK fails \in BOOLEAN :
       /\ BgWorked(fails)
       /\ \/ /\ manual = Nil
             /\ bg' = "crashed"
             /\ UNCHANGED <<bgWait, scheduled, manual, done, todo>>
          \/ /\ manual # Nil
             /\ done' = [done EXCEPT ![manual] = @ \/ fails]
             /\ \E n \in 0..(todo[manual] - 1) : todo' = [todo EXCEPT ![manual] = n]
             /\ manual' = Nil
             /\ BgFinish(imm, Nil, l0', bgError')
    BY <1>10 DEF BgManual
  <2>3. l0' \in Nat /\ bgError' \in BOOLEAN
    BY <1>0, <2>1, <2>2 DEF BgWorked
  <2>4. CASE manual = Nil
    BY <1>0, <2>1, <2>2, <2>3, <2>4
  <2>5. CASE manual # Nil
    <3>1. manual \in Manuals /\ done[manual] \in BOOLEAN /\ todo[manual] \in Nat
      BY <1>0, <2>5
    <3>2. PICK n \in 0..(todo[manual] - 1) : todo' = [todo EXCEPT ![manual] = n]
      BY <2>2, <2>5
    <3>3. n \in Nat
      BY <3>1
    <3>4. todo' \in [Manuals -> Nat]
      BY <1>0, <3>2, <3>3
    <3>5. done' = [done EXCEPT ![manual] = done[manual] \/ fails]
      BY <2>2, <2>5
    <3>6. (done[manual] \/ fails) \in BOOLEAN
      OBVIOUS
    <3>7. done' \in [Manuals -> BOOLEAN]
      BY <1>0, <3>5, <3>6
    <3>8. BgFinish(imm, Nil, l0', bgError') /\ manual' = Nil
      BY <2>2, <2>5
    <3> QED BY <1>0, <2>1, <2>3, <3>4, <3>7, <3>8, FinishIs
  <2> QED BY <2>4, <2>5
<1>11. CASE BgStep
  BY <1>3, <1>4, <1>5, <1>6, <1>7, <1>8, <1>9, <1>10, <1>11 DEF BgStep
<1>12. ASSUME NEW t \in Manuals, ManualStep(t) PROVE BgTypes'
  <2>1. UNCHANGED <<imm, bgError, shutting, done, todo, l0, inputs>>
    BY <1>12 DEF ManualStep, FlushWait, Flushed, RangeLoop, RangeEnd, bgVars
  <2>2. bgWait' \subseteq bgWait \cup {t}
    BY <1>12 DEF ManualStep, FlushWait, Flushed, RangeLoop, RangeEnd, bgVars
  <2>3. manual' \in {manual, t, Nil}
    BY <1>12 DEF ManualStep, FlushWait, Flushed, RangeLoop, RangeEnd, bgVars
  <2>4. UNCHANGED <<scheduled, bg>> \/ Schedule(MaybeSchedule(imm, t, l0, bgError))
    BY <1>12 DEF ManualStep, FlushWait, Flushed, RangeLoop, RangeEnd, bgVars
  <2>5. scheduled' \in BOOLEAN /\ bg' \in {bg, "start"}
    BY <1>0, <2>4, ScheduleIs
  <2>6. bgWait' \subseteq Threads /\ manual' \in Manuals \cup {Nil}
    BY <1>0, <2>2, <2>3
  <2> QED BY <1>0, <2>1, <2>5, <2>6
<1>13. ASSUME NEW t \in Threads, RoomStep(t) PROVE BgTypes'
  <2>1. UNCHANGED <<bgError, shutting, manual, done, todo, l0, inputs>> /\ bgWait' \subseteq bgWait \cup {t}
    BY <1>13 DEF RoomStep, RoomDelay, Sleep, RoomWait, RoomSwitch, WakeRoom, bgVars
  <2>2. \/ UNCHANGED <<imm, scheduled, bg>>
        \/ imm' = mem /\ Schedule(MaybeSchedule(imm', manual, l0, bgError))
    BY <1>13 DEF RoomStep, RoomDelay, Sleep, RoomWait, RoomSwitch, WakeRoom, bgVars
  <2>3. mem # Nil
    BY DEF WriteTypes, ThreadsAssumption
  <2>4. scheduled' \in BOOLEAN /\ bg' \in {bg, "start"} /\ (imm' = imm \/ imm' # Nil)
    BY <1>0, <2>2, <2>3, ScheduleIs
  <2> QED BY <1>0, <2>1, <2>4
<1>14. ASSUME NEW t \in Threads, WakeWriter(t) \/ Collects(t) \/ Log(t) \/ Leaves(t) PROVE BgTypes'
  <2>1. UNCHANGED <<imm, bgVars>>
    BY <1>14 DEF WakeWriter, Collects, Log, Leaves
  <2> QED BY <2>1 DEF bgVars
<1>15. ASSUME NEW t \in Threads, Joins(t) PROVE BgTypes'
  <2>1. UNCHANGED <<imm, bgWait, scheduled, bgError, shutting, manual, l0, inputs, bg>>
    BY <1>15 DEF Joins
  <2>2. done' \in [Manuals -> BOOLEAN]
    BY <1>0, <1>15 DEF Joins
  <2>3. todo' \in [Manuals -> Nat]
    <3>1. MaxFiles \in Nat
      BY DEF ThreadsAssumption
    <3>2. CASE todo' = todo
      BY <1>0, <3>2
    <3>3. ASSUME NEW n \in 0..MaxFiles, todo' = [todo EXCEPT ![t] = n] PROVE todo' \in [Manuals -> Nat]
      <4>1. n \in Nat
        BY <3>1
      <4> QED BY <1>0, <3>3, <4>1
    <3> QED BY <1>15, <3>2, <3>3 DEF Joins
  <2> QED BY <2>1, <2>2, <2>3
<1>16. ASSUME NEW t \in Threads, Commit(t) PROVE BgTypes'
  <2>1. UNCHANGED <<imm, scheduled, shutting, manual, done, todo, l0, inputs, bg>>
        /\ bgError' = (bgError \/ ~w[t].synced) /\ bgWait' \subseteq bgWait
    BY <1>16 DEF Commit, RecordBackgroundError, SyncError
  <2> QED BY <1>0, <2>1
<1> QED BY <1>1, <1>2, <1>11, <1>12, <1>13, <1>14, <1>15, <1>16, Kinds

-----------------------------------------------------------------------------
(* Scheduling                                                              *)

\* Work that appears is scheduled in the same step; a call that ends looks for more.
LEMMA SchedulingStep ==
  ASSUME ThreadsAssumption, WriteTypes, BgTypes, Queue, Scheduling, Groups, [Next]_vars
  PROVE  Scheduling'
<1>0. /\ scheduled \in BOOLEAN /\ bgError \in BOOLEAN /\ shutting \in BOOLEAN
      /\ l0 \in Nat /\ L0Stop \in Nat /\ L0Trigger \in Nat /\ L0Trigger =< L0Stop
      /\ Nil \notin Manuals /\ Manuals \subseteq Threads
  BY DEF BgTypes, ThreadsAssumption, Threads
<1>1. CASE UNCHANGED vars
  BY <1>1 DEF vars, bgVars, writeVars, Scheduling, WorkPending
\* A step of the background thread keeps its call or ends it.
<1>2. ASSUME UNCHANGED <<pc, shutting>>, bg # "none",
             \/ scheduled' = scheduled /\ bg' # "none"
             \/ BgFinish(imm', manual', l0', bgError')
      PROVE  Scheduling'
  <2>1. CASE scheduled' = scheduled /\ bg' # "none"
    BY <1>2, <2>1 DEF Scheduling
  <2>2. CASE BgFinish(imm', manual', l0', bgError')
    <3>1. /\ scheduled' = WorkPending(imm', manual', l0', bgError')
          /\ bgWait' = {} /\ (scheduled' <=> bg' # "none")
      BY <2>2, FinishIs
    <3> QED BY <1>2, <3>1 DEF Scheduling, WorkPending
  <2> QED BY <1>2, <2>1, <2>2
<1>3. CASE BgStep
  <2>0. UNCHANGED pc
    BY <1>3, BgIsQuiet
  <2>1. UNCHANGED shutting
    BY <1>3 DEF BgStep, BgRefuse, BgChoose, BgBegin, BgManualDone, BgNothing, BgBuild, BgApply,
                BgPrioritize, BgWork, BgManual
  <2>2. CASE BgRefuse \/ BgNothing
    <3>1. BgFinish(imm', manual', l0', bgError') /\ bg = "start"
      BY <2>2 DEF BgRefuse, BgNothing, writeVars
    <3> QED BY <1>2, <2>0, <2>1, <3>1
  <2>3. CASE BgChoose
    <3>1. bg = "start" /\ bg' # "none" /\ scheduled' = scheduled
      BY <2>3 DEF BgChoose, BgBegin
    <3> QED BY <1>2, <2>0, <2>1, <3>1
  <2>4. CASE BgManualDone
    <3>1. BgFinish(imm', manual', l0', bgError') /\ bg = "start"
      BY <2>4 DEF BgManualDone, writeVars
    <3> QED BY <1>2, <2>0, <2>1, <3>1
  <2>5. ASSUME NEW from, NEW to, NEW back, BgBuild(from, to, back),
             <<from, to, back>> \in {<<"build", "apply", "end">>, <<"wbuild", "wapply", "work">>,
                                     <<"mbuild", "mapply", "manual">>}
        PROVE  Scheduling'
    <3>1. bg # "none" /\ UNCHANGED <<imm, manual, l0>>
      BY <2>5 DEF BgBuild, writeVars
    <3>2. \/ scheduled' = scheduled /\ bg' # "none"
          \/ bgError' = TRUE /\ BgFinish(imm, manual, l0, TRUE)
      BY <2>5 DEF BgBuild
    <3> QED BY <1>2, <2>0, <2>1, <3>1, <3>2
  <2>6. ASSUME NEW from, NEW back, BgApply(from, back),
             <<from, back>> \in {<<"apply", "end">>, <<"wapply", "work">>, <<"mapply", "manual">>}
        PROVE  Scheduling'
    <3>1. bg # "none" /\ UNCHANGED manual
      BY <2>6 DEF BgApply
    <3>2. \/ scheduled' = scheduled /\ bg' # "none"
          \/ BgFinish(imm', manual, l0', bgError')
      BY <2>6 DEF BgApply
    <3> QED BY <1>2, <2>0, <2>1, <3>1, <3>2
  <2>7. CASE BgPrioritize("work", "wbuild") \/ BgPrioritize("manual", "mbuild")
    <3>1. bg # "none" /\ bg' # "none" /\ scheduled' = scheduled
      BY <2>7 DEF BgPrioritize
    <3> QED BY <1>2, <2>0, <2>1, <3>1
  <2>8. CASE BgWork
    <3>1. BgFinish(imm', manual', l0', bgError') /\ bg = "work"
      BY <2>8 DEF BgWork, writeVars
    <3> QED BY <1>2, <2>0, <2>1, <3>1
  <2>9. CASE BgManual
    <3>1. bg = "manual" /\ UNCHANGED imm
      BY <2>9 DEF BgManual, writeVars
    <3>2. \/ scheduled' = scheduled /\ bg' = "crashed"
          \/ manual' = Nil /\ BgFinish(imm, Nil, l0', bgError')
      BY <2>9 DEF BgManual
    <3> QED BY <1>2, <2>0, <2>1, <3>1, <3>2
  <2> QED BY <1>3, <2>2, <2>3, <2>4, <2>5, <2>6, <2>7, <2>8, <2>9 DEF BgStep
<1>4. CASE Close
  <2>1. UNCHANGED <<imm, pc, bgWait, scheduled, bgError, manual, l0, bg>> /\ shutting'
        /\ \A t \in Threads : pc[t] = "idle"
    BY <1>4 DEF Close, writeVars
  <2> QED BY <2>1 DEF Scheduling, WorkPending
\* A thread is inside a call: the database is not being closed.
<1>5. ASSUME NEW t \in Threads, pc[t] # "idle" PROVE ~shutting
  BY <1>5 DEF Scheduling
<1>6. ASSUME NEW t \in Manuals, ManualStep(t) PROVE Scheduling'
  <2>1. pc[t] # "idle" /\ ~shutting /\ UNCHANGED <<imm, l0, bgError, shutting>>
    <3>1. pc[t] # "idle" /\ UNCHANGED <<imm, l0, bgError, shutting>>
      BY <1>6 DEF ManualStep, FlushWait, Flushed, RangeLoop, RangeEnd, bgVars
    <3> QED BY <1>0, <1>5, <3>1
  <2>2. CASE FlushWait(t) \/ Flushed(t)
    <3>1. UNCHANGED <<scheduled, bg, manual>> /\ (bgWait' = bgWait \/ (imm # Nil /\ ~bgError))
      BY <2>2 DEF FlushWait, Flushed, bgVars
    <3> QED BY <2>1, <3>1 DEF Scheduling, WorkPending
  <2>3. CASE RangeLoop(t)
    <3>1. CASE /\ manual = Nil /\ manual' = t
               /\ Schedule(MaybeSchedule(imm, t, l0, bgError)) /\ UNCHANGED bgWait
      <4>1. /\ scheduled' = (scheduled \/ WorkPending(imm, t, l0, bgError)) /\ scheduled' \in BOOLEAN
            /\ bg' = IF scheduled' /\ ~scheduled THEN "start" ELSE bg
        BY <1>0, <3>1, ScheduleIs
      <4> QED BY <1>0, <2>1, <3>1, <4>1 DEF Scheduling, WorkPending
    <3>2. CASE manual # Nil /\ UNCHANGED <<manual, scheduled, bg>> /\ ~bgError
      BY <2>1, <3>2 DEF Scheduling, WorkPending
    <3> QED BY <2>3, <3>1, <3>2 DEF RangeLoop
  <2>4. CASE RangeEnd(t)
    <3>1. UNCHANGED <<scheduled, bg, bgWait>> /\ manual' \in {manual, Nil}
      BY <2>4 DEF RangeEnd
    <3> QED BY <2>1, <3>1 DEF Scheduling, WorkPending
  <2> QED BY <1>6, <2>2, <2>3, <2>4 DEF ManualStep
<1>7. ASSUME NEW t \in Threads, RoomStep(t) PROVE Scheduling'
  <2>1. ~shutting /\ UNCHANGED <<manual, l0, bgError, shutting>>
    <3>1. pc[t] # "idle" /\ UNCHANGED <<manual, l0, bgError, shutting>>
      BY <1>7 DEF RoomStep, RoomDelay, Sleep, RoomWait, RoomSwitch, WakeRoom, NoRoom, NoDelay, bgVars
    <3> QED BY <1>0, <1>5, <3>1
  <2>2. CASE RoomDelay(t) \/ Sleep(t) \/ WakeRoom(t)
    <3>1. UNCHANGED <<imm, scheduled, bg, bgWait>>
      BY <2>2 DEF RoomDelay, Sleep, WakeRoom, bgVars
    <3> QED BY <2>1, <3>1 DEF Scheduling, WorkPending
  <2>3. CASE RoomWait(t)
    <3>1. UNCHANGED <<imm, scheduled, bg>> /\ ~bgError /\ (imm # Nil \/ l0 >= L0Stop)
      BY <2>3 DEF RoomWait, NoRoom, NoDelay
    <3>2. WorkPending(imm, manual, l0, bgError)
      BY <1>0, <2>1, <3>1 DEF WorkPending, NeedsCompaction
    <3> QED BY <2>1, <3>1, <3>2 DEF Scheduling, WorkPending
  <2>4. CASE RoomSwitch(t)
    <3>1. Schedule(MaybeSchedule(imm', manual, l0, bgError)) /\ UNCHANGED bgWait
      BY <2>4 DEF RoomSwitch
    <3>2. /\ scheduled' = (scheduled \/ WorkPending(imm', manual, l0, bgError)) /\ scheduled' \in BOOLEAN
          /\ bg' = IF scheduled' /\ ~scheduled THEN "start" ELSE bg
      BY <1>0, <3>1, ScheduleIs
    <3> QED BY <1>0, <2>1, <3>1, <3>2 DEF Scheduling, WorkPending
  <2> QED BY <1>7, <2>2, <2>3, <2>4 DEF RoomStep
<1>8. ASSUME NEW t \in Threads, WakeWriter(t) \/ Collects(t) \/ Log(t) \/ Leaves(t) PROVE Scheduling'
  <2>1. UNCHANGED <<imm, bgVars>>
    BY <1>8 DEF WakeWriter, Collects, Log, Leaves
  <2>2. pc[t] # "idle"
    BY <1>8 DEF WakeWriter, Collects, Log, Leaves
  <2>3. ~shutting
    BY <2>2, <1>5
  <2> QED BY <1>0, <2>1, <2>3 DEF bgVars, Scheduling, WorkPending
<1>9. ASSUME NEW t \in Threads, Joins(t) PROVE Scheduling'
  <2>1. UNCHANGED <<imm, bgWait, scheduled, bgError, shutting, manual, l0, bg>> /\ ~shutting
    BY <1>9 DEF Joins
  <2> QED BY <2>1 DEF Scheduling, WorkPending
<1>10. ASSUME NEW t \in Threads, Commit(t) PROVE Scheduling'
  <2>1. UNCHANGED <<imm, scheduled, shutting, manual, l0, bg>>
        /\ bgError' = (bgError \/ ~w[t].synced) /\ bgWait' \subseteq bgWait
    BY <1>10 DEF Commit, RecordBackgroundError, SyncError
  <2>2. ~shutting
    BY <1>10, <1>5 DEF Commit
  <2> QED BY <1>0, <2>1, <2>2 DEF Scheduling, WorkPending
<1> QED BY <1>1, <1>3, <1>4, <1>6, <1>7, <1>8, <1>9, <1>10, Kinds

-----------------------------------------------------------------------------
(* The queue                                                               *)

\* A thread that returns from Write is out of it.
LEMMA AfterWriteIs ==
  ASSUME NEW t, NEW ok
  PROVE  AfterWrite(t, ok) \in {"idle", "flush", "range"} /\ AfterWrite(t, ok) \notin Heading \cup {"wait"}
  BY DEF AfterWrite, Heading

\* A group leaves: the next in the queue has been told.
LEMMA QueueAfterPop ==
  ASSUME WriteTypes, Queue, NEW t \in Threads, pc[t] \in Heading,
         NEW n \in DOMAIN writers, NEW ok \in BOOLEAN, PopWriters(t, writers[n], ok)
  PROVE  Queue'
<1>0. writers \in Seq(Threads) /\ n \in Nat /\ n >= 1 /\ DOMAIN writers = 1..Len(writers) /\ Len(writers) \in Nat
  BY DEF WriteTypes
<1>1. /\ writers' \in Seq(Threads)
      /\ 1 \in DOMAIN writers /\ writers[1] = t
      /\ \A i \in DOMAIN writers' : n + i \in DOMAIN writers /\ writers'[i] = writers[n + i]
      /\ \A i \in DOMAIN writers' : w'[writers'[i]] = w[writers'[i]] /\ writers'[i] # t
                                       /\ pc'[writers'[i]] = pc[writers'[i]]
      /\ \A u \in Threads : w[u].done => w'[u].done
      /\ \A i \in 2..n : w'[writers[i]].done
      /\ pc'[t] = AfterWrite(t, ok) /\ \A u \in Threads : u # t => pc'[u] = pc[u]
      /\ 1 \in DOMAIN writers' => writers'[1] \in signalled'
  BY PopIs
<1>2. \A i \in DOMAIN writers' : i \in Nat /\ i > 0
  BY <1>1
<1>3. \A i, j \in DOMAIN writers' : writers'[i] = writers'[j] => i = j
  <2> SUFFICES ASSUME NEW i \in DOMAIN writers', NEW j \in DOMAIN writers', writers'[i] = writers'[j]
               PROVE  i = j
    OBVIOUS
  <2>1. n + i = n + j
    BY <1>1 DEF Queue
  <2> QED BY <2>1, <1>0, <1>2
<1>4. ASSUME NEW i \in DOMAIN writers'
      PROVE  ~w'[writers'[i]].done /\ pc'[writers'[i]] = "wait"
  <2>1. n + i \in DOMAIN writers /\ writers'[i] = writers[n + i] /\ n + i > 1
    BY <1>0, <1>1, <1>2
  <2>2. ~w[writers[n + i]].done /\ pc[writers[n + i]] = "wait"
    BY <2>1 DEF Queue
  <2> QED BY <1>1, <2>1, <2>2
<1>5. ASSUME NEW u \in Threads, pc'[u] \in Heading PROVE FALSE
  <2>1. u # t
    BY <1>1, <1>5, AfterWriteIs
  <2>2. writers[1] = u
    BY <1>1, <1>5, <2>1 DEF Queue
  <2> QED BY <1>1, <2>1, <2>2
<1>6. ASSUME NEW u \in Threads, pc'[u] = "wait"
      PROVE  w'[u].done \/ \E i \in DOMAIN writers' : writers'[i] = u
  <2>1. u # t /\ pc[u] = "wait"
    BY <1>1, <1>6, AfterWriteIs
  <2>2. CASE w[u].done
    BY <2>2, <1>1
  <2>3. ASSUME NEW j \in DOMAIN writers, writers[j] = u PROVE w'[u].done \/ \E i \in DOMAIN writers' : writers'[i] = u
    <3>1. CASE j =< n
      <4>1. j \in 2..n
        BY <3>1, <2>1, <2>3, <1>0, <1>1
      <4> QED BY <4>1, <2>3, <1>1
    <3>2. CASE j > n
      <4>1. j - n \in DOMAIN writers' /\ n + (j - n) = j
        <5>1. Len(writers') = Len(writers) - n
          <6>1. (CHOOSE i \in DOMAIN writers : writers[i] = writers[n]) = n
            BY DEF Queue
          <6>2. writers' = SubSeq(writers, n + 1, Len(writers))
            BY <6>1 DEF PopWriters
          <6> QED BY <6>2, <1>0, Rest
        <5> QED BY <5>1, <3>2, <1>0, <1>1
      <4> QED BY <4>1, <1>1, <2>3
    <3> QED BY <3>1, <3>2, <1>0
  <2> QED BY <2>1, <2>2, <2>3 DEF Queue
<1>7. 1 \in DOMAIN writers' /\ pc'[writers'[1]] = "wait" => writers'[1] \in signalled'
  BY <1>1
<1> QED BY <1>3, <1>4, <1>5, <1>6, <1>7 DEF Queue

\* Every step keeps the queue: the head alone is awake, or has been told.
LEMMA QueueStep ==
  ASSUME ThreadsAssumption, WriteTypes, BgTypes, Queue, Groups, [Next]_vars
  PROVE  Queue'
<1>0. writers \in Seq(Threads) /\ DOMAIN writers = 1..Len(writers) /\ Len(writers) \in Nat
      /\ \A i \in DOMAIN writers : writers[i] \in Threads
  BY DEF WriteTypes
<1>1. CASE BgStep \/ Close \/ UNCHANGED vars
  <2>1. UNCHANGED <<writers, w, pc, signalled>>
    BY <1>1, BgIsQuiet
  <2> QED BY <2>1 DEF Queue
<1>2. ASSUME NEW t \in Threads, ManualStep(t) PROVE Queue'
  <2>1. /\ UNCHANGED <<writers, w, signalled>>
        /\ pc[t] \in {"flush", "flushed", "range"} /\ \A u \in Threads : u # t => pc'[u] = pc[u]
        /\ pc'[t] \in {"flush", "flushed", "range", "idle"}
    BY <1>2, ManualIsQuiet
  <2>2. \A i \in DOMAIN writers : writers[i] # t
    BY <2>1 DEF Queue, Heading
  <2>3. pc'[t] \notin Heading \cup {"wait"}
    BY <2>1 DEF Heading
  <2> QED BY <1>0, <2>1, <2>2, <2>3 DEF Queue
\* The head goes on; everybody else stays.
<1>3. ASSUME NEW t \in Threads, pc[t] \in Heading, pc'[t] \in Heading, UNCHANGED <<writers, signalled>>,
             \A u \in Threads : (u # t => pc'[u] = pc[u]) /\ w'[u].done = w[u].done
      PROVE  Queue'
  <2>1. 1 \in DOMAIN writers /\ writers[1] = t /\ \A i \in DOMAIN writers : i > 1 => writers[i] # t
    BY <1>0, <1>3 DEF Queue
  <2>2. pc'[t] # "wait" /\ pc[t] # "wait"
    BY <1>3 DEF Heading
  <2>3. \A u \in Threads : pc'[u] \in Heading => pc[u] \in Heading
    BY <1>3
  <2>4. \A i \in DOMAIN writers : pc'[writers[i]] \in Heading \cup {"wait"} /\ (i > 1 => pc'[writers[i]] = "wait")
    BY <1>0, <1>3, <2>1 DEF Queue
  <2>5. \A i \in DOMAIN writers : ~w'[writers[i]].done
    BY <1>0, <1>3 DEF Queue
  <2>6. \A u \in Threads : pc'[u] = "wait" => w'[u].done \/ \E i \in DOMAIN writers : writers[i] = u
    BY <1>3, <2>2 DEF Queue
  <2>7. \A u \in Threads : pc'[u] \in Heading => 1 \in DOMAIN writers /\ writers[1] = u
    BY <2>3 DEF Queue
  <2>8. pc'[writers[1]] # "wait"
    BY <2>1, <2>2
  <2>9. \A i, j \in DOMAIN writers : writers[i] = writers[j] => i = j
    BY DEF Queue
  <2> QED BY <1>3, <2>4, <2>5, <2>6, <2>7, <2>8, <2>9 DEF Queue
<1>4. ASSUME NEW t \in Threads, RoomStep(t) PROVE Queue'
  <2>1. /\ pc[t] \in Heading /\ pc'[t] \in Heading /\ UNCHANGED <<writers, signalled>>
        /\ \A u \in Threads : (u # t => pc'[u] = pc[u]) /\ w'[u].done = w[u].done
    BY <1>4, RoomIsQuiet DEF Heading
  <2> QED BY <1>3, <2>1
<1>5. ASSUME NEW t \in Threads, Collects(t) PROVE Queue'
  <2>1. /\ pc[t] \in Heading /\ pc'[t] \in Heading /\ UNCHANGED <<writers, signalled>>
        /\ \A u \in Threads : u # t => pc'[u] = pc[u]
    BY <1>5 DEF Collects, Heading, WriteTypes
  <2>2. w' = [w EXCEPT ![t] = [w[t] EXCEPT !.last = writers[GroupSize]]] /\ w \in [Threads -> Records]
    BY <1>5 DEF Collects, WriteTypes
  <2>3. \A u \in Threads : w'[u].done = w[u].done
    BY <2>2 DEF Records
  <2> QED BY <1>3, <2>1, <2>3
<1>6. ASSUME NEW t \in Threads, Log(t) PROVE Queue'
  <2>1. /\ pc[t] \in Heading /\ pc'[t] \in Heading /\ UNCHANGED <<writers, signalled>>
        /\ \A u \in Threads : (u # t => pc'[u] = pc[u]) /\ w'[u].done = w[u].done
    BY <1>6, LogIs DEF Heading
  <2> QED BY <1>3, <2>1
<1>7. ASSUME NEW t \in Threads, Leaves(t) PROVE Queue'
  <2>1. PICK ok \in BOOLEAN : PopWriters(t, writers[1], ok) /\ 1 \in DOMAIN writers /\ pc[t] \in Heading
    BY <1>7, LeavesIs
  <2> QED BY <2>1, QueueAfterPop
<1>8. ASSUME NEW t \in Threads, Commit(t) PROVE Queue'
  <2>1. PICK n \in DOMAIN writers : PopWriters(t, writers[n], w[t].ok) /\ w[t].ok \in BOOLEAN /\ pc[t] \in Heading
    BY <1>8, CommitIs
  <2> QED BY <2>1, QueueAfterPop
<1>9. ASSUME NEW t \in Threads, WakeWriter(t) PROVE Queue'
  <2>0. pc \in [Threads -> Pcs]
    BY DEF WriteTypes
  <2>1. UNCHANGED <<writers, w>> /\ signalled' = signalled \ {t} /\ pc[t] = "wait"
    BY <1>9 DEF WakeWriter
  <2>2. CASE w[t].done
    <3>1. pc' = [pc EXCEPT ![t] = AfterWrite(t, w[t].ok)]
      BY <1>9, <2>2 DEF WakeWriter
    <3>2. pc'[t] \notin Heading \cup {"wait"} /\ \A u \in Threads : u # t => pc'[u] = pc[u]
      BY <3>1, <2>0, AfterWriteIs
    <3>3. \A i \in DOMAIN writers : writers[i] # t
      BY <2>2 DEF Queue
    <3> QED BY <1>0, <2>1, <3>2, <3>3 DEF Queue
  <2>3. CASE ~w[t].done
    <3>1. PICK p \in DOMAIN writers : writers[p] = t
      BY <2>1, <2>3 DEF Queue
    <3>2. 1 \in DOMAIN writers /\ Head(writers) = writers[1]
      BY <1>0, <3>1
    <3>3. CASE writers[1] = t
      <4>1. pc'[t] = "room" /\ \A u \in Threads : u # t => pc'[u] = pc[u]
        BY <1>9, <2>0, <2>3, <3>2, <3>3 DEF WakeWriter
      <4>2. pc'[t] \in Heading /\ pc'[t] # "wait"
        BY <4>1 DEF Heading
      <4>3. \A i \in DOMAIN writers : i > 1 => writers[i] # t
        BY <1>0, <3>2, <3>3 DEF Queue
      <4>4. \A u \in Threads : pc'[u] \in Heading => writers[1] = u
        BY <3>3, <4>1 DEF Queue
      <4>5. \A i \in DOMAIN writers : pc'[writers[i]] \in Heading \cup {"wait"} /\ (i > 1 => pc'[writers[i]] = "wait")
        BY <1>0, <4>1, <4>2, <4>3 DEF Queue
      <4>6. \A u \in Threads : pc'[u] = "wait" => w[u].done \/ \E i \in DOMAIN writers : writers[i] = u
        BY <4>1, <4>2 DEF Queue
      <4>7. \A i, j \in DOMAIN writers : writers[i] = writers[j] => i = j
        BY DEF Queue
      <4>8. \A i \in DOMAIN writers : ~w[writers[i]].done
        BY DEF Queue
      <4> QED BY <2>1, <3>2, <3>3, <4>2, <4>4, <4>5, <4>6, <4>7, <4>8 DEF Queue
    <3>4. CASE writers[1] # t
      <4>1. pc' = pc
        BY <1>9, <2>0, <2>1, <2>3, <3>2, <3>4 DEF WakeWriter
      <4> QED BY <1>0, <2>1, <3>4, <4>1 DEF Queue
    <3> QED BY <3>3, <3>4
  <2> QED BY <2>2, <2>3
<1>10. ASSUME NEW t \in Threads, Joins(t) PROVE Queue'
  <2>1. pc[t] = "idle" /\ UNCHANGED signalled
    BY <1>10 DEF Joins
  <2>2. PICK s \in BOOLEAN, b \in Nat \cup {Nil} : Enqueue(t, b, s)
    <3>1. calls + 1 \in Nat \cup {Nil} /\ Nil \in Nat \cup {Nil}
      BY DEF WriteTypes
    <3> QED BY <1>10, <3>1 DEF Joins
  <2> DEFINE k == Len(writers) + 1
  <2>3. /\ DOMAIN writers' = 1..k
        /\ \A i \in DOMAIN writers : i \in DOMAIN writers' /\ writers'[i] = writers[i] /\ writers[i] # t
        /\ writers'[k] = t
        /\ \A u \in Threads : u # t => w'[u] = w[u] /\ pc'[u] = pc[u]
        /\ ~w'[t].done
        /\ pc'[t] = IF Len(writers) = 0 THEN "room" ELSE "wait"
    BY <2>1, <2>2, EnqueueIs
  <2>4. k \in DOMAIN writers' /\ \A i \in DOMAIN writers' : i \in DOMAIN writers \/ i = k
    BY <1>0, <2>3
  <2>5. k \in Nat /\ (Len(writers) = 0 <=> k = 1) /\ 1 \in DOMAIN writers' /\ (k # 1 <=> 1 \in DOMAIN writers)
    BY <1>0, <2>3
  <2> HIDE DEF k
  <2>6. \A i, j \in DOMAIN writers' : writers'[i] = writers'[j] => i = j
    BY <2>3, <2>4 DEF Queue
  <2>7. \A i \in DOMAIN writers' :
       /\ ~w'[writers'[i]].done
       /\ pc'[writers'[i]] \in Heading \cup {"wait"}
       /\ i > 1 => pc'[writers'[i]] = "wait"
    BY <1>0, <2>3, <2>4, <2>5 DEF Queue, Heading
  <2>8. \A u \in Threads : pc'[u] \in Heading => 1 \in DOMAIN writers' /\ writers'[1] = u
    <3> SUFFICES ASSUME NEW u \in Threads, pc'[u] \in Heading PROVE writers'[1] = u
      BY <2>5
    <3>1. CASE u = t
      BY <2>3, <2>5, <3>1 DEF Heading
    <3>2. CASE u # t
      <4>1. 1 \in DOMAIN writers /\ writers[1] = u
        BY <2>3, <3>2 DEF Queue
      <4> QED BY <4>1, <2>3
    <3> QED BY <3>1, <3>2
  <2>9. \A u \in Threads : pc'[u] = "wait" => w'[u].done \/ \E i \in DOMAIN writers' : writers'[i] = u
    BY <2>3, <2>4 DEF Queue
  <2>10. 1 \in DOMAIN writers' /\ pc'[writers'[1]] = "wait" => writers'[1] \in signalled'
    <3>1. CASE k = 1
      BY <2>3, <2>5, <3>1
    <3>2. CASE k # 1
      BY <1>0, <2>1, <2>3, <2>5, <3>2 DEF Queue
    <3> QED BY <3>1, <3>2
  <2> QED BY <2>6, <2>7, <2>8, <2>9, <2>10 DEF Queue
<1> QED BY <1>1, <1>2, <1>4, <1>5, <1>6, <1>7, <1>8, <1>9, <1>10, Kinds

-----------------------------------------------------------------------------
(* Groups                                                                  *)

\* The other steps change neither the queue nor what is logged.
LEMMA KindsOfWrites ==
  ASSUME WriteTypes, [Next]_vars
  PROVE  \/ Quiet
         \/ \E t \in Threads : Joins(t) \/ Leaves(t) \/ Collects(t) \/ Log(t) \/ Commit(t)
<1>1. CASE BgStep \/ Close \/ UNCHANGED vars
  <2>1. UNCHANGED <<writers, w, pc, log, lastSeq, calls, acked, syncFailed>>
    BY <1>1, BgIsQuiet DEF ghosts
  <2> QED BY <2>1 DEF Quiet
<1>2. ASSUME NEW t \in Threads, ManualStep(t) PROVE Quiet
  <2>1. /\ UNCHANGED <<writers, w, log, lastSeq, calls, acked, syncFailed>>
        /\ pc[t] \notin {"log", "commit"} /\ pc'[t] \notin {"log", "commit"}
        /\ \A u \in Threads : u # t => pc'[u] = pc[u]
    BY <1>2, ManualIsQuiet DEF ghosts
  <2> QED BY <2>1 DEF Quiet
<1>3. ASSUME NEW t \in Threads, RoomStep(t) PROVE Quiet
  <2>1. /\ UNCHANGED <<writers, log, lastSeq, calls, acked, syncFailed>>
        /\ pc[t] \notin {"log", "commit"} /\ pc'[t] \notin {"log", "commit"}
        /\ \A u \in Threads : u # t => pc'[u] = pc[u]
        /\ \A u \in Threads : w'[u].batch = w[u].batch /\ w'[u].sync = w[u].sync
                              /\ w'[u].last = w[u].last /\ w'[u].ok = w[u].ok
    BY <1>3, RoomIsQuiet DEF ghosts
  <2> QED BY <2>1 DEF Quiet
<1>4. ASSUME NEW t \in Threads, WakeWriter(t) PROVE Quiet
  <2>1. UNCHANGED <<writers, w, log, lastSeq, calls, acked, syncFailed>> /\ pc[t] = "wait"
        /\ pc \in [Threads -> Pcs]
    BY <1>4 DEF WakeWriter, WriteTypes, ghosts
  <2>2. PICK p : pc' = [pc EXCEPT ![t] = p] /\ p \notin {"log", "commit"}
    BY <1>4 DEF WakeWriter, AfterWrite
  <2>3. pc'[t] = p /\ \A u \in Threads : u # t => pc'[u] = pc[u]
    BY <2>1, <2>2
  <2> QED BY <2>1, <2>2, <2>3 DEF Quiet
<1> QED BY <1>1, <1>2, <1>3, <1>4, Kinds

\* A thread joins: nobody else's record, place or group changes.
LEMMA JoinsIs ==
  ASSUME WriteTypes, Queue, Groups, NEW t \in Threads, Joins(t)
  PROVE  /\ UNCHANGED <<mem, imm, log, lastSeq, tables, acked, syncFailed, bgError>>
         /\ calls \in Nat /\ calls' \in Nat /\ calls' >= calls
         /\ \/ w'[t].batch = calls + 1 /\ calls' = calls + 1
            \/ w'[t].batch = Nil /\ calls' = calls
         /\ \A u \in Threads : u # t => w'[u] = w[u] /\ pc'[u] = pc[u]
         /\ pc[t] = "idle" /\ pc'[t] \notin {"log", "commit"}
         /\ \A i \in DOMAIN writers : i \in DOMAIN writers' /\ writers'[i] = writers[i]
                                      /\ writers[i] # t /\ writers[i] \in Threads
         /\ \A i \in DOMAIN writers' : i \in Nat /\ (i \in DOMAIN writers \/ writers'[i] = t)
         /\ \A u \in Threads, n \in Nat : pc[u] \in {"log", "commit"} => (EndsAt(u, n)' <=> EndsAt(u, n))
<1>1. UNCHANGED <<mem, imm, log, lastSeq, tables, acked, syncFailed, bgError>> /\ calls \in Nat /\ pc[t] = "idle"
  BY DEF Joins, WriteTypes
<1>2. PICK s \in BOOLEAN : \/ Enqueue(t, calls + 1, s) /\ calls' = calls + 1
                           \/ Enqueue(t, Nil, s) /\ calls' = calls
  BY DEF Joins
<1>3. PICK b \in Nat \cup {Nil} : Enqueue(t, b, s) /\ ((b = calls + 1 /\ calls' = calls + 1) \/ (b = Nil /\ calls' = calls))
  <2>1. calls + 1 \in Nat \cup {Nil} /\ Nil \in Nat \cup {Nil}
    BY <1>1
  <2> QED BY <1>2, <2>1
<1>4. /\ Len(writers) \in Nat /\ DOMAIN writers = 1..Len(writers) /\ DOMAIN writers' = 1..(Len(writers) + 1)
      /\ \A i \in DOMAIN writers : i \in DOMAIN writers' /\ writers'[i] = writers[i]
                                      /\ writers[i] # t /\ writers[i] \in Threads
      /\ writers'[Len(writers) + 1] = t
      /\ \A u \in Threads : u # t => w'[u] = w[u] /\ pc'[u] = pc[u]
      /\ w'[t].batch = b
      /\ pc'[t] = IF Len(writers) = 0 THEN "room" ELSE "wait"
  BY <1>1, <1>3, EnqueueIs
<1>5. \A i \in DOMAIN writers' : i \in Nat /\ (i \in DOMAIN writers \/ i = Len(writers) + 1)
  BY <1>4
<1>6. calls' \in Nat /\ calls' >= calls
  BY <1>1, <1>3
<1>7. ASSUME NEW u \in Threads, NEW n \in Nat, pc[u] \in {"log", "commit"} PROVE EndsAt(u, n)' <=> EndsAt(u, n)
  <2>1. u # t /\ w'[u] = w[u]
    BY <1>1, <1>4, <1>7
  <2>2. PICK m \in DOMAIN writers : writers[m] = w[u].last
    BY <1>7 DEF Groups, EndsAt
  <2>3. w[u].last # t
    BY <1>4, <2>2
  <2> QED BY <1>4, <1>5, <2>1, <2>3 DEF EndsAt
<1> QED BY <1>1, <1>3, <1>4, <1>5, <1>6, <1>7

\* When a group has left nobody is in the middle of Write.
LEMMA NobodyHeads ==
  ASSUME WriteTypes, Queue, NEW t \in Threads, pc[t] \in Heading,
         NEW n \in DOMAIN writers, NEW ok \in BOOLEAN, PopWriters(t, writers[n], ok)
  PROVE  \A u \in Threads : pc'[u] \notin Heading
<1> SUFFICES ASSUME NEW u \in Threads, pc'[u] \in Heading PROVE FALSE
  OBVIOUS
<1>1. /\ writers[1] = t
      /\ pc'[t] = AfterWrite(t, ok) /\ \A v \in Threads : v # t => pc'[v] = pc[v]
  BY PopIs
<1>2. u # t
  BY <1>1, AfterWriteIs
<1>3. writers[1] = u
  BY <1>1, <1>2 DEF Queue
<1> QED BY <1>1, <1>2, <1>3

\* What a group leaves behind.
LEMMA PopGroups ==
  ASSUME WriteTypes, Queue, Groups, NEW t \in Threads, pc[t] \in Heading, calls' = calls,
         NEW n \in DOMAIN writers, NEW ok \in BOOLEAN, PopWriters(t, writers[n], ok)
  PROVE  Groups'
<1>1. \A u \in Threads : pc'[u] \notin {"log", "commit"}
  BY NobodyHeads DEF Heading
<1>2. \A u \in Threads : w'[u].batch = w[u].batch
  BY PopIs
<1> QED BY <1>1, <1>2 DEF Groups

\* What Collects does.
LEMMA CollectsIs ==
  ASSUME WriteTypes, Queue, NEW t \in Threads, Collects(t)
  PROVE  /\ UNCHANGED <<writers, mem, imm, log, lastSeq, tables, calls, acked, syncFailed, bgError>> /\ ~bgError
         /\ pc[t] = "room" /\ pc'[t] = "log" /\ \A u \in Threads : u # t => pc'[u] = pc[u] /\ w'[u] = w[u]
         /\ \A u \in Threads : w'[u].batch = w[u].batch /\ w'[u].sync = w[u].sync
         /\ \A u \in Threads : pc[u] \notin {"log", "commit"}
         /\ 1 \in DOMAIN writers /\ writers[1] = t
         /\ \E n \in DOMAIN writers : EndsAt(t, n)' /\ \A i \in 1..n : w[writers[i]].sync => w[t].sync
<1>1. UNCHANGED <<writers, mem, imm, log, lastSeq, tables, calls, acked, syncFailed, bgError>> /\ ~bgError /\ pc[t] = "room"
  BY DEF Collects, bgVars, ghosts
<1>2. /\ pc' = [pc EXCEPT ![t] = "log"] /\ w' = [w EXCEPT ![t] = [w[t] EXCEPT !.last = writers[GroupSize]]]
      /\ w \in [Threads -> Records] /\ pc \in [Threads -> Pcs] /\ w[t] \in Records
  BY DEF Collects, WriteTypes
<1>3. 1 \in DOMAIN writers /\ writers[1] = t
  BY <1>1 DEF Queue, Heading
<1>4. GroupSize \in DOMAIN writers /\ \A i \in 1..GroupSize : w[writers[i]].sync => w[t].sync
  BY <1>3, GroupEnds
<1>5. /\ pc'[t] = "log" /\ \A u \in Threads : u # t => pc'[u] = pc[u] /\ w'[u] = w[u]
      /\ w'[t].last = writers[GroupSize] /\ w'[t].batch = w[t].batch /\ w'[t].sync = w[t].sync
  BY <1>2 DEF Records
<1>6. \A u \in Threads : pc[u] \notin {"log", "commit"}
  BY <1>1, <1>3 DEF Queue, Heading
<1>7. \E n \in DOMAIN writers : EndsAt(t, n)' /\ \A i \in 1..n : w[writers[i]].sync => w[t].sync
  <2>1. PICK n \in DOMAIN writers : n = GroupSize
    BY <1>4
  <2>2. EndsAt(t, n)'
    BY <1>1, <1>5, <2>1 DEF EndsAt
  <2> QED BY <1>4, <2>1, <2>2
<1> QED BY <1>1, <1>3, <1>5, <1>6, <1>7

\* Every step keeps the groups.
LEMMA GroupsStep ==
  ASSUME ThreadsAssumption, WriteTypes, Queue, Groups, [Next]_vars
  PROVE  Groups'
<1>0. Nil \notin Nat /\ calls \in Nat /\ DOMAIN writers \subseteq Nat
      /\ \A i \in DOMAIN writers : writers[i] \in Threads /\ \A j \in 1..i : j \in DOMAIN writers
  BY DEF ThreadsAssumption, WriteTypes
<1>1. CASE Quiet
  <2>1. /\ UNCHANGED <<writers, calls>>
        /\ \A u \in Threads :
             /\ w'[u].batch = w[u].batch /\ w'[u].sync = w[u].sync /\ w'[u].last = w[u].last
             /\ pc'[u] \in {"log", "commit"} => pc[u] \in {"log", "commit"}
    BY <1>1 DEF Quiet
  <2>2. ASSUME NEW t \in Threads, pc'[t] \in {"log", "commit"}
        PROVE  \E n \in DOMAIN writers' : EndsAt(t, n)' /\ \A i \in 1..n : w'[writers'[i]].sync => w'[t].sync
    <3>1. PICK n \in DOMAIN writers : EndsAt(t, n) /\ \A i \in 1..n : w[writers[i]].sync => w[t].sync
      BY <2>1, <2>2 DEF Groups
    <3>2. EndsAt(t, n)'
      BY <2>1, <3>1 DEF EndsAt
    <3>3. \A i \in 1..n : w'[writers'[i]].sync => w'[t].sync
      BY <1>0, <2>1, <3>1
    <3> QED BY <2>1, <3>2, <3>3
  <2> QED BY <2>1, <2>2 DEF Groups
<1>2. ASSUME NEW t \in Threads, Joins(t) PROVE Groups'
  <2>1. /\ calls' \in Nat /\ calls' >= calls
        /\ \/ w'[t].batch = calls + 1 /\ calls' = calls + 1
           \/ w'[t].batch = Nil /\ calls' = calls
        /\ \A u \in Threads : u # t => w'[u] = w[u] /\ pc'[u] = pc[u]
        /\ pc[t] = "idle" /\ pc'[t] \notin {"log", "commit"}
        /\ \A i \in DOMAIN writers : i \in DOMAIN writers' /\ writers'[i] = writers[i]
                                      /\ writers[i] # t
        /\ \A u \in Threads, n \in Nat : pc[u] \in {"log", "commit"} => (EndsAt(u, n)' <=> EndsAt(u, n))
    BY <1>2, JoinsIs
  <2>2. \A u \in Threads : w'[u].batch # Nil => w'[u].batch \in 1..calls'
    BY <1>0, <2>1 DEF Groups
  <2>3. ASSUME NEW u \in Threads, NEW v \in Threads, u # v, w'[u].batch = w'[v].batch
        PROVE  w'[u].batch = Nil
    <3>1. CASE u # t /\ v # t
      BY <2>1, <2>3, <3>1 DEF Groups
    <3>2. ASSUME NEW x \in Threads, x # t, w'[x].batch = calls + 1 PROVE FALSE
      <4>1. w[x].batch = calls + 1
        BY <2>1, <3>2
      <4>2. calls + 1 \notin 1..calls /\ calls + 1 # Nil
        BY <1>0
      <4> QED BY <4>1, <4>2 DEF Groups
    <3>3. CASE u = t \/ v = t
      BY <2>1, <2>3, <3>2, <3>3
    <3> QED BY <3>1, <3>3
  <2>4. ASSUME NEW u \in Threads, pc'[u] \in {"log", "commit"}
        PROVE  \E n \in DOMAIN writers' : EndsAt(u, n)' /\ \A i \in 1..n : w'[writers'[i]].sync => w'[u].sync
    <3>1. u # t /\ pc[u] \in {"log", "commit"} /\ w'[u] = w[u]
      BY <2>1, <2>4
    <3>2. PICK n \in DOMAIN writers : EndsAt(u, n) /\ \A i \in 1..n : w[writers[i]].sync => w[u].sync
      BY <3>1 DEF Groups
    <3>3. n \in DOMAIN writers' /\ EndsAt(u, n)'
      BY <1>0, <2>1, <3>1, <3>2
    <3>4. \A i \in 1..n : w'[writers'[i]].sync => w'[u].sync
      BY <1>0, <2>1, <3>1, <3>2
    <3> QED BY <3>3, <3>4
  <2> QED BY <2>2, <2>3, <2>4 DEF Groups
<1>3. ASSUME NEW t \in Threads, Leaves(t) PROVE Groups'
  <2>1. PICK ok \in BOOLEAN : PopWriters(t, writers[1], ok) /\ 1 \in DOMAIN writers /\ pc[t] \in Heading
    BY <1>3, LeavesIs
  <2>2. calls' = calls
    BY <1>3 DEF Leaves
  <2> QED BY <2>1, <2>2, PopGroups
<1>4. ASSUME NEW t \in Threads, Commit(t) PROVE Groups'
  <2>1. PICK n \in DOMAIN writers : PopWriters(t, writers[n], w[t].ok) /\ w[t].ok \in BOOLEAN /\ pc[t] \in Heading
    BY <1>4, CommitIs
  <2>2. calls' = calls
    BY <1>4 DEF Commit
  <2> QED BY <2>1, <2>2, PopGroups
<1>5. ASSUME NEW t \in Threads, Collects(t) PROVE Groups'
  <2>1. /\ UNCHANGED <<writers, calls>>
        /\ pc'[t] = "log" /\ \A u \in Threads : u # t => pc'[u] = pc[u] /\ w'[u] = w[u]
        /\ \A u \in Threads : w'[u].batch = w[u].batch /\ w'[u].sync = w[u].sync
        /\ \A u \in Threads : pc[u] \notin {"log", "commit"}
    BY <1>5, CollectsIs
  <2>2. PICK n \in DOMAIN writers : EndsAt(t, n)' /\ \A i \in 1..n : w[writers[i]].sync => w[t].sync
    BY <1>5, CollectsIs
  <2>3. \A i \in 1..n : w'[writers'[i]].sync => w'[t].sync
    BY <1>0, <2>1, <2>2
  <2>4. \A u \in Threads : pc'[u] \in {"log", "commit"} => u = t
    BY <2>1
  <2>5. n \in DOMAIN writers'
    BY <2>1
  <2> QED BY <2>1, <2>2, <2>3, <2>4, <2>5 DEF Groups
<1>6. ASSUME NEW t \in Threads, Log(t) PROVE Groups'
  <2>1. /\ UNCHANGED <<writers, calls>> /\ pc[t] = "log"
        /\ \A u \in Threads : u # t => pc'[u] = pc[u]
        /\ \A u \in Threads : w'[u].batch = w[u].batch /\ w'[u].sync = w[u].sync /\ w'[u].last = w[u].last
    BY <1>6, LogIs DEF ghosts
  <2>2. ASSUME NEW u \in Threads, pc'[u] \in {"log", "commit"}
        PROVE  \E n \in DOMAIN writers' : EndsAt(u, n)' /\ \A i \in 1..n : w'[writers'[i]].sync => w'[u].sync
    <3>1. PICK n \in DOMAIN writers : EndsAt(u, n) /\ \A i \in 1..n : w[writers[i]].sync => w[u].sync
      BY <2>1, <2>2 DEF Groups
    <3>2. EndsAt(u, n)'
      BY <2>1, <3>1 DEF EndsAt
    <3>3. \A i \in 1..n : w'[writers'[i]].sync => w'[u].sync
      BY <1>0, <2>1, <3>1
    <3> QED BY <2>1, <3>2, <3>3
  <2> QED BY <2>1, <2>2 DEF Groups
<1> QED BY <1>1, <1>2, <1>3, <1>4, <1>5, <1>6, KindsOfWrites

\* Whoever leaves alone acknowledges nothing.
LEMMA LeavesKeeps ==
  ASSUME WriteTypes, Queue, NEW t \in Threads, Leaves(t)
  PROVE  /\ acked' = acked /\ UNCHANGED <<mem, imm, log, lastSeq, tables, calls, syncFailed, bgError>>
         /\ \A u \in Threads : pc'[u] \notin {"log", "commit"}
         /\ \A u \in Threads : w'[u].batch = w[u].batch /\ w'[u].sync = w[u].sync
         /\ \A u \in Threads : pc[u] \notin {"log", "commit"}
         /\ \A i \in DOMAIN writers' : 1 + i \in DOMAIN writers /\ writers'[i] = writers[1 + i]
         /\ pc[writers[1]] = "room"
<1>1. PICK ok \in BOOLEAN : /\ PopWriters(t, writers[1], ok) /\ 1 \in DOMAIN writers /\ pc[t] \in Heading
                            /\ ok => w[t].batch = Nil
                            /\ writers[1] = t
  BY LeavesIs
<1>2. \A u \in Threads : pc'[u] \notin {"log", "commit"}
  BY <1>1, NobodyHeads DEF Heading
<1>3. UNCHANGED <<mem, imm, log, lastSeq, tables, calls, syncFailed, bgError>> /\ pc[t] = "room"
  BY DEF Leaves, bgVars
<1>4. ASSUME NEW b PROVE b \in acked' <=> b \in acked
  <2>1. b \in acked' <=>
            b \in acked \/ (ok /\ \E i \in 1..1 : w[writers[i]].batch # Nil /\ b = w[writers[i]].batch)
    BY <1>1, PopIs
  <2>2. \A i \in 1..1 : i = 1
    OBVIOUS
  <2> QED BY <1>1, <2>1, <2>2
<1>5. acked' = acked
  <2>1. acked' = IF ok THEN acked \cup {w[x].batch : x \in {y \in ({writers[i] : i \in
                   1..(CHOOSE i \in DOMAIN writers : writers[i] = writers[1])} \ {t}) \cup {t} : w[y].batch # Nil}} ELSE acked
    BY <1>1 DEF PopWriters, Acknowledge
  <2> QED BY <1>4, <2>1
<1>6. \A u \in Threads : pc[u] \notin {"log", "commit"}
  BY <1>1, <1>3 DEF Queue, Heading
<1>7. /\ \A u \in Threads : w'[u].batch = w[u].batch /\ w'[u].sync = w[u].sync
      /\ \A i \in DOMAIN writers' : 1 + i \in DOMAIN writers /\ writers'[i] = writers[1 + i]
  BY <1>1, PopIs
<1> QED BY <1>1, <1>2, <1>3, <1>5, <1>6, <1>7

-----------------------------------------------------------------------------
(* After a failed sync                                                     *)

\* Every step keeps writes stopped after a failed sync, and acknowledges none.
LEMMA StoppedStep ==
  ASSUME ThreadsAssumption, WriteTypes, BgTypes, Queue, Groups, Stopped, [Next]_vars
  PROVE  Stopped' /\ (syncFailed => acked' = acked)
<1>0. bgError \in BOOLEAN
  BY DEF BgTypes
\* The error stays.
<1>1. bgError => bgError'
  <2>1. CASE UNCHANGED vars \/ Close
    BY <2>1 DEF vars, bgVars, Close
  <2>2. CASE BgStep
    BY <2>2 DEF BgStep, BgRefuse, BgChoose, BgBegin, BgManualDone, BgNothing, BgBuild, BgApply,
                BgPrioritize, BgWork, BgManual, BgWorked
  <2>3. ASSUME NEW t \in Threads, ManualStep(t) \/ RoomStep(t) PROVE bgError' = bgError
    BY <2>3 DEF ManualStep, FlushWait, Flushed, RangeLoop, RangeEnd,
                RoomStep, RoomDelay, Sleep, RoomWait, RoomSwitch, WakeRoom, bgVars
  <2>4. ASSUME NEW t \in Threads, WakeWriter(t) \/ Joins(t) \/ Leaves(t) \/ Collects(t) \/ Log(t)
        PROVE  bgError' = bgError
    BY <2>4 DEF WakeWriter, Joins, Leaves, Collects, Log, bgVars
  <2>5. ASSUME NEW t \in Threads, Commit(t), bgError PROVE bgError'
    BY <2>5 DEF Commit, RecordBackgroundError
  <2> QED BY <2>1, <2>2, <2>3, <2>4, <2>5, Kinds
<1>2. CASE Quiet
  BY <1>1, <1>2 DEF Quiet, Stopped
<1>3. ASSUME NEW t \in Threads, Joins(t) PROVE Stopped' /\ acked' = acked
  <2>1. UNCHANGED <<acked, syncFailed, bgError>> /\ pc'[t] \notin {"log", "commit"}
        /\ \A u \in Threads : u # t => pc'[u] = pc[u]
    BY <1>3, JoinsIs
  <2> QED BY <2>1 DEF Stopped
<1>4. ASSUME NEW t \in Threads, Leaves(t) PROVE Stopped' /\ acked' = acked
  BY <1>4, LeavesKeeps DEF Stopped
<1>5. ASSUME NEW t \in Threads, Collects(t) PROVE Stopped' /\ acked' = acked
  BY <1>5, CollectsIs DEF Stopped
<1>6. ASSUME NEW t \in Threads, Log(t) PROVE Stopped' /\ acked' = acked
  <2>1. UNCHANGED <<acked, syncFailed>> /\ pc[t] = "log"
    BY <1>6, LogIs DEF ghosts
  <2> QED BY <2>1 DEF Stopped
<1>7. ASSUME NEW t \in Threads, Commit(t) PROVE Stopped' /\ ~syncFailed
  <2>1. PICK n \in DOMAIN writers : PopWriters(t, writers[n], w[t].ok) /\ w[t].ok \in BOOLEAN /\ pc[t] \in Heading
    BY <1>7, CommitIs
  <2>2. \A u \in Threads : pc'[u] \notin {"log", "commit"}
    BY <2>1, NobodyHeads DEF Heading
  <2>3. bgError' = (bgError \/ ~w[t].synced) /\ syncFailed' = (syncFailed \/ ~w[t].synced) /\ pc[t] = "commit"
    BY <1>7 DEF Commit, RecordBackgroundError, SyncError
  <2>4. ~syncFailed
    BY <2>3 DEF Stopped
  <2> QED BY <2>2, <2>3, <2>4 DEF Stopped
<1> QED BY <1>2, <1>3, <1>4, <1>5, <1>6, <1>7, KindsOfWrites DEF Quiet

-----------------------------------------------------------------------------
(* What was acknowledged is kept                                           *)

\* What is in two sequences put together.
LEMMA Members ==
  ASSUME NEW S, NEW p \in Seq(S), NEW q \in Seq(S)
  PROVE  /\ ToSet(p \o q) = ToSet(p) \cup ToSet(q)
         /\ \A k \in DOMAIN p : p[k] \in ToSet(p)
         /\ ToSet(<<>>) = {}
<1>1. \A k \in DOMAIN p : p[k] \in ToSet(p)
  BY DEF ToSet
<1>2. ToSet(<<>>) = {}
  BY DEF ToSet
<1> DEFINE r == p \o q
<1>3. /\ Len(p) \in Nat /\ Len(q) \in Nat /\ DOMAIN p = 1..Len(p) /\ DOMAIN q = 1..Len(q)
      /\ DOMAIN r = 1..(Len(p) + Len(q))
      /\ \A i \in 1..(Len(p) + Len(q)) : r[i] = IF i =< Len(p) THEN p[i] ELSE q[i - Len(p)]
  BY ConcatProperties
<1> HIDE DEF r
<1>4. ASSUME NEW i \in DOMAIN r PROVE r[i] \in ToSet(p) \cup ToSet(q)
  <2>1. CASE i =< Len(p)
    <3>1. i \in DOMAIN p /\ r[i] = p[i]
      BY <1>3, <2>1
    <3> QED BY <3>1 DEF ToSet
  <2>2. CASE ~(i =< Len(p))
    <3>1. i - Len(p) \in DOMAIN q /\ r[i] = q[i - Len(p)]
      BY <1>3, <2>2
    <3> QED BY <3>1 DEF ToSet
  <2> QED BY <2>1, <2>2
<1>5. ASSUME NEW i \in DOMAIN p PROVE p[i] \in ToSet(r)
  <2>1. i \in DOMAIN r /\ r[i] = p[i]
    BY <1>3
  <2> QED BY <2>1 DEF ToSet
<1>6. ASSUME NEW i \in DOMAIN q PROVE q[i] \in ToSet(r)
  <2>1. Len(p) + i \in DOMAIN r /\ ~(Len(p) + i =< Len(p)) /\ (Len(p) + i) - Len(p) = i
    BY <1>3
  <2>2. r[Len(p) + i] = q[i]
    BY <1>3, <2>1
  <2> QED BY <2>1, <2>2 DEF ToSet
<1>7. ToSet(r) = ToSet(p) \cup ToSet(q)
  <2>1. \A x \in ToSet(r) : \E i \in DOMAIN r : x = r[i]
    BY DEF ToSet
  <2>2. \A x \in ToSet(p) : \E i \in DOMAIN p : x = p[i]
    BY DEF ToSet
  <2>3. \A x \in ToSet(q) : \E i \in DOMAIN q : x = q[i]
    BY DEF ToSet
  <2> QED BY <1>4, <1>5, <1>6, <2>1, <2>2, <2>3
<1> QED BY <1>1, <1>2, <1>7 DEF r

\* Where batches are kept.
Held == tables \cup ToSet(mem) \cup (IF imm = Nil THEN {} ELSE ToSet(imm))

\* Only Log adds to what is held; nothing is ever taken away.
LEMMA HeldStays ==
  ASSUME ThreadsAssumption, WriteTypes, BgTypes, Queue, Groups, [Next]_vars
  PROVE  /\ Held \subseteq Held'
         /\ mem' = mem \/ \A u \in Threads : pc'[u] = "commit" => \E t \in Threads : Log(t)
<1>0. mem \in Seq(Nat) /\ imm \in Seq(Nat) \cup {Nil} /\ Nil \notin Seq(Nat)
  BY DEF WriteTypes, ThreadsAssumption
<1>1. ASSUME UNCHANGED <<mem, imm, tables>> PROVE Held \subseteq Held' /\ mem' = mem
  BY <1>1 DEF Held
<1>2. CASE Close \/ UNCHANGED vars
  BY <1>1, <1>2 DEF Close, vars, writeVars, bgVars
<1>3. CASE BgStep
  <2>1. CASE UNCHANGED <<mem, imm, tables>>
    BY <1>1, <2>1
  <2>2. ASSUME NEW from, NEW back, BgApply(from, back), bg \in {"apply", "wapply", "mapply"}
        PROVE  Held \subseteq Held' /\ mem' = mem
    <3>1. mem' = mem
      BY <2>2 DEF BgApply
    <3>2. \/ tables' = tables \cup ToSet(imm) /\ imm' = Nil
          \/ tables' = tables /\ imm' = imm
      BY <2>2 DEF BgApply, Installed
    <3> QED BY <3>1, <3>2 DEF Held
  <2>3. UNCHANGED <<mem, imm, tables>> \/ BgApply("apply", "end") \/ BgApply("wapply", "work") \/ BgApply("mapply", "manual")
    BY <1>3 DEF BgStep, BgRefuse, BgChoose, BgBegin, BgManualDone, BgNothing, BgBuild,
                BgPrioritize, BgWork, BgManual, writeVars
  <2>4. \A from, back : BgApply(from, back) => bg = from
    BY DEF BgApply
  <2> QED BY <2>1, <2>2, <2>3, <2>4
<1>4. ASSUME NEW t \in Threads, ManualStep(t) \/ WakeWriter(t) \/ Joins(t) \/ Leaves(t) \/ Collects(t) \/ Commit(t)
      PROVE  UNCHANGED <<mem, imm, tables>>
  BY <1>4 DEF ManualStep, FlushWait, Flushed, RangeLoop, RangeEnd, WakeWriter, Joins, Leaves, Collects,
              Commit, bgVars
<1>5. ASSUME NEW t \in Threads, RoomStep(t)
      PROVE  Held \subseteq Held' /\ (mem' = mem \/ \A u \in Threads : pc'[u] # "commit")
  <2>1. CASE UNCHANGED <<mem, imm, tables>>
    BY <1>1, <2>1
  <2>2. CASE imm = Nil /\ imm' = mem /\ mem' = <<>> /\ tables' = tables
    <3>1. Held \subseteq Held'
      BY <1>0, <2>2, Members DEF Held
    <3>2. pc[t] \in Heading /\ pc'[t] # "commit" /\ \A u \in Threads : u # t => pc'[u] = pc[u]
      BY <1>5, RoomIsQuiet DEF Heading
    <3>3. \A u \in Threads : pc'[u] # "commit"
      BY <3>2 DEF Queue, Heading
    <3> QED BY <3>1, <3>3
  <2> QED BY <1>5, <2>1, <2>2 DEF RoomStep, RoomDelay, Sleep, RoomWait, RoomSwitch, WakeRoom, bgVars
<1>6. ASSUME NEW t \in Threads, Log(t) PROVE Held \subseteq Held'
  <2>1. UNCHANGED <<imm, tables>>
    BY <1>6, LogIs DEF bgVars
  <2>2. PICK n \in DOMAIN writers : mem' = mem \/ mem' = mem \o BatchesOf(writers, w, n)
    BY <1>6, LogIs
  <2>3. BatchesOf(writers, w, n) \in Seq(Nat)
    BY GroupHolds DEF WriteTypes
  <2> DEFINE g == BatchesOf(writers, w, n)
  <2>4. ToSet(mem \o g) = ToSet(mem) \cup ToSet(g)
    <3> HIDE DEF g
    <3> QED BY <1>0, <2>3, Members DEF g
  <2>5. ToSet(mem) \subseteq ToSet(mem')
    BY <2>2, <2>4
  <2> QED BY <2>1, <2>5 DEF Held
<1> QED BY <1>1, <1>2, <1>3, <1>4, <1>5, <1>6, Kinds

\* Every step keeps what was acknowledged.
LEMMA KeptStep ==
  ASSUME ThreadsAssumption, WriteTypes, BgTypes, Queue, Groups, Queue', Kept, [Next]_vars
  PROVE  Kept'
<1>0. \A i \in DOMAIN writers : writers[i] \in Threads /\ i \in Nat /\ \A j \in 1..i : j \in DOMAIN writers
  BY DEF WriteTypes
<1>1. Held \subseteq Held' /\ (mem' = mem \/ \A u \in Threads : pc'[u] = "commit" => \E t \in Threads : Log(t))
  BY HeldStays
<1>2. acked \subseteq Held /\ (AckedIsKept' <=> acked' \subseteq Held')
  BY DEF Kept, AckedIsKept, Held
<1>3. ASSUME \A u \in Threads : pc'[u] # "commit", acked' = acked PROVE Kept'
  BY <1>1, <1>2, <1>3 DEF Kept
<1>4. CASE (\E t \in Threads : Leaves(t) \/ Collects(t))
  <2>1. acked' = acked
    BY <1>4, LeavesKeeps, CollectsIs
  <2>2. \A u \in Threads : pc'[u] # "commit"
    BY <1>4, LeavesKeeps, CollectsIs
  <2> QED BY <1>3, <2>1, <2>2
<1>5. ASSUME NEW t \in Threads, Log(t) PROVE Kept'
  <2>1. /\ UNCHANGED <<writers, acked>> /\ writers[1] = t /\ 1 \in DOMAIN writers
        /\ pc[t] = "log" /\ \A u \in Threads : u # t => pc'[u] = pc[u]
        /\ \A u \in Threads : w'[u].batch = w[u].batch /\ w'[u].last = w[u].last
    BY <1>5, LogIs DEF ghosts
  <2>2. PICK n \in DOMAIN writers : EndsAt(t, n) /\ (mem' = mem \o BatchesOf(writers, w, n) \/ ~w'[t].ok)
    BY <1>5, LogIs
  <2>3. ASSUME NEW u \in Threads, pc'[u] = "commit", w'[u].ok, NEW m \in DOMAIN writers', EndsAt(u, m)',
               NEW i \in 1..m, w'[writers'[i]].batch # Nil
        PROVE  w'[writers'[i]].batch \in ToSet(mem')
    <3>1. u = t
      BY <2>1, <2>3 DEF Queue, Heading
    <3>2. m = n
      BY <2>1, <2>2, <2>3, <3>1 DEF EndsAt, Queue
    <3>3. writers \in Seq(Threads) /\ w \in [Threads -> Records] /\ mem \in Seq(Nat)
      BY DEF WriteTypes
    <3> DEFINE g == BatchesOf(writers, w, n)
    <3>4. g \in Seq(Nat) /\ \A j \in 1..n : w[writers[j]].batch # Nil => \E k \in DOMAIN g : g[k] = w[writers[j]].batch
      BY <3>3, GroupHolds
    <3>5. mem' = mem \o g
      BY <2>2, <2>3, <3>1
    <3> HIDE DEF g
    <3>6. w'[writers'[i]].batch = w[writers[i]].batch /\ i \in 1..n
      BY <1>0, <2>1, <3>2
    <3>7. PICK k \in DOMAIN g : g[k] = w[writers[i]].batch
      BY <2>3, <3>4, <3>6
    <3>8. g[k] \in ToSet(g) /\ ToSet(mem \o g) = ToSet(mem) \cup ToSet(g)
      BY <3>3, <3>4, Members
    <3> QED BY <3>5, <3>6, <3>7, <3>8
  <2> QED BY <1>1, <1>2, <2>1, <2>3 DEF Kept
<1>6. ASSUME NEW t \in Threads, Commit(t) PROVE Kept'
  <2>1. PICK n \in DOMAIN writers : /\ PopWriters(t, writers[n], w[t].ok) /\ w[t].ok \in BOOLEAN /\ pc[t] \in Heading
                                    /\ EndsAt(t, n)
    BY <1>6, CommitIs
  <2>2. \A u \in Threads : pc'[u] # "commit"
    BY <2>1, NobodyHeads DEF Heading
  <2>3. mem' = mem /\ pc[t] = "commit"
    BY <1>6 DEF Commit
  <2>4. ASSUME NEW b, b \in acked' PROVE b \in Held'
    <3>1. CASE b \in acked
      BY <1>1, <1>2, <3>1
    <3>2. CASE b \notin acked
      <4>1. PICK i \in 1..n : w[t].ok /\ w[writers[i]].batch # Nil /\ b = w[writers[i]].batch
        BY <2>1, <2>4, <3>2, PopIs
      <4>2. b \in ToSet(mem)
        BY <2>1, <2>3, <4>1 DEF Kept
      <4> QED BY <2>3, <4>2 DEF Held
    <3> QED BY <3>1, <3>2
  <2> QED BY <1>2, <2>2, <2>4 DEF Kept
<1>7. ASSUME ~(\E t \in Threads : Log(t)), Quiet PROVE Kept'
  <2>1. /\ UNCHANGED <<writers, acked>>
        /\ \A u \in Threads :
             /\ w'[u].batch = w[u].batch /\ w'[u].last = w[u].last /\ w'[u].ok = w[u].ok
             /\ pc'[u] = "commit" => pc[u] = "commit"
    BY <1>7 DEF Quiet
  <2>2. ASSUME NEW u \in Threads, pc'[u] = "commit", w'[u].ok, NEW m \in DOMAIN writers', EndsAt(u, m)',
               NEW i \in 1..m, w'[writers'[i]].batch # Nil
        PROVE  w'[writers'[i]].batch \in ToSet(mem')
    <3>1. mem' = mem
      BY <1>1, <1>7, <2>2
    <3>2. pc[u] = "commit" /\ w[u].ok /\ EndsAt(u, m) /\ m \in DOMAIN writers
      BY <2>1, <2>2 DEF EndsAt
    <3>3. w'[writers'[i]].batch = w[writers[i]].batch
      BY <1>0, <2>1, <3>2
    <3> QED BY <2>2, <3>1, <3>2, <3>3 DEF Kept
  <2> QED BY <1>1, <1>2, <2>1, <2>2 DEF Kept
<1>8. ASSUME NEW t \in Threads, Joins(t) PROVE Kept'
  <2>1. /\ UNCHANGED <<mem, acked>>
        /\ \A u \in Threads : u # t => w'[u] = w[u] /\ pc'[u] = pc[u]
        /\ pc'[t] \notin {"log", "commit"}
        /\ \A i \in DOMAIN writers : writers'[i] = writers[i] /\ writers[i] # t /\ writers[i] \in Threads
        /\ \A u \in Threads, n \in Nat : pc[u] \in {"log", "commit"} => (EndsAt(u, n)' <=> EndsAt(u, n))
        /\ \A i \in DOMAIN writers' : i \in Nat
    BY <1>8, JoinsIs
  <2>2. ASSUME NEW u \in Threads, pc'[u] = "commit", w'[u].ok, NEW m \in DOMAIN writers', EndsAt(u, m)',
               NEW i \in 1..m, w'[writers'[i]].batch # Nil
        PROVE  w'[writers'[i]].batch \in ToSet(mem')
    <3>1. u # t /\ pc[u] = "commit" /\ w[u].ok
      BY <2>1, <2>2
    <3>2. EndsAt(u, m) /\ m \in DOMAIN writers
      BY <2>1, <2>2, <3>1 DEF EndsAt
    <3>3. i \in DOMAIN writers
      BY <1>0, <3>2
    <3>4. w'[writers'[i]].batch = w[writers[i]].batch
      BY <2>1, <3>3
    <3> QED BY <2>1, <2>2, <3>1, <3>2, <3>4 DEF Kept
  <2> QED BY <1>1, <1>2, <2>1, <2>2 DEF Kept
<1> QED BY <1>4, <1>5, <1>6, <1>7, <1>8, KindsOfWrites

-----------------------------------------------------------------------------
(* The log and its numbers                                                 *)

\* The group of a head that is still there when others have moved.
LEMMA SameGroup ==
  ASSUME Queue, Queue', NEW u, NEW n \in Nat, EndsAt(u, n), EndsAt(u, n)',
         \A i \in 1..n : w'[writers'[i]].batch = w[writers[i]].batch
  PROVE  GroupOf(u)' = GroupOf(u)
<1>1. GroupOf(u) = BatchesOf(writers, w, n)
  BY GroupIs
<1>2. (CHOOSE i \in DOMAIN writers' : writers'[i] = w'[u].last) = n
  BY DEF Queue, EndsAt
<1>3. GroupOf(u)' = BatchesOf(writers', w', CHOOSE i \in DOMAIN writers' : writers'[i] = w'[u].last)
  BY DEF GroupOf, BatchesOf, Filled, Nth, Rank
<1>4. BatchesOf(writers', w', n) = BatchesOf(writers, w, n)
  BY GroupStays
<1> QED BY <1>1, <1>2, <1>3, <1>4

\* Log appends a group, or part of the log stays as it was.
LEMMA LogGrows ==
  ASSUME WriteTypes, Queue, Groups, NEW t \in Threads, Log(t)
  PROVE  \E n \in DOMAIN writers :
           /\ EndsAt(t, n)
           /\ LET g == BatchesOf(writers, w, n) IN
              \/ log' = log /\ ~w'[t].ok
              \/ /\ \A i \in DOMAIN log : /\ i \in DOMAIN log' /\ log'[i].id = log[i].id
                                          /\ log'[i].seq = log[i].seq /\ (log[i].synced => log'[i].synced)
                 /\ \A k \in DOMAIN g : /\ Len(log) + k \in DOMAIN log' /\ log'[Len(log) + k].id = g[k]
                                        /\ log'[Len(log) + k].seq = lastSeq + k
                                        /\ w'[t].ok /\ w[t].sync => log'[Len(log) + k].synced
                 /\ \A i \in DOMAIN log' : i \in DOMAIN log \/ \E k \in DOMAIN g : i = Len(log) + k
<1>1. PICK n \in DOMAIN writers :
              /\ EndsAt(t, n)
              /\ LET g == BatchesOf(writers, w, n) IN
                 \/ /\ log' = IF w[t].sync THEN AllSynced(log \o NewEntries(g, TRUE))
                              ELSE log \o NewEntries(g, FALSE)
                    /\ mem' = mem \o g
                 \/ /\ log' \in {log, log \o NewEntries(g, FALSE)}
                    /\ ~w'[t].ok /\ mem' = mem
  BY LogIs
<1> DEFINE g == BatchesOf(writers, w, n)
           Grown(l, s) ==
             /\ l \in Seq(Entries)
             /\ \A i \in DOMAIN log : /\ i \in DOMAIN l /\ l[i].id = log[i].id
                                      /\ l[i].seq = log[i].seq /\ (log[i].synced => l[i].synced)
             /\ \A k \in DOMAIN g : /\ Len(log) + k \in DOMAIN l /\ l[Len(log) + k].id = g[k]
                                    /\ l[Len(log) + k].seq = lastSeq + k
                                    /\ s => l[Len(log) + k].synced
             /\ \A i \in DOMAIN l : i \in DOMAIN log \/ \E k \in DOMAIN g : i = Len(log) + k
<1>2. g \in Seq(Nat)
  BY GroupHolds DEF WriteTypes
<1> HIDE DEF g
<1>3. ASSUME NEW s \in BOOLEAN PROVE Grown(log \o NewEntries(g, s), s)
  <2> DEFINE l == log \o NewEntries(g, s)
  <2>1. /\ l \in Seq(Entries)
        /\ \A i \in DOMAIN log : i \in DOMAIN l /\ l[i] = log[i]
        /\ \A k \in DOMAIN g : /\ Len(log) + k \in DOMAIN l
                               /\ l[Len(log) + k] = [id |-> g[k], seq |-> lastSeq + k, synced |-> s]
        /\ \A i \in DOMAIN l : i \in DOMAIN log \/ \E k \in DOMAIN g : i = Len(log) + k
    BY <1>2, EntriesIs
  <2> HIDE DEF l
  <2>2. ASSUME NEW k \in DOMAIN g PROVE l[Len(log) + k].id = g[k] /\ l[Len(log) + k].seq = lastSeq + k
    <3>1. l[Len(log) + k] = [id |-> g[k], seq |-> lastSeq + k, synced |-> s]
      BY <2>1
    <3>2. s = TRUE \/ s = FALSE
      OBVIOUS
    <3> QED BY <3>1, <3>2
  <2>3. ASSUME NEW k \in DOMAIN g, s PROVE l[Len(log) + k].synced
    <3>1. s = TRUE
      BY <2>3
    <3>2. l[Len(log) + k] = [id |-> g[k], seq |-> lastSeq + k, synced |-> TRUE]
      BY <2>1, <3>1
    <3> QED BY <3>2
  <2>4. Grown(l, s)
    BY <2>1, <2>2, <2>3
  <2> QED BY <2>4 DEF l
<1>4. Grown(AllSynced(log \o NewEntries(g, TRUE)), TRUE)
  <2> DEFINE l == log \o NewEntries(g, TRUE)
             a == AllSynced(l)
  <2>1. Grown(l, TRUE)
    BY <1>3
  <2> HIDE DEF l
  <2>2. /\ a \in Seq(Entries) /\ DOMAIN a = DOMAIN l
        /\ \A i \in DOMAIN l : /\ a[i].id = l[i].id /\ a[i].seq = l[i].seq
                               /\ l[i].synced => a[i].synced
    BY <2>1, SyncedIs
  <2> HIDE DEF a
  <2>3. Grown(a, TRUE)
    BY <2>1, <2>2
  <2> QED BY <2>3 DEF a, l
<1>5. \/ log' = log /\ ~w'[t].ok
      \/ w[t].sync /\ log' = AllSynced(log \o NewEntries(g, TRUE))
      \/ log' = log \o NewEntries(g, FALSE) /\ (~w[t].sync \/ ~w'[t].ok)
  BY <1>1 DEF g
<1>6. (log' = log /\ ~w'[t].ok) \/ \E s \in BOOLEAN : Grown(log', s) /\ (w'[t].ok /\ w[t].sync => s)
  <2>1. CASE w[t].sync /\ log' = AllSynced(log \o NewEntries(g, TRUE))
    <3>1. Grown(log', TRUE)
      BY <1>4, <2>1
    <3> HIDE DEF Grown
    <3> QED BY <3>1
  <2>2. CASE log' = log \o NewEntries(g, FALSE) /\ (~w[t].sync \/ ~w'[t].ok)
    <3>1. Grown(log', FALSE)
      BY <1>3, <2>2
    <3> HIDE DEF Grown
    <3> QED BY <3>1, <2>2
  <2> QED BY <1>5, <2>1, <2>2
<1>7. \/ log' = log /\ ~w'[t].ok
      \/ /\ \A i \in DOMAIN log : /\ i \in DOMAIN log' /\ log'[i].id = log[i].id
                                  /\ log'[i].seq = log[i].seq /\ (log[i].synced => log'[i].synced)
         /\ \A k \in DOMAIN g : /\ Len(log) + k \in DOMAIN log' /\ log'[Len(log) + k].id = g[k]
                                /\ log'[Len(log) + k].seq = lastSeq + k
                                /\ w'[t].ok /\ w[t].sync => log'[Len(log) + k].synced
         /\ \A i \in DOMAIN log' : i \in DOMAIN log \/ \E k \in DOMAIN g : i = Len(log) + k
  <2>1. CASE log' = log /\ ~w'[t].ok
    BY <2>1
  <2>2. ASSUME NEW s \in BOOLEAN, Grown(log', s), w'[t].ok /\ w[t].sync => s
        PROVE  /\ \A i \in DOMAIN log : /\ i \in DOMAIN log' /\ log'[i].id = log[i].id
                                        /\ log'[i].seq = log[i].seq /\ (log[i].synced => log'[i].synced)
               /\ \A k \in DOMAIN g : /\ Len(log) + k \in DOMAIN log' /\ log'[Len(log) + k].id = g[k]
                                      /\ log'[Len(log) + k].seq = lastSeq + k
                                      /\ w'[t].ok /\ w[t].sync => log'[Len(log) + k].synced
               /\ \A i \in DOMAIN log' : i \in DOMAIN log \/ \E k \in DOMAIN g : i = Len(log) + k
    BY <2>2
  <2> HIDE DEF Grown
  <2> QED BY <1>6, <2>1, <2>2
<1> QED BY <1>1, <1>7 DEF g

\* Every step keeps the log in the order of its numbers.
LEMMA NumberedStep ==
  ASSUME ThreadsAssumption, WriteTypes, Queue, Groups, Queue', Numbered, [Next]_vars
  PROVE  Numbered'
<1>0. \A i \in DOMAIN writers : writers[i] \in Threads /\ i \in Nat /\ \A j \in 1..i : j \in DOMAIN writers
  BY DEF WriteTypes
<1>00. /\ lastSeq \in Nat /\ log \in Seq(Entries) /\ Len(log) \in Nat /\ DOMAIN log = 1..Len(log)
       /\ \A i \in DOMAIN log : log[i].seq \in Nat
  <2>1. lastSeq \in Nat /\ log \in Seq(Entries) /\ Len(log) \in Nat /\ DOMAIN log = 1..Len(log)
    BY DEF WriteTypes
  <2>2. \A i \in DOMAIN log : log[i] \in Entries
    BY <2>1
  <2> QED BY <2>1, <2>2 DEF Entries
\* The log stays, and so does the group of whoever is committing.
<1>1. ASSUME UNCHANGED <<log, lastSeq>>,
             \A u \in Threads : pc[u] = "commit" => pc'[u] = "commit" /\ GroupOf(u)' = GroupOf(u)
      PROVE  Numbered'
  <2>1. ASSUME NEW i \in DOMAIN log'
        PROVE  log'[i].seq =< lastSeq' \/ \E t \in Threads : pc'[t] = "commit" /\ log'[i].seq =< lastSeq' + Len(GroupOf(t)')
    <3>1. CASE log[i].seq =< lastSeq
      BY <1>1, <3>1
    <3>2. ASSUME NEW t \in Threads, pc[t] = "commit", log[i].seq =< lastSeq + Len(GroupOf(t))
          PROVE  pc'[t] = "commit" /\ log'[i].seq =< lastSeq' + Len(GroupOf(t)')
      BY <1>1, <3>2
    <3>3. i \in DOMAIN log
      BY <1>1
    <3> QED BY <3>1, <3>2, <3>3 DEF Numbered
  <2>2. SequencesIncrease'
    BY <1>1 DEF Numbered, SequencesIncrease
  <2> QED BY <2>1, <2>2 DEF Numbered
<1>2. CASE Quiet
  <2>1. /\ UNCHANGED <<writers, log, lastSeq>>
        /\ \A u \in Threads :
             /\ w'[u].batch = w[u].batch /\ w'[u].last = w[u].last
             /\ pc[u] = "commit" => pc'[u] = "commit"
    BY <1>2 DEF Quiet
  <2>2. ASSUME NEW u \in Threads, pc[u] = "commit" PROVE GroupOf(u)' = GroupOf(u)
    <3>1. PICK n \in DOMAIN writers : EndsAt(u, n)
      BY <2>2 DEF Groups
    <3>2. EndsAt(u, n)' /\ \A i \in 1..n : w'[writers'[i]].batch = w[writers[i]].batch
      BY <1>0, <2>1, <3>1 DEF EndsAt
    <3> QED BY <1>0, <3>1, <3>2, SameGroup
  <2> QED BY <1>1, <2>1, <2>2
<1>3. ASSUME NEW t \in Threads, Joins(t) PROVE Numbered'
  <2>1. /\ UNCHANGED <<log, lastSeq>> /\ pc[t] = "idle"
        /\ \A u \in Threads : u # t => w'[u] = w[u] /\ pc'[u] = pc[u]
        /\ \A i \in DOMAIN writers : writers'[i] = writers[i] /\ writers[i] # t
        /\ \A u \in Threads, n \in Nat : pc[u] \in {"log", "commit"} => (EndsAt(u, n)' <=> EndsAt(u, n))
    BY <1>3, JoinsIs
  <2>2. ASSUME NEW u \in Threads, pc[u] = "commit" PROVE pc'[u] = "commit" /\ GroupOf(u)' = GroupOf(u)
    <3>1. PICK n \in DOMAIN writers : EndsAt(u, n)
      BY <2>2 DEF Groups
    <3>2. EndsAt(u, n)' /\ \A i \in 1..n : w'[writers'[i]].batch = w[writers[i]].batch
      BY <1>0, <2>1, <2>2, <3>1
    <3> QED BY <1>0, <2>1, <2>2, <3>1, <3>2, SameGroup
  <2> QED BY <1>1, <2>1, <2>2
<1>4. ASSUME NEW t \in Threads, Leaves(t) \/ Collects(t) PROVE Numbered'
  <2>1. UNCHANGED <<log, lastSeq>> /\ \A u \in Threads : pc[u] # "commit"
    BY <1>4, LeavesKeeps, CollectsIs
  <2> QED BY <1>1, <2>1
<1>5. ASSUME NEW t \in Threads, Commit(t) PROVE Numbered'
  <2>1. PICK n \in DOMAIN writers : EndsAt(t, n) /\ lastSeq' = lastSeq + Len(BatchesOf(writers, w, n))
                                    /\ pc[t] \in Heading
    BY <1>5, CommitIs
  <2>2. log' = log
    BY <1>5 DEF Commit
  <2>3. GroupOf(t) = BatchesOf(writers, w, n)
    BY <2>1, GroupIs
  <2> DEFINE g == BatchesOf(writers, w, n)
  <2>4. g \in Seq(Nat)
    BY GroupHolds DEF WriteTypes
  <2>5. \A u \in Threads : pc[u] = "commit" => u = t
    BY <2>1 DEF Queue, Heading
  <2>6. ASSUME NEW i \in DOMAIN log' PROVE log'[i].seq =< lastSeq'
    <3>1. i \in DOMAIN log /\ (log[i].seq =< lastSeq \/ log[i].seq =< lastSeq + Len(g))
      BY <2>2, <2>3, <2>5 DEF Numbered
    <3> HIDE DEF g
    <3>2. Len(g) \in Nat
      BY <2>4
    <3>3. lastSeq' = lastSeq + Len(g)
      BY <2>1 DEF g
    <3> QED BY <1>00, <2>2, <3>1, <3>2, <3>3
  <2>7. SequencesIncrease'
    BY <2>2 DEF Numbered, SequencesIncrease
  <2> QED BY <2>6, <2>7 DEF Numbered
<1>6. ASSUME NEW t \in Threads, Log(t) PROVE Numbered'
  <2>1. /\ UNCHANGED <<writers, lastSeq>> /\ pc[t] = "log" /\ pc'[t] = "commit"
        /\ \A u \in Threads : w'[u].batch = w[u].batch /\ w'[u].last = w[u].last
    BY <1>6, LogIs
  <2>2. PICK n \in DOMAIN writers :
           /\ EndsAt(t, n)
           /\ LET g == BatchesOf(writers, w, n) IN
              \/ log' = log /\ ~w'[t].ok
              \/ /\ \A i \in DOMAIN log : i \in DOMAIN log' /\ log'[i].seq = log[i].seq
                 /\ \A k \in DOMAIN g : Len(log) + k \in DOMAIN log' /\ log'[Len(log) + k].seq = lastSeq + k
                 /\ \A i \in DOMAIN log' : i \in DOMAIN log \/ \E k \in DOMAIN g : i = Len(log) + k
    BY <1>6, LogGrows
  <2> DEFINE g == BatchesOf(writers, w, n)
  <2>3. g \in Seq(Nat) /\ Len(g) \in Nat /\ DOMAIN g = 1..Len(g)
    <3>1. g \in Seq(Nat)
      BY GroupHolds DEF WriteTypes
    <3> HIDE DEF g
    <3> QED BY <3>1
  <2>4. GroupOf(t)' = g
    <3>1. EndsAt(t, n)' /\ \A i \in 1..n : w'[writers'[i]].batch = w[writers[i]].batch
      BY <1>0, <2>1, <2>2 DEF EndsAt
    <3>2. GroupOf(t)' = GroupOf(t)
      BY <1>0, <2>2, <3>1, SameGroup
    <3>3. GroupOf(t) = g
      BY <2>2, GroupIs
    <3> QED BY <3>2, <3>3
  <2>5. \A i \in DOMAIN log : log[i].seq =< lastSeq
    BY <2>1 DEF Numbered, Queue, Heading
  <2>6. \/ log' = log
        \/ /\ \A i \in DOMAIN log : i \in DOMAIN log' /\ log'[i].seq = log[i].seq
           /\ \A k \in DOMAIN g : Len(log) + k \in DOMAIN log' /\ log'[Len(log) + k].seq = lastSeq + k
           /\ \A i \in DOMAIN log' : i \in DOMAIN log \/ \E k \in DOMAIN g : i = Len(log) + k
    BY <2>2
  <2> HIDE DEF g
  <2>7. ASSUME NEW i \in DOMAIN log' PROVE log'[i].seq =< lastSeq + Len(g)
    <3>1. CASE i \in DOMAIN log
      <4>1. log'[i].seq = log[i].seq
        BY <2>6, <3>1
      <4> QED BY <1>00, <2>3, <2>5, <3>1, <4>1
    <3>2. CASE i \notin DOMAIN log
      <4>1. PICK k \in DOMAIN g : i = Len(log) + k
        BY <2>6, <3>2
      <4>2. log'[i].seq = lastSeq + k
        BY <2>6, <3>2, <4>1
      <4> QED BY <1>00, <2>3, <4>2
    <3> QED BY <3>1, <3>2
  <2>8. ASSUME NEW i \in DOMAIN log', NEW j \in DOMAIN log', i < j PROVE log'[i].seq < log'[j].seq
    <3>1. CASE log' = log
      BY <2>8, <3>1 DEF Numbered, SequencesIncrease
    <3>2. CASE log' # log
      <4>1. CASE i \in DOMAIN log /\ j \in DOMAIN log
        BY <2>6, <2>8, <3>2, <4>1 DEF Numbered, SequencesIncrease
      <4>2. ASSUME i \in DOMAIN log, NEW k \in DOMAIN g, j = Len(log) + k PROVE log'[i].seq < log'[j].seq
        BY <1>00, <2>3, <2>5, <2>6, <3>2, <4>2
      <4>3. ASSUME NEW l \in DOMAIN g, i = Len(log) + l, NEW k \in DOMAIN g, j = Len(log) + k
            PROVE  log'[i].seq < log'[j].seq
        <5>1. l < k
          BY <1>00, <2>3, <2>8, <4>3
        <5>2. log'[i].seq = lastSeq + l /\ log'[j].seq = lastSeq + k
          BY <2>6, <3>2, <4>3
        <5> QED BY <1>00, <2>3, <5>1, <5>2
      <4>4. ASSUME NEW l \in DOMAIN g, i = Len(log) + l, j \in DOMAIN log PROVE FALSE
        BY <1>00, <2>3, <2>8, <4>4
      <4> QED BY <2>6, <3>2, <4>1, <4>2, <4>3, <4>4
    <3> QED BY <3>1, <3>2
  <2>9. \A i \in DOMAIN log' : pc'[t] = "commit" /\ log'[i].seq =< lastSeq' + Len(GroupOf(t)')
    BY <2>1, <2>4, <2>7
  <2>10. SequencesIncrease'
    BY <2>8 DEF SequencesIncrease
  <2> QED BY <2>9, <2>10 DEF Numbered
<1> QED BY <1>2, <1>3, <1>4, <1>5, <1>6, KindsOfWrites

-----------------------------------------------------------------------------
(* Writes that ask for a sync                                              *)

\* Steps that neither log nor acknowledge: what is queued stays queued.
LEMMA LoggedStays ==
  ASSUME ThreadsAssumption, WriteTypes, Queue, Groups, Logged, Quiet \/ \E t \in Threads : Collects(t)
  PROVE  Logged'
<1>0. \A i \in DOMAIN writers : writers[i] \in Threads /\ i \in Nat /\ \A j \in 1..i : j \in DOMAIN writers
  BY DEF WriteTypes
<1>1. /\ UNCHANGED <<writers, log, calls, acked>>
      /\ \A u \in Threads : w'[u].batch = w[u].batch /\ w'[u].sync = w[u].sync
      /\ \A u \in Threads : pc[u] = "commit" <=> pc'[u] = "commit"
      /\ \A u \in Threads : pc[u] = "commit" => w'[u].last = w[u].last /\ w'[u].ok = w[u].ok
  <2>1. CASE Quiet
    BY <2>1 DEF Quiet
  <2>2. ASSUME NEW t \in Threads, Collects(t)
        PROVE  /\ UNCHANGED <<writers, log, calls, acked>>
               /\ \A u \in Threads : w'[u].batch = w[u].batch /\ w'[u].sync = w[u].sync
               /\ \A u \in Threads : pc[u] = "commit" <=> pc'[u] = "commit"
               /\ \A u \in Threads : pc[u] = "commit" => w'[u].last = w[u].last /\ w'[u].ok = w[u].ok
    BY <2>2, CollectsIs
  <2> QED BY <2>1, <2>2
<1>2. LoggedOnce'
  BY <1>1 DEF Logged, LoggedOnce
<1>3. \A id : IsSynced(id) <=> IsSynced(id)'
  BY <1>1 DEF IsSynced
<1>4. \A u \in Threads, n \in Nat : pc[u] = "commit" => (EndsAt(u, n)' <=> EndsAt(u, n))
  BY <1>1 DEF EndsAt
<1>5. LoggedByGroup'
  <2> SUFFICES ASSUME NEW j \in DOMAIN writers', NEW i \in DOMAIN log', w'[writers'[j]].batch = log'[i].id
               PROVE  pc'[writers'[1]] = "commit" /\ \E n \in DOMAIN writers' : EndsAt(writers[1], n)' /\ j =< n
    BY DEF LoggedByGroup
  <2>1. j \in DOMAIN writers /\ i \in DOMAIN log /\ w[writers[j]].batch = log[i].id
    BY <1>0, <1>1
  <2>2. pc[writers[1]] = "commit" /\ \E n \in DOMAIN writers : EndsAt(writers[1], n) /\ j =< n
    BY <2>1 DEF Logged, LoggedByGroup
  <2>3. PICK n \in DOMAIN writers : EndsAt(writers[1], n) /\ j =< n
    BY <2>2
  <2>4. PICK u \in Threads : u = writers[1] /\ u = writers'[1]
    <3>1. 1 \in DOMAIN writers
      BY <2>1 DEF WriteTypes
    <3> QED BY <1>0, <1>1, <3>1
  <2>5. pc'[u] = "commit" /\ EndsAt(u, n)'
    BY <1>0, <1>1, <1>4, <2>2, <2>3, <2>4
  <2>6. EndsAt(writers[1], n)'
    BY <1>1, <2>4, <2>5 DEF EndsAt
  <2> QED BY <1>1, <2>3, <2>4, <2>5, <2>6
<1>6. AskedIsSynced'
  <2>1. ASSUME NEW t \in Threads, w'[t].sync, w'[t].batch \in acked' PROVE IsSynced(w[t].batch)'
    <3>1. PICK b : b = w[t].batch /\ b = w'[t].batch
      BY <1>1
    <3>2. IsSynced(b)
      BY <1>1, <2>1, <3>1 DEF Logged, AskedIsSynced
    <3>3. IsSynced(b)'
      BY <1>3, <3>2
    <3> QED BY <3>1, <3>3 DEF IsSynced
  <2>2. ASSUME NEW t \in Threads, pc'[t] = "commit", w'[t].ok, w'[t].sync, NEW n \in DOMAIN writers', EndsAt(t, n)',
               NEW i \in 1..n, w'[writers'[i]].batch # Nil
        PROVE  IsSynced(w[writers[i]].batch)'
    <3>1. pc[t] = "commit" /\ w[t].ok /\ w[t].sync /\ n \in DOMAIN writers /\ EndsAt(t, n)
      BY <1>0, <1>1, <1>4, <2>2
    <3>2. PICK b : b = w[writers[i]].batch /\ b = w'[writers'[i]].batch
      BY <1>0, <1>1, <3>1
    <3>3. IsSynced(b)
      BY <2>2, <3>1, <3>2 DEF Logged, AskedIsSynced
    <3>4. IsSynced(b)'
      BY <1>3, <3>3
    <3> QED BY <3>2, <3>4 DEF IsSynced
  <2> QED BY <2>1, <2>2 DEF AskedIsSynced
<1> QED BY <1>2, <1>5, <1>6 DEF Logged

\* A thread joins: its batch is new.
LEMMA LoggedJoins ==
  ASSUME ThreadsAssumption, WriteTypes, Queue, Groups, Logged, NEW t \in Threads, Joins(t)
  PROVE  Logged'
<1>0. /\ \A i \in DOMAIN writers : writers[i] \in Threads /\ i \in Nat /\ \A j \in 1..i : j \in DOMAIN writers
      /\ Nil \notin Nat
  BY DEF WriteTypes, ThreadsAssumption
<1>1. /\ UNCHANGED <<log, acked>>
      /\ calls \in Nat /\ calls' \in Nat /\ calls' >= calls
      /\ w'[t].batch = calls + 1 \/ w'[t].batch = Nil
      /\ \A u \in Threads : u # t => w'[u] = w[u] /\ pc'[u] = pc[u]
      /\ pc[t] = "idle" /\ pc'[t] \notin {"log", "commit"}
      /\ \A i \in DOMAIN writers : i \in DOMAIN writers' /\ writers'[i] = writers[i]
                                   /\ writers[i] # t /\ writers[i] \in Threads
      /\ \A i \in DOMAIN writers' : i \in Nat /\ (i \in DOMAIN writers \/ writers'[i] = t)
      /\ \A u \in Threads, n \in Nat : pc[u] \in {"log", "commit"} => (EndsAt(u, n)' <=> EndsAt(u, n))
  BY JoinsIs
<1>2. w'[t].batch \notin 1..calls
  BY <1>0, <1>1
<1>3. LoggedOnce'
  <2>1. 1..calls \subseteq 1..calls'
    BY <1>1
  <2> QED BY <1>1, <2>1 DEF Logged, LoggedOnce
<1>4. LoggedByGroup'
  <2> SUFFICES ASSUME NEW j \in DOMAIN writers', NEW i \in DOMAIN log', w'[writers'[j]].batch = log'[i].id
               PROVE  pc'[writers'[1]] = "commit" /\ \E n \in DOMAIN writers' : EndsAt(writers[1], n)' /\ j =< n
    BY DEF LoggedByGroup
  <2>1. i \in DOMAIN log /\ log'[i].id = log[i].id /\ log[i].id \in 1..calls
    BY <1>1 DEF Logged, LoggedOnce
  <2>2. writers'[j] # t
    BY <1>2, <2>1
  <2>3. j \in DOMAIN writers /\ w[writers[j]].batch = log[i].id
    BY <1>1, <2>1, <2>2
  <2>4. pc[writers[1]] = "commit" /\ \E n \in DOMAIN writers : EndsAt(writers[1], n) /\ j =< n
    BY <2>1, <2>3 DEF Logged, LoggedByGroup
  <2>5. PICK n \in DOMAIN writers : EndsAt(writers[1], n) /\ j =< n
    BY <2>4
  <2>6. 1 \in DOMAIN writers
    BY <2>3 DEF WriteTypes
  <2>7. PICK u \in Threads : u = writers[1] /\ u = writers'[1] /\ u # t
    BY <1>0, <1>1, <2>6
  <2>8. pc'[u] = "commit" /\ EndsAt(u, n)'
    BY <1>0, <1>1, <2>4, <2>5, <2>7
  <2>9. EndsAt(writers[1], n)'
    BY <2>7, <2>8 DEF EndsAt
  <2> QED BY <1>1, <2>5, <2>7, <2>8, <2>9
<1>5. \A id : IsSynced(id) => IsSynced(id)'
  BY <1>1 DEF IsSynced
<1>6. ASSUME NEW u \in Threads, w'[u].sync, w'[u].batch \in acked' PROVE IsSynced(w[u].batch)'
  <2>1. u # t
    BY <1>1, <1>2, <1>6 DEF Logged, LoggedOnce
  <2>2. PICK b : b = w[u].batch /\ b = w'[u].batch
    BY <1>1, <2>1
  <2>3. IsSynced(b)
    BY <1>1, <1>6, <2>1, <2>2 DEF Logged, AskedIsSynced
  <2>4. IsSynced(b)'
    BY <1>5, <2>3
  <2> QED BY <2>2, <2>4 DEF IsSynced
<1>7. ASSUME NEW u \in Threads, pc'[u] = "commit", w'[u].ok, w'[u].sync, NEW n \in DOMAIN writers', EndsAt(u, n)',
             NEW i \in 1..n, w'[writers'[i]].batch # Nil
      PROVE  IsSynced(w[writers[i]].batch)'
  <2>1. u # t /\ pc[u] = "commit" /\ w[u].ok /\ w[u].sync
    BY <1>1, <1>7
  <2>2. EndsAt(u, n) /\ n \in DOMAIN writers
    BY <1>1, <1>7, <2>1 DEF EndsAt
  <2>3. i \in DOMAIN writers
    BY <1>0, <2>2
  <2>4. PICK b : b = w[writers[i]].batch /\ b = w'[writers'[i]].batch
    BY <1>1, <2>3
  <2>5. IsSynced(b)
    BY <1>7, <2>1, <2>2, <2>4 DEF Logged, AskedIsSynced
  <2>6. IsSynced(b)'
    BY <1>5, <2>5
  <2> QED BY <2>4, <2>6 DEF IsSynced
<1>8. AskedIsSynced'
  BY <1>6, <1>7 DEF AskedIsSynced
<1> QED BY <1>3, <1>4, <1>8 DEF Logged

\* A group leaves: nobody is left whose batch is in the log.
LEMMA LoggedLeaves ==
  ASSUME ThreadsAssumption, WriteTypes, Queue, Groups, Logged, NEW t \in Threads, Leaves(t)
  PROVE  Logged'
<1>1. /\ UNCHANGED <<acked, log, calls>>
      /\ \A u \in Threads : pc'[u] \notin {"log", "commit"}
      /\ \A u \in Threads : w'[u].batch = w[u].batch /\ w'[u].sync = w[u].sync
      /\ \A i \in DOMAIN writers' : 1 + i \in DOMAIN writers /\ writers'[i] = writers[1 + i]
      /\ pc[writers[1]] = "room"
  BY LeavesKeeps
<1>2. \A i \in DOMAIN writers : writers[i] \in Threads
  BY DEF WriteTypes
<1>3. LoggedOnce'
  BY <1>1 DEF Logged, LoggedOnce
<1>4. ASSUME NEW j \in DOMAIN writers', NEW i \in DOMAIN log', w'[writers'[j]].batch = log'[i].id PROVE FALSE
  <2>1. w[writers[1 + j]].batch = log[i].id /\ 1 + j \in DOMAIN writers /\ i \in DOMAIN log
    BY <1>1, <1>2, <1>4
  <2> QED BY <1>1, <2>1 DEF Logged, LoggedByGroup
<1>5. \A id : IsSynced(id) => IsSynced(id)'
  BY <1>1 DEF IsSynced
<1>6. ASSUME NEW u \in Threads, w'[u].sync, w'[u].batch \in acked' PROVE IsSynced(w[u].batch)'
  <2>1. PICK b : b = w[u].batch /\ b = w'[u].batch
    BY <1>1
  <2>2. IsSynced(b)
    BY <1>1, <1>6, <2>1 DEF Logged, AskedIsSynced
  <2>3. IsSynced(b)'
    BY <1>5, <2>2
  <2> QED BY <2>1, <2>3 DEF IsSynced
<1>7. LoggedByGroup'
  BY <1>4 DEF LoggedByGroup
<1>8. AskedIsSynced'
  BY <1>1, <1>6 DEF AskedIsSynced
<1> QED BY <1>3, <1>7, <1>8 DEF Logged

\* A group is acknowledged: those in it who asked for a sync have it.
LEMMA LoggedCommit ==
  ASSUME ThreadsAssumption, WriteTypes, Queue, Groups, Logged, NEW t \in Threads, Commit(t)
  PROVE  Logged'
<1>0. /\ \A i \in DOMAIN writers : writers[i] \in Threads /\ i \in Nat /\ \A j \in 1..i : j \in DOMAIN writers
      /\ Nil \notin Nat /\ calls \in Nat
  BY DEF WriteTypes, ThreadsAssumption
<1>1. PICK n \in DOMAIN writers :
              /\ EndsAt(t, n) /\ \A i \in 1..n : w[writers[i]].sync => w[t].sync
              /\ PopWriters(t, writers[n], w[t].ok) /\ w[t].ok \in BOOLEAN /\ pc[t] \in Heading
              /\ 1 \in DOMAIN writers /\ writers[1] = t
  BY CommitIs
<1>2. UNCHANGED <<log, calls>> /\ pc[t] = "commit"
  BY DEF Commit
<1>3. \A u \in Threads : pc'[u] # "commit"
  BY <1>1, NobodyHeads DEF Heading
<1>4. /\ writers' \in Seq(Threads)
      /\ \A i \in DOMAIN writers' : n + i \in DOMAIN writers /\ writers'[i] = writers[n + i]
      /\ \A u \in Threads : w'[u].batch = w[u].batch /\ w'[u].sync = w[u].sync
      /\ \A b : b \in acked' <=>
           b \in acked \/ (w[t].ok /\ \E i \in 1..n : w[writers[i]].batch # Nil /\ b = w[writers[i]].batch)
  BY <1>1, PopIs
<1>5. \A i \in 1..n : writers[i] \in Threads /\ i \in DOMAIN writers
  BY <1>0
<1>6. LoggedOnce'
  <2>1. \A i \in 1..n : w[writers[i]].batch # Nil => w[writers[i]].batch \in 1..calls
    BY <1>5 DEF Groups
  <2>2. ASSUME NEW b, b \in acked' PROVE b \in 1..calls
    <3>1. b \in acked \/ \E i \in 1..n : w[writers[i]].batch # Nil /\ b = w[writers[i]].batch
      BY <1>4, <2>2
    <3> QED BY <2>1, <3>1 DEF Logged, LoggedOnce
  <2> QED BY <1>2, <2>2 DEF Logged, LoggedOnce
<1>7. ASSUME NEW j \in DOMAIN writers', NEW i \in DOMAIN log', w'[writers'[j]].batch = log'[i].id PROVE FALSE
  <2>1. w[writers[n + j]].batch = log[i].id /\ n + j \in DOMAIN writers /\ i \in DOMAIN log
    BY <1>0, <1>2, <1>4, <1>7
  <2>2. PICK m \in DOMAIN writers : EndsAt(writers[1], m) /\ n + j =< m
    BY <2>1 DEF Logged, LoggedByGroup
  <2>3. m = n
    BY <1>1, <2>2 DEF EndsAt, Queue
  <2>4. j \in Nat /\ j > 0
    BY <1>4
  <2> QED BY <1>0, <2>2, <2>3, <2>4
<1>8. \A id : IsSynced(id) => IsSynced(id)'
  BY <1>2 DEF IsSynced
<1>9. ASSUME NEW u \in Threads, w'[u].sync, w'[u].batch \in acked' PROVE IsSynced(w[u].batch)'
  <2>1. PICK b : b = w[u].batch /\ b = w'[u].batch
    BY <1>4
  <2>2. IsSynced(b)
    <3>1. CASE b \in acked
      BY <1>4, <1>9, <2>1, <3>1 DEF Logged, AskedIsSynced
    <3>2. CASE b \notin acked
      <4>1. PICK i \in 1..n : w[t].ok /\ w[writers[i]].batch # Nil /\ b = w[writers[i]].batch
        BY <1>4, <1>9, <2>1, <3>2
      <4>2. u = writers[i]
        BY <1>5, <2>1, <4>1 DEF Groups
      <4>3. w[t].sync
        BY <1>1, <1>4, <1>9, <4>1, <4>2
      <4>4. IsSynced(w[writers[i]].batch)
        BY <1>1, <1>2, <4>1, <4>3 DEF Logged, AskedIsSynced
      <4> QED BY <4>1, <4>4
    <3> QED BY <3>1, <3>2
  <2>3. IsSynced(b)'
    BY <1>8, <2>2
  <2> QED BY <2>1, <2>3 DEF IsSynced
<1>10. LoggedByGroup'
  BY <1>7 DEF LoggedByGroup
<1>11. AskedIsSynced'
  BY <1>3, <1>9 DEF AskedIsSynced
<1> QED BY <1>6, <1>10, <1>11 DEF Logged

\* A group is logged: its batches are new in the log.
LEMMA LoggedLog ==
  ASSUME ThreadsAssumption, WriteTypes, Queue, Groups, Logged, NEW t \in Threads, Log(t)
  PROVE  Logged'
<1>0. /\ \A i \in DOMAIN writers : writers[i] \in Threads /\ i \in Nat /\ \A j \in 1..i : j \in DOMAIN writers
      /\ Nil \notin Nat /\ calls \in Nat /\ Len(log) \in Nat /\ DOMAIN log = 1..Len(log)
      /\ writers \in Seq(Threads) /\ w \in [Threads -> Records]
  BY DEF WriteTypes, ThreadsAssumption
<1>1. /\ UNCHANGED <<writers, calls, acked>> /\ 1 \in DOMAIN writers /\ writers[1] = t
      /\ pc[t] = "log" /\ pc'[t] = "commit" /\ \A u \in Threads : u # t => pc'[u] = pc[u]
      /\ \A u \in Threads : w'[u].batch = w[u].batch /\ w'[u].sync = w[u].sync /\ w'[u].last = w[u].last
  BY LogIs DEF ghosts
<1>2. PICK n \in DOMAIN writers :
           /\ EndsAt(t, n)
           /\ LET g == BatchesOf(writers, w, n) IN
              \/ log' = log /\ ~w'[t].ok
              \/ /\ \A i \in DOMAIN log : /\ i \in DOMAIN log' /\ log'[i].id = log[i].id
                                          /\ log[i].synced => log'[i].synced
                 /\ \A k \in DOMAIN g : /\ Len(log) + k \in DOMAIN log' /\ log'[Len(log) + k].id = g[k]
                                        /\ w'[t].ok /\ w[t].sync => log'[Len(log) + k].synced
                 /\ \A i \in DOMAIN log' : i \in DOMAIN log \/ \E k \in DOMAIN g : i = Len(log) + k
  BY LogGrows
<1> DEFINE g == BatchesOf(writers, w, n)
<1>3. /\ g \in Seq(Nat)
      /\ \A k \in DOMAIN g : \E i \in 1..n : w[writers[i]].batch # Nil /\ g[k] = w[writers[i]].batch
      /\ \A i \in 1..n : w[writers[i]].batch # Nil => \E k \in DOMAIN g : g[k] = w[writers[i]].batch
      /\ \A k, l \in DOMAIN g : k # l => \E i, j \in 1..n :
           i # j /\ w[writers[i]].batch # Nil /\ g[k] = w[writers[i]].batch /\ g[l] = w[writers[j]].batch
  <2>0. writers \in Seq(Threads) /\ w \in [Threads -> Records]
    BY <1>0
  <2>1. /\ g \in Seq(Nat)
        /\ \A k \in DOMAIN g : \E i \in 1..n : w[writers[i]].batch # Nil /\ g[k] = w[writers[i]].batch
        /\ \A i \in 1..n : w[writers[i]].batch # Nil => \E k \in DOMAIN g : g[k] = w[writers[i]].batch
    BY <2>0, GroupHolds
  <2>2. \A k, l \in DOMAIN g : k # l => \E i, j \in 1..n :
           i # j /\ w[writers[i]].batch # Nil /\ g[k] = w[writers[i]].batch /\ g[l] = w[writers[j]].batch
    BY <2>0, GroupHolds
  <2> QED BY <2>1, <2>2
<1>4. \/ log' = log /\ ~w'[t].ok
      \/ /\ \A i \in DOMAIN log : /\ i \in DOMAIN log' /\ log'[i].id = log[i].id
                                  /\ log[i].synced => log'[i].synced
         /\ \A k \in DOMAIN g : /\ Len(log) + k \in DOMAIN log' /\ log'[Len(log) + k].id = g[k]
                                /\ w'[t].ok /\ w[t].sync => log'[Len(log) + k].synced
         /\ \A i \in DOMAIN log' : i \in DOMAIN log \/ \E k \in DOMAIN g : i = Len(log) + k
  BY <1>2
<1> HIDE DEF g
<1>5. DOMAIN g = 1..Len(g) /\ Len(g) \in Nat
  BY <1>3
\* Nobody in the queue had a batch in the log before.
<1>6. \A j \in DOMAIN writers, i \in DOMAIN log : w[writers[j]].batch # log[i].id
  BY <1>1 DEF Logged, LoggedByGroup
<1>7. \A k \in DOMAIN g, i \in DOMAIN log : g[k] # log[i].id
  BY <1>0, <1>3, <1>6
<1>8. ASSUME NEW k \in DOMAIN g, NEW l \in DOMAIN g, g[k] = g[l] PROVE k = l
  <2> SUFFICES ASSUME k # l PROVE FALSE
    OBVIOUS
  <2>1. PICK i \in 1..n, j \in 1..n :
           i # j /\ w[writers[i]].batch # Nil /\ g[k] = w[writers[i]].batch /\ g[l] = w[writers[j]].batch
    BY <1>3
  <2>2. i \in DOMAIN writers /\ j \in DOMAIN writers
    BY <1>0
  <2>3. writers[i] # writers[j]
    BY <2>1, <2>2 DEF Queue
  <2> QED BY <1>0, <1>8, <2>1, <2>2, <2>3 DEF Groups
<1>9. LoggedOnce'
  <2>1. CASE log' = log
    BY <1>1, <2>1 DEF Logged, LoggedOnce
  <2>2. CASE log' # log
    <3>1. ASSUME NEW i \in DOMAIN log', NEW j \in DOMAIN log', log'[i].id = log'[j].id PROVE i = j
      <4>1. CASE i \in DOMAIN log /\ j \in DOMAIN log
        BY <1>4, <2>2, <3>1, <4>1 DEF Logged, LoggedOnce
      <4>2. ASSUME NEW a \in DOMAIN log, NEW k \in DOMAIN g PROVE log'[a].id # log'[Len(log) + k].id
        BY <1>4, <1>7, <2>2
      <4>3. ASSUME NEW k \in DOMAIN g, NEW l \in DOMAIN g, i = Len(log) + k, j = Len(log) + l PROVE i = j
        BY <1>4, <1>8, <2>2, <3>1, <4>3
      <4> QED BY <1>4, <2>2, <3>1, <4>1, <4>2, <4>3
    <3>2. ASSUME NEW i \in DOMAIN log' PROVE log'[i].id \in 1..calls
      <4>1. CASE i \in DOMAIN log
        BY <1>4, <2>2, <4>1 DEF Logged, LoggedOnce
      <4>2. ASSUME NEW k \in DOMAIN g, i = Len(log) + k PROVE log'[i].id \in 1..calls
        <5>1. PICK j \in 1..n : w[writers[j]].batch # Nil /\ g[k] = w[writers[j]].batch
          BY <1>3
        <5>2. writers[j] \in Threads
          BY <1>0
        <5>3. g[k] \in 1..calls
          BY <5>1, <5>2 DEF Groups
        <5> QED BY <1>4, <2>2, <4>2, <5>3
      <4> QED BY <1>4, <2>2, <4>1, <4>2
    <3> QED BY <1>1, <3>1, <3>2 DEF Logged, LoggedOnce
  <2> QED BY <2>1, <2>2
<1>10. EndsAt(t, n)' /\ EndsAt(writers[1], n)'
  BY <1>1, <1>2 DEF EndsAt
<1>11. LoggedByGroup'
  <2> SUFFICES ASSUME NEW j \in DOMAIN writers', NEW i \in DOMAIN log', w'[writers'[j]].batch = log'[i].id
               PROVE  pc'[writers'[1]] = "commit" /\ \E m \in DOMAIN writers' : EndsAt(writers[1], m)' /\ j =< m
    BY DEF LoggedByGroup
  <2>1. j \in DOMAIN writers /\ w[writers[j]].batch = log'[i].id
    BY <1>0, <1>1
  <2>2. log' # log /\ i \notin DOMAIN log
    BY <1>4, <1>6, <2>1
  <2>3. PICK k \in DOMAIN g : i = Len(log) + k
    BY <1>4, <2>2
  <2>4. g[k] = w[writers[j]].batch
    BY <1>4, <2>1, <2>2, <2>3
  <2>5. PICK m \in 1..n : w[writers[m]].batch # Nil /\ g[k] = w[writers[m]].batch
    BY <1>3
  <2>6. m \in DOMAIN writers /\ writers[m] = writers[j]
    BY <1>0, <2>1, <2>4, <2>5 DEF Groups
  <2>7. m = j
    BY <2>1, <2>6 DEF Queue
  <2> QED BY <1>0, <1>1, <1>10, <2>7
<1>12. ASSUME NEW id, IsSynced(id) PROVE IsSynced(id)'
  <2>1. PICK k \in DOMAIN log : log[k].id = id /\ log[k].synced
    BY <1>12 DEF IsSynced
  <2>2. k \in DOMAIN log' /\ log'[k].id = id /\ log'[k].synced
    BY <1>4, <2>1
  <2> QED BY <2>2 DEF IsSynced
<1>13. ASSUME NEW u \in Threads, w'[u].sync, w'[u].batch \in acked' PROVE IsSynced(w[u].batch)'
  <2>1. PICK b : b = w[u].batch /\ b = w'[u].batch
    BY <1>1
  <2>2. IsSynced(b)
    BY <1>1, <1>13, <2>1 DEF Logged, AskedIsSynced
  <2>3. IsSynced(b)'
    BY <1>12, <2>2
  <2> QED BY <2>1, <2>3 DEF IsSynced
<1>14. ASSUME NEW u \in Threads, pc'[u] = "commit", w'[u].ok, w'[u].sync, NEW m \in DOMAIN writers', EndsAt(u, m)',
              NEW i \in 1..m, w'[writers'[i]].batch # Nil
       PROVE  IsSynced(w[writers[i]].batch)'
  <2>1. u = t
    BY <1>1, <1>14 DEF Queue, Heading
  <2>2. m = n
    BY <1>1, <1>2, <1>14, <2>1 DEF EndsAt, Queue
  <2>3. w'[writers'[i]].batch = w[writers[i]].batch
    BY <1>0, <1>1, <2>2
  <2>4. PICK k \in DOMAIN g : g[k] = w[writers[i]].batch
    BY <1>3, <1>14, <2>2, <2>3
  <2>5. Len(log) + k \in DOMAIN log' /\ log'[Len(log) + k].id = w'[writers'[i]].batch /\ log'[Len(log) + k].synced
    BY <1>1, <1>4, <1>14, <2>1, <2>3, <2>4
  <2> QED BY <2>5 DEF IsSynced
<1>15. AskedIsSynced'
  BY <1>13, <1>14 DEF AskedIsSynced
<1> QED BY <1>9, <1>11, <1>15 DEF Logged

\* Every step keeps the log free of doubles and the asked-for syncs done.
LEMMA LoggedStep ==
  ASSUME ThreadsAssumption, WriteTypes, Queue, Groups, Logged, [Next]_vars
  PROVE  Logged'
  BY LoggedStays, LoggedJoins, LoggedLeaves, LoggedCommit, LoggedLog, KindsOfWrites

-----------------------------------------------------------------------------
(* The invariant                                                           *)

\* Every part holds in a database that was just opened.
LEMMA InitInv ==
  ASSUME ThreadsAssumption, Init
  PROVE  IInv
<1>0. /\ writers = <<>> /\ w = [t \in Threads |-> NewWriter(Nil, FALSE)]
      /\ pc = [t \in Threads |-> "idle"] /\ signalled = {} /\ bgWait = {}
      /\ mem = <<>> /\ imm = Nil /\ log = <<>> /\ oldLogs = 0 /\ lastSeq = 0
      /\ scheduled = FALSE /\ bgError = FALSE /\ shutting = FALSE
      /\ manual = Nil /\ done = [t \in Manuals |-> FALSE] /\ todo = [t \in Manuals |-> 0]
      /\ l0 = 0 /\ inputs = 0 /\ bg = "none" /\ tables = {}
      /\ calls = 0 /\ acked = {} /\ syncFailed = FALSE
  BY DEF Init
<1>1. \A t \in Threads : w[t] \in Records /\ w[t].batch = Nil
  BY <1>0, NewRecord
<1>2. DOMAIN writers = {} /\ DOMAIN log = {} /\ \A t \in Threads : pc[t] = "idle"
  BY <1>0
<1>3. WriteTypes
  <2>1. w \in [Threads -> Records]
    BY <1>0, <1>1
  <2>2. <<>> \in Seq(Threads) /\ <<>> \in Seq(Nat) /\ <<>> \in Seq(Entries)
    OBVIOUS
  <2>3. pc \in [Threads -> Pcs]
    BY <1>0 DEF Pcs
  <2> QED BY <1>0, <2>1, <2>2, <2>3 DEF WriteTypes
<1>4. BgTypes
  BY <1>0 DEF BgTypes, Places
<1>5. Queue
  BY <1>2 DEF Queue, Heading
<1>6. Scheduling
  <2>1. ~NeedsCompaction(l0)
    BY <1>0 DEF NeedsCompaction, ThreadsAssumption
  <2> QED BY <1>0, <2>1 DEF Scheduling, WorkPending
<1>7. Groups
  BY <1>1, <1>2 DEF Groups
<1>8. Kept
  BY <1>0, <1>2 DEF Kept, AckedIsKept
<1>9. Numbered
  BY <1>2 DEF Numbered, SequencesIncrease
<1>10. Logged
  BY <1>0, <1>2 DEF Logged, LoggedOnce, LoggedByGroup, AskedIsSynced
<1>11. Stopped
  BY <1>0 DEF Stopped
<1> QED BY <1>3, <1>4, <1>5, <1>6, <1>7, <1>8, <1>9, <1>10, <1>11 DEF IInv

\* Every step keeps every part, and acknowledges nothing after a failed sync.
LEMMA NextInv ==
  ASSUME ThreadsAssumption, IInv, [Next]_vars
  PROVE  IInv' /\ FailsStop
<1> USE DEF IInv
<1>1. Queue'
  BY QueueStep
<1>2. Stopped' /\ FailsStop
  BY StoppedStep DEF FailsStop
<1> QED BY <1>1, <1>2, WriteTypesStep, BgTypesStep, SchedulingStep, GroupsStep, KeptStep,
           NumberedStep, LoggedStep

\* The inductive invariant holds of every behaviour.
LEMMA Invariance ==
  ASSUME ThreadsAssumption
  PROVE  Spec => []IInv
<1>1. Init => IInv
  BY InitInv
<1>2. IInv /\ [Next]_vars => IInv'
  BY NextInv
<1> QED BY <1>1, <1>2, PTL DEF Spec

-----------------------------------------------------------------------------
(* The theorems                                                            *)

\* Whoever waits will be signalled: a thread on bg_cv_ has a background call under
\* way, and the head of the writers is awake or has been told (DBImpl::Write,
\* MakeRoomForWrite, BackgroundCall).
THEOREM WaitersAreSignalled ==
  ASSUME ThreadsAssumption
  PROVE  Spec => []SomebodyWillSignal
<1>1. IInv => SomebodyWillSignal
  <2> SUFFICES ASSUME IInv PROVE SomebodyWillSignal
    OBVIOUS
  <2>1. writers \in Seq(Threads)
    BY DEF IInv, WriteTypes
  <2>2. writers # <<>> => 1 \in DOMAIN writers /\ Head(writers) = writers[1]
    BY <2>1
  <2> QED BY <2>2 DEF IInv, Queue, Scheduling, SomebodyWillSignal
<1> QED BY <1>1, Invariance, PTL

\* Whatever Write returned OK for is in mem_, imm_ or an installed table, whichever
\* writes, compactions and I/O failures came between.
THEOREM AcknowledgedIsKept ==
  ASSUME ThreadsAssumption
  PROVE  Spec => []AckedIsKept
<1>1. IInv => AckedIsKept
  BY DEF IInv, Kept
<1> QED BY <1>1, Invariance, PTL

\* No two batches in the log have the same sequence number, even when appending a
\* group failed half way.
THEOREM SequencesAreUnique ==
  ASSUME ThreadsAssumption
  PROVE  Spec => []SequencesIncrease
<1>1. IInv => SequencesIncrease
  BY DEF IInv, Numbered
<1> QED BY <1>1, Invariance, PTL

\* A write that asked for a sync and returned OK is synced, also when another thread
\* logged it in a group.
THEOREM AskedSyncIsDone ==
  ASSUME ThreadsAssumption
  PROVE  Spec => []SyncWritesAreSynced
<1>1. IInv => SyncWritesAreSynced
  <2> SUFFICES ASSUME IInv, NEW t \in Writers, w[t].sync, w[t].batch \in acked
               PROVE  log[EntryOf(w[t].batch)].synced
    BY DEF SyncWritesAreSynced
  <2>1. PICK k \in DOMAIN log : log[k].id = w[t].batch /\ log[k].synced
    BY DEF IInv, Logged, AskedIsSynced, IsSynced, Threads
  <2>2. EntryOf(w[t].batch) = k
    BY <2>1 DEF IInv, Logged, LoggedOnce, EntryOf
  <2> QED BY <2>1, <2>2
<1> QED BY <1>1, Invariance, PTL

\* After a failed sync no write is acknowledged any more.
THEOREM FailedSyncStops ==
  ASSUME ThreadsAssumption
  PROVE  Spec => [][FailsStop]_vars
<1>1. IInv /\ [Next]_vars => [FailsStop]_vars
  BY NextInv
<1> QED BY <1>1, Invariance, PTL DEF Spec

\* What Write promises, for any number of threads, writes and files: the four
\* theorems together.
THEOREM WritesStaySafe ==
  ASSUME ThreadsAssumption
  PROVE  Spec => WritesAreSafe
BY AcknowledgedIsKept, AskedSyncIsDone, SequencesAreUnique, FailedSyncStops, PTL
   DEF WritesAreSafe

=============================================================================
