------------------------------ MODULE MCWrites ------------------------------
(***************************************************************************)
(* How leveldb takes writes and keeps what it holds in memory, for TLC:    *)
(* the threads at a database, batches and memtables, the caches, and what  *)
(* is counted and released.  A behaviour is one of one part: "part" says   *)
(* of which.  Two parts are instances of the threads and have their        *)
(* variables; the others have theirs in the slots v1, v2 and so on, and    *)
(* the threads are idle.                                                   *)
(***************************************************************************)
EXTENDS DBThreads

CONSTANTS
  nobody, w1, w2, w3, m1, t1, t2, r1, r2

VARIABLES
  part,   \* the part that runs; it never changes
  v1, v2, v3, v4, v5, v6, v7, v8, v9, v10, v11, v12, v13, v14

slots == <<v1, v2, v3, v4, v5, v6, v7, v8, v9, v10, v11, v12, v13, v14>>
allVars == <<part, vars, slots>>

-----------------------------------------------------------------------------
(* The parts.  "errors" is the threads as the configuration sizes them:    *)
(* two writers and a manual compaction; background work may fail.          *)

\* Three writers; appending to and syncing the log may fail.  (The writers are
\* alike, so what holds for the two of the configuration holds for the third.)
Writes == INSTANCE DBThreads WITH
  Writers <- {w1, w2, w3}, Manuals <- {}, MaxFiles <- 2, MayFail <- {"append", "sync"}

\* Batches of three operations on keys of up to two letters.
Batch == INSTANCE Batches WITH
  Group <- 2, Word32 <- 5, Word64 <- 7, SeqBytes <- 2, CountBytes <- 1, MaxKey <- 2,
  Letters <- {3}, MaxOps <- 3,
  batch <- v1, ops <- v2, mem <- v3, last <- v4, logged <- v5, did <- v6, iter <- v7,
  ahead <- v8, owed <- v9, passed <- v10, table <- v11, filter <- v12

\* Memtables of two operations.
Mem == INSTANCE Batches WITH
  Group <- 2, Word32 <- 5, Word64 <- 7, SeqBytes <- 2, CountBytes <- 1, MaxKey <- 1,
  Letters <- {3}, MaxOps <- 2,
  batch <- v1, ops <- v2, mem <- v3, last <- v4, logged <- v5, did <- v6, iter <- v7,
  ahead <- v8, owed <- v9, passed <- v10, table <- v11, filter <- v12

\* Entries of two charges in a shard for two; two shards.
Cache == INSTANCE LRUCache WITH
  Threads <- {t1, t2}, Keys <- {0, 2}, HashRange <- 2, Capacity <- 2, Charges <- {1, 2},
  MinLength <- 1, MaxEntries <- 3, Callers <- {t1, t2}, NumShards <- 2, TotalCapacity <- 2,
  Offsets <- {0, 1, 2}, MaxTables <- 2,
  c <- v1, held <- v2, missing <- v3, open <- v4, tables <- v1, lastId <- v2, shard <- v3,
  thread <- v4, changed <- v5

\* Two readers; five versions, files and snapshots.
Refs == INSTANCE References WITH
  Readers <- {r1, r2}, MaxVersions <- 5, MaxFiles <- 5, MaxMems <- 3, Recovered <- 2,
  None <- nobody, MaxSnapshots <- 5, MaxSequence <- 3,
  h <- v1, current <- v2, mrefs <- v3, mem <- v4, imm <- v5, held <- v6, job <- v7,
  disk <- v8, pending <- v9, bgError <- v10, open <- v11, versions <- v12, files <- v13,
  mems <- v14, nextSnap <- v1, prevSnap <- v2, numberOf <- v3, liveSnaps <- v4,
  lastSeq <- v5, madeSnaps <- v6

-----------------------------------------------------------------------------

\* Slots and variables that a part leaves alone.
Rest4 == <<part, vars, v5, v6, v7, v8, v9, v10, v11, v12, v13, v14>>
Rest5 == <<part, vars, v6, v7, v8, v9, v10, v11, v12, v13, v14>>
Rest6 == <<part, vars, v7, v8, v9, v10, v11, v12, v13, v14>>
Rest12 == <<part, vars, v13, v14>>
Off12 == v13 = 0 /\ v14 = 0
Off6 == v7 = 0 /\ v8 = 0 /\ v9 = 0 /\ v10 = 0 /\ v11 = 0 /\ v12 = 0 /\ Off12
Off5 == v6 = 0 /\ Off6
Off4 == v5 = 0 /\ Off5
Off0 == v1 = 0 /\ v2 = 0 /\ v3 = 0 /\ v4 = 0 /\ Off4

PartInit ==
  \/ part = "writes" /\ Writes!Init /\ Off0
  \/ part = "errors" /\ Init /\ Off0
  \/ part = "batch" /\ Batch!Init /\ Off6 /\ Init
  \/ part = "mem" /\ Mem!MemInit /\ Off12 /\ Init
  \/ part = "cache" /\ Cache!Init /\ Off4 /\ Init
  \/ part = "shards" /\ Cache!ShardsInit /\ Off5 /\ Init
  \/ part = "references" /\ Refs!Init /\ Init
  \/ part = "snapshots" /\ Refs!SnapshotInit /\ Off6 /\ Init

PartNext ==
  \/ part = "writes" /\ Writes!Next /\ UNCHANGED <<part, slots>>
  \/ part = "errors" /\ Next /\ UNCHANGED <<part, slots>>
  \/ part = "batch" /\ Batch!Next /\ UNCHANGED Rest6
  \/ part = "mem" /\ Mem!MemNext /\ UNCHANGED Rest12
  \/ part = "cache" /\ Cache!Next /\ UNCHANGED Rest4
  \/ part = "shards" /\ Cache!ShardsNext /\ UNCHANGED Rest5
  \/ part = "references" /\ Refs!Next /\ UNCHANGED <<part, vars>>
  \/ part = "snapshots" /\ Refs!SnapshotNext /\ UNCHANGED Rest6

PartSpec == PartInit /\ [][PartNext]_allVars

-----------------------------------------------------------------------------

\* What the modules assume of their constants.
ASSUME Assumptions ==
  /\ ThreadsAssumption
  /\ Writes!ThreadsAssumption
  /\ Cache!ShardedCacheAssumption
  /\ Refs!ReferencesAssumption
  /\ Refs!SnapshotListAssumption

-----------------------------------------------------------------------------
(* Properties, besides WritesAreSafe and SomebodyWillSignal of the threads *)

\* A batch applied to a memtable is what its writer put in, operation by
\* operation: a lookup at a sequence number sees the latest operation up to it.
\* A batch cut short is noticed.  Entries of the memtable parse back, a scan misses
\* none and the table's filter keeps every key (write_batch.cc, memtable.cc).
GetSeesLatest ==
  /\ part = "batch" =>
       Batch!GetSeesLatest /\ Batch!TakesApart /\ Batch!CutIsNoticed /\ Batch!FillsItsBuffer
  /\ part = "mem" => Mem!ParsesBack /\ Mem!MissesNothing /\ Mem!FilterKeeps

\* An entry of the cache is deleted once, and not before its last user released
\* it; lists and charges tell which entries are in use and what they cost, a lookup
\* finds the entry inserted last, and inserting leaves the cache within its
\* capacity unless all of it is in use.  Two tables never share a block in the
\* block cache, whichever shard it is in (cache.cc, table.cc).
CacheIsSound ==
  /\ [](part = "cache" =>
          Cache!DeletedInTime /\ Cache!ListsTellUse /\ Cache!FindsLatest /\ Cache!UsageIsCharge)
  /\ [][part = "cache" => Cache!StaysWithin]_allVars
  /\ [](part = "shards" => Cache!OwnBlock /\ Cache!CapacityKept /\ Cache!ExactWhenQuiet)

\* Counts of references are exact, so that versions, memtables and tables stay as
\* long as somebody reads them; and go when nobody does.  A compaction drops
\* nothing that a snapshot sees (version_set.cc, db_impl.cc, snapshot.h).
ReferencesAreExact ==
  /\ [](part = "references" =>
          /\ Refs!CountsAreExact /\ Refs!FilesAreCounted /\ Refs!MemTablesAreCounted
          /\ Refs!ListIsInOrder /\ Refs!TablesStay)
  /\ [][part = "references" => Refs!GarbageGoes]_allVars
  /\ [](part = "snapshots" => Refs!NobodySeesLess /\ Refs!LinksMatch)

=============================================================================
