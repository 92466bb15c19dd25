------------------------------- MODULE LRUCache -------------------------------
(***************************************************************************)
(* One shard of leveldb's cache (util/cache.cc) and its two clients: the   *)
(* cache of open tables (db/table_cache.cc) and the cache of blocks        *)
(* (Table::BlockReader).  Both look a key up, open or read what is missing *)
(* without holding a lock, insert it, and keep the handle until the        *)
(* iterator that uses it is deleted.                                       *)
(*                                                                         *)
(* An entry is the number of its malloc.  Each method of the shard holds   *)
(* mutex_ all through, so it is one step.                                  *)
(***************************************************************************)
EXTENDS Integers, Sequences, FiniteSets, SequencesExt

CONSTANTS
  Threads,
  Keys,          \* a set of numbers
  HashRange,     \* hashes are 0..HashRange-1
  Capacity,
  Charges,       \* 1 for a table, the size for a block
  MinLength,     \* buckets a hash table has at least (4)
  MaxEntries     \* bound: entries ever inserted

VARIABLES
  c,             \* the shard, see EmptyCache
  held,          \* handles each thread has; a thread has one per entry (bound)
  missing,       \* the key a thread looked up in vain, or None
  open           \* the cache is not destroyed

vars == <<c, held, missing, open>>

None == -1
Entries == 1..MaxEntries
Hash(k) == k % HashRange

-----------------------------------------------------------------------------
(* HandleTable.  A bucket is the sequence of its chain.                    *)

Bucket(length, k) == (Hash(k) % length) + 1

\* The condition that ends the loop of FindPointer.
Matches(s, e, k) == Hash(s.key[e]) = Hash(k) /\ s.key[e] = k

\* FindPointer: where in its chain key is; 0 for the trailing slot.
FindPointer(s, k) ==
  LET chain == s.list[Bucket(Len(s.list), k)]
  IN  SelectInSeq(chain, LAMBDA e : Matches(s, e, k))

Find(s, k) ==
  LET p == FindPointer(s, k) IN IF p = 0 THEN None ELSE s.list[Bucket(Len(s.list), k)][p]

\* A length is MinLength times a power of two.
NewLength(elems) ==
  CHOOSE n \in {MinLength * 2^i : i \in 0..MaxEntries} :
    n >= elems /\ (n = MinLength \/ n \div 2 < elems)

\* The loops of Resize: every entry goes to the front of its new bucket.
Rehash(s, list) ==
  LET length == NewLength(s.elems)
      push(new, e) == [new EXCEPT ![Bucket(length, s.key[e])] = <<e>> \o @]
  IN  FoldLeft(push, [i \in 1..length |-> <<>>], FlattenSeq(list))

Resize(s) == [s EXCEPT !.list = Rehash(s, s.list)]

\* HandleTable::Insert; the entry it replaces stays where the caller finds it.
TableInsert(s, e) ==
  LET k == s.key[e]
      b == Bucket(Len(s.list), k)
      p == FindPointer(s, k)
  IN  IF p # 0 THEN [s EXCEPT !.list[b][p] = e]
      ELSE LET t == [s EXCEPT !.list[b] = Append(@, e), !.elems = @ + 1]
           IN  IF t.elems > Len(t.list) THEN Resize(t) ELSE t

\* HandleTable::Remove
TableRemove(s, k) ==
  LET b == Bucket(Len(s.list), k)
      p == FindPointer(s, k)
  IN  IF p = 0 THEN s ELSE [s EXCEPT !.list[b] = RemoveAt(@, p), !.elems = @ - 1]

-----------------------------------------------------------------------------
(* LRUCache                                                                *)

LRU_Remove(s, e) == [s EXCEPT !.lru = Remove(@, e), !.inUse = @ \ {e}]

Ref(s, e) ==
  [IF s.refs[e] = 1 /\ s.inCache[e]
   THEN [LRU_Remove(s, e) EXCEPT !.inUse = @ \cup {e}]
   ELSE s EXCEPT !.refs[e] = @ + 1]

\* The deleter is called when no reference is left.
Unref(s, e) ==
  LET t == [s EXCEPT !.refs[e] = @ - 1]
  IN  IF t.refs[e] = 0 THEN [t EXCEPT !.deleted[e] = @ + 1]
      ELSE IF t.inCache[e] /\ t.refs[e] = 1
      THEN [LRU_Remove(t, e) EXCEPT !.lru = Append(@, e)]
      ELSE t

FinishErase(s, e) ==
  IF e = None THEN s
  ELSE Unref([LRU_Remove(s, e) EXCEPT !.inCache[e] = FALSE, !.usage = @ - s.charge[e]], e)

EraseKey(s, k) == FinishErase(TableRemove(s, k), Find(s, k))

\* The loop at the end of Insert.
MakeRoom(s) ==
  FoldLeft(LAMBDA t, e : IF t.usage > Capacity THEN EraseKey(t, t.key[e]) ELSE t, s, s.lru)

\* FinishErase(table_.Insert(e))
Replace(s, e) == FinishErase(TableInsert(s, e), Find(s, s.key[e]))

\* Insert.  With a capacity of 0 nothing is cached.
Inserted(s, e, k, charge) ==
  LET t == [s EXCEPT !.key[e] = k, !.charge[e] = charge, !.refs[e] = 1]
  IN  MakeRoom(IF Capacity = 0 THEN t
               ELSE Replace([t EXCEPT !.refs[e] = 2, !.inCache[e] = TRUE, !.inUse = @ \cup {e},
                                      !.usage = @ + charge], e))

Pruned(s) == FoldLeft(LAMBDA t, e : EraseKey(t, t.key[e]), s, s.lru)

EmptyCache ==
  [list |-> [i \in 1..MinLength |-> <<>>], elems |-> 0,
   lru |-> <<>>, inUse |-> {}, usage |-> 0,
   key     |-> [e \in Entries |-> None],
   charge  |-> [e \in Entries |-> 0],
   refs    |-> [e \in Entries |-> 0],
   inCache |-> [e \in Entries |-> FALSE],
   deleted |-> [e \in Entries |-> 0]]      \* calls of the deleter

-----------------------------------------------------------------------------
(* The clients                                                             *)

\* FindTable, BlockReader: the key is looked up.
Lookup(t, k) ==
  /\ open /\ missing[t] = None
  /\ LET e == Find(c, k) IN
     IF e = None THEN missing' = [missing EXCEPT ![t] = k] /\ UNCHANGED <<c, held>>
     ELSE /\ e \notin held[t]
          /\ c' = Ref(c, e) /\ held' = [held EXCEPT ![t] = @ \cup {e}]
          /\ UNCHANGED missing
  /\ UNCHANGED open

\* The table is opened, the block read, and put in the cache.
Insert(t, charge) ==
  /\ missing[t] # None
  /\ \E e \in Entries :
       /\ c.key[e] = None /\ \A d \in Entries : d < e => c.key[d] # None
       /\ c' = Inserted(c, e, missing[t], charge)
       /\ held' = [held EXCEPT ![t] = @ \cup {e}]
  /\ missing' = [missing EXCEPT ![t] = None]
  /\ UNCHANGED open

\* It cannot be opened or read, or is not to be cached (cachable, fill_cache).
NotInserted(t) ==
  /\ missing[t] # None
  /\ missing' = [missing EXCEPT ![t] = None]
  /\ UNCHANGED <<c, held, open>>

\* UnrefEntry and ReleaseBlock, run by ~Iterator; TableCache::Get.
Release(t) ==
  /\ \E e \in held[t] : c' = Unref(c, e) /\ held' = [held EXCEPT ![t] = @ \ {e}]
  /\ UNCHANGED <<missing, open>>

\* TableCache::Evict
Evict(k) ==
  /\ open
  /\ c' = EraseKey(c, k)
  /\ UNCHANGED <<held, missing, open>>

Prune ==
  /\ open
  /\ c' = Pruned(c)
  /\ UNCHANGED <<held, missing, open>>

\* Mistake: the cache drops its entries and leaves those that are used elsewhere.
Destroyed_All(s) == [s EXCEPT !.lru = <<>>]

\* ~LRUCache
Destroyed(s) ==
  FoldLeft(LAMBDA t, e : Unref([t EXCEPT !.inCache[e] = FALSE], e), s, s.lru)

\* TableCache::~TableCache, when no iterator is left.
Destroy ==
  /\ open /\ \A t \in Threads : held[t] = {} /\ missing[t] = None
  /\ c' = Destroyed(c) /\ open' = FALSE
  /\ UNCHANGED <<held, missing>>

Init ==
  /\ c = EmptyCache
  /\ held = [t \in Threads |-> {}]
  /\ missing = [t \in Threads |-> None]
  /\ open = TRUE

Next ==
  \/ \E t \in Threads :
       \/ \E k \in Keys : Lookup(t, k)
       \/ \E charge \in Charges : Insert(t, charge)
       \/ NotInserted(t) \/ Release(t)
  \/ \E k \in Keys : Evict(k)
  \/ Prune \/ Destroy

Spec == Init /\ [][Next]_vars

-----------------------------------------------------------------------------
(* Properties                                                              *)

Holders(e) == {t \in Threads : e \in held[t]}
Exists(e) == c.key[e] # None

\* A table is closed, and a block freed, when the last one who uses it is done
\* and the cache has dropped it: never earlier, never twice, and it is not kept.
DeletedInTime ==
  \A e \in Entries : Exists(e) =>
    c.deleted[e] = (IF Holders(e) # {} \/ (open /\ c.inCache[e]) THEN 0 ELSE 1)

\* The comment on the two lists: an entry in the cache is on exactly one of them,
\* and on the one that says whether a client uses it.
ListsTellUse ==
  open =>
    /\ IsInjective(c.lru)
    /\ ToSet(c.lru) = {e \in Entries : c.inCache[e] /\ Holders(e) = {}}
    /\ c.inUse = {e \in Entries : c.inCache[e] /\ Holders(e) # {}}

\* However two threads raced to insert the same key, a lookup finds the entry
\* inserted last, unless it was dropped; no other entry of the key is cached.
FindsLatest ==
  open => \A k \in Keys : LET e == Find(c, k) IN
    /\ {d \in Entries : c.inCache[d] /\ c.key[d] = k} = {e} \ {None}
    /\ \A d \in Entries : c.key[d] = k /\ e # None => d =< e

\* What the cache believes it uses is the charge of what is in it.
UsageIsCharge ==
  open => c.usage = FoldLeft(LAMBDA sum, e : sum + c.charge[e], 0,
                             SetToSeq({e \in Entries : c.inCache[e]}))

\* An insertion leaves the cache above its capacity only with entries in use.
StaysWithin ==
  (\E t \in Threads, charge \in Charges : Insert(t, charge))
    => c'.usage =< Capacity \/ c'.lru = <<>>

-----------------------------------------------------------------------------
(***************************************************************************)
(* The cache of blocks that all tables of a program share (ShardedLRUCache *)
(* in util/cache.cc): a shard for each value of some bits of the hash,     *)
(* each with a mutex of its own, and identifiers that keep the keys of the *)
(* tables apart.  Threads read blocks of tables and ask how much memory is *)
(* used; every call on one shard is a step.                                *)
(*                                                                         *)
(* What a shard does is in LRUCache; here it is a set of entries, of which *)
(* any that nobody uses may be evicted.  An entry has charge 1.            *)
(***************************************************************************)

CONSTANTS
  Callers,
  NumShards,       \* kNumShards
  TotalCapacity,   \* of the whole cache
  Offsets,         \* of blocks in a table
  MaxTables        \* bound: tables opened

ShardedCacheAssumption ==
  /\ NumShards \in Nat \ {0} /\ TotalCapacity \in Nat
  /\ Offsets \subseteq Nat /\ MaxTables \in Nat

VARIABLES
  tables,          \* the cache_id of each table that was opened
  lastId,          \* last_id_
  shard,           \* the entries of each shard: [id, off, table]
  thread,          \* what each thread does
  changed          \* ghost: threads that add up charges while one changes

shardVars == <<tables, lastId, shard, thread, changed>>

Shards == 0..(NumShards - 1)

\* What a thread is at: a block of a table, an entry it holds, or a sum.
Idle == [at |-> "idle"]
Want(t, off) == [at |-> "read", table |-> t, off |-> off]
Hold(t, off, e) == [at |-> "hold", table |-> t, off |-> off, entry |-> e]
Sum(next, total) == [at |-> "sum", next |-> next, total |-> total]
Told(total) == [at |-> "told", total |-> total]

-----------------------------------------------------------------------------

\* Some function of the key; hash.cc is in Utilities.
Shard(id, off) == (id + off) % NumShards

PerShard(n) == (n + (NumShards - 1)) \div NumShards

Held == {thread[t].entry : t \in {u \in Callers : thread[u].at = "hold"}}

Charge(s) == Cardinality(shard[s])

\* Someone's sum is no longer of one moment.
Disturb == changed' = {t \in Callers : thread[t].at = "sum"} \cup changed

NewId(last) == last + 1

\* Table::Open takes an identifier for its blocks.
OpenTable(t) ==
  /\ thread[t] = Idle /\ Len(tables) < MaxTables
  /\ lastId' = NewId(lastId)
  /\ tables' = Append(tables, lastId')
  /\ UNCHANGED <<shard, thread, changed>>

Entry(table, off) == [id |-> tables[table], off |-> off, table |-> table]

Matching(id, off) == {e \in shard[Shard(id, off)] : e.id = id /\ e.off = off}

\* Lookup: an entry with the key, whoever put it there, or the block is read.
LookupBlock(t, table, off) ==
  /\ thread[t] = Idle
  /\ \/ \E e \in Matching(tables[table], off) :
          thread' = [thread EXCEPT ![t] = Hold(table, off, e)]
     \/ /\ Matching(tables[table], off) = {}
        /\ thread' = [thread EXCEPT ![t] = Want(table, off)]
  /\ UNCHANGED <<tables, lastId, shard, changed>>

Fits(es) == Cardinality(es) =< PerShard(TotalCapacity)

\* Insert: the entry replaces one with the same key, and unused entries go, no
\* more than needed, until the charge fits.
InsertBlock(t) ==
  LET w == thread[t]
      s == Shard(tables[w.table], w.off)
      e == Entry(w.table, w.off)
      all == (shard[s] \ Matching(e.id, e.off)) \cup {e}
      inUse == Held \cup {e}
  IN  /\ w.at = "read"
      /\ \E out \in SUBSET (all \ inUse) :
           /\ Fits(all \ out) \/ all \ out \subseteq inUse
           /\ \A x \in out : ~Fits((all \ out) \cup {x})
           /\ shard' = [shard EXCEPT ![s] = all \ out]
      /\ thread' = [thread EXCEPT ![t] = Hold(w.table, w.off, e)]
      /\ Disturb
      /\ UNCHANGED <<tables, lastId>>

ReleaseBlock(t) ==
  /\ thread[t].at = "hold"
  /\ thread' = [thread EXCEPT ![t] = Idle]
  /\ UNCHANGED <<tables, lastId, shard, changed>>

\* Prune: one shard after the other, here any one of them.
PruneAll(s) ==
  /\ shard[s] \ Held # {}
  /\ shard' = [shard EXCEPT ![s] = @ \cap Held]
  /\ Disturb
  /\ UNCHANGED <<tables, lastId, thread>>

FirstShard(n) == 0

\* TotalCharge: the mutex of one shard at a time.
TotalCharge(t) ==
  /\ \/ /\ thread[t] = Idle
        /\ thread' = [thread EXCEPT ![t] = Sum(FirstShard(NumShards), 0)]
     \/ /\ thread[t].at = "sum" /\ thread[t].next < NumShards
        /\ thread' = [thread EXCEPT ![t] =
                        Sum(thread[t].next + 1, thread[t].total + Charge(thread[t].next))]
     \/ /\ thread[t].at = "sum" /\ thread[t].next = NumShards
        /\ thread' = [thread EXCEPT ![t] = Told(thread[t].total)]
  /\ UNCHANGED <<tables, lastId, shard, changed>>

\* GetProperty gives the number to the caller.
Report(t) ==
  /\ thread[t].at = "told"
  /\ thread' = [thread EXCEPT ![t] = Idle]
  /\ changed' = changed \ {t}
  /\ UNCHANGED <<tables, lastId, shard>>

ShardsInit ==
  /\ tables = <<>> /\ lastId = 0
  /\ shard = [s \in Shards |-> {}]
  /\ thread = [t \in Callers |-> Idle]
  /\ changed = {}

ShardsNext ==
  \/ \E t \in Callers :
       \/ OpenTable(t)
       \/ \E table \in DOMAIN tables, off \in Offsets : LookupBlock(t, table, off)
       \/ InsertBlock(t) \/ ReleaseBlock(t) \/ TotalCharge(t) \/ Report(t)
  \/ \E s \in Shards : PruneAll(s)

ShardsSpec == ShardsInit /\ [][ShardsNext]_shardVars

-----------------------------------------------------------------------------
(* Properties                                                              *)

\* A thread that finds a block in the cache finds the block of its table: two
\* tables never use the same key.
OwnBlock ==
  \A t \in Callers :
    thread[t].at = "hold" =>
      /\ thread[t].entry.table = thread[t].table
      /\ thread[t].entry.off = thread[t].off

\* A shard exceeds its part of the capacity only by entries that threads used at
\* the same time: one for each thread.
CapacityKept ==
  \A s \in Shards :
    Charge(s) =< PerShard(TotalCapacity) \/ Charge(s) =< Cardinality(Callers)

\* approximate-memory-usage is exact if no shard changed while it was added up.
ExactWhenQuiet ==
  \A t \in Callers \ changed :
    thread[t].at = "sum" /\ thread[t].next = NumShards =>
      thread[t].total =
        Cardinality({<<s, e>> \in Shards \X UNION {shard[x] : x \in Shards} : e \in shard[s]})

=============================================================================
