------------------------------ MODULE BlockReads ------------------------------
(***************************************************************************)
(* Who owns the bytes of a block.  A table file is read through a map of   *)
(* the file or through a descriptor (util/env_posix.cc); ReadBlock         *)
(* (table/format.cc) leaves the bytes in the map or in a buffer; a Block   *)
(* owns its buffer or nothing; Table::BlockReader (table/table.cc) gives   *)
(* the block to the block cache or to the iterator.  A table goes when the *)
(* table cache has dropped it and no iterator holds it, and its map with   *)
(* it.  The two caches are those of LRUCache: here an entry is kept while  *)
(* it is in the cache or referenced, and is dropped at any time.           *)
(***************************************************************************)
EXTENDS Integers, FiniteSets

CONSTANTS
  Files,          \* numbers of table files
  Offsets,        \* of the data blocks of a file
  Readers,        \* threads, each with at most one iterator
  Filters,        \* the options have a filter policy
  BlockCache,     \* the options have a block cache
  HaveSnappy,     \* snappy is compiled in
  Objects,        \* addresses of tables, blocks and buffers
  MaxId           \* bound: tables opened

VARIABLES
  heap,           \* [bufs, blocks, bad]: allocated arrays, blocks; something
                  \* was freed twice
  table,          \* Objects -> table object, or Free
  entry,          \* block -> entry of the block cache, or Free
  nextId,         \* Cache::NewId
  iter            \* the readers

\* The null pointer is no address.
BlockReadsAssumption ==
  /\ IsFiniteSet(Readers) /\ IsFiniteSet(Objects) /\ 0 \notin Objects
  /\ Filters \in BOOLEAN /\ BlockCache \in BOOLEAN /\ HaveSnappy \in BOOLEAN
  /\ MaxId \in Nat

readsVars == <<heap, table, entry, nextId, iter>>

Free == [live |-> FALSE]
None == 0

NoIterator == [pc |-> "idle", file |-> None, table |-> None, at |-> None, block |-> None, how |-> "none",
         fill |-> TRUE]

\* A slice of an array, or of the map of table t.
InBuffer(a) == [where |-> "buffer", at |-> a]
InMap(t) == [where |-> "map", at |-> t]
Nowhere == [where |-> "nowhere", at |-> None]

-----------------------------------------------------------------------------
(* new and delete                                                          *)

\* An address that the allocator may give out.
New(S) == CHOOSE x \in S : TRUE

FreeBuffers(h) == Objects \ h.bufs
FreeBlocks(h) == {b \in Objects : h.blocks[b] = Free}
DeleteArray(h, a) == [h EXCEPT !.bad = @ \/ a \notin h.bufs, !.bufs = @ \ {a}]

\* Block::Block; of is what the bytes are, for the properties.
NewBlock(h, b, contents, of) ==
  [h EXCEPT !.blocks[b] = [live |-> TRUE, data |-> contents.data, owned |-> contents.heap, of |-> of]]

\* Block::~Block
DeleteBlock(h, b) ==
  LET h1 == IF h.blocks[b].owned THEN DeleteArray(h, h.blocks[b].data.at) ELSE h
  IN  IF h.blocks[b] = Free THEN [h EXCEPT !.bad = TRUE]
      ELSE [h1 EXCEPT !.blocks[b] = Free]

-----------------------------------------------------------------------------
(* Reads                                                                   *)

\* RandomAccessFile::Read: a descriptor may give less than was asked for, a
\* map gives all or an error; a map answers with its own bytes.
FileRead(map) == IF map THEN {"error", "whole"} ELSE {"error", "short", "whole"}
ReadInto(t, map, buf) == IF map THEN InMap(t) ELSE InBuffer(buf)

\* What follows the bytes of a block, and what its checksum says.
BlockTypes == {"mismatch", "plain", "snappy", "unknown"}

NotRead(h) == [h |-> h, ok |-> FALSE]

\* Mistake: the bytes of a map may be cached as any others.
PlainContents_Cachable(h, data, buf) ==
  IF data # InBuffer(buf)
  THEN [h |-> DeleteArray(h, buf), ok |-> TRUE, contents |-> [data |-> data, heap |-> FALSE, cachable |-> TRUE]]
  ELSE [h |-> h, ok |-> TRUE, contents |-> [data |-> data, heap |-> TRUE, cachable |-> TRUE]]

\* A block that is not compressed.
PlainContents(h, data, buf) ==
  IF data # InBuffer(buf)
  THEN [h |-> DeleteArray(h, buf), ok |-> TRUE, contents |-> [data |-> data, heap |-> FALSE, cachable |-> FALSE]]
  ELSE [h |-> h, ok |-> TRUE, contents |-> [data |-> data, heap |-> TRUE, cachable |-> TRUE]]

\* A compressed one is a new array.
SnappyContents(h, buf) ==
  LET ubuf == New(FreeBuffers(h))
      h1   == [h EXCEPT !.bufs = @ \cup {ubuf}]
  IN  [h |-> DeleteArray(h1, buf), ok |-> TRUE, contents |-> [data |-> InBuffer(ubuf), heap |-> TRUE, cachable |-> TRUE]]

\* The results of ReadBlock from table object t.
ReadBlock(h, t, map) ==
  LET buf  == New(FreeBuffers(h))
      h1   == [h EXCEPT !.bufs = @ \cup {buf}]
      fail == NotRead(DeleteArray(h1, buf))
      data == ReadInto(t, map, buf)
      Got(read, type) ==
        IF read # "whole" \/ type \in {"mismatch", "unknown"} THEN fail
        ELSE IF type = "plain" THEN PlainContents(h1, data, buf)
        ELSE IF HaveSnappy THEN SnappyContents(h1, buf) ELSE fail
  IN  {Got(read, type) : read \in FileRead(map), type \in BlockTypes}

\* Room for what a step allocates.
Room(h, n) == Cardinality(FreeBuffers(h)) >= n /\ Cardinality(FreeBlocks(h)) >= n

-----------------------------------------------------------------------------
(* Tables and their cache                                                  *)

CacheId == IF BlockCache THEN nextId ELSE 0

\* Table::Open: the index block, then the filter, whose absence is no error.
\* The results are [h, ok] and, if ok, the table.
Opened(h, t, n, map) ==
  LET Table(b, fil) == [live |-> TRUE, file |-> n, map |-> map, id |-> CacheId, index |-> b, filter |-> fil,
                        cached |-> TRUE, refs |-> 2]
      NoFilter == [data |-> Nowhere, delete |-> FALSE]
      WithIndex(r) == LET b == New(FreeBlocks(r.h))
                      IN  [h |-> NewBlock(r.h, b, r.contents, <<n, "index">>), b |-> b]
      FilterOf(r) == IF ~r.ok THEN NoFilter ELSE [data |-> r.contents.data, delete |-> r.contents.heap]
      Rest(r) == LET x == WithIndex(r) IN
        IF ~Filters THEN {[h |-> x.h, ok |-> TRUE, table |-> Table(x.b, NoFilter)]}
        ELSE {[h |-> f.h, ok |-> TRUE, table |-> Table(x.b, FilterOf(f))] : f \in ReadBlock(x.h, t, map)}
  IN  UNION {IF r.ok THEN Rest(r) ELSE {r} : r \in ReadBlock(h, t, map)}

\* DeleteEntry, Table::Rep::~Rep and the destructor of the file.
DeleteTable(h, t) ==
  LET f  == table[t].filter
      h1 == IF f.delete THEN DeleteArray(h, f.data.at) ELSE h
  IN  DeleteBlock(h1, table[t].index)

\* Cache::Release and Erase for a table: [h, table].
UnrefTable(h, tab, t) ==
  IF tab[t].refs = 1 THEN [h |-> DeleteTable(h, t), table |-> [tab EXCEPT ![t] = Free]]
  ELSE [h |-> h, table |-> [tab EXCEPT ![t].refs = @ - 1]]

FreeTables == {t \in Objects : ~table[t].live}
CachedTable(n) == {t \in Objects : table[t].live /\ table[t].file = n /\ table[t].cached}

Uncached(h, tab, S) ==
  IF S = {} THEN [h |-> h, table |-> tab]
  ELSE LET t == New(S) IN UnrefTable(h, [tab EXCEPT ![t].cached = FALSE], t)

\* FindTable: the lookup.
FindTable(r, n) ==
  /\ iter[r].pc = "idle"
  /\ LET S == CachedTable(n) IN
     IF S = {} THEN /\ iter' = [iter EXCEPT ![r].pc = "opening", ![r].file = n]
                    /\ UNCHANGED table
     ELSE LET t == New(S)
          IN  /\ iter' = [iter EXCEPT ![r].pc = "open", ![r].file = n, ![r].table = t]
              /\ table' = [table EXCEPT ![t].refs = @ + 1]
  /\ UNCHANGED <<heap, entry, nextId>>

\* FindTable: the file is opened and inserted, in the place of one that
\* another reader inserted in between.
OpenTable(r) ==
  /\ iter[r].pc = "opening" /\ nextId =< MaxId /\ Room(heap, 4)
  /\ FreeTables # {}
  /\ \E map \in BOOLEAN : \E x \in Opened(heap, New(FreeTables), iter[r].file, map) :
       IF ~x.ok THEN heap' = x.h /\ iter' = [iter EXCEPT ![r] = NoIterator] /\ UNCHANGED <<table, nextId>>
       ELSE LET t == New(FreeTables)
                y == Uncached(x.h, table, CachedTable(iter[r].file))
            IN  /\ heap' = y.h /\ table' = [y.table EXCEPT ![t] = x.table]
                /\ nextId' = nextId + 1
                /\ iter' = [iter EXCEPT ![r].pc = "open", ![r].table = t]
  /\ UNCHANGED entry

\* Evict, or the cache has no room.
EvictTable(n) ==
  /\ CachedTable(n) # {}
  /\ LET y == Uncached(heap, table, CachedTable(n)) IN heap' = y.h /\ table' = y.table
  /\ UNCHANGED <<entry, nextId, iter>>

-----------------------------------------------------------------------------
(* Blocks and their cache                                                  *)

\* Release and Erase for a block: [h, entry].
UnrefEntry(h, en, b) ==
  IF en[b].refs = 1 THEN [h |-> DeleteBlock(h, b), entry |-> [en EXCEPT ![b] = Free]]
  ELSE [h |-> h, entry |-> [en EXCEPT ![b].refs = @ - 1]]

CachedBlock(key) == {b \in Objects : entry[b].live /\ entry[b].key = key /\ entry[b].cached}

Erased(h, en, S) ==
  IF S = {} THEN [h |-> h, entry |-> en]
  ELSE LET b == New(S) IN UnrefEntry(h, [en EXCEPT ![b].cached = FALSE], b)

\* The cleanup function of an iterator over a block.
Cleanup(h, en, block, how) ==
  CASE how = "none" -> [h |-> h, entry |-> en]
    [] how = "delete" -> [h |-> DeleteBlock(h, block), entry |-> en]
    [] how = "release" -> UnrefEntry(h, en, block)

\* IteratorWrapper::Set: the iterator over the old block is deleted.
SetData(r, h, en, block, how) ==
  LET x == Cleanup(h, en, iter[r].block, iter[r].how) IN
  /\ heap' = x.h /\ entry' = x.entry
  /\ iter' = [iter EXCEPT ![r].pc = "open", ![r].block = block, ![r].how = how]

CacheKey(r, off) == <<table[iter[r].table].id, off>>

\* BlockReader: the lookup.
BlockReader(r, off, fill) ==
  /\ iter[r].pc = "open"
  /\ LET S == IF BlockCache THEN CachedBlock(CacheKey(r, off)) ELSE {} IN
     IF S = {} THEN iter' = [iter EXCEPT ![r].pc = "reading", ![r].at = off, ![r].fill = fill]
                    /\ UNCHANGED <<heap, entry>>
     ELSE LET b  == New(S)
              en == [entry EXCEPT ![b].refs = @ + 1]
              x  == Cleanup(heap, en, iter[r].block, iter[r].how)
          IN  /\ heap' = x.h /\ entry' = x.entry
              /\ iter' = [iter EXCEPT ![r].block = b, ![r].how = "release", ![r].at = off]
  /\ UNCHANGED <<table, nextId>>

\* BlockReader: the block is read, and cached if it may be.
ReadIn(r) ==
  /\ iter[r].pc = "reading" /\ Room(heap, 2)
  /\ LET t == iter[r].table
         key == CacheKey(r, iter[r].at)
         b   == New(FreeBlocks(heap))
     IN  \E x \in ReadBlock(heap, t, table[t].map) :
           IF ~x.ok THEN SetData(r, x.h, entry, None, "none")
           ELSE LET h1 == NewBlock(x.h, b, x.contents, <<table[t].file, iter[r].at>>)
                    y  == Erased(h1, entry, CachedBlock(key))
                IN  IF BlockCache /\ x.contents.cachable /\ iter[r].fill
                    THEN SetData(r, y.h, [y.entry EXCEPT ![b] = [live |-> TRUE, key |-> key, cached |-> TRUE, refs |-> 2]],
                                 b, "release")
                    ELSE SetData(r, h1, entry, b, "delete")
  /\ UNCHANGED <<table, nextId>>

\* The iterator leaves the last block.
LeaveBlock(r) ==
  /\ iter[r].pc = "open" /\ iter[r].how # "none"
  /\ SetData(r, heap, entry, None, "none")
  /\ UNCHANGED <<table, nextId>>

\* The cache drops a block that nobody uses, or all of them (Prune).
EvictBlock(b) ==
  /\ entry[b].live /\ entry[b].cached /\ entry[b].refs = 1
  /\ LET y == Erased(heap, entry, {b}) IN heap' = y.h /\ entry' = y.entry
  /\ UNCHANGED <<table, nextId, iter>>

\* The iterator is deleted: its members first, then its own cleanup.
DeleteIterator(r) ==
  /\ iter[r].pc = "open"
  /\ LET x == Cleanup(heap, entry, iter[r].block, iter[r].how) IN heap' = x.h /\ entry' = x.entry
  /\ iter' = [iter EXCEPT ![r] = [NoIterator EXCEPT !.pc = "closing", !.file = iter[r].file, !.table = iter[r].table]]
  /\ UNCHANGED <<table, nextId>>

ReleaseTable(r) ==
  /\ iter[r].pc = "closing"
  /\ LET y == UnrefTable(heap, table, iter[r].table) IN heap' = y.h /\ table' = y.table
  /\ iter' = [iter EXCEPT ![r] = NoIterator]
  /\ UNCHANGED <<entry, nextId>>

-----------------------------------------------------------------------------

ReadsInit ==
  /\ heap = [bufs |-> {}, blocks |-> [b \in Objects |-> Free], bad |-> FALSE]
  /\ table = [t \in Objects |-> Free]
  /\ entry = [b \in Objects |-> Free]
  /\ nextId = 1
  /\ iter = [r \in Readers |-> NoIterator]

ReadsNext ==
  \/ \E r \in Readers :
       \/ \E n \in Files : FindTable(r, n)
       \/ OpenTable(r)
       \/ \E off \in Offsets, fill \in BOOLEAN : BlockReader(r, off, fill)
       \/ ReadIn(r) \/ LeaveBlock(r) \/ DeleteIterator(r) \/ ReleaseTable(r)
  \/ \E n \in Files : EvictTable(n)
  \/ \E b \in Objects : EvictBlock(b)

ReadsSpec == ReadsInit /\ [][ReadsNext]_readsVars

-----------------------------------------------------------------------------
(* Properties                                                              *)

\* The bytes are there.
Alive(data) == IF data.where = "buffer" THEN data.at \in heap.bufs ELSE table[data.at].live

\* The block an iterator stands in, the index and the filter of a table that
\* somebody holds, and every block of the block cache can be read: "the
\* assumption that it will be live while the file is open" (format.cc:104) is
\* enough, although the cache outlives the table.
BytesAreThere ==
  /\ \A r \in Readers : iter[r].table # None => table[iter[r].table].live
  /\ \A r \in Readers : iter[r].how # "none" => heap.blocks[iter[r].block].live
  /\ \A b \in Objects : entry[b].live => heap.blocks[b].live
  /\ \A b \in Objects : heap.blocks[b].live => Alive(heap.blocks[b].data)
  /\ \A t \in Objects : table[t].live /\ table[t].filter.data # Nowhere => Alive(table[t].filter.data)

\* Arrays and blocks are freed once, and none is left over that nobody would
\* free: a table frees its index and its filter, an entry or an iterator its
\* block, a block its array.
NothingLeaks ==
  LET blocks == {b \in Objects : heap.blocks[b].live}
      tables == {t \in Objects : table[t].live}
  IN  /\ ~heap.bad
      /\ blocks = {table[t].index : t \in tables} \cup {b \in Objects : entry[b].live}
                  \cup {iter[r].block : r \in {r \in Readers : iter[r].how = "delete"}}
      /\ heap.bufs = {heap.blocks[b].data.at : b \in {b \in blocks : heap.blocks[b].owned}}
                     \cup {table[t].filter.data.at : t \in {t \in tables : table[t].filter.delete}}

\* A reader gets the block it asked for: the cache tells the tables apart, also
\* two objects of one file and a table opened where another one was.
RightBlock ==
  \A r \in Readers : iter[r].how # "none" /\ iter[r].pc = "open" =>
    heap.blocks[iter[r].block].of = <<iter[r].file, iter[r].at>>

\* All three: a block, a table or a filter in use is there and is the right one,
\* and is freed once when nobody uses it.
InUseIsLive == BytesAreThere /\ NothingLeaks /\ RightBlock
=============================================================================
