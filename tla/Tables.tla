-------------------------------- MODULE Tables --------------------------------
(***************************************************************************)
(* Tables of leveldb: table_builder.cc writes sorted entries in blocks     *)
(* with an index, a filter and a footer to a file whose operations may     *)
(* fail; table.cc opens the file and looks keys up.                        *)
(*                                                                         *)
(* A key is [u, seq]: a user key, a sequence of letters, and a sequence    *)
(* number.  A block takes as many units of the file as it has entries, and *)
(* one more for its trailer; how entries are stored in it is in Blocks.    *)
(* file maps offsets to what was written there.                            *)
(***************************************************************************)
EXTENDS Integers, Sequences, FiniteSets, SequencesExt, FiniteSetsExt, Functions

CONSTANTS
  Letters,      \* numbers, the largest stands for byte 0xff
  MaxLen,       \* bound: letters of a user key
  MaxSeq,       \* bound: sequence numbers
  MaxEntries,   \* bound: entries of a table
  BlockSizes,   \* Options::block_size, in entries
  FilterBase,   \* kFilterBase, in units of the file
  BitsPerKey,   \* of the bloom filter
  ByteBits,     \* bits of a byte of the filter
  Filtered,     \* whether there is a filter policy
  Faults        \* of "append", "damage"

VARIABLES
  stage,        \* building, closed, then open or refused
  blockSize,    \* Options::block_size
  file, offset, \* what is in the file; TableBuilder::Rep::offset
  good,         \* Rep::status.ok()
  dataBlock,    \* Rep::data_block: keys
  index,        \* Rep::index_block: [key, handle]
  last, added,  \* Rep::last_key; the keys that were added
  pending,      \* Rep::pending_index_entry: a handle, or NoHandle
  filter,       \* FilterBlockBuilder: [filters, keys]
  failed,       \* an operation on the file failed
  damaged,      \* offsets where the file is no longer as it was written
  table         \* the open table: [index, filter, meta]

vars == <<stage, blockSize, file, offset, good, dataBlock, index, last, added, pending, filter, failed,
          damaged, table>>

NoHandle == [off |-> -1, size |-> -1]
NoFilter == [filters |-> <<>>, has |-> FALSE]
MaxSequence == MaxSeq + 1
MaxByte == Max(Letters)
UserKeys == UNION {[1..n -> Letters] : n \in 1..MaxLen}
InternalKeys == [u : UserKeys, seq : 1..MaxSeq]

-----------------------------------------------------------------------------
(* Comparators                                                             *)

\* BytewiseComparatorImpl::Compare
Less(a, b) ==
  \/ IsStrictPrefix(a, b)
  \/ \E n \in 1..Len(a) : n =< Len(b) /\ SubSeq(a, 1, n - 1) = SubSeq(b, 1, n - 1) /\ a[n] < b[n]

\* InternalKeyComparator::Compare
Before(a, b) == Less(a.u, b.u) \/ (a.u = b.u /\ a.seq > b.seq)

Incremented(u, n) == Append(SubSeq(u, 1, n - 1), u[n] + 1)

\* BytewiseComparatorImpl::FindShortestSeparator
UserSeparator(start, limit) ==
  LET diffs == {n \in 1..Len(start) : n =< Len(limit) /\ start[n] # limit[n]}
      d     == Min(diffs)
  IN  IF diffs # {} /\ start[d] < MaxByte /\ start[d] + 1 < limit[d] THEN Incremented(start, d) ELSE start

\* BytewiseComparatorImpl::FindShortSuccessor
UserSuccessor(u) ==
  LET free == {n \in 1..Len(u) : u[n] # MaxByte}
  IN  IF free = {} THEN u ELSE Incremented(u, Min(free))

\* The user key has become shorter physically but larger logically.
Shortened(key, u) == IF Len(u) < Len(key.u) /\ Less(key.u, u) THEN [u |-> u, seq |-> MaxSequence] ELSE key

\* InternalKeyComparator::FindShortestSeparator, FindShortSuccessor
FindShortestSeparator(key, limit) == Shortened(key, UserSeparator(key.u, limit.u))
FindShortSuccessor(key) == Shortened(key, UserSuccessor(key.u))

-----------------------------------------------------------------------------
(* Bloom filters.  A filter is [bytes, bits, k]; bits is a set.            *)

HashMod == 256

\* Any function of the user key.
BloomHash(u) == FoldLeft(LAMBDA h, x : (7 * h + 11 * x) % HashMod, 5, u)

Probes == Max({1, Min({30, (BitsPerKey * 69) \div 100})})

\* The bits that k probes of a key look at, of so many.
BitsOf(u, bits, k) ==
  LET h     == BloomHash(u)
      delta == (h \div 8) + ((h * 32) % HashMod)
  IN  {((h + j * delta) % HashMod) % bits : j \in 0..(k - 1)}

FilterBits(n) ==
  LET wanted == IF n * BitsPerKey < ByteBits THEN ByteBits ELSE n * BitsPerKey
  IN  ((wanted + ByteBits - 1) \div ByteBits) * ByteBits

\* BloomFilterPolicy::CreateFilter of InternalFilterPolicy's user keys.
CreateFilter(keys) ==
  LET bits == FilterBits(Len(keys))
  IN  [bytes |-> (bits + ByteBits - 1) \div ByteBits,
       bits |-> UNION {BitsOf(keys[n].u, bits, Probes) : n \in DOMAIN keys}, k |-> Probes]

EmptyFilter == [bytes |-> 0, bits |-> {}, k |-> 0]

\* BloomFilterPolicy::KeyMayMatch
PolicyMayMatch(key, f) ==
  f.bytes > 0 /\ (f.k > 30 \/ BitsOf(key.u, f.bytes * ByteBits, f.k) \subseteq f.bits)

-----------------------------------------------------------------------------
(* FilterBlockBuilder, FilterBlockReader                                   *)

\* GenerateFilter
GenerateFilter(f) ==
  [filters |-> Append(f.filters, IF f.keys = <<>> THEN EmptyFilter ELSE CreateFilter(f.keys)), keys |-> <<>>]

\* FilterBlockBuilder: the filters made, and the keys that go into the next.
FilterBuilder == [filters |-> <<>>, keys |-> <<>>]

AddKey(f, key) == [f EXCEPT !.keys = Append(@, key)]

\* StartBlock: the filters before the one for this offset are generated.
RECURSIVE StartBlock(_, _)
StartBlock(f, off) ==
  IF off \div FilterBase > Len(f.filters) THEN StartBlock(GenerateFilter(f), off) ELSE f

\* Finish
FinishFilter(f) == IF f.keys = <<>> THEN f ELSE GenerateFilter(f)

\* FilterBlockReader::KeyMayMatch.  Errors are treated as potential matches.
KeyMayMatch(filters, off, key) ==
  LET n == off \div FilterBase + 1 IN n \in DOMAIN filters => PolicyMayMatch(key, filters[n])

-----------------------------------------------------------------------------
(* TableBuilder.  b is the builder's state.                                *)

This == [file |-> file, offset |-> offset, good |-> good, dataBlock |-> dataBlock, index |-> index,
         last |-> last, pending |-> pending, filter |-> filter, failed |-> failed]

\* WriteRawBlock: both the contents and the trailer are appended.  A handle of
\* the block is Handle(b, size), taken before.
Handle(b, size) == [off |-> b.offset, size |-> size]

WriteRawBlock(b, what, size, ok) ==
  IF ~ok THEN [b EXCEPT !.good = FALSE, !.failed = TRUE]
  ELSE [b EXCEPT !.file = @ @@ (b.offset :> what), !.offset = @ + size + 1]

\* Flush, after the block was written: the index entry is due.
AfterFlush(b, w, flushed) ==
  IF ~w.good THEN w
  ELSE [w EXCEPT !.pending = Handle(b, Len(b.dataBlock)), !.good = flushed, !.failed = @ \/ ~flushed]

\* Flush: with wrote the block is appended, with flushed the file is flushed.
NextBlock(w) ==
  [w EXCEPT !.dataBlock = <<>>, !.filter = IF Filtered THEN StartBlock(@, w.offset) ELSE @]
Flushed(b, wrote, flushed) ==
  IF ~b.good \/ b.dataBlock = <<>> THEN b
  ELSE NextBlock(AfterFlush(b, WriteRawBlock(b, b.dataBlock, Len(b.dataBlock), wrote), flushed))

\* Mistake: a block is entered in the index under the first key of the next.
IndexKey_First(b, key) == key

\* The key under which a block is entered in the index when the next one begins.
IndexKey(b, key) == FindShortestSeparator(b.last, key)

WithIndexEntry(b, key) ==
  IF b.pending = NoHandle THEN b
  ELSE [b EXCEPT !.index = Append(@, [key |-> key, handle |-> b.pending]), !.pending = NoHandle]

\* Add
WithKey(b, key) ==
  [b EXCEPT !.filter = IF Filtered THEN AddKey(@, key) ELSE @, !.last = key, !.dataBlock = Append(@, key)]
FlushedWhenFull(b, wrote, flushed) ==
  IF Len(b.dataBlock) >= blockSize THEN Flushed(b, wrote, flushed) ELSE b
Added(b, key, wrote, flushed) ==
  IF ~b.good THEN b
  ELSE FlushedWhenFull(WithKey(WithIndexEntry(b, IndexKey(b, key)), key), wrote, flushed)

\* The end of a file: where the metaindex and the index are.
Footer(meta, ind) == [meta |-> meta, index |-> ind]

\* Finish: data, filter, metaindex, index, footer; the n-th write fails.
WithFooter(b, meta, ind, n) == IF b.good THEN WriteRawBlock(b, Footer(meta, ind), 0, n # 6) ELSE b
WithIndex(b, meta, n) ==
  IF ~b.good THEN b
  ELSE WithFooter(WriteRawBlock(b, b.index, Len(b.index), n # 5), meta, Handle(b, Len(b.index)), n)
WithLastEntry(b, meta, n) ==
  IF ~b.good THEN b ELSE WithIndex(WithIndexEntry(b, FindShortSuccessor(b.last)), meta, n)
WithMetaindex(b, filters, n) ==
  IF ~b.good THEN b
  ELSE WithLastEntry(WriteRawBlock(b, filters, 1, n # 4), Handle(b, 1), n)
WithFilter(b, fs, n) ==
  IF b.good /\ Filtered THEN WithMetaindex(WriteRawBlock(b, fs, Len(fs), n # 3), Handle(b, Len(fs)), n)
  ELSE WithMetaindex(b, NoHandle, n)
Closed(b, n) == WithFilter(b, FinishFilter(b.filter).filters, n)
Finished(b, n) == Closed(Flushed(b, n # 1, n # 2), n)

Becomes(b) ==
  /\ file' = b.file /\ offset' = b.offset /\ good' = b.good /\ dataBlock' = b.dataBlock
  /\ index' = b.index /\ last' = b.last /\ pending' = b.pending /\ filter' = b.filter
  /\ failed' = b.failed

FailModes == IF "append" \in Faults THEN BOOLEAN ELSE {TRUE}

Add(key) ==
  /\ stage = "building" /\ Len(added) < MaxEntries
  /\ added # <<>> => Before(Last(added), key)
  /\ \E wrote, flushed \in FailModes : Becomes(Added(This, key, wrote, flushed))
  /\ added' = Append(added, key)
  /\ UNCHANGED <<stage, blockSize, damaged, table>>

Flush ==
  /\ stage = "building"
  /\ \E wrote, flushed \in FailModes : Becomes(Flushed(This, wrote, flushed))
  /\ UNCHANGED <<stage, blockSize, added, damaged, table>>

ChangeOptions ==
  /\ stage = "building" /\ blockSize' \in BlockSizes
  /\ UNCHANGED <<stage, file, offset, good, dataBlock, index, last, added, pending, filter, failed, damaged,
                 table>>

Finish ==
  /\ stage = "building"
  /\ \E n \in 0..(IF "append" \in Faults THEN 6 ELSE 0) : Becomes(Finished(This, n))
  /\ stage' = "closed"
  /\ UNCHANGED <<blockSize, added, damaged, table>>

Abandon ==
  /\ stage = "building" /\ stage' = "abandoned"
  /\ UNCHANGED <<blockSize, file, offset, good, dataBlock, index, last, added, pending, filter, failed,
                 damaged, table>>

-----------------------------------------------------------------------------
(* Table.  A damaged block fails its checksum.                             *)

Damage ==
  /\ "damage" \in Faults /\ stage = "closed" /\ good
  /\ damaged = {} /\ \E off \in DOMAIN file : damaged' = {off}
  /\ UNCHANGED <<stage, blockSize, file, offset, good, dataBlock, index, last, added, pending, filter,
                 failed, table>>

\* ReadBlock
Readable(off) == off \in DOMAIN file \ damaged

\* ReadMeta, ReadFilter: without a filter the table is still usable.
ReadMeta(meta) ==
  IF ~Filtered \/ ~Readable(meta.off) THEN NoFilter
  ELSE IF file[meta.off] = NoHandle \/ ~Readable(file[meta.off].off) THEN NoFilter
  ELSE [filters |-> file[file[meta.off].off], has |-> TRUE]

Usable(foot) == Readable(foot) /\ Readable(file[foot].index.off)

\* Table::Open of the file the builder reported as good.
Open ==
  /\ stage = "closed" /\ good
  /\ LET foot == offset - 1
         ok   == Usable(foot)
     IN  /\ stage' = IF ok THEN "open" ELSE "refused"
         /\ table' = IF ~ok THEN table
                     ELSE [index |-> file[file[foot].index.off], filter |-> ReadMeta(file[foot].meta),
                           meta |-> file[foot].meta]
  /\ UNCHANGED <<blockSize, file, offset, good, dataBlock, index, last, added, pending, filter, failed,
                 damaged>>

\* Iterator::Seek on a sorted list: the first position that is not before t.
SeekIn(keys, t) ==
  LET hits == {n \in DOMAIN keys : ~Before(keys[n], t)} IN IF hits = {} THEN 0 ELSE Min(hits)

IndexKeys == [n \in DOMAIN table.index |-> table.index[n].key]

\* Table::InternalGet: what the saver is given for a key: an entry, nothing, or
\* an error.
InternalGet(t) ==
  LET n     == SeekIn(IndexKeys, t)
      h     == table.index[n].handle
      block == file[h.off]
      e     == SeekIn(block, t)
      Found(es) == [ok |-> TRUE, entries |-> es]
  IN  IF n = 0 THEN Found({})
      ELSE IF table.filter.has /\ ~KeyMayMatch(table.filter.filters, h.off, t) THEN Found({})
      ELSE IF ~Readable(h.off) THEN [ok |-> FALSE, entries |-> {}]
      ELSE Found(IF e = 0 THEN {} ELSE {block[e]})

\* Table::ApproximateOffsetOf
ApproximateOffsetOf(t) ==
  LET n == SeekIn(IndexKeys, t) IN IF n = 0 THEN table.meta.off ELSE table.index[n].handle.off

-----------------------------------------------------------------------------

Init ==
  /\ stage = "building" /\ blockSize \in BlockSizes
  /\ file = <<>> /\ offset = 0 /\ good = TRUE /\ dataBlock = <<>> /\ index = <<>>
  /\ last = [u |-> <<>>, seq |-> 0] /\ added = <<>> /\ pending = NoHandle
  /\ filter = FilterBuilder
  /\ failed = FALSE /\ damaged = {}
  /\ table = [index |-> <<>>, filter |-> NoFilter, meta |-> NoHandle]

Next ==
  \/ (\E key \in InternalKeys : Add(key)) \/ Flush \/ ChangeOptions \/ Finish \/ Abandon
  \/ Damage \/ Open

Spec == Init /\ [][Next]_vars

-----------------------------------------------------------------------------
(* Properties                                                              *)

\* The entry a reader of user key u at a snapshot has to see.
Newest(u, seq) ==
  LET own == {n \in DOMAIN added : added[n].u = u /\ added[n].seq =< seq}
  IN  IF own = {} THEN {} ELSE {added[Min(own)]}

\* Looking up a user key at a snapshot gives the newest entry that is not newer,
\* or nothing if there is none, or an error if the block cannot be read: neither
\* shortened index keys nor the filter, nor block boundaries hide an entry.
GetFindsNewest ==
  stage = "open" => \A u \in UserKeys, seq \in 1..MaxSeq :
    LET got == InternalGet([u |-> u, seq |-> seq])
    IN  got.ok => {e \in got.entries : e.u = u} = Newest(u, seq)

\* A table whose builder reported success had no operation on its file fail.
FailureIsKept == stage = "closed" /\ good => ~failed

\* A table that was written without an error can be opened unless its footer or
\* its index was damaged; a filter that cannot be read does not matter.
OpensAgain ==
  stage = "refused" => {offset - 1, file[offset - 1].index.off} \cap damaged # {}

\* Approximate offsets grow with the key, so the size of a range is not negative.
OffsetsGrow ==
  stage = "open" => \A a, b \in InternalKeys :
    Before(a, b) => ApproximateOffsetOf(a) =< ApproximateOffsetOf(b)

=============================================================================
