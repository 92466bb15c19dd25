------------------------------- MODULE Batches -------------------------------
(***************************************************************************)
(* A batch of writes on its way from the caller to the log and to the      *)
(* memtable (db/write_batch.cc, db/memtable.cc, db/dbformat.h): how it is  *)
(* put together, merged with another, numbered, taken apart, and looked up *)
(* again by the keys of its entries.                                       *)
(***************************************************************************)
EXTENDS Coding, SequencesExt

CONSTANTS
  SeqBytes, CountBytes,   \* 8, 4
  MaxKey,                 \* keys: strings of at most that many bytes Letters
  Letters,
  MaxOps                  \* bound: records

VARIABLES
  batch,        \* rep_ of two batches
  ops,          \* ghost: what was put in them
  mem,          \* the entries of the memtable, as Add encodes them
  last,         \* the last sequence number
  logged,       \* the batch written last, as the log has it
  did           \* ghost: all records written, in order

vars == <<batch, ops, mem, last, logged, did>>

Keys == UNION {[1..n -> Letters] : n \in 0..MaxKey}
kTypeDeletion == 0
kTypeValue == 1

-----------------------------------------------------------------------------
(* WriteBatch                                                              *)

kHeader == SeqBytes + CountBytes

Sequence(rep) == DecodeFixed(SubSeq(rep, 1, SeqBytes))
Count(rep) == DecodeFixed(SubSeq(rep, SeqBytes + 1, kHeader))
Body(rep) == SubSeq(rep, kHeader + 1, Len(rep))

SetSequence(rep, seq) == EncodeFixed(seq, SeqBytes) \o SubSeq(rep, SeqBytes + 1, Len(rep))
SetCount(rep, n) == SubSeq(rep, 1, SeqBytes) \o EncodeFixed(n, CountBytes) \o Body(rep)

Clear == EncodeFixed(0, kHeader)

Put(rep, key, value) ==
  SetCount(rep, Count(rep) + 1) \o <<kTypeValue>>
    \o PutLengthPrefixedSlice(key) \o PutLengthPrefixedSlice(value)

Delete(rep, key) ==
  SetCount(rep, Count(rep) + 1) \o <<kTypeDeletion>> \o PutLengthPrefixedSlice(key)

\* WriteBatchInternal::Append
AppendBatch(dst, src) == SetCount(dst, Count(dst) + Count(src)) \o Body(src)

\* One turn of the loop of Iterate: a record and the rest, or nothing.
Record(type, key, value) ==
  IF ~value.ok THEN NoValue
  ELSE [ok |-> TRUE, op |-> [type |-> type, key |-> key.value, value |-> value.value], rest |-> value.rest]
RecordAfter(type, key) ==
  IF ~key.ok THEN NoValue
  ELSE Record(type, key, IF type = kTypeDeletion THEN [ok |-> TRUE, value |-> <<>>, rest |-> key.rest]
                         ELSE GetLengthPrefixedSlice(key.rest))
NextRecord(input) ==
  IF Head(input) \notin {kTypeValue, kTypeDeletion} THEN NoValue
  ELSE RecordAfter(Head(input), GetLengthPrefixedSlice(Tail(input)))

\* found != WriteBatchInternal::Count(this)
CountsMatch(found, count) == found = count

\* Iterate: what the handler is called with, and whether the status is ok.
RECURSIVE Records(_, _), RecordsAfter(_, _)
Records(input, seen) ==
  IF input = <<>> THEN [ok |-> TRUE, ops |-> seen] ELSE RecordsAfter(NextRecord(input), seen)
RecordsAfter(r, seen) ==
  IF ~r.ok THEN [ok |-> FALSE, ops |-> seen] ELSE Records(r.rest, Append(seen, r.op))
Counted(all, count) == [all EXCEPT !.ok = @ /\ CountsMatch(Len(all.ops), count)]
Iterate(rep) ==
  IF Len(rep) < kHeader THEN [ok |-> FALSE, ops |-> <<>>]
  ELSE Counted(Records(Body(rep), <<>>), Count(rep))

-----------------------------------------------------------------------------
(* Internal keys and the memtable                                          *)

\* PackSequenceAndType: the type is the low byte.
Pack(seq, type) == seq * (2 * B) + type

\* AppendInternalKey
InternalKey(key, seq, type) == key \o EncodeFixed(Pack(seq, type), SeqBytes)

ExtractUserKey(k) == SubSeq(k, 1, Len(k) - SeqBytes)
Tag(k) == DecodeFixed(SubSeq(k, Len(k) - SeqBytes + 1, Len(k)))

Less(a, b) ==
  \/ Len(a) < Len(b) /\ SubSeq(b, 1, Len(a)) = a
  \/ \E i \in 1..Len(a) : i =< Len(b) /\ a[i] < b[i] /\ SubSeq(a, 1, i - 1) = SubSeq(b, 1, i - 1)

\* Ties are broken by decreasing number.
TagBefore(s, t) == s > t

\* InternalKeyComparator::Compare(a, b) < 0
Before(a, b) ==
  \/ Less(ExtractUserKey(a), ExtractUserKey(b))
  \/ ExtractUserKey(a) = ExtractUserKey(b) /\ TagBefore(Tag(a), Tag(b))

\* MemTable::Add
Entry(seq, type, key, value) ==
  PutLengthPrefixedSlice(InternalKey(key, seq, type)) \o PutLengthPrefixedSlice(value)

\* encoded_len: what Add asks the arena for.
EncodedLength(key, value) ==
  LET internal == Len(key) + SeqBytes
  IN  VarintLength(internal) + internal + VarintLength(Len(value)) + Len(value)

EntryKey(e) == GetLengthPrefixedSlice(e).value
EntryValue(e) == GetLengthPrefixedSlice(GetLengthPrefixedSlice(e).rest).value

\* Mistake: all records of a batch get the number of the batch.
NumberOf_Batch(first, i) == first

\* sequence_++ of MemTableInserter
NumberOf(first, i) == first + i - 1

\* WriteBatchInternal::InsertInto
Inserted(table, first, r) ==
  table \cup {Entry(NumberOf(first, i), r[i].type, r[i].key, r[i].value) : i \in DOMAIN r}
InsertInto(rep, table) == Inserted(table, Sequence(rep), Iterate(rep).ops)

\* LookupKey::LookupKey; the memtable key has the length in front.
LookupKey(key, seq) == InternalKey(key, seq, kTypeValue)

\* MemTable::Get: "none", "deleted" or the value.
Answer(found, key) ==
  IF ExtractUserKey(EntryKey(found)) # key THEN <<"none">>
  ELSE IF Tag(EntryKey(found)) % (2 * B) = kTypeDeletion THEN <<"deleted">>
  ELSE <<"value", EntryValue(found)>>
GetAmong(after, key) ==
  IF after = {} THEN <<"none">>
  ELSE Answer(CHOOSE e \in after : \A f \in after : f = e \/ Before(EntryKey(e), EntryKey(f)), key)
Get(table, key, seq) == GetAmong({e \in table : ~Before(EntryKey(e), LookupKey(key, seq))}, key)

-----------------------------------------------------------------------------
(* Actions                                                                 *)

Batch == {1, 2}

Add(b, op) ==
  /\ Len(did) + Len(ops[1]) + Len(ops[2]) < MaxOps
  /\ batch' = [batch EXCEPT ![b] = IF op.type = kTypeValue THEN Put(@, op.key, op.value) ELSE Delete(@, op.key)]
  /\ ops' = [ops EXCEPT ![b] = Append(@, op)]
  /\ UNCHANGED <<mem, last, logged, did>>

\* BuildBatchGroup appends the batch of another writer.
Merge ==
  /\ ops[1] # <<>> /\ ops[2] # <<>>
  /\ batch' = <<AppendBatch(batch[1], batch[2]), Clear>>
  /\ ops' = <<ops[1] \o ops[2], <<>>>>
  /\ UNCHANGED <<mem, last, logged, did>>

\* DBImpl::Write: the batch is numbered, logged and put in the memtable.
Write ==
  /\ ops[1] # <<>>
  /\ LET rep == SetSequence(batch[1], last + 1) IN
     /\ logged' = rep
     /\ mem' = InsertInto(rep, mem)
     /\ last' = last + Count(rep)
  /\ did' = did \o ops[1]
  /\ batch' = [batch EXCEPT ![1] = Clear] /\ ops' = [ops EXCEPT ![1] = <<>>]

Ops == {[type |-> kTypeValue, key |-> k, value |-> v] : k \in Keys, v \in {<<>>, <<1>>}}
         \cup {[type |-> kTypeDeletion, key |-> k, value |-> <<>>] : k \in Keys}

Init ==
  /\ batch = <<Clear, Clear>> /\ ops = <<<<>>, <<>>>>
  /\ mem = {} /\ last = 0 /\ logged = Clear /\ did = <<>>

Next == (\E b \in Batch, op \in Ops : Add(b, op)) \/ Merge \/ Write

Spec == Init /\ [][Next]_vars

-----------------------------------------------------------------------------
(* Properties                                                              *)

\* Taking a batch apart gives what was put in, in order, merged or not.
TakesApart == \A b \in Batch : Iterate(batch[b]) = [ok |-> TRUE, ops |-> ops[b]]

\* A batch read back from a log in part is reported, and no record is made up from
\* the rest: those seen before the end are the first of the batch.
CutIsNoticed ==
  \A n \in 0..(Len(logged) - 1) :
    \E r \in {Iterate(SubSeq(logged, 1, n))} : ~r.ok /\ IsPrefix(r.ops, Iterate(logged).ops)

\* MemTable::Add writes exactly the bytes it has asked the arena for.
FillsItsBuffer ==
  \A e \in mem : Len(e) = EncodedLength(ExtractUserKey(EntryKey(e)), EntryValue(e))

\* Get at any sequence number sees the last record of the key up to it: each record
\* has a number of its own, and the order of entries agrees with LookupKey.
GetSeesLatest ==
  \A k \in Keys, s \in 0..last :
    LET at == {i \in 1..s : did[i].key = k}
        i  == CHOOSE j \in at : \A h \in at : h =< j
    IN  Get(mem, k, s) =
          IF at = {} THEN <<"none">>
          ELSE IF did[i].type = kTypeDeletion THEN <<"deleted">> ELSE <<"value", did[i].value>>

-----------------------------------------------------------------------------
(***************************************************************************)
(* Reading a memtable in order while it is written to (db/memtable.cc: the *)
(* iterator, its comparator on encoded entries), parsing what it returns   *)
(* (db/dbformat.h), and the filter that a flush makes of it                *)
(* (InternalFilterPolicy, db/dbformat.cc).  Entries are the bytes that     *)
(* Batches puts in the table.                                              *)
(***************************************************************************)

VARIABLES
  iter,       \* the entry an iterator is at, <<>> when it is not valid
  ahead,      \* ghost: the direction it goes in
  owed,       \* ghost: entries that were ahead of it when it set out
  passed,     \* ghost: entries it has been at since
  table,      \* the memtable that was flushed last
  filter      \* the filter made for it

iterator == <<iter, ahead, owed, passed>>
memvars == <<vars, iterator, table, filter>>

NotValid == <<>>
Seqs == 0..MaxOps

-----------------------------------------------------------------------------
(* MemTableIterator                                                        *)

\* MemTable::KeyComparator: an entry begins with the length of its key.
EntryBefore(e, f) == Before(EntryKey(e), EntryKey(f))

FirstOf(entries) ==
  IF entries = {} THEN NotValid
  ELSE CHOOSE e \in entries : \A f \in entries : f = e \/ EntryBefore(e, f)

LastOf(entries) ==
  IF entries = {} THEN NotValid
  ELSE CHOOSE e \in entries : \A f \in entries : f = e \/ EntryBefore(f, e)

\* EncodeKey: a key to look for, as an entry without a value.
EncodeKey(target) == PutLengthPrefixedSlice(target)

After(e) == {f \in mem : EntryBefore(e, f)}
Ahead(e) == {f \in mem : EntryBefore(f, e)}

\* The iterator sets out for e, with these in front of it.
SetsOut(e, way, them) ==
  /\ iter' = e /\ ahead' = way /\ owed' = them
  /\ passed' = IF e = NotValid THEN {} ELSE {e}
  /\ UNCHANGED <<vars, table, filter>>

\* The iterator moves to e; when it turns, what counts begins anew.
Moves(e, way, them) ==
  IF ahead = way
  THEN /\ iter' = e
       /\ passed' = passed \cup (IF e = NotValid THEN {} ELSE {e})
       /\ UNCHANGED <<vars, ahead, owed, table, filter>>
  ELSE SetsOut(e, way, them)

SeekToFirst == SetsOut(FirstOf(mem), "next", mem)
SeekToLast == SetsOut(LastOf(mem), "prev", mem)

\* kValueTypeForSeek: before every entry of the key up to that number.
Seek(key, seq) ==
  LET target == EncodeKey(InternalKey(key, seq, kTypeValue))
      them   == {e \in mem : ~EntryBefore(e, target)}
  IN  SetsOut(FirstOf(them), "next", them)

Forward == iter # NotValid /\ Moves(FirstOf(After(iter)), "next", After(iter))
Backward == iter # NotValid /\ Moves(LastOf(Ahead(iter)), "prev", Ahead(iter))

\* ParseInternalKey of key().
ParseInternalKey(k) ==
  IF Len(k) < SeqBytes THEN NoValue
  ELSE [ok |-> Tag(k) % (2 * B) =< kTypeValue, user_key |-> ExtractUserKey(k),
        sequence |-> Tag(k) \div (2 * B), type |-> Tag(k) % (2 * B)]

-----------------------------------------------------------------------------
(* InternalFilterPolicy                                                    *)

\* What the user's policy is given; it has no false negatives.
CreateFilter(keys) == {ExtractUserKey(k) : k \in keys}
KeyMayMatch(key, f) == ExtractUserKey(key) \in f

Flush ==
  /\ mem # {}
  /\ table' = mem
  /\ filter' = CreateFilter({EntryKey(e) : e \in mem})
  /\ UNCHANGED <<vars, iterator>>

-----------------------------------------------------------------------------

MemInit ==
  /\ Init
  /\ iter = NotValid /\ ahead = "next" /\ owed = {} /\ passed = {}
  /\ table = {} /\ filter = {}

MemWrite == Write /\ UNCHANGED <<iterator, table, filter>>
MemAdd(op) == Add(1, op) /\ UNCHANGED <<iterator, table, filter>>

MemNext ==
  \/ \E op \in Ops : MemAdd(op)
  \/ MemWrite
  \/ SeekToFirst \/ SeekToLast \/ Forward \/ Backward \/ Flush
  \/ \E k \in Keys, s \in Seqs : Seek(k, s)

MemSpec == MemInit /\ [][MemNext]_memvars

-----------------------------------------------------------------------------
(* Properties                                                              *)

\* Whatever the iterator is at parses to a record as it was written: its number is
\* the record's place in the order of all writes.
ParsesBack ==
  iter # NotValid =>
    LET p == ParseInternalKey(EntryKey(iter)) IN
    /\ p.ok
    /\ did[p.sequence] = [type |-> p.type, key |-> p.user_key, value |-> EntryValue(iter)]

\* An iterator that has come to its end has been at every entry that was ahead of
\* it when it set out, although records were added meanwhile.
MissesNothing == iter = NotValid => owed \subseteq passed

\* A record that a lookup would find in a flushed table passes the filter, at every
\* sequence number the lookup may have.
FilterKeeps ==
  \A k \in Keys, s \in Seqs :
    Get(table, k, s) # <<"none">> => KeyMayMatch(LookupKey(k, s), filter)

=============================================================================
