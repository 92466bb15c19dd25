-------------------------------- MODULE Blocks --------------------------------
(***************************************************************************)
(* Blocks of a leveldb table: block_builder.cc stores keys without the     *)
(* prefix they share with the key before, except at restart points;        *)
(* block.cc searches the restart points and decodes from there.            *)
(*                                                                         *)
(* An entry is [shared, delta, val, ok]; ok says whether its three lengths *)
(* decode.  Offsets count entries instead of bytes, from 0.  Keys are      *)
(* sequences of letters, values are numbers.                               *)
(***************************************************************************)
EXTENDS Integers, Sequences, FiniteSets, SequencesExt, FiniteSetsExt

CONSTANTS
  Letters,      \* numbers: what keys are made of
  MaxLen,       \* bound: letters of a key
  MaxEntries,   \* bound: entries of a block
  Intervals,    \* Options::block_restart_interval
  Damages       \* of "none", "entry", "shared", "short"

VARIABLES
  contents,     \* the keys that were added, in order
  data,         \* the entries of the block
  restarts,     \* the restart array; empty for a block that is too short
  i,            \* Block::Iter: [cur, ri, key, val, nxt, err]
  call          \* the last operation

vars == <<contents, data, restarts, i, call>>

Strings == UNION {[1..n -> Letters] : n \in 0..MaxLen}

\* Slice::compare
Less(a, b) ==
  \/ IsStrictPrefix(a, b)
  \/ \E n \in 1..Len(a) : n =< Len(b) /\ SubSeq(a, 1, n - 1) = SubSeq(b, 1, n - 1) /\ a[n] < b[n]

-----------------------------------------------------------------------------
(* BlockBuilder.  b is [buffer, restarts, counter, last].                  *)

\* BlockBuilder::Reset
EmptyBuilder == [buffer |-> <<>>, restarts |-> <<0>>, counter |-> 0, last |-> <<>>]

SharedPrefix(a, b) == Max({n \in 0..Len(a) : n =< Len(b) /\ SubSeq(a, 1, n) = SubSeq(b, 1, n)})

SharedWith(b, key, full) == IF full THEN 0 ELSE SharedPrefix(b.last, key)

\* BlockBuilder::Add
Add(b, key, val, interval) ==
  LET full   == b.counter >= interval
      shared == SharedWith(b, key, full)
      entry  == [shared |-> shared, delta |-> SubSeq(key, shared + 1, Len(key)), val |-> val, ok |-> TRUE]
  IN  [buffer   |-> Append(b.buffer, entry),
       restarts |-> IF full THEN Append(b.restarts, Len(b.buffer)) ELSE b.restarts,
       counter  |-> IF full THEN 1 ELSE b.counter + 1,
       last     |-> SubSeq(b.last, 1, shared) \o entry.delta]

Built(keys, interval) ==
  LET AddNth(b, n) == Add(b, keys[n], n, interval)
  IN  FoldLeft(AddNth, EmptyBuilder, [n \in DOMAIN keys |-> n])

\* A block that was not stored as it was written: an entry that does not
\* decode, one that shares more than there is, or a block that is too short.
Damaged(buffer) ==
  UNION { IF "none" \in Damages THEN {buffer} ELSE {},
          IF "entry" \in Damages THEN {[buffer EXCEPT ![n].ok = FALSE] : n \in DOMAIN buffer} ELSE {},
          IF "shared" \in Damages THEN {[buffer EXCEPT ![n].shared = MaxLen + 1] : n \in DOMAIN buffer} ELSE {} }

-----------------------------------------------------------------------------
(* Block::Iter                                                             *)

NumRestarts == Len(restarts)
Limit == Len(data)
RestartPoint(index) == restarts[index + 1]

ValidIter(x) == x.cur < Limit
End(x) == [x EXCEPT !.cur = Limit, !.ri = NumRestarts]

CorruptionError(x) == [End(x) EXCEPT !.err = TRUE, !.key = <<>>, !.nxt = Limit]

SeekToRestartPoint(x, index) == [x EXCEPT !.key = <<>>, !.ri = index, !.nxt = RestartPoint(index)]

\* The restart block cur falls into.
RestartIndex(x, cur) ==
  Max({x.ri} \cup {n \in x.ri..(NumRestarts - 1) : RestartPoint(n) < cur})

\* ParseNextKey; its result is whether the iterator is valid afterwards.
ParseNextKey(x) ==
  LET e == data[x.nxt + 1] IN
  IF x.nxt >= Limit THEN End(x)
  ELSE IF ~e.ok \/ Len(x.key) < e.shared THEN CorruptionError(x)
  ELSE [x EXCEPT !.cur = x.nxt,
                 !.key = SubSeq(@, 1, e.shared) \o e.delta,
                 !.val = e.val,
                 !.nxt = x.nxt + 1,
                 !.ri  = RestartIndex(x, x.nxt)]

\* Parses at least one entry, then goes on until one ends at offset end or later.
RECURSIVE ParseUntil(_, _)
ParseUntil(x, end) ==
  LET y == ParseNextKey(x) IN IF ValidIter(y) /\ y.nxt < end THEN ParseUntil(y, end) ELSE y

\* The last restart point at or before index that is before offset original; -1
\* if there is none.
RECURSIVE RestartBefore(_, _)
RestartBefore(index, original) ==
  IF index < 0 \/ RestartPoint(index) < original THEN index ELSE RestartBefore(index - 1, original)

\* The binary search of Seek: the index, or -1 for an error.
RECURSIVE SearchRestarts(_, _, _)
SearchRestarts(left, right, t) ==
  LET mid == (left + right + 1) \div 2
      e   == data[RestartPoint(mid) + 1]
  IN  IF left >= right THEN left
      ELSE IF ~e.ok \/ e.shared # 0 THEN -1
      ELSE IF Less(e.delta, t) THEN SearchRestarts(mid, right, t)
      ELSE SearchRestarts(left, mid - 1, t)

RECURSIVE ParseUpTo(_, _)
ParseUpTo(x, t) ==
  LET y == ParseNextKey(x) IN IF ValidIter(y) /\ Less(y.key, t) THEN ParseUpTo(y, t) ELSE y

\* How far into the contents a key is.
Rank(t) == Cardinality({n \in DOMAIN contents : Less(contents[n], t)}) + 1

\* NewIterator gives no Iter for a block that is too short: nothing moves.
Has == NumRestarts > 0

Becomes(x, op, k) == i' = x /\ call' = <<op, k>> /\ UNCHANGED <<contents, data, restarts>>

SeekToFirst == Has /\ Becomes(ParseNextKey(SeekToRestartPoint(i, 0)), "first", 0)

SeekToLast ==
  Has /\ Becomes(ParseUntil(SeekToRestartPoint(i, NumRestarts - 1), Limit), "last", 0)

Seek(t) ==
  /\ Has
  /\ LET left == SearchRestarts(0, NumRestarts - 1, t)
     IN  Becomes(IF left < 0 THEN CorruptionError(i) ELSE ParseUpTo(SeekToRestartPoint(i, left), t),
                 "seek", Rank(t))

NextEntry == Has /\ ValidIter(i) /\ Becomes(ParseNextKey(i), "next", 0)

PrevEntry ==
  /\ Has /\ ValidIter(i)
  /\ LET index == RestartBefore(i.ri, i.cur)
     IN  Becomes(IF index < 0 THEN End(i)
                 ELSE ParseUntil(SeekToRestartPoint(i, index), i.cur), "prev", 0)

-----------------------------------------------------------------------------

Contents == {SetToSortSeq(S, Less) : S \in UNION {kSubset(n, Strings) : n \in 0..MaxEntries}}

Init ==
  /\ contents \in Contents
  /\ \E interval \in Intervals :
       LET b == Built(contents, interval)
       IN  \/ data \in Damaged(b.buffer) /\ restarts = b.restarts
           \/ "short" \in Damages /\ data = <<>> /\ restarts = <<>>
  /\ i = [cur |-> Limit, ri |-> NumRestarts, key |-> <<>>, val |-> 0, nxt |-> 0, err |-> restarts = <<>>]
  /\ call = <<"new", 0>>

Next == SeekToFirst \/ SeekToLast \/ (\E t \in Strings : Seek(t)) \/ NextEntry \/ PrevEntry

Spec == Init /\ [][Next]_vars

-----------------------------------------------------------------------------
(* Properties                                                              *)

At == IF ~ValidIter(i) THEN 0 ELSE IF i.key \in Range(contents) THEN Rank(i.key) ELSE -1

\* The iterator of a block is a cursor over what was added to it: each key with
\* its value, in order, in both directions; an entry that does not decode is
\* never passed over without an error.
Abstract ==
  INSTANCE Cursor WITH Keys <- 1..(MaxEntries + 1), view <- [n \in DOMAIN contents |-> n],
                       at <- At, val <- IF ValidIter(i) THEN i.val ELSE 0, ok <- ~i.err

IsCursor == Abstract!Spec

\* A block that is as it was built is read without an error.
NoFalseAlarm == Damages = {"none"} => ~i.err

\* The iterator knows the restart block it is in: the last restart point before
\* the entry, or at it, so that going back never decodes the whole block.
RestartIsNear ==
  ValidIter(i) => /\ RestartPoint(i.ri) =< i.cur
                  /\ \A n \in 0..(NumRestarts - 1) : RestartPoint(n) < i.cur => n =< i.ri

=============================================================================
