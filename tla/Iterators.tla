------------------------------ MODULE Iterators -------------------------------
(***************************************************************************)
(* Iterators of leveldb: an application scans a database with a DBIter     *)
(* (db_iter.cc) over a merging iterator (merger.cc) over the memtable, the *)
(* files of level 0 and the files of level 1; tables and levels are two-   *)
(* level iterators (two_level_iterator.cc) whose blocks may be unreadable. *)
(*                                                                         *)
(* An entry is [k, seq, type]; its value is its sequence number.  Entries  *)
(* are ordered by key, newest first.  An iterator is a record; kind says   *)
(* what it is:                                                             *)
(*   list   data, pos: a memtable, a block, an index or a list of files;   *)
(*          not valid when pos = 0                                         *)
(*   two    index, kids, h, data, err: one of kids, the h-th, is open      *)
(*   merge  kids, cur, fwd                                                 *)
(*   error, null                                                           *)
(***************************************************************************)
EXTENDS Integers, Sequences, FiniteSets, SequencesExt

CONSTANTS
  Keys,        \* positive numbers
  MaxWrites,   \* bound: entries in the database
  BlockSizes,  \* entries of a block
  FileSizes,   \* blocks of a file
  EntryTypes,  \* of "value", "deletion" and "bad" (does not parse)
  Faults       \* whether blocks and files may become unreadable

VARIABLES
  snapshot,    \* DBIter::sequence_
  it,          \* DBIter::iter_
  fwd, valid,  \* direction_ and valid_
  saved,       \* saved_key_, saved_value_: [k, v]
  good,        \* status_.ok()
  view,        \* what the database holds at the snapshot
  call,        \* the last operation
  broken       \* what cannot be read now: blocks <<f, b>>, files <<f, 0>>

vars == <<snapshot, it, fwd, valid, saved, good, view, call, broken>>

NoKey == 0
NoSave == [k |-> NoKey, v |-> 0]

\* InternalKeyComparator::Compare
Before(a, b) == a.k < b.k \/ (a.k = b.k /\ a.seq > b.seq)

-----------------------------------------------------------------------------
(* The iterator interface                                                  *)

RECURSIVE Valid(_), Entry(_), Ok(_), Move(_, _, _)

Null == [kind |-> "null"]
List(data) == [kind |-> "list", data |-> data, pos |-> 0]
ErrorIterator == [kind |-> "error"]

Valid(i) ==
  CASE i.kind = "list"  -> i.pos # 0
    [] i.kind = "two"   -> Valid(i.data)
    [] i.kind = "merge" -> i.cur # 0
    [] OTHER -> FALSE

\* key() of a valid iterator.
Entry(i) ==
  CASE i.kind = "list"  -> i.data[i.pos]
    [] i.kind = "two"   -> Entry(i.data)
    [] i.kind = "merge" -> Entry(i.kids[i.cur])

\* status().ok()
Ok(i) ==
  CASE i.kind = "two"   -> Ok(i.data) /\ ~i.err
    [] i.kind = "merge" -> \A n \in DOMAIN i.kids : Ok(i.kids[n])
    [] OTHER -> i.kind # "error"

\* A sorted list.
MoveList(i, op, t) ==
  LET n   == Len(i.data)
      hit == {p \in 1..n : ~Before(i.data[p], t)}
      to  == CASE op = "first" -> IF n > 0 THEN 1 ELSE 0
               [] op = "last"  -> n
               [] op = "seek"  -> IF hit = {} THEN 0 ELSE CHOOSE p \in hit : \A q \in hit : p =< q
               [] op = "next"  -> IF i.pos < n THEN i.pos + 1 ELSE 0
               [] op = "prev"  -> i.pos - 1
  IN  [i EXCEPT !.pos = to]

-----------------------------------------------------------------------------
(* TwoLevelIterator                                                        *)

SaveError(i) == i.err \/ ~Ok(i.data)

SetDataIterator(i, data, h) == [i EXCEPT !.err = SaveError(i), !.data = data, !.h = h]

\* block_function_: Table::BlockReader, GetFileIterator
OpenKid(i, h) == IF i.kids[h].id \in broken THEN ErrorIterator ELSE i.kids[h].iter

InitDataBlock(i) ==
  IF ~Valid(i.index) THEN SetDataIterator(i, Null, 0)
  ELSE LET h == i.index.pos IN
       IF i.data # Null /\ i.h = h THEN i ELSE SetDataIterator(i, OpenKid(i, h), h)

Position(i, op, t) == IF i.data = Null THEN i ELSE [i EXCEPT !.data = Move(@, op, t)]

\* SkipEmptyDataBlocksForward, SkipEmptyDataBlocksBackward
RECURSIVE SkipEmpty(_, _, _)
SkipEmpty(i, step, start) ==
  IF Valid(i.data) THEN i
  ELSE IF ~Valid(i.index) THEN SetDataIterator(i, Null, 0)
  ELSE SkipEmpty(Position(InitDataBlock([i EXCEPT !.index = MoveList(@, step, NoKey)]), start, NoKey),
                 step, start)

Opened(i, op, t) ==
  IF op \in {"next", "prev"} THEN i ELSE InitDataBlock([i EXCEPT !.index = MoveList(@, op, t)])

MoveTwo(i, op, t) ==
  SkipEmpty(Position(Opened(i, op, t), op, t),
            IF op \in {"last", "prev"} THEN "prev" ELSE "next",
            IF op \in {"last", "prev"} THEN "last" ELSE "first")

-----------------------------------------------------------------------------
(* MergingIterator                                                         *)

\* FindSmallest: the first child among equals.  FindLargest: the last.
FindSmallest(kids) ==
  LET ready == {n \in DOMAIN kids : Valid(kids[n])}
      best  == {n \in ready : \A m \in ready : ~Before(Entry(kids[m]), Entry(kids[n]))}
  IN  IF best = {} THEN 0 ELSE CHOOSE n \in best : \A m \in best : n =< m

FindLargest(kids) ==
  LET ready == {n \in DOMAIN kids : Valid(kids[n])}
      best  == {n \in ready : \A m \in ready : ~Before(Entry(kids[n]), Entry(kids[m]))}
  IN  IF best = {} THEN 0 ELSE CHOOSE n \in best : \A m \in best : n >= m

\* Mistake: the other children stay where they are when the direction changes.
TurnForward_Not(i) == i

\* All other children are placed after key().
PastEntry(c, e) == IF Valid(c) /\ Entry(c) = e THEN Move(c, "next", e) ELSE c
TurnForward(i) ==
  [i EXCEPT !.fwd = TRUE,
            !.kids = [n \in DOMAIN @ |-> IF n = i.cur THEN @[n]
                                         ELSE PastEntry(Move(@[n], "seek", Entry(i)), Entry(i))]]

\* All other children are placed before key().
AheadOfEntry(c, e) == Move(c, IF Valid(c) THEN "prev" ELSE "last", e)
TurnBackward(i) ==
  [i EXCEPT !.fwd = FALSE,
            !.kids = [n \in DOMAIN @ |-> IF n = i.cur THEN @[n]
                                         ELSE AheadOfEntry(Move(@[n], "seek", Entry(i)), Entry(i))]]

\* The children stand where they should: one of them is current.
WithKids(i, kids, ahead) ==
  [i EXCEPT !.kids = kids, !.fwd = ahead, !.cur = IF ahead THEN FindSmallest(kids) ELSE FindLargest(kids)]

Turned(i, op) ==
  CASE op = "next" /\ ~i.fwd -> TurnForward(i)
    [] op = "prev" /\ i.fwd  -> TurnBackward(i)
    [] OTHER -> i

MoveMerge(i, op, t) ==
  WithKids(i,
           IF op \in {"next", "prev"} THEN [Turned(i, op).kids EXCEPT ![i.cur] = Move(@, op, t)]
           ELSE [n \in DOMAIN i.kids |-> Move(i.kids[n], op, t)],
           op \in {"first", "seek", "next"})

Move(i, op, t) ==
  CASE i.kind = "list"  -> MoveList(i, op, t)
    [] i.kind = "two"   -> MoveTwo(i, op, t)
    [] i.kind = "merge" -> MoveMerge(i, op, t)
    [] OTHER -> i

-----------------------------------------------------------------------------
(* DBIter.  d is its state [it, fwd, valid, saved, good].                  *)

This == [it |-> it, fwd |-> fwd, valid |-> valid, saved |-> saved, good |-> good]
Ends(d) == [d EXCEPT !.valid = FALSE, !.saved = NoSave]
Steps(d, op) == [d EXCEPT !.it = Move(@, op, NoKey)]

\* ParseKey: an entry that does not parse is reported and passed over.
ParseKey(d) == [d EXCEPT !.good = @ /\ Entry(d.it).type # "bad"]
Counts(e) == e.type # "bad" /\ e.seq =< snapshot

\* The key whose entries FindNextUserEntry passes over from now on.
Hides(e, skip) == IF Counts(e) /\ e.type = "deletion" THEN e.k ELSE skip

\* FindNextUserEntry; skip is NoKey when nothing is skipped.
RECURSIVE FindNextUserEntry(_, _), FindFurther(_, _)
FindFurther(d, skip) ==
  IF Valid(d.it) THEN FindNextUserEntry(d, skip) ELSE [d EXCEPT !.valid = FALSE, !.saved.k = NoKey]
FindNextUserEntry(d, skip) ==
  LET e == Entry(d.it) IN
  IF Counts(e) /\ e.type = "value" /\ e.k > skip
  THEN [ParseKey(d) EXCEPT !.valid = TRUE, !.saved.k = NoKey]
  ELSE FindFurther(Steps(ParseKey(d), "next"), Hides(e, skip))

\* The loop of FindPrevUserEntry: live is value_type # kTypeDeletion.
RECURSIVE ScanBack(_, _)
ScanBack(d, live) ==
  LET e  == Entry(d.it)
      d1 == ParseKey(d)
      d2 == IF ~Counts(e) THEN d1
            ELSE [d1 EXCEPT !.saved = IF e.type = "deletion" THEN NoSave ELSE [k |-> e.k, v |-> e.seq]]
  IN  IF ~Valid(d.it) THEN [d |-> d, live |-> live]
      ELSE IF Counts(e) /\ live /\ e.k < d.saved.k THEN [d |-> d1, live |-> live]
      ELSE ScanBack(Steps(d2, "prev"), IF Counts(e) THEN e.type = "value" ELSE live)

PrevFound(r) == IF r.live THEN [r.d EXCEPT !.valid = TRUE] ELSE [Ends(r.d) EXCEPT !.fwd = TRUE]
FindPrevUserEntry(d) == PrevFound(ScanBack(d, FALSE))

\* Prev of an iterator that went forward: back to an entry of an earlier key.
RECURSIVE LeaveKey(_, _), LeftKey(_, _)
LeftKey(d, k) == IF ~Valid(d.it) \/ Entry(d.it).k < k THEN d ELSE LeaveKey(d, k)
LeaveKey(d, k) == LeftKey(Steps(d, "prev"), k)

Key == IF ~valid THEN NoKey ELSE IF fwd THEN Entry(it).k ELSE saved.k
Val == IF ~valid THEN 0 ELSE IF fwd THEN Entry(it).seq ELSE saved.v

-----------------------------------------------------------------------------
(* Operations of the application                                           *)

Becomes(d, op, k) ==
  /\ it' = d.it /\ fwd' = d.fwd /\ valid' = d.valid /\ saved' = d.saved /\ good' = d.good
  /\ call' = <<op, k>>
  /\ UNCHANGED <<snapshot, view, broken>>

\* DBIter::Seek, DBIter::SeekToFirst
Placed(d) == IF Valid(d.it) THEN FindNextUserEntry(d, NoKey) ELSE [d EXCEPT !.valid = FALSE]
SeekAhead(op, k) ==
  \E d \in {Placed([This EXCEPT !.it = Move(@, op, [k |-> k, seq |-> snapshot]), !.fwd = TRUE,
                               !.saved.v = 0])} : Becomes(d, op, k)

SeekToFirst == SeekAhead("first", NoKey)
Seek(k) == SeekAhead("seek", k)

SeekToLast ==
  \E d \in {FindPrevUserEntry([Steps(This, "last") EXCEPT !.fwd = FALSE, !.saved.v = 0])} :
    Becomes(d, "last", NoKey)

Next_ ==
  /\ valid
  /\ LET turned == [Steps(This, IF Valid(it) THEN "next" ELSE "first") EXCEPT !.fwd = TRUE]
         begun  == IF fwd THEN [This EXCEPT !.saved.k = Entry(it).k] ELSE turned
     IN  \E d \in {FindFurther(begun, begun.saved.k)} : Becomes(d, "next", NoKey)

\* When nothing is before the key the iterator was at, it ends.
PrevAfter(d) == IF fwd /\ ~Valid(d.it) THEN Ends(d) ELSE FindPrevUserEntry([d EXCEPT !.fwd = FALSE])
Prev ==
  /\ valid
  /\ LET k == Entry(it).k
     IN  \E d \in {PrevAfter(IF fwd THEN LeaveKey([This EXCEPT !.saved.k = k], k) ELSE This)} :
           Becomes(d, "prev", NoKey)

RECURSIVE IdsOf(_)
IdsOf(i) ==
  CASE i.kind = "two" -> UNION {{i.kids[n].id} \cup IdsOf(i.kids[n].iter) : n \in DOMAIN i.kids}
    [] i.kind = "merge" -> UNION {IdsOf(i.kids[n]) : n \in DOMAIN i.kids}
    [] OTHER -> {}

Ids == IdsOf(it)

\* Reads of a block or of a file fail, or succeed again.
Fault ==
  /\ Faults
  /\ \E b \in {{}} \cup {{n} : n \in Ids} : b # broken /\ broken' = b
  /\ UNCHANGED <<snapshot, it, fwd, valid, saved, good, view, call>>

-----------------------------------------------------------------------------
(* The database: entry number seq was the seq-th write.  The oldest are in *)
(* level 1, newer ones in a file of level 0, the newest in the memtable.   *)

Chunks(s, n) == [c \in 1..((Len(s) + n - 1) \div n) |->
                   SubSeq(s, (c - 1) * n + 1, IF c * n < Len(s) THEN c * n ELSE Len(s))]

Two(kids, lasts) ==
  [kind |-> "two", index |-> List(lasts), kids |-> kids, h |-> 0, data |-> Null, err |-> FALSE]

\* Table::NewIterator
TableIter(f, entries, size) ==
  LET blocks == Chunks(entries, size)
  IN  Two([b \in DOMAIN blocks |-> [id |-> <<f, b>>, iter |-> List(blocks[b])]],
          [b \in DOMAIN blocks |-> Last(blocks[b])])

\* Version::NewConcatenatingIterator over files of n blocks.
LevelIter(entries, size, n) ==
  LET files == Chunks(entries, size * n)
  IN  Two([f \in DOMAIN files |-> [id |-> <<f, 0>>, iter |-> TableIter(f, files[f], size)]],
          [f \in DOMAIN files |-> Last(files[f])])

Sorted(writes, lo, hi) ==
  SetToSortSeq({[k |-> writes[n].k, seq |-> n, type |-> writes[n].type] : n \in lo..hi}, Before)

\* The key-value pairs that a reader at the snapshot has to see.
ViewOf(writes, snap) ==
  LET seen(k)  == {n \in 1..snap : n \in DOMAIN writes /\ writes[n].k = k /\ writes[n].type # "bad"}
      last(k)  == CHOOSE n \in seen(k) : \A m \in seen(k) : m =< n
  IN  [k \in {j \in Keys : seen(j) # {} /\ writes[last(j)].type = "value"} |-> last(k)]

\* MergingIterator::MergingIterator
Merging(kids) == [kind |-> "merge", cur |-> 0, fwd |-> TRUE, kids |-> kids]

\* The memtable is always there, so the list is never empty.
NewMergingIterator(kids) == IF Len(kids) = 1 THEN kids[1] ELSE Merging(kids)

\* DBImpl::NewInternalIterator and Version::AddIterators: a level without files
\* adds nothing.
InternalIterator(writes, a, b, size, n) ==
  NewMergingIterator(
    <<List(Sorted(writes, a + 1, MaxWrites))>>
    \o (IF b < a THEN <<TableIter(9, Sorted(writes, b + 1, a), size)>> ELSE <<>>)
    \o (IF b > 0 THEN <<LevelIter(Sorted(writes, 1, b), size, n)>> ELSE <<>>))

Init ==
  /\ \E writes \in [1..MaxWrites -> [k : Keys, type : EntryTypes]] :
     \E a \in 0..MaxWrites : \E b \in 0..a : \E size \in BlockSizes : \E n \in FileSizes :
       /\ it = InternalIterator(writes, a, b, size, n)
       /\ snapshot \in {MaxWrites - 1, MaxWrites}
       /\ view = ViewOf(writes, snapshot)
  /\ fwd = TRUE /\ valid = FALSE /\ saved = NoSave /\ good = TRUE
  /\ call = <<"new", NoKey>>
  /\ broken = {}

Next ==
  \/ SeekToFirst \/ SeekToLast \/ (\E k \in Keys : Seek(k))
  \/ Next_ \/ Prev
  \/ Fault

Spec == Init /\ [][Next]_vars

-----------------------------------------------------------------------------
(* Properties                                                              *)

StatusOk == good /\ Ok(it)

\* The iterator is a cursor over the state of the database at its snapshot:
\* whatever the layers, in whatever order it is moved back and forth, it shows
\* each live key once with its newest visible value, and it never leaves out a
\* block it could not read without status() saying so.
Abstract == INSTANCE Cursor WITH at <- Key, val <- Val, ok <- StatusOk

IsCursor == Abstract!Spec

\* "When moving forward, the internal iterator is positioned at the exact entry
\* that yields this->key(), this->value()"; "when moving backwards, the internal
\* iterator is positioned just before all entries whose user key == this->key()".
DirectionHolds ==
  valid /\ StatusOk =>
    IF fwd THEN Valid(it) /\ Entry(it).k \in DOMAIN view /\ Entry(it).seq = view[Entry(it).k]
    ELSE Valid(it) => Entry(it).k < saved.k

=============================================================================
