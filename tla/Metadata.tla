------------------------------ MODULE Metadata ------------------------------
(***************************************************************************)
(* How leveldb encodes what it must find again: the records of a manifest, *)
(* and the footer of a table.  They share no state, so each is a machine   *)
(* of its own.                                                             *)
(***************************************************************************)
EXTENDS Coding, SequencesExt

-----------------------------------------------------------------------------
(***************************************************************************)
(* The records of a manifest (db/version_edit.cc): a VersionEdit is put    *)
(* together field by field, encoded, and decoded when the database is      *)
(* opened again.                                                           *)
(***************************************************************************)

CONSTANTS
  NumLevels,        \* kNumLevels
  Numbers,          \* file, log and sequence numbers
  MaxString,        \* comparator names and encoded internal keys are 1..MaxString bytes
  MaxFields         \* bound: fields set

None == -1
Strings == {[i \in 1..n |-> 5] : n \in 1..MaxString}

VARIABLES edit, fields

editVars == <<edit, fields>>

kComparator == 1
kLogNumber == 2
kNextFileNumber == 3
kLastSequence == 4
kCompactPointer == 5
kDeletedFile == 6
kNewFile == 7
kPrevLogNumber == 9

Scalars == <<kLogNumber, kPrevLogNumber, kNextFileNumber, kLastSequence>>

\* VersionEdit; a field that is not set is None.
NewEdit ==
  [comparator |-> <<>>, hasComparator |-> FALSE,
   number |-> [t \in ToSet(Scalars) |-> None],
   pointers |-> <<>>, deleted |-> {}, new |-> <<>>]

\* Clear keeps the compaction pointers.
Clear(e) == [NewEdit EXCEPT !.pointers = e.pointers]

-----------------------------------------------------------------------------
(* EncodeTo                                                                *)

PutVarint(v) == EncodeVarint(v)

EncodeFile(f) ==
  PutVarint(kNewFile) \o PutVarint(f.level) \o PutVarint(f.number) \o PutVarint(f.size)
    \o PutLengthPrefixedSlice(f.smallest) \o PutLengthPrefixedSlice(f.largest)

EncodePointer(p) == PutVarint(kCompactPointer) \o PutVarint(p.level) \o PutLengthPrefixedSlice(p.key)

EncodeDeleted(d) == PutVarint(kDeletedFile) \o PutVarint(d[1]) \o PutVarint(d[2])

\* The order of std::set<std::pair<int, uint64_t>>.
DeletedInOrder(e) ==
  SetToSortSeq(e.deleted, LAMBDA a, b : a[1] < b[1] \/ (a[1] = b[1] /\ a[2] < b[2]))

Concat(seq, Enc(_)) == FlattenSeq([i \in DOMAIN seq |-> Enc(seq[i])])

EncodeTo(e) ==
  LET Scalar(t) == IF e.number[t] = None THEN <<>> ELSE PutVarint(t) \o PutVarint(e.number[t]) IN
  (IF e.hasComparator THEN PutVarint(kComparator) \o PutLengthPrefixedSlice(e.comparator) ELSE <<>>)
    \o Concat(Scalars, Scalar)
    \o Concat(e.pointers, EncodePointer)
    \o Concat(DeletedInOrder(e), EncodeDeleted)
    \o Concat(e.new, EncodeFile)

-----------------------------------------------------------------------------
(* DecodeFrom                                                              *)

LevelOk(v) == v < NumLevels

LevelOf(l) == IF ~l.ok THEN NoValue ELSE IF LevelOk(l.value) THEN l ELSE NoValue
GetLevel(s) == LevelOf(GetVarint32(s))

\* Applies readers one after the other: the values they read and the rest.
ReadOne(s, reader) ==
  CASE reader = "level"  -> GetLevel(s)
    [] reader = "number" -> GetVarint64(s)
    [] reader = "string" -> GetLengthPrefixedSlice(s)
ReadMore(r, x) ==
  IF ~x.ok THEN NoValue ELSE [ok |-> TRUE, value |-> Append(r.value, x.value), rest |-> x.rest]
ReadAll(s, readers) ==
  FoldLeft(LAMBDA r, reader : IF ~r.ok THEN NoValue ELSE ReadMore(r, ReadOne(r.rest, reader)),
           [ok |-> TRUE, value |-> <<>>, rest |-> s], readers)

\* What follows a tag.
Shape(tag) ==
  CASE tag = kComparator      -> <<"string">>
    [] tag \in ToSet(Scalars) -> <<"number">>
    [] tag = kCompactPointer  -> <<"level", "string">>
    [] tag = kDeletedFile     -> <<"level", "number">>
    [] tag = kNewFile         -> <<"level", "number", "number", "string", "string">>

KnownTags == {kComparator, kCompactPointer, kDeletedFile, kNewFile} \cup ToSet(Scalars)

Store(e, tag, x) ==
  CASE tag = kComparator      -> [e EXCEPT !.comparator = x[1], !.hasComparator = TRUE]
    [] tag \in ToSet(Scalars) -> [e EXCEPT !.number[tag] = x[1]]
    [] tag = kCompactPointer  -> [e EXCEPT !.pointers = Append(@, [level |-> x[1], key |-> x[2]])]
    [] tag = kDeletedFile     -> [e EXCEPT !.deleted = @ \cup {<<x[1], x[2]>>}]
    [] tag = kNewFile         -> [e EXCEPT !.new = Append(@, [level |-> x[1], number |-> x[2], size |-> x[3],
                                                            smallest |-> x[4], largest |-> x[5]])]

\* msg == NULL && !input.empty(): a tag that cannot be read is an error.
AtEnd(s) == s = <<>>

\* DecodeFrom, into an edit that may have been used before: [ok, edit].  Nothing is
\* said of the edit after an error.
RECURSIVE DecodeFields(_, _), DecodeField(_, _, _), DecodeMore(_, _, _)
DecodeFields(e, s) == DecodeField(e, s, GetVarint32(s))
DecodeField(e, s, tag) ==
  IF ~tag.ok THEN [ok |-> AtEnd(s), edit |-> e]
  ELSE IF tag.value \notin KnownTags THEN [ok |-> FALSE, edit |-> e]
  ELSE DecodeMore(e, tag.value, ReadAll(tag.rest, Shape(tag.value)))
DecodeMore(e, tag, x) ==
  IF ~x.ok THEN [ok |-> FALSE, edit |-> e] ELSE DecodeFields(Store(e, tag, x.value), x.rest)
DecodeFrom(e, bytes) == DecodeFields(Clear(e), bytes)

-----------------------------------------------------------------------------
(* The methods of VersionEdit                                              *)

Set(e) == fields < MaxFields /\ fields' = fields + 1 /\ edit' = e

SetComparatorName(s) == Set([edit EXCEPT !.comparator = s, !.hasComparator = TRUE])

\* SetLogNumber, SetPrevLogNumber, SetNextFile, SetLastSequence
SetNumber(tag, n) == Set([edit EXCEPT !.number[tag] = n])

SetCompactPointer(level, key) ==
  Set([edit EXCEPT !.pointers = Append(@, [level |-> level, key |-> key])])

AddFile(level, n, smallest, largest) ==
  Set([edit EXCEPT !.new = Append(@, [level |-> level, number |-> n, size |-> n,
                                      smallest |-> smallest, largest |-> largest])])

DeleteFile(level, n) == Set([edit EXCEPT !.deleted = @ \cup {<<level, n>>}])

Levels == 0..(NumLevels - 1)

EditInit == edit = NewEdit /\ fields = 0

EditNext ==
  \/ \E s \in Strings : SetComparatorName(s)
  \/ \E i \in DOMAIN Scalars, n \in Numbers : SetNumber(Scalars[i], n)
  \/ \E l \in Levels, s \in Strings : SetCompactPointer(l, s)
  \/ \E l \in Levels, n \in Numbers, s, t \in Strings : AddFile(l, n, s, t)
  \/ \E l \in Levels, n \in Numbers : DeleteFile(l, n)

EditSpec == EditInit /\ [][EditNext]_editVars

-----------------------------------------------------------------------------
(* Properties                                                              *)

\* What is read back when the database is opened is what was written.
ReadsBack == DecodeFrom(NewEdit, EncodeTo(edit)) = [ok |-> TRUE, edit |-> edit]

\* Of a record that is cut short nothing is made up: it is refused, or cut between
\* fields and gives an edit with fewer fields.
NothingMadeUp ==
  \E bytes \in {EncodeTo(edit)} : \A n \in 0..(Len(bytes) - 1) :
    \E r \in {DecodeFrom(NewEdit, SubSeq(bytes, 1, n))} :
      r.ok => /\ EncodeTo(r.edit) = SubSeq(bytes, 1, n)
              /\ r.edit.deleted \subseteq edit.deleted
              /\ IsPrefix(r.edit.new, edit.new)

\* Whatever byte of a record is damaged, no file is put at a level that does not
\* exist.
LevelsExist ==
  \E bytes \in {EncodeTo(edit)} : \A i \in DOMAIN bytes, b \in Byte :
    \E r \in {DecodeFrom(NewEdit, [bytes EXCEPT ![i] = b])} :
      r.ok => /\ \A j \in DOMAIN r.edit.new : r.edit.new[j].level \in Levels
              /\ \A d \in r.edit.deleted : d[1] \in Levels
              /\ \A j \in DOMAIN r.edit.pointers : r.edit.pointers[j].level \in Levels

-----------------------------------------------------------------------------
(***************************************************************************)
(* Block handles and the footer of a table file (table/format.h,           *)
(* table/format.cc): where a block is, and where the two blocks are from   *)
(* which all others are found.                                             *)
(*                                                                         *)
(* A file is written and may lose its end or have a byte changed; then it  *)
(* is opened.  With the group of one bit and words of a few bits that the  *)
(* run takes, every handle a word can hold is tried, also those whose      *)
(* varints fill the footer to its last byte.                               *)
(***************************************************************************)
CONSTANTS
  Fixed,        \* 4: bytes of a fixed32
  MagicLo,      \* the low and the high half of kTableMagicNumber
  MagicHi,
  Values,       \* offsets and sizes tried
  Damages       \* what may happen to a file: "cut", "byte"

VARIABLES
  file,         \* the last bytes of the file
  wrote,        \* the handles that were written
  status,       \* "none", "written", "ok", "corrupt"
  read,         \* the footer that was read
  harmed        \* which damage was done

footerVars == <<file, wrote, status, read, harmed>>

BlockHandle == [offset : Values, size : Values]

HandlesAssumption ==
  /\ Fixed \in Nat \ {0} /\ MagicLo \in Nat /\ MagicHi \in Nat
  /\ Values \subseteq 0..(2^Word64 - 2)

-----------------------------------------------------------------------------

\* BlockHandle::EncodeTo.  That both fields are set, so not ~0, is asserted.
EncodeHandle(h) == EncodeVarint(h.offset) \o EncodeVarint(h.size)

\* BlockHandle::DecodeFrom: [ok, value, rest]
HandleOf(offset, size) ==
  IF ~size.ok THEN NoValue
  ELSE [ok |-> TRUE, value |-> [offset |-> offset.value, size |-> size.value], rest |-> size.rest]
HandleAfter(offset) == IF ~offset.ok THEN NoValue ELSE HandleOf(offset, GetVarint64(offset.rest))
DecodeHandle(s) == HandleAfter(GetVarint64(s))

Magic == EncodeFixed(MagicLo, Fixed) \o EncodeFixed(MagicHi, Fixed)

kMaxEncodedLength == 2 * MaxVarint(Word64)
kEncodedLength == 2 * kMaxEncodedLength + Len(Magic)

\* std::string::resize: zeros, or the end is cut off.
Resize(s, n) == [i \in 1..n |-> IF i =< Len(s) THEN s[i] ELSE 0]

\* Footer::EncodeTo, into an empty string.
EncodeFooter(f) == Resize(EncodeHandle(f.meta) \o EncodeHandle(f.index), 2 * kMaxEncodedLength) \o Magic

\* Footer::DecodeFrom of the kEncodedLength bytes that Table::Open gives it.
FooterOf(meta, ind) ==
  IF ~ind.ok THEN NoValue ELSE [ok |-> TRUE, value |-> [meta |-> meta.value, index |-> ind.value]]
FooterAfter(meta) == IF ~meta.ok THEN NoValue ELSE FooterOf(meta, DecodeHandle(meta.rest))
DecodeFooter(s) ==
  LET at == 2 * kMaxEncodedLength
      lo == DecodeFixed(SubSeq(s, at + 1, at + Fixed))
      hi == DecodeFixed(SubSeq(s, at + Fixed + 1, at + 2 * Fixed))
  IN  IF lo # MagicLo \/ hi # MagicHi THEN NoValue ELSE FooterAfter(DecodeHandle(s))

-----------------------------------------------------------------------------

\* TableBuilder::Finish
WriteFooter(f) ==
  /\ status = "none" /\ status' = "written"
  /\ file' = EncodeFooter(f) /\ wrote' = f
  /\ UNCHANGED <<read, harmed>>

\* The file lost n of its last bytes: what came before the footer, here the byte
\* b, moves into its place.
Cut(n, b) ==
  /\ "cut" \in Damages /\ status = "written" /\ harmed = "none"
  /\ file' = [i \in 1..n |-> b] \o SubSeq(file, 1, Len(file) - n)
  /\ harmed' = "cut"
  /\ UNCHANGED <<wrote, status, read>>

ChangeByte(i, b) ==
  /\ "byte" \in Damages /\ status = "written" /\ harmed = "none"
  /\ file[i] # b /\ file' = [file EXCEPT ![i] = b]
  /\ harmed' = CASE i > 2 * kMaxEncodedLength -> "magic"
                 [] i =< Len(EncodeHandle(wrote.meta) \o EncodeHandle(wrote.index)) -> "handles"
                 [] OTHER -> "padding"
  /\ UNCHANGED <<wrote, status, read>>

\* Table::Open, as far as the footer.
OpenFooter ==
  /\ status = "written"
  /\ \E f \in {DecodeFooter(file)} :
         IF f.ok THEN status' = "ok" /\ read' = f.value
         ELSE status' = "corrupt" /\ UNCHANGED read
  /\ UNCHANGED <<file, wrote, harmed>>

Nothing == [offset |-> 0, size |-> 0]

FooterInit ==
  /\ file = <<>> /\ wrote = [meta |-> Nothing, index |-> Nothing] /\ status = "none"
  /\ read = [meta |-> Nothing, index |-> Nothing] /\ harmed = "none"

FooterNext ==
  \/ \E meta, ind \in BlockHandle : WriteFooter([meta |-> meta, index |-> ind])
  \/ \E n \in 1..(Len(Magic) - 1), b \in Byte : Cut(n, b)
  \/ \E i \in 1..Len(file), b \in Byte : ChangeByte(i, b)
  \/ OpenFooter

FooterSpec == FooterInit /\ [][FooterNext]_footerVars

-----------------------------------------------------------------------------
(* Properties                                                              *)

\* A footer is read as it was written, whatever the lengths of its four varints
\* and whatever became of the padding: "the serialization of a Footer will
\* always occupy exactly this many bytes" (format.h), and they are enough.
FooterRoundTrip ==
  harmed \in {"none", "padding"} /\ status \in {"ok", "corrupt"} => status = "ok" /\ read = wrote

\* A file that ends within its magic number, or has another one, is refused:
\* Footer::DecodeFrom looks at it before the handles, which would often decode.
DamageIsSeen == harmed \in {"cut", "magic"} => status # "ok"
=============================================================================
