-------------------------------- MODULE Nanopb --------------------------------
(***************************************************************************)
(* nanopb: messages are encoded by pb_encode.c and decoded by pb_decode.c, *)
(* as the build configures them (PB_ENABLE_MALLOC, streams on buffers).    *)
(*                                                                         *)
(* A message type is a sequence of fields [tag, at, ht, lt, size, n, sub]: *)
(* allocation (static, pointer, callback), how often the field occurs,     *)
(* what it holds, the capacity of one item, the length of its array and    *)
(* the type of a submessage.  A message is [cells, which]: a cell for each *)
(* field, and the tag that is set in the union.                            *)
(*                                                                         *)
(* A cell is [has, count, vals, blk]; an item [init, v, blk].  blk is a   *)
(* block of the heap, 0 the null pointer; an item that was not initialised *)
(* holds whatever was in memory.  Numbers on the wire are below 2^14; how  *)
(* larger ones are read is in Varint.                                      *)
(***************************************************************************)
EXTENDS Integers, Sequences, SequencesExt

CONSTANTS
  Types,       \* the message types: a function from names to types
  Older,       \* a receiver may know fewer fields: name -> the type it has
  Messages,    \* name -> messages that may be sent
  Deliveries,  \* what happens on the way: "whole", "cut", "twice", "framed", "zero"
  MaxSizes,    \* sizes of the buffer encoded to
  MaxAllocs    \* bound: which allocation fails, 0 for none

VARIABLES
  type, sent,      \* the type and the messages sent, in order
  stage,           \* encode, send, decode, then accepted or refused, released
  pos, ostream,    \* pb_encode: the field it is at; the output stream
  rtype, how,      \* the receiver's type; what happened on the way
  failAt,          \* the allocation that fails
  st, msg, aux     \* pb_decode: stream and heap; the message; local variables

vars == <<type, sent, stage, pos, ostream, rtype, how, failAt, st, msg, aux>>

\* pb_field_t: what the macros of pb.h describe, offsets left to FieldLayout.
Field(tag, at, ht, lt, size, n, sub) ==
  [tag |-> tag, at |-> at, ht |-> ht, lt |-> lt, size |-> size, n |-> n, sub |-> sub]

Packable(f) == f.lt \in {"varint", "fixed32", "fixed64"}
IsText(f) == f.lt \in {"string", "bytes"}
IsArray(f) == f.ht \in {"repeated", "fixcount"}

-----------------------------------------------------------------------------
(* Messages                                                                *)

Item(v) == [init |-> TRUE, v |-> v, blk |-> 0]
Garbage == [init |-> FALSE, v |-> <<>>, blk |-> 0]
Cell(has, count, vals) == [has |-> has, count |-> count, vals |-> vals, blk |-> 0]

\* pb_extension_t: the extensions of a message, as a message of their own.
ExtensionOf(c) == c.vals[1].v

RECURSIVE DefaultMsg(_)

DefaultValue(f) ==
  CASE f.lt = "sub" -> DefaultMsg(f.sub)
    [] Packable(f) -> 0
    [] f.lt = "flb" -> [i \in 1..f.size |-> 0]
    [] OTHER -> <<>>

\* pb_field_set_to_default.  Arrays and unions keep what was in memory.
DefaultCell(f) ==
  CASE f.lt = "ext" -> Cell(FALSE, 0, <<Item(DefaultMsg(f.sub))>>)
    [] f.lt # "ext" /\ f.at # "static" -> Cell(FALSE, 0, <<>>)
    [] f.lt # "ext" /\ f.at = "static" /\ IsArray(f) -> Cell(FALSE, 0, [i \in 1..f.n |-> Garbage])
    [] f.lt # "ext" /\ f.at = "static" /\ f.ht = "oneof" -> Cell(FALSE, 0, <<Garbage>>)
    [] OTHER -> Cell(FALSE, 0, <<Item(DefaultValue(f))>>)

\* pb_message_set_to_defaults
DefaultMsg(fields) == [cells |-> [i \in DOMAIN fields |-> DefaultCell(fields[i])], which |-> 0]

-----------------------------------------------------------------------------
(* Output.  A stream is [sizing, max, out, ok].                            *)

OStream(sizing, max) == [sizing |-> sizing, max |-> max, out |-> <<>>, ok |-> TRUE]
Sizing == OStream(TRUE, 0)
Buffer(n) == OStream(FALSE, n)

FitsIn(s, n) == s.sizing \/ Len(s.out) + n =< s.max

\* pb_write.  A sizing stream counts the bytes only.
Put(s, bytes) ==
  IF ~s.ok \/ ~FitsIn(s, Len(bytes)) THEN [s EXCEPT !.ok = FALSE]
  ELSE [s EXCEPT !.out = @ \o bytes]

VarintBytes(v) == IF v < 128 THEN <<v>> ELSE <<128 + (v % 128), v \div 128>>
PutVarint(s, v) == Put(s, VarintBytes(v))

\* pb_wire_type_t
WireType(f) ==
  CASE f.lt = "varint" -> 0
    [] f.lt = "fixed32" -> 5
    [] f.lt = "fixed64" -> 1
    [] OTHER -> 2

PutTag(s, wt, tag) == PutVarint(s, tag * 8 + wt)

\* pb_encode_tag_for_field
PutTagForField(s, f) == PutTag(s, WireType(f), f.tag)

\* pb_encode_string
PutString(s, v) == Put(PutVarint(s, Len(v)), v)

Fixed32Bytes(v) == <<v % 256, (v \div 256) % 256, 0, 0>>
Fixed64Bytes(v) == Fixed32Bytes(v) \o <<0, 0, 0, 0>>

RECURSIVE EncodeFrom(_, _, _, _), PutItem(_, _, _)

\* pb_encode: all fields in order.
Encode(s, fields, m) == EncodeFrom(s, fields, m, 1)

\* pb_encode_submessage: the size first, then the message in a stream that is
\* limited to that size.  A sizing stream takes the bytes that were counted.
PutLimited(s, inner, size) ==
  [s EXCEPT !.out = @ \o inner.out, !.ok = inner.ok /\ Len(inner.out) = size]
PutAfterSize(s, fields, m, sized) ==
  IF ~sized.ok \/ ~s.ok \/ ~FitsIn(s, Len(sized.out)) THEN [s EXCEPT !.ok = FALSE]
  ELSE IF s.sizing THEN [s EXCEPT !.out = @ \o sized.out]
  ELSE PutLimited(s, Encode(Buffer(Len(sized.out)), fields, m), Len(sized.out))
PutSized(s, fields, m, sized) == PutAfterSize(PutVarint(s, Len(sized.out)), fields, m, sized)
PutSubmessage(s, fields, m) == PutSized(s, fields, m, Encode(Sizing, fields, m))

\* pb_enc_bytes, pb_enc_string, pb_enc_fixed_length_bytes
PutText(s, f, item) ==
  IF f.at = "static" /\ f.lt = "bytes" /\ Len(item.v) > f.size THEN [s EXCEPT !.ok = FALSE]
  ELSE PutString(s, item.v)

\* pb_enc_fixed32, pb_enc_fixed64
PutFixed(s, f, item) == Put(s, IF f.lt = "fixed32" THEN Fixed32Bytes(item.v) ELSE Fixed64Bytes(item.v))

\* The encoders of PB_ENCODERS.
PutItem(s, f, item) ==
  CASE f.lt = "varint"  -> PutVarint(s, item.v)
    [] f.lt \in {"fixed32", "fixed64"} -> PutFixed(s, f, item)
    [] f.lt = "sub"     -> PutSubmessage(s, f.sub, item.v)
    [] OTHER -> PutText(s, f, item)

\* Items one after another, without and with their tags.
PutItems(s, f, vals) == FoldLeft(LAMBDA t, x : PutItem(t, f, x), s, vals)
PutTagged(s, f, vals) == FoldLeft(LAMBDA t, x : PutItem(PutTagForField(t, f), f, x), s, vals)

\* encode_array: packed when the type allows it.
EncodeArray(s, f, vals) ==
  IF vals = <<>> THEN s
  ELSE IF f.at # "pointer" /\ Len(vals) > f.n THEN [s EXCEPT !.ok = FALSE]
  ELSE IF Packable(f)
       THEN PutItems(PutVarint(PutTag(s, 2, f.tag), Len(PutItems(Sizing, f, vals).out)), f, vals)
       ELSE PutTagged(s, f, vals)

\* pb_check_proto3_default_value
RECURSIVE IsZero(_, _, _)
IsZero(f, c, m) ==
  CASE f.ht = "required" -> FALSE
    [] f.ht = "repeated" -> c.count = 0
    [] f.ht = "oneof"    -> m.which = 0
    [] f.ht = "optional" -> ~c.has
    [] OTHER -> IF f.at = "pointer" THEN c.blk = 0
                ELSE IF f.lt = "sub" /\ f.at = "static"
                THEN LET sm == c.vals[1].v IN
                     \A i \in DOMAIN f.sub : IsZero(f.sub[i], sm.cells[i], sm)
                ELSE IF f.lt = "flb" THEN f.size = 0
                ELSE c.vals[1].v = DefaultValue(f)

\* Whether a field is there to be encoded: its has_ flag or count, or a
\* pointer that is not null.
Present(f, c, m) ==
  CASE f.at = "pointer" /\ f.ht \in {"required", "optional", "singular"} -> c.blk # 0
    [] f.ht = "oneof" -> m.which = f.tag
    [] f.at = "static" /\ f.ht = "singular" -> ~IsZero(f, c, m)
    [] f.at = "static" /\ f.ht = "optional" -> c.has
    [] OTHER -> TRUE

\* encode_basic_field
EncodeBasic(s, f, c, m) ==
  IF IsArray(f)
  THEN EncodeArray(s, f, SubSeq(c.vals, 1, IF f.ht = "fixcount" THEN f.n ELSE c.count))
  ELSE IF Present(f, c, m) THEN PutItem(PutTagForField(s, f), f, c.vals[1])
  ELSE [s EXCEPT !.ok = s.ok /\ f.ht # "required"]

\* encode_callback_field: the callback writes each value it has, with its tag.
EncodeCallback(s, f, c) == PutTagged(s, f, c.vals)

\* encode_extension_field
EncodeExtension(s, fields, m) ==
  FoldLeft(LAMBDA t, i : EncodeBasic(t, fields[i], m.cells[i], m), s, [i \in DOMAIN fields |-> i])

\* encode_field
EncodeField(s, f, c, m) ==
  CASE f.lt = "ext" -> EncodeExtension(s, f.sub, ExtensionOf(c))
    [] f.lt # "ext" /\ f.at = "callback" -> EncodeCallback(s, f, c)
    [] OTHER -> EncodeBasic(s, f, c, m)

EncodeFrom(s, fields, m, i) ==
  IF i > Len(fields) \/ ~s.ok THEN s
  ELSE EncodeFrom(EncodeField(s, fields[i], m.cells[i], m), fields, m, i + 1)

-----------------------------------------------------------------------------
(* The heap.  bad: a block was freed that is not allocated, or memory was  *)
(* used that nobody initialised.                                           *)

Free(s, b) ==
  [s EXCEPT !.heap = @ \ {b}, !.bad = @ \/ (b # 0 /\ b \notin s.heap)]

\* allocate_field: pb_realloc of a block, or a new one.  Returns the stream
\* and the block.
Allocate(s, b) ==
  LET k == s.allocs + 1 IN
  IF k = failAt THEN [st |-> [s EXCEPT !.ok = FALSE, !.allocs = k], blk |-> b]
  ELSE IF b # 0 THEN [st |-> [s EXCEPT !.allocs = k, !.bad = @ \/ b \notin s.heap], blk |-> b]
  ELSE [st |-> [s EXCEPT !.allocs = k, !.heap = @ \cup {s.next}, !.next = @ + 1], blk |-> s.next]

RECURSIVE Release(_, _, _), ReleaseItem(_, _, _)

HasPointers(fields) == \E i \in DOMAIN fields : fields[i].at = "pointer"

\* What pb_release does to one item of a field.
ReleaseItem(s, f, item) ==
  IF item.init THEN Release(s, f.sub, item.v)
  ELSE [s EXCEPT !.bad = @ \/ HasPointers(f.sub)]

\* How many vals of an array pb_release_single_field visits.
ReleaseCount(f, c) ==
  CASE f.ht = "fixcount" -> f.n
    [] f.ht = "repeated" -> IF f.at = "static" /\ c.count > f.n THEN f.n ELSE c.count
    [] OTHER -> 1

FreesElements(f) == f.ht = "repeated" /\ IsText(f)

\* Its vals are visited in turn; there may be fewer than it thinks.
ReleaseItems(s, c, n, Op(_, _)) ==
  [FoldLeft(Op, s, SubSeq(c.vals, 1, IF n < Len(c.vals) THEN n ELSE Len(c.vals)))
     EXCEPT !.bad = @ \/ n > Len(c.vals)]

\* The parts of pb_release_single_field: what is inside, the elements of an array
\* of pointers, the pointer itself.
ReleaseInside(s, f, c) ==
  CASE f.lt = "ext" -> Release(s, f.sub, ExtensionOf(c))
    [] f.lt = "sub" /\ (f.at = "static" \/ (f.at = "pointer" /\ c.blk # 0)) ->
         ReleaseItems(s, c, ReleaseCount(f, c), LAMBDA t, x : ReleaseItem(t, f, x))
    [] OTHER -> s
ReleaseElements(s, f, c) ==
  IF f.at = "pointer" /\ FreesElements(f)
  THEN ReleaseItems(s, c, ReleaseCount(f, c), LAMBDA t, x : Free(t, x.blk)) ELSE s
ReleasePointer(s, f, c) == IF f.at = "pointer" THEN Free(s, c.blk) ELSE s

\* pb_release_single_field
ReleaseField(s, f, c, which) ==
  IF f.ht = "oneof" /\ which # f.tag THEN s
  ELSE ReleasePointer(ReleaseElements(ReleaseInside(s, f, c), f, c), f, c)

\* pb_release
Release(s, fields, m) ==
  FoldLeft(LAMBDA t, i : ReleaseField(t, fields[i], m.cells[i], m.which), s, [i \in DOMAIN fields |-> i])

-----------------------------------------------------------------------------
(* Input.  A stream is [ok, in, heap, next, allocs, bad].                  *)

Fail(s) == [s EXCEPT !.ok = FALSE]

\* pb_read: [st, v].  A callback that fails is like the end of the stream.
Read(s, n) ==
  IF Len(s.in) < n THEN [st |-> Fail(s), v |-> <<>>]
  ELSE [st |-> [s EXCEPT !.in = SubSeq(@, n + 1, Len(@))], v |-> SubSeq(s.in, 1, n)]

\* Mistake: the bit that says that more bytes follow is taken for data.
ReadVarint_Bit(s) ==
  IF s.in # <<>> /\ s.in[1] < 128 THEN [st |-> [s EXCEPT !.in = Tail(@)], v |-> s.in[1]]
  ELSE IF Len(s.in) > 1 /\ s.in[2] < 128
       THEN [st |-> [s EXCEPT !.in = SubSeq(@, 3, Len(@))], v |-> s.in[1] + 128 * s.in[2]]
       ELSE [st |-> [Fail(s) EXCEPT !.in = <<>>], v |-> 0]

\* pb_decode_varint, pb_decode_varint32 for numbers of at most two bytes.
ReadVarint(s) ==
  IF s.in # <<>> /\ s.in[1] < 128 THEN [st |-> [s EXCEPT !.in = Tail(@)], v |-> s.in[1]]
  ELSE IF Len(s.in) > 1 /\ s.in[2] < 128
       THEN [st |-> [s EXCEPT !.in = SubSeq(@, 3, Len(@))], v |-> (s.in[1] % 128) + 128 * s.in[2]]
       ELSE [st |-> [Fail(s) EXCEPT !.in = <<>>], v |-> 0]

\* pb_make_string_substream: the bytes of the substream are cut out of the
\* stream, which goes on after them.
Substream(s) ==
  LET len == ReadVarint(s) IN
  IF ~len.st.ok THEN [st |-> len.st, v |-> <<>>] ELSE Read(len.st, len.v)

\* pb_close_string_substream
CloseSubstream(inner, outer) == [inner EXCEPT !.in = outer.in]

SkipString(s) == Substream(s).st

\* pb_skip_field
SkipField(s, wt) ==
  CASE wt = 0 -> ReadVarint(s).st
    [] wt = 1 -> Read(s, 8).st
    [] wt = 2 -> SkipString(s)
    [] wt = 5 -> Read(s, 4).st
    [] OTHER  -> Fail(s)

RECURSIVE DecodeMsg(_, _, _), DecItem(_, _, _), Turn(_, _, _, _)

\* pb_dec_bytes, pb_dec_string: the size is checked or the item allocated,
\* then the bytes are read.
TextItem(data, blk) == [st |-> data.st, item |-> [init |-> TRUE, v |-> data.v, blk |-> blk]]
ReadText(n, item, al) ==
  IF ~al.st.ok THEN [st |-> al.st, item |-> item] ELSE TextItem(Read(al.st, n), al.blk)
DecTextOf(len, f, item) ==
  IF ~len.st.ok \/ (f.at = "static" /\ len.v > f.size) THEN [st |-> Fail(len.st), item |-> item]
  ELSE ReadText(len.v, item, IF f.at = "pointer" THEN Allocate(len.st, item.blk)
                             ELSE [st |-> len.st, blk |-> 0])
DecText(s, f, item) == DecTextOf(ReadVarint(s), f, item)

\* pb_dec_fixed_length_bytes
DecFixedLengthBytes(s, f, item) ==
  LET len == ReadVarint(s)
      data == Read(len.st, f.size)
  IN  IF ~len.st.ok THEN [st |-> len.st, item |-> item]
      ELSE IF len.v = 0 THEN [st |-> len.st, item |-> Item([i \in 1..f.size |-> 0])]
      ELSE IF len.v # f.size THEN [st |-> Fail(len.st), item |-> item]
      ELSE [st |-> data.st, item |-> IF data.st.ok THEN Item(data.v) ELSE item]

\* pb_dec_submessage: array entries are initialised by pb_decode, which also
\* releases them on an error; others are decoded over what is there.
ReleasedOnError(r, f) ==
  IF IsArray(f) /\ ~r.st.ok THEN [st |-> Release(r.st, f.sub, r.m), m |-> DefaultMsg(f.sub)] ELSE r
CloseSubmessage(r, outer, item) ==
  [st |-> CloseSubstream(r.st, outer), item |-> [item EXCEPT !.init = TRUE, !.v = r.m]]
DecSubstream(cut, f, item) ==
  IF ~cut.st.ok THEN [st |-> cut.st, item |-> item]
  ELSE CloseSubmessage(
         ReleasedOnError(DecodeMsg([cut.st EXCEPT !.in = cut.v], f.sub,
                                   IF IsArray(f) THEN DefaultMsg(f.sub) ELSE item.v), f),
         cut.st, item)
DecSubmessage(s, f, item) == DecSubstream(Substream(s), f, item)

\* pb_decode_fixed32, pb_decode_fixed64
DecFixed(s, size, item) ==
  LET r == Read(s, size)
  IN  [st |-> r.st, item |-> IF r.st.ok THEN Item(r.v[1] + 256 * r.v[2]) ELSE item]

\* The decoders of PB_DECODERS.
DecItem(s, f, item) ==
  CASE f.lt = "varint"  -> LET r == ReadVarint(s) IN [st |-> r.st, item |-> Item(r.v)]
    [] f.lt = "fixed32" -> DecFixed(s, 4, item)
    [] f.lt = "fixed64" -> DecFixed(s, 8, item)
    [] f.lt = "flb"     -> DecFixedLengthBytes(s, f, item)
    [] f.lt = "sub"     -> DecSubmessage(s, f, item)
    [] OTHER            -> DecText(s, f, item)

\* A result of decoding a field: the stream, the cell, the tag in the union.
Done(s, c, which) == [st |-> s, cell |-> c, which |-> which]

HasRoom(f, c) == c.count < f.n

\* An item that was decoded is stored at the end of an array, or as the value.
StoredNext(r, c, which) ==
  Done(r.st, [c EXCEPT !.vals[c.count + 1] = r.item, !.count = @ + 1], which)
StoredFirst(r, f, c, which) ==
  Done(r.st, [c EXCEPT !.vals[1] = r.item, !.has = f.ht = "optional"],
       IF f.ht = "oneof" THEN f.tag ELSE which)

\* The loop over a packed array; what does not fit is an error.
RECURSIVE PackedStatic(_, _, _, _), PackedStaticNext(_, _, _, _)
PackedStatic(s, f, c, which) ==
  IF s.in = <<>> \/ c.count >= f.n \/ ~s.ok THEN Done(s, c, which)
  ELSE PackedStaticNext(DecItem(s, f, c.vals[c.count + 1]), f, c, which)
PackedStaticNext(r, f, c, which) ==
  IF ~r.st.ok THEN Done(r.st, c, which)
  ELSE PackedStatic(r.st, f, StoredNext(r, c, which).cell, which)
ClosePacked(r, outer) ==
  [r EXCEPT !.st = IF r.st.in # <<>> THEN Fail(r.st) ELSE CloseSubstream(r.st, outer)]

\* decode_static_field
DecodeStatic(s, f, c, which, wt) ==
  CASE IsArray(f) /\ wt = 2 /\ Packable(f) ->
         LET cut == Substream(s) IN
         IF ~cut.st.ok THEN Done(cut.st, c, which)
         ELSE ClosePacked(PackedStatic([cut.st EXCEPT !.in = cut.v], f, c, which), cut.st)
    [] IsArray(f) /\ ~(wt = 2 /\ Packable(f)) ->
         IF ~HasRoom(f, c) THEN Done(Fail(s), [c EXCEPT !.count = @ + 1], which)
         ELSE IF c.count + 1 > f.n THEN Done([s EXCEPT !.bad = TRUE], c, which)
         ELSE StoredNext(DecItem(s, f, c.vals[c.count + 1]), c, which)
    [] ~IsArray(f) ->
         LET fresh == f.ht = "oneof" /\ f.lt = "sub" IN
         StoredFirst(DecItem(s, f, IF fresh THEN Item(DefaultMsg(f.sub)) ELSE c.vals[1]), f, c, which)

\* initialize_pointer_field
FreshItem(f) == IF f.lt = "sub" THEN Item(DefaultMsg(f.sub)) ELSE [Garbage EXCEPT !.init = ~IsText(f)]

\* What was decoded into a block, which may be a new one.
StoredAt(r, c, blk, which) == Done(r.st, [c EXCEPT !.blk = blk, !.vals = <<r.item>>], which)
StoredText(r, c, which) == StoredAt(r, c, r.item.blk, which)
StoredEnd(r, c, blk, which) == Done(r.st, [c EXCEPT !.blk = blk, !.vals = Append(@, r.item)], which)
DecAllocated(al, f) == DecItem(al.st, f, FreshItem(f))
DecodeBlock(al, f, c, which) ==
  IF ~al.st.ok THEN Done(al.st, c, which) ELSE StoredAt(DecAllocated(al, f), c, al.blk, which)
DecodeElement(al, f, c, which) ==
  IF ~al.st.ok THEN Done(al.st, c, which) ELSE StoredEnd(DecAllocated(al, f), c, al.blk, which)
DecodeOne(s, f, c, which) ==
  IF IsText(f) THEN StoredText(DecItem(s, f, [Garbage EXCEPT !.blk = c.blk]), c, which)
  ELSE DecodeBlock(Allocate(s, c.blk), f, c, which)

\* The loop over a packed array, whose block grows ahead of what is read.
RECURSIVE PackedPointer(_, _, _, _), PackedPointerNext(_, _, _, _)
PackedGrown(al, f, c, allocated) ==
  IF ~al.st.ok THEN [st |-> al.st, cell |-> [c EXCEPT !.blk = al.blk]]
  ELSE PackedPointerNext(DecAllocated(al, f), f, [c EXCEPT !.blk = al.blk], allocated)
PackedPointer(s, f, c, allocated) ==
  IF s.in = <<>> \/ ~s.ok THEN [st |-> s, cell |-> c]
  ELSE LET grow == c.count + 1 > allocated
           more == allocated + (Len(s.in) - 1) \div f.size + 1
       IN  PackedGrown(IF grow THEN Allocate(s, c.blk) ELSE [st |-> s, blk |-> c.blk], f, c,
                       IF grow THEN more ELSE allocated)
PackedPointerNext(r, f, c, allocated) ==
  IF ~r.st.ok THEN [st |-> r.st, cell |-> c]
  ELSE PackedPointer(r.st, f, [c EXCEPT !.vals = Append(@, r.item), !.count = @ + 1], allocated)
ClosePointer(r, outer, which) == Done(CloseSubstream(r.st, outer), r.cell, which)

\* decode_pointer_field
DecodePointer(s, f, c, which, wt) ==
  CASE ~IsArray(f) ->
         LET again == f.lt = "sub" /\ c.blk # 0
         IN  DecodeOne(IF again THEN ReleaseField(s, f, c, which) ELSE s, f,
                       IF again THEN DefaultCell(f) ELSE c,
                       IF f.ht = "oneof" THEN f.tag ELSE which)
    [] IsArray(f) /\ wt = 2 /\ Packable(f) ->
         LET cut == Substream(s) IN
         IF ~cut.st.ok THEN Done(cut.st, c, which)
         ELSE ClosePointer(PackedPointer([cut.st EXCEPT !.in = cut.v], f, c, c.count), cut.st, which)
    [] IsArray(f) /\ ~(wt = 2 /\ Packable(f)) ->
         DecodeElement(Allocate(s, c.blk), f, [c EXCEPT !.count = @ + 1], which)

\* read_raw_value, then the callback is given the value as a stream.
RawValue(s, wt) ==
  CASE wt = 0 -> ReadVarint(s)
    [] wt \in {1, 5} -> LET r == DecFixed(s, IF wt = 5 THEN 4 ELSE 8, Item(0))
                        IN  [st |-> r.st, v |-> r.item.v]
    [] OTHER  -> [st |-> Fail(s), v |-> 0]

\* decode_callback_field, with a callback that keeps every value.
DecodeCallback(s, f, c, which, wt) ==
  LET r == IF wt = 2 THEN Substream(s) ELSE RawValue(s, wt) IN
  Done(r.st, IF r.st.ok THEN [c EXCEPT !.vals = Append(@, Item(r.v))] ELSE c, which)

FieldOf(fields, tag) == {i \in DOMAIN fields : fields[i].tag = tag /\ fields[i].lt # "ext"}

\* Mistake: the old member of a union is not released.
ReleaseUnion_Never(s, fields, m, f) == s

\* pb_release_union_field
ReleaseUnion(s, fields, m, f) ==
  IF f.ht # "oneof" \/ m.which \in {0, f.tag} THEN s
  ELSE IF FieldOf(fields, m.which) = {} THEN Fail(s)
  ELSE LET i == CHOOSE i \in FieldOf(fields, m.which) : TRUE
       IN  ReleaseField(s, fields[i], m.cells[i], m.which)

\* The members of a union share their memory.  A pointer that was released is
\* null; other data stays, and is no pointer.
Shared(fields, m, f) ==
  LET old == CHOOSE i \in FieldOf(fields, m.which) : TRUE
      Left(g) == IF g.at = "pointer" /\ fields[old].at # "pointer"
                 THEN [DefaultCell(g) EXCEPT !.blk = -1] ELSE DefaultCell(g)
  IN  IF f.ht # "oneof" \/ m.which \in {0, f.tag} THEN m.cells
      ELSE [i \in DOMAIN m.cells |-> IF fields[i].ht = "oneof" THEN Left(fields[i]) ELSE m.cells[i]]

\* decode_field: the message with field i decoded.
DecodeCell(s, f, c, which, wt) ==
  CASE f.at = "static"   -> DecodeStatic(s, f, c, which, wt)
    [] f.at = "pointer"  -> DecodePointer(s, f, c, which, wt)
    [] f.at = "callback" -> DecodeCallback(s, f, c, which, wt)
WithCell(r, cells, i) == [st |-> r.st, m |-> [cells |-> [cells EXCEPT ![i] = r.cell], which |-> r.which]]
DecodeInto(s, fields, m, cells, i, wt) ==
  IF ~s.ok THEN [st |-> s, m |-> m]
  ELSE WithCell(DecodeCell(s, fields[i], cells[i], m.which, wt), cells, i)
DecodeField(s, fields, m, i, wt) ==
  DecodeInto(ReleaseUnion(s, fields, m, fields[i]), fields, m, Shared(fields, m, fields[i]), i, wt)

\* decode_extension: the extension with that tag, if the message has one.
DecodeExtension(s, fields, m, e, tag, wt) ==
  LET ext == fields[e].sub
      em  == ExtensionOf(m.cells[e])
      i   == CHOOSE i \in FieldOf(ext, tag) : TRUE
      Into(r) == [st |-> r.st, m |-> [m EXCEPT !.cells[e].vals[1].v = r.m]]
  IN  Into(DecodeField(s, ext, [em EXCEPT !.cells[i].has = TRUE], i, wt))

\* Local variables of pb_decode_noinit: required fields seen, the fixed count
\* field that is being filled.
Locals == [seen |-> {}, fixed |-> 0, stop |-> FALSE]

FixedComplete(fields, m, a) == a.fixed = 0 \/ m.cells[a.fixed].count = fields[a.fixed].n

\* One turn of the loop of pb_decode_noinit.
Turn(s, fields, m, a) ==
  LET t    == ReadVarint(s)
      tag  == t.v \div 8
      wt   == t.v % 8
      hit  == FieldOf(fields, tag)
      i    == CHOOSE i \in hit : TRUE
      exts == {e \in DOMAIN fields : /\ fields[e].lt = "ext" /\ tag >= fields[e].tag
                                     /\ FieldOf(fields[e].sub, tag) # {}}
      e    == CHOOSE e \in exts : TRUE
      new  == fields[i].ht = "fixcount" /\ a.fixed # i
      m1   == IF new THEN [m EXCEPT !.cells[i].count = 0] ELSE m
      a1   == [a EXCEPT !.seen = IF fields[i].ht = "required" THEN @ \cup {i} ELSE @,
                        !.fixed = IF new THEN i ELSE @]
      With(r, locals) == [st |-> r.st, m |-> r.m, a |-> locals]
  IN  IF ~t.st.ok THEN [st |-> t.st, m |-> m, a |-> a]
      ELSE IF t.v = 0 THEN [st |-> t.st, m |-> m, a |-> [a EXCEPT !.stop = TRUE]]
      ELSE IF hit = {} /\ exts # {} THEN With(DecodeExtension(t.st, fields, m, e, tag, wt), a)
      ELSE IF hit = {} THEN [st |-> SkipField(t.st, wt), m |-> m, a |-> a]
      ELSE IF new /\ ~FixedComplete(fields, m, a) THEN [st |-> Fail(t.st), m |-> m, a |-> a]
      ELSE With(DecodeField(t.st, fields, m1, i, wt), a1)

Required(fields) == {i \in DOMAIN fields : fields[i].ht = "required"}

\* The checks at its end.
Complete(fields, m, a) == FixedComplete(fields, m, a) /\ Required(fields) \subseteq a.seen

RECURSIVE Loop(_, _, _, _)
LoopOn(r, fields) == Loop(r.st, fields, r.m, r.a)
Loop(s, fields, m, a) ==
  IF ~s.ok THEN [st |-> s, m |-> m]
  ELSE IF s.in = <<>> \/ a.stop
       THEN [st |-> IF Complete(fields, m, a) THEN s ELSE Fail(s), m |-> m]
  ELSE LoopOn(Turn(s, fields, m, a), fields)

\* pb_decode_noinit of a submessage.
DecodeMsg(s, fields, m) == Loop(s, fields, m, Locals)

-----------------------------------------------------------------------------
(* Actions                                                                 *)

Stream(bytes) == [ok |-> TRUE, in |-> bytes, heap |-> {}, next |-> 1, allocs |-> 0, bad |-> FALSE]

\* One turn of pb_encode.
EncodeStep ==
  /\ stage = "encode" /\ ostream.ok /\ pos =< Len(Types[type])
  /\ LET m == sent[1] IN
     ostream' = EncodeField(ostream, Types[type][pos], m.cells[pos], m)
  /\ pos' = pos + 1
  /\ UNCHANGED <<type, sent, stage, rtype, how, failAt, st, msg, aux>>

Encoded(m) == Encode(Sizing, Types[type], m).out

Wires ==
  LET out == ostream.out IN
  UNION {
    IF "whole" \in Deliveries THEN {[how |-> "whole", bytes |-> out, more |-> <<>>]} ELSE {},
    IF "cut" \in Deliveries
    THEN {[how |-> "cut", bytes |-> SubSeq(out, 1, k), more |-> <<>>] : k \in 0..(Len(out) - 1)} ELSE {},
    IF "twice" \in Deliveries
    THEN {[how |-> "twice", bytes |-> out \o Encoded(m), more |-> <<m>>] : m \in Messages[type]} ELSE {},
    IF "zero" \in Deliveries
    THEN {[how |-> "zero", bytes |-> Append(out, 0) \o <<255>>, more |-> <<>>]} ELSE {},
    IF "framed" \in Deliveries
    THEN {[how |-> "framed", bytes |-> PutString(Sizing, out).out \o <<255>>, more |-> <<>>]} ELSE {} }

\* The bytes travel: as they are, cut short, followed by another message, with
\* a zero at the end (pb_encode_nullterminated), or after their length
\* (pb_encode_delimited); the last two in a stream that goes on.
Send ==
  /\ stage = "encode" /\ ostream.ok /\ pos > Len(Types[type])
  /\ rtype' \in {type, Older[type]}
  /\ \E w \in Wires :
       /\ how' = w.how
       /\ sent' = sent \o w.more
       /\ LET framed == Substream(Stream(w.bytes))
          IN  st' = IF w.how = "framed" THEN [framed.st EXCEPT !.in = framed.v] ELSE Stream(w.bytes)
  /\ msg' = DefaultMsg(Types[rtype'])
  /\ failAt' \in 0..MaxAllocs
  /\ aux' = Locals
  /\ stage' = "decode"
  /\ UNCHANGED <<type, pos, ostream>>

DecodeStep ==
  /\ stage = "decode" /\ st.ok /\ st.in # <<>> /\ ~aux.stop
  /\ \E r \in {Turn(st, Types[rtype], msg, aux)} : st' = r.st /\ msg' = r.m /\ aux' = r.a
  /\ UNCHANGED <<type, sent, stage, pos, ostream, rtype, how, failAt>>

\* pb_decode returns: on an error the message is released.
DecodeEnd ==
  /\ stage = "decode" /\ (~st.ok \/ st.in = <<>> \/ aux.stop)
  /\ LET ok == st.ok /\ Complete(Types[rtype], msg, aux)
     IN  /\ stage' = IF ok THEN "accepted" ELSE "refused"
         /\ st' = IF ok THEN st ELSE Release(st, Types[rtype], msg)
  /\ UNCHANGED <<type, sent, pos, ostream, rtype, how, failAt, msg, aux>>

\* The caller is done with the message.
ReleaseStep ==
  /\ stage = "accepted"
  /\ st' = Release(st, Types[rtype], msg)
  /\ stage' = "released"
  /\ UNCHANGED <<type, sent, pos, ostream, rtype, how, failAt, msg, aux>>

Init ==
  /\ type \in DOMAIN Messages
  /\ \E m \in Messages[type] : sent = <<m>>
  /\ \E n \in MaxSizes : ostream = Buffer(n)
  /\ stage = "encode" /\ pos = 1
  /\ rtype = type /\ how = "" /\ failAt = 0
  /\ st = Stream(<<>>) /\ msg = DefaultMsg(Types[type]) /\ aux = Locals

Next == EncodeStep \/ Send \/ DecodeStep \/ DecodeEnd \/ ReleaseStep

Spec == Init /\ [][Next]_vars

-----------------------------------------------------------------------------
(* Properties                                                              *)

RECURSIVE View(_, _)

\* What an application sees of a field: nothing, or its values.
Seen(f, c, m) ==
  LET n == IF IsArray(f) THEN (IF f.ht = "fixcount" THEN f.n ELSE c.count)
           ELSE IF f.at = "callback" THEN Len(c.vals)
           ELSE IF Present(f, c, m) THEN 1 ELSE 0
      Val(x) == IF f.lt = "sub" THEN View(f.sub, x.v) ELSE x.v
  IN  IF f.lt = "ext" THEN <<View(f.sub, ExtensionOf(c))>>
      ELSE [i \in 1..n |-> Val(c.vals[i])]

\* What an application sees of a message, by tag.
View(fields, m) == [i \in DOMAIN fields |-> Seen(fields[i], m.cells[i], m)]

RECURSIVE Merged(_, _, _)

\* A message followed by another of its type: the later value wins, arrays are
\* joined, submessages are merged, except that a submessage behind a pointer or
\* in a union is replaced.
MergedField(f, a, b) ==
  IF f.lt = "ext" THEN <<Merged(f.sub, a[1], b[1])>>
  ELSE IF IsArray(f) \/ f.at = "callback" THEN a \o b
  ELSE IF b = <<>> THEN a
  ELSE IF f.lt = "sub" /\ f.at = "static" /\ f.ht # "oneof" /\ a # <<>>
  THEN <<Merged(f.sub, a[1], b[1])>>
  ELSE b

Merged(fields, a, b) ==
  LET union == {i \in DOMAIN fields : fields[i].ht = "oneof"}
      reset == \E i \in union : b[i] # <<>>
  IN  [i \in DOMAIN fields |-> IF i \in union /\ reset THEN b[i] ELSE MergedField(fields[i], a[i], b[i])]

SentView ==
  LET V(k) == View(Types[type], sent[k])
  IN  IF Len(sent) = 1 THEN V(1) ELSE Merged(Types[type], V(1), V(2))

\* The fields of the message that the receiver knows.
Known(view) ==
  [i \in DOMAIN Types[rtype] |->
     view[CHOOSE j \in DOMAIN Types[type] : Types[type][j].tag = Types[rtype][i].tag]]

\* What pb_decode accepts is what was sent: the same message, two messages
\* merged, the fields an older receiver knows.
AcceptedIsSent ==
  (stage = "accepted" /\ how # "cut") => View(Types[rtype], msg) = Known(SentView)

\* A message that arrives whole is accepted by a receiver that has memory, if
\* its arrays can hold what was sent.
WholeIsAccepted ==
  (stage = "refused" /\ failAt = 0) =>
     \/ how = "cut"
     \/ \E i \in DOMAIN Types[rtype] :
          LET f == Types[rtype][i] IN
          IsArray(f) /\ f.at = "static" /\ Len(Known(SentView)[i]) > f.n

\* A message that was cut off is accepted only where a field ends: what was
\* decoded are fields as they were sent, among them all that are required.
CutIsPartial ==
  (stage = "accepted" /\ how = "cut") => \A i \in DOMAIN Types[rtype] :
    LET f   == Types[rtype][i]
        got == View(Types[rtype], msg)[i]
        all == Known(SentView)[i]
    IN  f.ht # "fixcount" /\ f.lt # "ext" =>
          IsPrefix(got, all) /\ (f.ht = "required" => got = all)

\* pb_get_encoded_size is exact: encoding succeeds if and only if the buffer has
\* room for that many bytes, and never writes beyond it.
SizeIsExact ==
  LET size == Len(Encoded(sent[1])) IN
  /\ Len(ostream.out) =< ostream.max
  /\ (stage = "encode" /\ ~ostream.ok) => size > ostream.max
  /\ stage # "encode" => Len(ostream.out) = size

\* "If pb_decode() returns with an error, the message is already released", and
\* after pb_release nothing is left: every block is freed, and only once.
AllIsFreed ==
  /\ ~st.bad
  /\ stage \in {"refused", "released"} => st.heap = {}

=============================================================================
