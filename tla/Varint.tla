-------------------------------- MODULE Varint --------------------------------
(***************************************************************************)
(* Numbers on the wire as nanopb reads and writes them, byte by byte:      *)
(* pb_encode_varint and pb_encode_svarint; pb_decode_varint,               *)
(* pb_decode_varint32, pb_skip_varint and read_raw_value; and the field    *)
(* encoders and decoders for integers, which convert to the width of the   *)
(* field.                                                                  *)
(*                                                                         *)
(* The code has 7 bits of data in a byte, a narrow word of 32 bits and a   *)
(* wide one of 64.  The widths are parameters: TLC checks a scaled copy in *)
(* which, as in the code, the last byte of a narrow word is used in part   *)
(* and the last byte of a wide one holds a single bit.                     *)
(*                                                                         *)
(* All four readers are given the same bytes, one at a time, and the       *)
(* stream may end or fail before any of them.                              *)
(***************************************************************************)
EXTENDS Integers, Sequences

CONSTANTS
  Group, Narrow, Wide,  \* 7, 32, 64
  Widths,               \* sizes a field may have: 8, 16, 32, 64
  RawMax,               \* the buffer of read_raw_value: 10
  Wrap,                 \* number of values of bitpos, a uint_fast8_t: 256
  MaxBytes              \* bound: bytes given to the readers

VarintAssumption ==
  /\ {Group, Narrow, Wide, RawMax, Wrap, MaxBytes} \subseteq Nat \ {0}
  /\ Group < Narrow /\ Narrow < Wide /\ Wide < Wrap
  /\ {Narrow, Wide} \subseteq Widths /\ Widths \subseteq 1..Wide

VARIABLES
  field,     \* the field encoded: kind, width, value; or a stream of any bytes
  out,       \* bytes still to come when a field was encoded
  seen,      \* how many bytes were read
  total,     \* ghost: the number they stand for, of any size
  wide, narrow, skip, raw   \* the readers

vars == <<field, out, seen, total, wide, narrow, skip, raw>>

-----------------------------------------------------------------------------
(* Bits                                                                    *)

More(b) == b >= 2^Group            \* byte & 0x80
Data(b) == b % 2^Group             \* byte & 0x7F
Unsigned(v, w) == v % 2^w
Signed(v, w) == IF v % 2^w >= 2^(w - 1) THEN (v % 2^w) - 2^w ELSE v % 2^w
SignedRange(w) == -(2^(w - 1))..(2^(w - 1) - 1)

\* x | (d << p) in a word of w bits.  A byte may overlap bits that are set
\* already only when bitpos has wrapped around.
Or(x, d, p, w) ==
  LET Bit(y, i) == (y \div 2^i) % 2
      Value[i \in -1..(w - 1)] ==
        IF i = -1 THEN 0
        ELSE Value[i - 1] +
             2^i * (IF Bit(x, i) = 1 \/ (i >= p /\ i - p < Group /\ Bit(d, i - p) = 1) THEN 1 ELSE 0)
  IN  Value[w - 1]

\* Where the byte starts that holds the last bit of a word.
LastStart(w) == ((w - 1) \div Group) * Group

-----------------------------------------------------------------------------
(* Encoders                                                                *)

\* pb_encode_varint
EncodeVarint[v \in Nat] ==
  IF v < 2^Group THEN <<v>> ELSE <<2^Group + (v % 2^Group)>> \o EncodeVarint[v \div 2^Group]

\* pb_encode_svarint
ZigZag(v) ==
  IF v < 0 THEN 2^Wide - 1 - Unsigned(Unsigned(v, Wide) * 2, Wide) ELSE Unsigned(v * 2, Wide)

\* pb_enc_varint, pb_enc_uvarint, pb_enc_svarint: the value of the field is
\* widened first, with or without its sign.
EncodeField(f) ==
  EncodeVarint[CASE f.kind = "varint"  -> Unsigned(f.value, Wide)
                 [] f.kind = "uvarint" -> f.value
                 [] f.kind = "svarint" -> ZigZag(f.value)]

FieldValues(kind, w) == IF kind = "uvarint" THEN 0..(2^w - 1) ELSE SignedRange(w)

Fields ==
  UNION {{[kind |-> k, width |-> w, value |-> v] : v \in FieldValues(k, w)} :
           k \in {"varint", "uvarint", "svarint"}, w \in Widths}

AnyBytes == [kind |-> "any", width |-> 0, value |-> 0]

-----------------------------------------------------------------------------
(* Readers: status is "more", "ok", "overflow", "eof" or "io"              *)

Reader == [status |-> "more", result |-> 0, bitpos |-> 0]

TooLong(bitpos) == bitpos >= Wide

\* One turn of the loop of pb_decode_varint.
WideReads(r, b) ==
  IF TooLong(r.bitpos) THEN [r EXCEPT !.status = "overflow"]
  ELSE [status |-> IF More(b) THEN "more" ELSE "ok",
        result |-> Or(r.result, Data(b), r.bitpos, Wide),
        bitpos |-> (r.bitpos + Group) % Wrap]

SignExtension(bitpos) ==
  IF bitpos < LastStart(Wide) THEN 2^(Group + 1) - 1 ELSE 2^(Wide - LastStart(Wide)) - 1

\* The check at the end for a last byte that is used in part.
LastFits(bitpos, b) ==
  bitpos = LastStart(Narrow) + Group => Data(b) < 2^(Narrow - LastStart(Narrow))

\* Mistake: the data of a byte are taken for 8 bits.
NextPos_Byte(bitpos) == (bitpos + Group + 1) % Wrap

NextPos(bitpos) == (bitpos + Group) % Wrap

\* One turn of pb_decode_varint32_eof.
NarrowReads(r, b) ==
  LET beyond == r.bitpos >= Narrow
      bad    == /\ beyond /\ Data(b) # 0
                /\ \/ r.result < 2^(Narrow - 1)
                   \/ b # SignExtension(r.bitpos)
      next   == NextPos(r.bitpos)
      first  == r.bitpos = 0 /\ r.result = 0 /\ seen = 0
  IN  IF bad THEN [r EXCEPT !.status = "overflow"]
      ELSE [status |-> IF More(b) THEN "more"
                       ELSE IF first \/ LastFits(next, b) THEN "ok" ELSE "overflow",
            result |-> IF beyond THEN r.result ELSE Or(r.result, Data(b), r.bitpos, Narrow),
            bitpos |-> next]

\* pb_skip_varint, and read_raw_value with its buffer.
SkipReads(s, b) == IF More(b) THEN "more" ELSE "ok"

RawReads(s, b) ==
  IF seen + 1 > RawMax THEN "overflow" ELSE IF More(b) THEN "more" ELSE "ok"

\* pb_dec_varint, pb_dec_uvarint, pb_dec_svarint: convert a wide word to a
\* field of width w; accepted when nothing changes.
DecodeSvarint(v) == IF v % 2 = 1 THEN -(v \div 2) - 1 ELSE v \div 2

Converted(kind, w, v) ==
  CASE kind = "varint"  -> IF w = Wide THEN Signed(v, Wide) ELSE Signed(v, Narrow)
    [] kind = "uvarint" -> v
    [] kind = "svarint" -> DecodeSvarint(v)

Clamped(kind, w, x) == IF kind = "uvarint" THEN Unsigned(x, w) ELSE Signed(x, w)

Accepts(kind, w, v) == Clamped(kind, w, Converted(kind, w, v)) = Converted(kind, w, v)

-----------------------------------------------------------------------------
(* Actions                                                                 *)

Running == "more" \in {wide.status, narrow.status, skip, raw}

\* pb_readbyte gives the next byte to every reader that still reads.
ReadByte ==
  /\ Running /\ seen < MaxBytes
  /\ \E b \in 0..(2^(Group + 1) - 1) :
       /\ field.kind # "any" => out # <<>> /\ b = Head(out)
       /\ wide' = IF wide.status = "more" THEN WideReads(wide, b) ELSE wide
       /\ narrow' = IF narrow.status = "more" THEN NarrowReads(narrow, b) ELSE narrow
       /\ skip' = IF skip = "more" THEN SkipReads(skip, b) ELSE skip
       /\ raw' = IF raw = "more" THEN RawReads(raw, b) ELSE raw
       /\ total' = IF skip = "more" THEN total + Data(b) * 2^(Group * seen) ELSE total
  /\ out' = IF out = <<>> THEN out ELSE Tail(out)
  /\ seen' = seen + 1
  /\ UNCHANGED field

\* bytes_left is 0, or the callback of the stream fails.
StreamStops(how) ==
  LET Stop(s) == IF s = "more" THEN how ELSE s IN
  /\ Running
  /\ field.kind = "any" \/ out = <<>>
  /\ wide' = [wide EXCEPT !.status = Stop(@)]
  /\ narrow' = [narrow EXCEPT !.status = Stop(@)]
  /\ skip' = Stop(skip) /\ raw' = Stop(raw)
  /\ UNCHANGED <<field, out, seen, total>>

Init ==
  /\ field \in Fields \cup {AnyBytes}
  /\ out = IF field.kind = "any" THEN <<>> ELSE EncodeField(field)
  /\ seen = 0 /\ total = 0
  /\ wide = Reader /\ narrow = Reader /\ skip = "more" /\ raw = "more"

Next == ReadByte \/ \E how \in {"eof", "io"} : StreamStops(how)

Spec == Init /\ [][Next]_vars

-----------------------------------------------------------------------------
(* Properties                                                              *)

\* What is encoded for an integer field is decoded to the same value by the
\* decoder of that kind and width (pb_enc_varint, pb_dec_varint, ...).
RoundTrip ==
  (field.kind # "any" /\ out = <<>>) =>
    /\ wide.status = "ok"
    /\ Accepts(field.kind, field.width, wide.result)
    /\ Converted(field.kind, field.width, wide.result) = field.value

\* pb_decode_varint yields the number its bytes stand for, and an overlong
\* one is refused; a number that does not fit is cut to 64 bits.
WideIsExact ==
  wide.status = "ok" => wide.result = total % 2^Wide /\ seen * Group < Wide + Group

\* pb_decode_varint32 and pb_decode_varint agree on the low 32 bits whenever
\* both accept the bytes: a length, a tag and a field read the same number.
ReadersAgree ==
  (wide.status = "ok" /\ narrow.status = "ok") => narrow.result = wide.result % 2^Narrow

\* All readers stop at the same byte, unless they refuse it: a field that is
\* skipped is as long as one that is decoded.  The buffer of read_raw_value holds
\* every number that pb_decode_varint accepts.
SameLength ==
  skip = "ok" => /\ wide.status \in {"ok", "overflow"}
                 /\ narrow.status \in {"ok", "overflow"}
                 /\ raw \in (IF wide.status = "ok" THEN {"ok"} ELSE {"ok", "overflow"})

\* "varint overflow": what pb_decode_varint32 accepts is a number of 32 bits, or
\* a negative one extended to 64 bits.
NarrowIsExact ==
  narrow.status = "ok" =>
    \/ total = narrow.result
    \/ narrow.result >= 2^(Narrow - 1) /\ total % 2^Wide = narrow.result + (2^Wide - 2^Narrow)

=============================================================================
