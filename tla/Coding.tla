-------------------------------- MODULE Coding --------------------------------
(***************************************************************************)
(* How leveldb writes numbers and strings (util/coding.h, util/coding.cc). *)
(*                                                                         *)
(* A byte of the code has 7 bits of data and one that says that more       *)
(* follow.  Group, the number of data bits, and the widths of words are    *)
(* parameters; a string is a sequence of bytes.                            *)
(***************************************************************************)
EXTENDS Integers, Sequences

CONSTANTS
  Group,        \* 7
  Word32,       \* 32: bits of a uint32_t
  Word64        \* 64

CodingAssumption == {Group, Word32, Word64} \subseteq Nat \ {0} /\ Word32 =< Word64

B == 2^Group
Byte == 0..(2 * B - 1)

NoValue == [ok |-> FALSE]

-----------------------------------------------------------------------------
(* Fixed width                                                             *)

\* EncodeFixed32, EncodeFixed64: n bytes, the lowest first.
EncodeFixed(v, n) == [i \in 1..n |-> (v \div (2 * B)^(i - 1)) % (2 * B)]

\* DecodeFixed32, DecodeFixed64
DecodeFixed(s) ==
  LET Value[i \in 0..Len(s)] == IF i = 0 THEN 0 ELSE Value[i - 1] + s[i] * (2 * B)^(i - 1)
  IN  Value[Len(s)]

-----------------------------------------------------------------------------
(* Varints                                                                 *)

\* EncodeVarint32 and EncodeVarint64; the former has its loop unrolled.
EncodeVarint(v) ==
  LET Enc[x \in 0..v] == IF x < B THEN <<x>> ELSE <<(x % B) + B>> \o Enc[x \div B]
  IN  Enc[v]

VarintLength(v) ==
  LET Length[x \in 0..v] == IF x < B THEN 1 ELSE 1 + Length[x \div B]
  IN  Length[v]

\* Groups a word of w bits has.
Groups(w) == (w + Group - 1) \div Group

\* The bound of the loops in GetVarint32PtrFallback and GetVarint64Ptr: shift
\* =< 28, shift =< 63.
MaxVarint(w) == Groups(w)

\* Where a varint of w bits that begins s ends: one place, or none.
VarintEnds(s, w) ==
  {i \in 1..(IF Len(s) < MaxVarint(w) THEN Len(s) ELSE MaxVarint(w)) :
     s[i] < B /\ \A j \in 1..(i - 1) : s[j] >= B}

\* Bits beyond the word are shifted out.
VarintUpTo(s, w, n) ==
  LET Value[i \in 0..n] == IF i = 0 THEN 0 ELSE Value[i - 1] + (s[i] % B) * B^(i - 1)
  IN  [ok |-> TRUE, value |-> Value[n] % 2^w, rest |-> SubSeq(s, n + 1, Len(s))]

\* GetVarint32, GetVarint64: [ok, value, rest]
GetVarint(s, w) ==
  IF VarintEnds(s, w) = {} THEN NoValue
  ELSE VarintUpTo(s, w, CHOOSE i \in VarintEnds(s, w) : TRUE)

GetVarint32(s) == GetVarint(s, Word32)
GetVarint64(s) == GetVarint(s, Word64)

-----------------------------------------------------------------------------
(* Strings with their length                                               *)

PutLengthPrefixedSlice(s) == EncodeVarint(Len(s)) \o s

HasBytes(s, n) == Len(s) >= n

\* The bytes whose number was read: [ok, value, rest]
SliceAfter(n) ==
  IF ~n.ok THEN NoValue
  ELSE IF ~HasBytes(n.rest, n.value) THEN NoValue
  ELSE [ok |-> TRUE, value |-> SubSeq(n.rest, 1, n.value),
        rest |-> SubSeq(n.rest, n.value + 1, Len(n.rest))]

GetLengthPrefixedSlice(s) == SliceAfter(GetVarint32(s))

=============================================================================
