------------------------------ MODULE Checksums ------------------------------
(***************************************************************************)
(* crc32c: the checksum of log records and blocks.  A word is the set of   *)
(* its one bits, so that exclusive or is the symmetric difference; words   *)
(* have their 32 bits.  The data is checksummed by two calls of Extend     *)
(* (value of the type byte, then the payload), at any alignment, by the    *)
(* tables or by the instructions of port_posix_sse.cc.  One action is one  *)
(* STEP of the macros.                                                     *)
(***************************************************************************)
EXTENDS Integers, Sequences, FiniteSets

CONSTANTS
  Sse,            \* the build and the processor have SSE 4.2
  MaxLength,      \* longest data, bound
  Splits,         \* lengths of the first piece
  Errors          \* where a burst of errors may begin, in bits

ChecksumsAssumption ==
  Sse \in BOOLEAN /\ MaxLength \in Nat /\ Splits \subseteq Nat /\ Errors \subseteq Nat

VARIABLES
  data,           \* the bytes, each a set of bits
  split,          \* length of the first piece
  align,          \* of the address of data
  p, l,           \* of Extend: position (bytes done), the register
  words,          \* addresses at which words were loaded
  call, crc       \* which call is running; the result of the first, then of both

vars == <<data, split, align, p, l, words, call, crc>>

Word == 0..31
Byte == 0..7
Xor(a, b) == (a \ b) \cup (b \ a)
ShiftRight(w, n) == {i - n : i \in {j \in w : j >= n}}
ShiftLeft(w, n)  == {i + n : i \in {j \in w : j + n =< 31}}
Low(w) == w \cap Byte

\* The polynomial 0x82f63b78 of crc32c, in the order of the register.
Poly == {3, 4, 5, 6, 8, 9, 11, 12, 13, 17, 18, 20, 21, 22, 23, 25, 31}

\* One bit and n bits of long division.
Divide(w) == IF 0 \in w THEN Xor(ShiftRight(w, 1), Poly) ELSE ShiftRight(w, 1)
Divided(w, n) == LET d[i \in 0..n] == IF i = 0 THEN w ELSE Divide(d[i - 1]) IN d[n]

\* The tables by the rule they were made by: a byte and 0 to 3 zero bytes.
table0_ == [c \in SUBSET Byte |-> Divided(c, 8)]
table1_ == [c \in SUBSET Byte |-> Divided(c, 16)]
table2_ == [c \in SUBSET Byte |-> Divided(c, 24)]
table3_ == [c \in SUBSET Byte |-> Divided(c, 32)]

-----------------------------------------------------------------------------
(* Extend                                                                  *)

\* DecodeFixed32 of four bytes from the i-th on, and the same of eight.
LE_LOAD32(i) == UNION {{8 * k + b : b \in data[i + k]} : k \in 0..3}

End == IF call = 1 THEN split ELSE Len(data)
Start == IF call = 1 THEN 0 ELSE split
Address == align + p

\* Mistake: the tables are the other way round.
Step4_Swapped(w) ==
  Xor(Xor(table0_[Low(w)], table1_[Low(ShiftRight(w, 8))]),
      Xor(table2_[Low(ShiftRight(w, 16))], table3_[ShiftRight(w, 24)]))

Step4(w) ==
  Xor(Xor(table3_[Low(w)], table2_[Low(ShiftRight(w, 8))]),
      Xor(table1_[Low(ShiftRight(w, 16))], table0_[ShiftRight(w, 24)]))

STEP1 ==
  /\ p' = p + 1
  /\ l' = Xor(table0_[Xor(Low(l), data[p + 1])], ShiftRight(l, 8))
  /\ UNCHANGED words

STEP4 ==
  /\ p' = p + 4
  /\ l' = Step4(Xor(l, LE_LOAD32(p + 1)))
  /\ words' = words \cup {[at |-> Address, size |-> 4]}

\* The instructions (external): crc32 of one, four and eight bytes.
Crc32Byte(w, b) == Divided(Xor(w, b), 8)
Crc32(w, i, n) ==
  LET c[k \in 0..n] == IF k = 0 THEN w ELSE Crc32Byte(c[k - 1], data[i + k - 1]) IN c[n]

STEPS(n) ==
  /\ p' = p + n
  /\ l' = Crc32(l, p + 1, n)
  /\ words' = IF n = 1 THEN words ELSE words \cup {[at |-> Address, size |-> n]}

\* x: the first aligned byte, looked for only when it is not past the end.
FirstAligned == ((align + Start + 3) \div 4) * 4 - align
Running == p < End

\* Where the loop that looks for an aligned byte ends.
HeadLimit == IF FirstAligned =< End THEN FirstAligned ELSE Start

ExtendHead ==
  /\ ~Sse /\ p < HeadLimit /\ STEP1
  /\ UNCHANGED <<data, split, align, call, crc>>

Extend16 ==
  /\ ~Sse /\ p >= HeadLimit /\ End - p >= 16
  /\ p' = p + 16
  /\ LET s[k \in 0..4] == IF k = 0 THEN l ELSE Step4(Xor(s[k - 1], LE_LOAD32(p + 4 * k - 3)))
     IN  l' = s[4]
  /\ words' = words \cup {[at |-> Address + 4 * k, size |-> 4] : k \in 0..3}
  /\ UNCHANGED <<data, split, align, call, crc>>

Extend4 ==
  /\ ~Sse /\ p >= HeadLimit /\ End - p \in 4..15 /\ STEP4
  /\ UNCHANGED <<data, split, align, call, crc>>

ExtendTail ==
  /\ ~Sse /\ p >= HeadLimit /\ End - p \in 1..3 /\ STEP1
  /\ UNCHANGED <<data, split, align, call, crc>>

\* AcceleratedCRC32C: as many single bytes as the address is past a multiple
\* of eight, when there are more than 16.
SseHead == Start + ((align + Start) % 8)
SseLong == End - Start > 16

Accelerated ==
  /\ Sse /\ Running
  /\ IF SseLong /\ p < SseHead THEN STEPS(1)
     ELSE IF SseLong /\ End - p >= 8 THEN STEPS(8)
     ELSE IF SseLong /\ End - p >= 4 THEN STEPS(4)
     ELSE STEPS(1)
  /\ UNCHANGED <<data, split, align, call, crc>>

Inverted(w) == Word \ w

\* The call returns; the second one is made with its result.
Return ==
  /\ p = End /\ call =< 2
  /\ crc' = Inverted(l)
  /\ l' = Inverted(Inverted(l))
  /\ call' = call + 1
  /\ UNCHANGED <<data, split, align, p, words>>

-----------------------------------------------------------------------------
(* Mask and Unmask                                                         *)

\* kMaskDelta = 0xa282ead8
kMaskDelta == {3, 4, 6, 7, 9, 11, 13, 14, 15, 17, 23, 25, 29, 31}

\* Addition and subtraction of 32 bits.
Add(a, b) ==
  LET carry[i \in 0..32] ==
        IF i = 0 THEN FALSE
        ELSE Cardinality({x \in {1, 2, 3} : CASE x = 1 -> i - 1 \in a [] x = 2 -> i - 1 \in b
                                              [] x = 3 -> carry[i - 1]}) >= 2
  IN  {i \in Word : ((i \in a) # (i \in b)) # carry[i]}
Negative(a) == Add(Word \ a, {0})

Mask(w) == Add(ShiftRight(w, 15) \cup ShiftLeft(w, 17), kMaskDelta)

Unmask(w) ==
  LET rot == Add(w, Negative(kMaskDelta)) IN ShiftRight(rot, 17) \cup ShiftLeft(rot, 15)

-----------------------------------------------------------------------------

\* Zeros, ones, and a mixture.
Shapes == {[i \in 1..MaxLength |-> {}], [i \in 1..MaxLength |-> Byte],
           [i \in 1..MaxLength |-> {b \in Byte : (i * (b + 3)) % 5 < 2}]}

\* The value of the polynomial register before any data is zero's complement.
Init ==
  /\ \E s \in Shapes, n \in 0..MaxLength : data = SubSeq(s, 1, n)
  /\ split \in {k \in Splits : k =< Len(data)}
  /\ align \in 0..7
  /\ p = 0 /\ l = Word /\ words = {} /\ call = 1 /\ crc = {}

Next == ExtendHead \/ Extend16 \/ Extend4 \/ ExtendTail \/ Accelerated \/ Return

Spec == Init /\ [][Next]_vars

-----------------------------------------------------------------------------
(* Properties                                                              *)

\* The remainder of long division by the polynomial, bit by bit.
Reference(d) ==
  LET r[i \in 0..Len(d)] == IF i = 0 THEN Word ELSE Divided(Xor(r[i - 1], d[i]), 8)
  IN  Word \ r[Len(d)]

\* "Return the crc32c of concat(A, data[0,n-1])": whatever the alignment, the
\* lengths and the strides, the two calls give the checksum of all the data.
IsChecksum == call = 3 => crc = Reference(data)

\* What is stored is masked: it can be unmasked, and is never the checksum
\* itself, once or twice masked.
MaskInverts ==
  call = 3 => Unmask(Mask(crc)) = crc /\ Mask(crc) # crc /\ Mask(Mask(crc)) # crc

\* The damage of a burst of up to 32 bits beginning at bit e.
Damaged(d, e, bits) ==
  [i \in DOMAIN d |-> Xor(d[i], {b \in Byte : (i - 1) * 8 + b - e \in bits})]

Bursts == {{0}, {0, 31}, {0, 1, 2, 3}, Word, {0, 7, 15}, {0, 4, 5, 6, 7, 9, 10, 12, 13, 14, 18, 19, 21, 22, 23, 24, 26}}

\* Damage within 32 bits is always seen.
BurstsAreSeen ==
  call = 3 /\ align = 0 =>
    \A e \in Errors, bits \in Bursts :
      e < 8 * Len(data) => Reference(Damaged(data, e, bits)) # crc

\* Words are loaded from addresses that are multiples of their size.
WordsAreAligned == \A w \in words : w.at % w.size = 0
=============================================================================
