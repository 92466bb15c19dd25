-------------------------------- MODULE Base64 --------------------------------
(***************************************************************************)
(* fbase64.c, with which SocketRocket writes and checks its handshake:     *)
(* f_b64_ntop encodes, f_b64_pton decodes.  One action is one turn of a    *)
(* loop or what follows it.  A behaviour begins with bytes, which are      *)
(* encoded, measured and decoded, or with a text, which is measured,       *)
(* decoded and encoded again.                                              *)
(*                                                                         *)
(* A character is its index in the alphabet, or one of Pad, Space, Other.  *)
(***************************************************************************)
EXTENDS Integers, Sequences, SequencesExt

CONSTANTS
  Bytes,          \* the bytes inputs are made of
  MaxBytes,       \* longest such input, bound
  Lengths,        \* lengths of further inputs, of one byte repeated
  Digits,         \* the digits texts are made of
  MaxText,        \* longest text, bound
  Sizes           \* sizes of the encoder's buffer

Base64Assumption ==
  /\ Bytes \subseteq 0..255 /\ Digits \subseteq 0..63
  /\ MaxBytes \in Nat /\ MaxText \in Nat /\ Lengths \subseteq Nat /\ Sizes \subseteq Nat

Pad == 64
Space == 65
Other == 66
Error == <<-1>>       \* no text, no bytes
NoLength == -1

VARIABLES
  phase,          \* "encode", "measure", "decode", "done"
  begin,          \* what the behaviour began with: bytes or text, and the size
  left,           \* *src: what is still to be read
  state,          \* of f_b64_pton
  target,         \* what was written
  targsize, tarindex,
  text, bytes,    \* results so far, Error when there was none
  length          \* what measuring said

vars == <<phase, begin, left, state, target, targsize, tarindex, text, bytes, length>>

\* base64EncodedStringFromData: the size of the buffer it makes for n bytes.
BufferSize(n) == (n * 3 + 2) \div 2

-----------------------------------------------------------------------------
(* f_b64_ntop                                                              *)

\* The digits of three bytes.
Output(a, b, c) ==
  <<a \div 4, (a % 4) * 16 + b \div 16, (b % 16) * 4 + c \div 64, c % 64>>

\* What is left of the encoder.
Encoded(result) ==
  /\ text' = result
  /\ phase' = IF begin.what = "bytes" /\ result # Error THEN "measure" ELSE "done"
  /\ left' = IF result = Error THEN <<>> ELSE result
  /\ state' = 0 /\ tarindex' = 0 /\ target' = <<>> /\ targsize' = 0
  /\ UNCHANGED <<begin, bytes, length>>

Appended(s, digits) == s \o digits

EncodeGroup ==
  /\ phase = "encode" /\ Len(left) > 2
  /\ IF Len(target) + 4 > targsize THEN Encoded(Error)
     ELSE /\ target' = Appended(target, Output(left[1], left[2], left[3]))
          /\ left' = SubSeq(left, 4, Len(left))
          /\ UNCHANGED <<phase, begin, state, targsize, tarindex, text, bytes, length>>

Terminated(s, size) == IF Len(s) >= size THEN Error ELSE s

\* The last one or two bytes.
Padded(rest) ==
  LET out == Output(rest[1], IF Len(rest) = 2 THEN rest[2] ELSE 0, 0)
  IN  <<out[1], out[2], IF Len(rest) = 1 THEN Pad ELSE out[3], Pad>>

EncodeRest ==
  /\ phase = "encode" /\ Len(left) =< 2
  /\ IF left = <<>> THEN Encoded(Terminated(target, targsize))
     ELSE IF Len(target) + 4 > targsize THEN Encoded(Error)
     ELSE Encoded(Terminated(target \o Padded(left), targsize))

-----------------------------------------------------------------------------
(* f_b64_pton; with a NULL target it only counts                           *)

Measuring == phase = "measure"

\* How the decoder ends.
Decoded(result) ==
  /\ state' = 0 /\ tarindex' = 0
  /\ IF Measuring
     THEN /\ length' = result
          /\ phase' = IF result = NoLength THEN "done" ELSE "decode"
          /\ left' = text /\ target' = [i \in 1..(result + 1) |-> 255] /\ targsize' = result + 1
          /\ UNCHANGED <<begin, text, bytes>>
     ELSE /\ bytes' = IF result = NoLength THEN Error ELSE SubSeq(target, 1, result)
          /\ phase' = IF begin.what = "text" /\ result # NoLength THEN "encode" ELSE "done"
          /\ left' = IF result = NoLength THEN <<>> ELSE SubSeq(target, 1, result)
          /\ target' = <<>> /\ targsize' = begin.size
          /\ UNCHANGED <<begin, text, length>>

\* The digit d goes to the byte at tarindex and the high bits of the next one.
\* A byte that is first written in part keeps no bits of what was there.
Stored(d) ==
  CASE state = 0 -> [target EXCEPT ![tarindex + 1] = (d * 4) % 256]
    [] state = 1 -> [target EXCEPT ![tarindex + 1] = @ + d \div 16, ![tarindex + 2] = (d % 16) * 16]
    [] state = 2 -> [target EXCEPT ![tarindex + 1] = @ + d \div 4, ![tarindex + 2] = (d % 4) * 64]
    [] state = 3 -> [target EXCEPT ![tarindex + 1] = @ + d]

HasRoom == IF state \in {1, 2} THEN tarindex + 1 < targsize ELSE tarindex < targsize

Advanced == IF state = 0 THEN tarindex ELSE tarindex + 1

DecodeSpace ==
  /\ phase \in {"measure", "decode"} /\ left # <<>> /\ Head(left) = Space
  /\ left' = Tail(left)
  /\ UNCHANGED <<phase, begin, state, target, targsize, tarindex, text, bytes, length>>

DecodeDigit ==
  /\ phase \in {"measure", "decode"} /\ left # <<>> /\ Head(left) \in 0..63
  /\ IF ~Measuring /\ ~HasRoom THEN Decoded(NoLength)
     ELSE /\ target' = IF Measuring THEN target ELSE Stored(Head(left))
          /\ tarindex' = Advanced
          /\ state' = (state + 1) % 4
          /\ left' = Tail(left)
          /\ UNCHANGED <<phase, begin, targsize, text, bytes, length>>

DecodeOther ==
  /\ phase \in {"measure", "decode"} /\ left # <<>> /\ Head(left) = Other
  /\ Decoded(NoLength)

Spaces(s) == \A i \in DOMAIN s : s[i] = Space

\* What follows the first "=" when two bytes of the last three were there.
SingleEnds(rest) == Spaces(rest)

\* When one was, there has to be another "=".
DoubleEnds(rest) ==
  \E i \in DOMAIN rest :
    rest[i] = Pad /\ Spaces(SubSeq(rest, 1, i - 1)) /\ SingleEnds(SubSeq(rest, i + 1, Len(rest)))

ExtraBits == ~Measuring /\ target[tarindex + 1] # 0

\* The first "=".
DecodePad ==
  /\ phase \in {"measure", "decode"} /\ left # <<>> /\ Head(left) = Pad
  /\ LET ok == \/ state = 2 /\ DoubleEnds(Tail(left)) /\ ~ExtraBits
               \/ state = 3 /\ SingleEnds(Tail(left)) /\ ~ExtraBits
     IN  Decoded(IF ok THEN tarindex ELSE NoLength)

DecodeEnd ==
  /\ phase \in {"measure", "decode"} /\ left = <<>>
  /\ Decoded(IF state = 0 THEN tarindex ELSE NoLength)

-----------------------------------------------------------------------------

Texts == BoundedSeq(Digits \cup {Pad, Space, Other}, MaxText)
Inputs == BoundedSeq(Bytes, MaxBytes) \cup {[i \in 1..n |-> b] : n \in Lengths, b \in Bytes}

Init ==
  /\ \/ \E b \in Inputs : \E size \in Sizes \cup {BufferSize(Len(b))} :
          /\ begin = [what |-> "bytes", input |-> b, size |-> size]
          /\ phase = "encode" /\ left = b /\ targsize = size /\ text = <<>>
     \/ \E t \in Texts :
          /\ begin = [what |-> "text", input |-> t, size |-> 2 * MaxText + 1]
          /\ phase = "measure" /\ left = t /\ targsize = 0 /\ text = t
  /\ state = 0 /\ target = <<>> /\ tarindex = 0 /\ bytes = <<>> /\ length = 0

Next ==
  \/ EncodeGroup \/ EncodeRest
  \/ DecodeSpace \/ DecodeDigit \/ DecodeOther \/ DecodePad \/ DecodeEnd

Spec == Init /\ [][Next]_vars

-----------------------------------------------------------------------------
(* Properties                                                              *)

\* Bytes that were encoded are measured and decoded to what they were.
RoundTrip ==
  phase = "done" /\ begin.what = "bytes" /\ text # Error =>
    length = Len(begin.input) /\ bytes = begin.input

\* Encoding fails exactly when the buffer has no room for the text and a zero;
\* the buffers that SocketRocket makes for its key and for a SHA-1 have it.
FitsExactly ==
  phase = "done" /\ begin.what = "bytes" =>
    /\ (text = Error) = (begin.size < 4 * ((Len(begin.input) + 2) \div 3) + 1)
    /\ Len(begin.input) \in {16, 20} /\ begin.size = BufferSize(Len(begin.input)) => text # Error

\* The code's "subliminal channel": a text that decodes is, but for spaces,
\* what its bytes are encoded to.
NoSecondText ==
  phase = "done" /\ begin.what = "text" /\ length # NoLength /\ bytes # Error =>
    text = SelectSeq(begin.input, LAMBDA c : c # Space)

\* What measuring returns is what decoding returns, in a buffer with one byte
\* more; decoding fails after measuring only for bits past the last byte.
MeasuredIsStored ==
  phase = "done" /\ length # NoLength /\ text # Error =>
    \/ bytes # Error /\ Len(bytes) = length
    \/ begin.what = "text" /\ length % 3 # 0 /\ Pad \in {text[i] : i \in DOMAIN text}
=============================================================================
