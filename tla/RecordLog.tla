------------------------------ MODULE RecordLog ------------------------------
(***************************************************************************)
(* leveldb's log files (the write-ahead log and the manifest):             *)
(* log::Writer fragments records into blocks, log::Reader puts them        *)
(* together again from whatever a crash or a bad sector left.              *)
(*                                                                         *)
(* A file is a sequence of cells.  A header is three cells, one for each   *)
(* of its fields (checksum, length, type), so that a file may end inside a *)
(* header; a payload byte is a cell that names its record.  A checksum is  *)
(* the thing summed.  A damaged cell, or a cell that is not the field it   *)
(* is read as, parses as anything (Garble).                                *)
(***************************************************************************)
EXTENDS Integers, Sequences, FiniteSets, SequencesExt

CONSTANTS BlockSize,    \* kBlockSize
          Lengths,      \* the sizes of the records the user adds
          Offsets,      \* the values of initial_offset
          Checksum,     \* checksum_
          MaxRecords, MaxCrashes, MaxDamage,   \* bounds
          MayReuse,     \* Options::reuse_logs
          AppendMayFail, ReadMayFail

HeaderSize == 3         \* kHeaderSize, one cell for each field

LogAssumption ==
  /\ BlockSize \in Nat /\ BlockSize > HeaderSize
  /\ Lengths \subseteq Nat /\ Offsets \subseteq Nat
  /\ MaxRecords \in Nat /\ MaxCrashes \in Nat /\ MaxDamage \in Nat
  /\ {Checksum, MayReuse, AppendMayFail, ReadMayFail} \subseteq BOOLEAN

VARIABLES
  file,         \* the cells of the file
  blockOffset,  \* block_offset_ of the writer
  written,      \* ghost: per AddRecord, the first and last cell and its fate
  damaged,      \* ghost: the positions of cells that were damaged
  crashes, mode,
  rd,           \* the reader
  out,          \* the records ReadRecord returned
  drops         \* the reasons given to the Reporter

vars == <<file, blockOffset, written, damaged, crashes, mode, rd, out, drops>>

Zero == <<"zero">>
Rot  == <<"rot">>
FragmentTypes == {"full", "first", "middle", "last"}

\* The payload of the record r of n cells.
Payload(r, n) == [i \in 1..n |-> <<"data", r, i>>]

-----------------------------------------------------------------------------
(* log::Writer                                                             *)

\* The header is the checksum of type and payload, the length and the type.
EmitPhysicalRecord(type, data) ==
  << <<"crc", <<"type", type>>, data>>, <<"len", Len(data)>>, <<"type", type>> >>
    \o data

\* A block with no room for a header is filled with zeros, and the next begun.
SwitchBlock(off) ==
  LET leftover == BlockSize - off
  IN  IF leftover < HeaderSize
      THEN [pad |-> [i \in 1..leftover |-> Zero], off |-> 0]
      ELSE [pad |-> <<>>, off |-> off]

FragmentType(begin, end) ==
  CASE begin /\ end   -> "full"
    [] begin /\ ~end  -> "first"
    [] ~begin /\ end  -> "last"
    [] ~begin /\ ~end -> "middle"

RECURSIVE Fragments(_, _, _)
\* The loop of AddRecord from the offset off on: for each fragment the cells it
\* appends and the value of block_offset_ after it.
Fragments(off, data, begin) ==
  LET sw    == SwitchBlock(off)
      avail == BlockSize - sw.off - HeaderSize
      n     == IF Len(data) < avail THEN Len(data) ELSE avail
      end   == n = Len(data)
      this  == [cells |-> sw.pad \o EmitPhysicalRecord(FragmentType(begin, end),
                                                       SubSeq(data, 1, n)),
                off   |-> sw.off + HeaderSize + n]
  IN  IF end THEN <<this>>
      ELSE <<this>> \o Fragments(this.off, SubSeq(data, n + 1, Len(data)), FALSE)

\* A number no fragment of a record has.
NoFailure == 1000

\* AddRecord.  All fragments are appended, unless an Append or Flush of the
\* k-th fails: then any part of that fragment is in the file, AddRecord returns
\* the error, and block_offset_ has still moved past the fragment.
Add(n, k, part) ==
  LET frs  == Fragments(blockOffset, Payload(Len(written) + 1, n), TRUE)
      All(i) == FlattenSeq([j \in 1..i |-> frs[j].cells])
      ok   == k > Len(frs)
      last == IF ok THEN Len(frs) ELSE k
      skip == Len(SwitchBlock(blockOffset).pad)
      kept == IF ok THEN All(last) ELSE All(k - 1) \o SubSeq(frs[k].cells, 1, part)
  IN  /\ mode = "writing" /\ Len(written) < MaxRecords
      /\ ok => k = NoFailure
      /\ ~ok => part < Len(frs[k].cells)
      /\ file' = file \o kept
      /\ blockOffset' = frs[last].off
      /\ written' = Append(written,
           [len |-> n, lo |-> Len(file) + skip + 1, hi |-> Len(file) + Len(All(Len(frs))),
            torn |-> ~ok])
      /\ UNCHANGED <<damaged, crashes, mode, rd, out, drops>>

AddRecord(n) == Add(n, NoFailure, 0)

AddRecordFails(n) ==
  /\ AppendMayFail
  /\ \E k \in 1..(n + 1), part \in 0..(BlockSize + HeaderSize) : Add(n, k, part)

\* The machine crashes: the file keeps a prefix of what was appended.
Crash ==
  /\ mode = "writing" /\ crashes < MaxCrashes
  /\ \E n \in 0..Len(file) :
       /\ file' = SubSeq(file, 1, n)
       /\ written' = [r \in DOMAIN written |->
                       [written[r] EXCEPT !.torn = @ \/ written[r].hi > n]]
  /\ crashes' = crashes + 1
  /\ mode' = "down"
  /\ UNCHANGED <<blockOffset, damaged, rd, out, drops>>

\* Writer(dest, dest_length), for a log that is appended to after a restart.
Writer(length) == length % BlockSize

Reuse ==
  /\ mode = "down" /\ MayReuse
  /\ blockOffset' = Writer(Len(file))
  /\ mode' = "writing"
  /\ UNCHANGED <<file, written, damaged, crashes, rd, out, drops>>

\* A cell of the file goes bad.
Damage ==
  /\ mode # "reading" /\ mode # "done"
  /\ Cardinality(damaged) < MaxDamage
  /\ \E i \in DOMAIN file : /\ file[i] # Rot
                            /\ file' = [file EXCEPT ![i] = Rot]
                            /\ damaged' = damaged \cup {i}
  /\ UNCHANGED <<blockOffset, written, crashes, mode, rd, out, drops>>

-----------------------------------------------------------------------------
(* log::Reader                                                             *)

\* Reader(file, reporter, checksum, initial_offset).  pos is the position of
\* the sequential file, call says that the next thing is a call of ReadRecord.
NewReader(init) ==
  [pos |-> 0, buffer |-> <<>>, eof |-> FALSE, last |-> 0, endOff |-> 0,
   initial |-> init, resync |-> init > 0, call |-> TRUE,
   inFrag |-> FALSE, scratch |-> <<>>, prospective |-> 0]

NoReader == NewReader(0)

\* SkipToInitialBlock; the file may be positioned past its end.
SkipToInitialBlock(r) ==
  LET inBlock == r.initial % BlockSize
      start   == IF inBlock > BlockSize - (HeaderSize - 1)
                 THEN r.initial - inBlock + BlockSize
                 ELSE r.initial - inBlock
  IN  [r EXCEPT !.endOff = start, !.pos = @ + start]

\* The Reporter is told of a drop of n cells, unless they all lie before the
\* initial offset (in the code's unsigned arithmetic a negative number is a
\* large one).
Reported(r, n) ==
  LET d == r.endOff - Len(r.buffer) - n IN d < 0 \/ d >= r.initial

\* What a cell parses as when it is not, or no longer, the field that was
\* written there: a short or an overlong length, a type known or not.
Garble == [len : {0, BlockSize}, type : {"zero", "full", "unknown"}]

LenField(cell, g) ==
  CASE cell[1] = "len" -> cell[2] [] cell = Zero -> 0 [] OTHER -> g.len
TypeField(cell, g) ==
  CASE cell[1] = "type" -> cell[2] [] cell = Zero -> "zero" [] OTHER -> g.type

\* The next block, which is a short one at the end of the file.
Refill(r) ==
  LET b == SubSeq(file, r.pos + 1, IF r.pos + BlockSize < Len(file)
                                   THEN r.pos + BlockSize ELSE Len(file))
  IN  [r EXCEPT !.buffer = b, !.pos = @ + Len(b), !.endOff = @ + Len(b),
                !.eof = Len(b) < BlockSize]

\* What ReadPhysicalRecord returns: the reader after it, the type, the fragment
\* and the set of drops reported.
Physical(r, type, frag, why) ==
  [rd |-> r, type |-> type, frag |-> frag, why |-> why]

Drop(r, n, why) == IF Reported(r, n) THEN {why} ELSE {}

\* After a bad checksum the rest of the block is dropped: the length itself may
\* be wrong.
BadChecksum(r, n) ==
  LET e == [r EXCEPT !.buffer = <<>>]
  IN  Physical(e, "bad", <<>>, Drop(e, Len(r.buffer), "checksum mismatch"))

\* A fragment longer than the block, or than what is left of the file.
Overlong(r) ==
  LET e == [r EXCEPT !.buffer = <<>>]
  IN  IF r.eof THEN Physical(e, "eof", <<>>, {})
      ELSE Physical(e, "bad", <<>>, Drop(e, Len(r.buffer), "bad record length"))

\* The position of the fragment of length n that was just taken from the buffer.
PhysicalOffset(r, n) == r.endOff - Len(r.buffer) - HeaderSize - n

BeforeInitial(r, n) == PhysicalOffset(r, n) < r.initial

\* The part of ReadPhysicalRecord after the header is in the buffer.
Parse(r, g) ==
  LET n    == LenField(r.buffer[2], g)
      type == TypeField(r.buffer[3], g)
      data == SubSeq(r.buffer, HeaderSize + 1, HeaderSize + n)
      next == [r EXCEPT !.buffer = SubSeq(@, HeaderSize + n + 1, Len(@))]
  IN  CASE HeaderSize + n > Len(r.buffer) -> Overlong(r)
        [] HeaderSize + n =< Len(r.buffer) /\ type = "zero" /\ n = 0 ->
             Physical([r EXCEPT !.buffer = <<>>], "bad", <<>>, {})
        [] HeaderSize + n =< Len(r.buffer) /\ ~(type = "zero" /\ n = 0) ->
             IF Checksum /\ r.buffer[1] # <<"crc", r.buffer[3], data>>
             THEN BadChecksum(r, n)
             ELSE IF BeforeInitial(next, n)
                  THEN Physical(next, "bad", <<>>, {})
                  ELSE Physical(next, type, data, {})

\* ReadPhysicalRecord; fails says that the read of the next block fails.
ReadPhysicalRecord(r, g, fails) ==
  LET short == Len(r.buffer) < HeaderSize
      full  == IF short /\ ~r.eof THEN Refill(r) ELSE r
      none  == [r EXCEPT !.buffer = <<>>, !.eof = TRUE]
  IN  CASE short /\ ~r.eof /\ fails ->
             Physical(none, "eof", <<>>, Drop(none, BlockSize, "read error"))
        [] (short /\ r.eof) \/ (~fails /\ Len(full.buffer) < HeaderSize) ->
             Physical([full EXCEPT !.buffer = <<>>], "eof", <<>>, {})
        [] OTHER -> Parse(full, g)

\* The record so far is given up.
Abandon(r) == [r EXCEPT !.inFrag = FALSE, !.scratch = <<>>]

\* Mistake: a fragment that starts no record is taken for the end of one.
Collect_Any(r) == TRUE

\* A middle or last fragment belongs to a record whose start was read.
Collect(r) == r.inFrag

\* A drop of an unfinished record; an empty first fragment is forgiven.
Unfinished(r, why) ==
  IF r.inFrag /\ r.scratch # <<>> THEN Drop(r, Len(r.scratch), why) ELSE {}

\* One turn of the loop of ReadRecord, after the physical record p was read:
\* the reader, the record returned (a sequence of one or none), whether the
\* call returns, and the drops.
Scanned(p) ==
  LET r    == p.rd
      offs == PhysicalOffset(r, Len(p.frag))
      Go(s, why)  == [rd |-> s, ret |-> <<>>, end |-> FALSE, why |-> why]
      Return(s, rec, why) ==
        [rd |-> [s EXCEPT !.call = TRUE], ret |-> <<rec>>, end |-> FALSE, why |-> why]
  IN  IF r.resync /\ p.type \in {"middle", "last"}
      THEN Go([r EXCEPT !.resync = p.type = "middle"], {})
      ELSE LET s == [r EXCEPT !.resync = FALSE] IN
           CASE p.type = "full" ->
                  Return([s EXCEPT !.last = offs], p.frag,
                         Unfinished(s, "partial record without end(1)"))
             [] p.type = "first" ->
                  Go([s EXCEPT !.prospective = offs, !.scratch = p.frag, !.inFrag = TRUE],
                     Unfinished(s, "partial record without end(2)"))
             [] p.type = "middle" /\ Collect(s) ->
                  Go([s EXCEPT !.scratch = @ \o p.frag], {})
             [] p.type = "last" /\ Collect(s) ->
                  Return([s EXCEPT !.last = s.prospective], s.scratch \o p.frag, {})
             [] p.type \in {"middle", "last"} /\ ~Collect(s) ->
                  Go(s, Drop(s, Len(p.frag), "missing start"))
             [] p.type = "eof" ->
                  [rd |-> Abandon(s), ret |-> <<>>, end |-> TRUE, why |-> {}]
             [] p.type = "bad" ->
                  Go(Abandon(s), IF s.inFrag THEN Drop(s, Len(s.scratch), "error in middle")
                                 ELSE {})
             [] OTHER ->
                  Go(Abandon(s), Drop(s, Len(p.frag) + (IF s.inFrag THEN Len(s.scratch) ELSE 0),
                                      "unknown record type"))

\* A reader is opened on the file as it is.
OpenReader ==
  /\ mode \in {"writing", "down"}
  /\ \E init \in Offsets : rd' = NewReader(init)
  /\ mode' = "reading"
  /\ UNCHANGED <<file, blockOffset, written, damaged, crashes, out, drops>>

\* The start of ReadRecord.
ReadRecord ==
  /\ mode = "reading" /\ rd.call
  /\ rd' = [(IF rd.last < rd.initial THEN SkipToInitialBlock(rd) ELSE rd)
             EXCEPT !.call = FALSE, !.scratch = <<>>, !.inFrag = FALSE, !.prospective = 0]
  /\ UNCHANGED <<file, blockOffset, written, damaged, crashes, mode, out, drops>>

\* The seek to the initial block fails: the drop is reported, the call returns
\* false.
SkipFails ==
  /\ mode = "reading" /\ rd.call /\ ReadMayFail
  /\ rd.last < rd.initial /\ SkipToInitialBlock(rd).endOff > 0
  /\ LET s == SkipToInitialBlock(rd) IN
       /\ rd' = [s EXCEPT !.pos = rd.pos]
       /\ drops' = drops \cup Drop(s, s.endOff, "skip error")
  /\ mode' = "done"
  /\ UNCHANGED <<file, blockOffset, written, damaged, crashes, out>>

\* One turn of its loop.
Scan ==
  /\ mode = "reading" /\ ~rd.call
  /\ \E g \in Garble, fails \in (IF ReadMayFail THEN BOOLEAN ELSE {FALSE}) :
       LET t == Scanned(ReadPhysicalRecord(rd, g, fails)) IN
       /\ rd' = t.rd
       /\ out' = out \o t.ret
       /\ drops' = drops \cup t.why
       /\ mode' = IF t.end THEN "done" ELSE "reading"
  /\ UNCHANGED <<file, blockOffset, written, damaged, crashes>>

Init ==
  /\ file = <<>> /\ blockOffset = 0 /\ written = <<>>
  /\ damaged = {} /\ crashes = 0 /\ mode = "writing"
  /\ rd = NoReader /\ out = <<>> /\ drops = {}

Next ==
  \/ \E n \in Lengths : AddRecord(n) \/ AddRecordFails(n)
  \/ Crash \/ Reuse \/ Damage
  \/ OpenReader \/ ReadRecord \/ SkipFails \/ Scan

Spec == Init /\ [][Next]_vars

-----------------------------------------------------------------------------
(* Properties                                                              *)

\* Block number of the position i of the file.
Block(i) == (i - 1) \div BlockSize

\* The blocks in which something was damaged, or in which the file ended at a
\* crash in the middle of a record.
Hurt ==
  {Block(i) : i \in damaged} \cup
  {b \in 0..Block(Len(file) + 1) : \E r \in DOMAIN written :
      written[r].torn /\ b \in Block(written[r].lo)..Block(written[r].hi)}

Untorn(r) == ~written[r].torn

Clear(r) == Block(written[r].lo)..Block(written[r].hi) \cap Hurt = {}

\* A way to pair the records returned with the records written.
Pairings ==
  {f \in [1..Len(out) -> 1..Len(written)] :
     /\ \A i, j \in 1..Len(out) : i < j => f[i] < f[j]
     /\ \A i \in 1..Len(out) : out[i] = Payload(f[i], written[f[i]].len)}

\* log::Reader returns only records that log::Writer was given, whole and in
\* their order, whatever crashed, was damaged or failed: fragments of two
\* records are never put together.
ReadsOnlyWritten == Pairings # {}

\* When the reader has come to the end of a log, the records it has not
\* returned are those that share a block with something damaged or torn: one
\* bad cell never makes ReadRecord lose what is in other blocks.
LossIsConfined ==
  mode = "done" /\ rd.initial = 0 =>
    \E f \in Pairings : \A r \in DOMAIN written :
      Untorn(r) /\ Clear(r) => \E i \in DOMAIN out : f[i] = r

\* A log that merely ends early, because the machine died while it was
\* written, is read up to there and reported as sound.
TornTailIsSilent ==
  mode = "done" /\ damaged = {} =>
    /\ drops = {}
    /\ \E f \in Pairings : \A r \in DOMAIN written :
         Untorn(r) => \E i \in DOMAIN out : f[i] = r

\* "The Reader will start reading at the first record located at physical
\* position >= initial_offset within the file" (log_reader.h).
StartsAtInitialOffset ==
  mode = "done" =>
    \E f \in Pairings : \A r \in DOMAIN written :
      (\E i \in DOMAIN out : f[i] = r) <=> Untorn(r) /\ written[r].lo - 1 >= rd.initial

\* LastRecordOffset() is the position of the first header of the record that
\* ReadRecord returned last.
LastRecordOffset ==
  out # <<>> => \E f \in Pairings : rd.last = written[f[Len(out)]].lo - 1

\* What AddRecord reported as written is read again: WriteOptions::sync
\* (options.h) promises it of every write while the machine does not crash, and
\* after a crash of every later write.
AddedIsRead ==
  mode = "done" =>
    \E f \in Pairings : \A r \in DOMAIN written :
      Untorn(r) => \E i \in DOMAIN out : f[i] = r

=============================================================================
