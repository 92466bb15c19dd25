---------------------------- MODULE MCUtilities -----------------------------
(***************************************************************************)
(* What the rest stands on, for TLC.  Of leveldb the environment, the C    *)
(* interface, checksums, options, and the small parts of util/; nanopb and *)
(* fbase64: messages that are encoded, sent and decoded, the numbers in    *)
(* them, the descriptions of their fields, and bytes as text.  A behaviour *)
(* is one of one part: "part" says of which.  The machines of the          *)
(* environment have their own variables; other parts have theirs in the    *)
(* slots v1, v2 and so on, and the environment is at rest.                 *)
(***************************************************************************)
EXTENDS PosixEnv

CONSTANTS
  nobody, null, p1, p2, p3, t1, t2, u1, u2, u3, u4, d1, d2, r1, s1, s2, s3

VARIABLES
  part,   \* the part that runs; it never changes
  v1, v2, v3, v4, v5, v6, v7, v8, v9, v10, v11

slots == <<v1, v2, v3, v4, v5, v6, v7, v8, v9, v10, v11>>
envVars == <<lockVars, limitVars, threadVars, fileVars, currentVars>>
vars == <<part, envVars, slots>>

-----------------------------------------------------------------------------
(* Types and messages for nanopb                                           *)

\* For the constant operators of Nanopb that types and messages are made with.
Described == INSTANCE Nanopb WITH
  Types <- <<>>, Older <- <<>>, Messages <- <<>>, Deliveries <- {}, MaxSizes <- {}, MaxAllocs <- 0,
  type <- v1, sent <- v2, stage <- v3, pos <- v4, ostream <- v5, rtype <- v6, how <- v7,
  failAt <- v8, st <- v9, msg <- v10, aux <- v11

F(tag, at, ht, lt, size, n, sub) == Described!Field(tag, at, ht, lt, size, n, sub)

\* Static: numbers, text, arrays, a submessage with a required field, bytes of a
\* fixed length, an array of fixed length.
Inner == << F(1, "static", "required", "varint", 4, 0, <<>>),
            F(2, "static", "singular", "string", 2, 0, <<>>) >>
Plain == << F(1, "static", "required", "varint", 4, 0, <<>>),
            F(2, "static", "optional", "bytes", 2, 0, <<>>),
            F(3, "static", "repeated", "varint", 4, 2, <<>>),
            F(4, "static", "optional", "sub", 0, 0, Inner) >>
PlainOld == << F(1, "static", "required", "varint", 4, 0, <<>>),
               F(3, "static", "repeated", "varint", 4, 2, <<>>) >>
Fixed == << F(1, "static", "singular", "fixed32", 4, 0, <<>>),
            F(2, "static", "fixcount", "fixed64", 8, 2, <<>>),
            F(3, "static", "singular", "flb", 2, 0, <<>>),
            F(4, "static", "repeated", "sub", 0, 2, <<F(1, "static", "singular", "varint", 4, 0, <<>>)>>) >>
FixedOld == << F(3, "static", "singular", "flb", 2, 0, <<>>) >>

\* Pointers: text, numbers, arrays of both, a submessage with a pointer.
Holder == << F(1, "pointer", "optional", "string", 0, 0, <<>>) >>
Heap == << F(1, "pointer", "optional", "string", 0, 0, <<>>),
           F(2, "pointer", "repeated", "string", 0, 0, <<>>),
           F(3, "pointer", "repeated", "varint", 4, 0, <<>>),
           F(4, "pointer", "optional", "sub", 0, 0, Holder) >>
HeapOld == << F(4, "pointer", "optional", "sub", 0, 0, Holder) >>

\* Unions, of pointers and of static members.
Union == << F(1, "pointer", "oneof", "string", 0, 0, <<>>),
            F(2, "pointer", "oneof", "sub", 0, 0, Holder),
            F(3, "static", "required", "varint", 4, 0, <<>>) >>
Choice == << F(1, "static", "oneof", "varint", 4, 0, <<>>),
             F(2, "static", "oneof", "sub", 0, 0, Inner) >>

\* An extension and a callback.
Open == << F(1, "callback", "repeated", "bytes", 0, 0, <<>>),
           F(2, "callback", "repeated", "fixed64", 0, 0, <<>>),
           F(3, "callback", "repeated", "varint", 0, 0, <<>>),
           F(8, "static", "optional", "ext", 0, 0,
             <<F(9, "static", "optional", "varint", 4, 0, <<>>),
               F(10, "pointer", "optional", "string", 0, 0, <<>>)>>) >>

TypesDef ==
  [plain |-> Plain, plainOld |-> PlainOld, fixed |-> Fixed, fixedOld |-> FixedOld, heap |-> Heap,
   heapOld |-> HeapOld, union |-> Union, choice |-> Choice, open |-> Open]

OlderDef ==
  [t \in DOMAIN TypesDef |-> CASE t = "plain" -> "plainOld"
                               [] t = "fixed" -> "fixedOld"
                               [] t = "heap"  -> "heapOld"
                               [] OTHER -> t]

-----------------------------------------------------------------------------

Texts == {<<>>, <<7, 8>>}
Set(v) == Described!Cell(TRUE, 0, <<Described!Item(v)>>)
Array(vs) ==
  [Described!Cell(FALSE, Len(vs), [i \in DOMAIN vs |-> Described!Item(vs[i])])
     EXCEPT !.blk = IF vs = <<>> THEN 0 ELSE 1]
Ptr(v) == [Described!Cell(FALSE, 0, <<Described!Item(v)>>) EXCEPT !.blk = 1]
Null == Described!Cell(FALSE, 0, <<>>)
Called(vs) == Described!Cell(FALSE, 0, [i \in DOMAIN vs |-> Described!Item(vs[i])])
Msg(cells, which) == [cells |-> cells, which |-> which]

Unset(f) == Described!DefaultCell(f)
Ptrs(vs) == {Null} \cup {Ptr(v) : v \in vs}

PlainMsgs ==
  {Msg(<<Set(n), b, Array(a), i>>, 0) :
     n \in {0, 200}, b \in {Unset(Plain[2])} \cup {Set(t) : t \in Texts},
     a \in {<<>>, <<5>>, <<5, 130>>},
     i \in {Unset(Plain[4])} \cup {Set(Msg(<<Set(3), Set(t)>>, 0)) : t \in Texts}}
FixedMsgs ==
  {Msg(<<Set(n), Array(<<1, 2>>), Set(<<4, 5>>), Array(a)>>, 0) :
     n \in {0, 300}, a \in {<<>>, <<Msg(<<Set(0)>>, 0)>>, <<Msg(<<Set(0)>>, 0), Msg(<<Set(6)>>, 0)>>}}
HeapMsgs ==
  {Msg(<<s, Array(t), Array(a), h>>, 0) :
     s \in Ptrs({<<7>>}), t \in {<<>>, <<<<>>>>, <<<<7>>, <<8>>>>}, a \in {<<>>, <<5, 6, 130>>},
     h \in Ptrs({Msg(<<Null>>, 0), Msg(<<Ptr(<<9>>)>>, 0)})}
UnionMsgs ==
  {Msg(<<Null, Null, Set(2)>>, 0)}
  \cup {Msg(<<Ptr(t), Null, Set(2)>>, 1) : t \in Texts}
  \cup {Msg(<<Null, Ptr(Msg(<<h>>, 0)), Set(2)>>, 2) : h \in Ptrs({<<9>>})}
ChoiceMsgs ==
  {Msg(<<Unset(Choice[1]), Unset(Choice[2])>>, 0), Msg(<<Set(0), Unset(Choice[2])>>, 1)}
  \cup {Msg(<<Unset(Choice[1]), Set(Msg(<<Set(1), Set(t)>>, 0))>>, 2) : t \in Texts}
OpenMsgs ==
  {Msg(<<Called(b), Called(c), Called(c), Called(<<Msg(<<x, p>>, 0)>>)>>, 0) :
     b \in {<<>>, <<<<7>>>>}, c \in {<<>>, <<4, 5>>},
     x \in {Set(3), Unset(Open[4].sub[1])}, p \in Ptrs({<<6>>})}

AllMessages ==
  [plain |-> PlainMsgs, fixed |-> FixedMsgs, heap |-> HeapMsgs, union |-> UnionMsgs,
   choice |-> ChoiceMsgs, open |-> OpenMsgs]

\* The messages of some types.
Chosen(names) == [t \in names |-> AllMessages[t]]

-----------------------------------------------------------------------------
(* The parts.  "single", "limits", "thread", "file" and "current" are the  *)
(* machines of the environment as the configuration sizes them: three      *)
(* processes of one thread lock a database, readers open more tables than  *)
(* the limits allow, work is given to the background thread, a file is     *)
(* written, and CURRENT is set.                                            *)

\* Two processes of two threads lock a database.
Threaded == INSTANCE PosixEnv WITH
  Processes <- {p1, p2}, Threads <- {t1, t2}, locked <- v1, listed <- v2, lockPc <- v3

\* Calls that fail, with options and caches.
Calls == INSTANCE CBinding WITH
  Ids <- 1..5, Messages <- {"io", "corruption"},
  Kinds <- {"options", "readoptions", "cache", "comparator"},
  heap <- v1, errptr <- v2, newest <- v3, answer <- v4, owed <- v5

\* The other objects.
Others == INSTANCE CBinding WITH
  Ids <- 1..5, Messages <- {"io"},
  Kinds <- {"options", "batch", "writeoptions", "env", "bloom", "policy"},
  heap <- v1, errptr <- v2, newest <- v3, answer <- v4, owed <- v5

\* By tables, in up to three pieces.
Sums == INSTANCE Checksums WITH
  Sse <- FALSE, MaxLength <- 27, Splits <- {0, 1, 2, 5}, Errors <- {0, 3, 13, 100},
  data <- v1, split <- v2, align <- v3, p <- v4, l <- v5, words <- v6, call <- v7,
  crc <- v8

\* By the instruction of the processor.
Fast == INSTANCE Checksums WITH
  Sse <- TRUE, MaxLength <- 27, Splits <- {0, 1, 2, 5}, Errors <- {0, 3, 13, 100},
  data <- v1, split <- v2, align <- v3, p <- v4, l <- v5, words <- v6, call <- v7,
  crc <- v8

\* Two databases and a repair share options.
Shared == INSTANCE Options WITH
  Handles <- {d1, d2, r1}, Repairers <- {r1}, IntBits <- 8, SizeBits <- 10, MinBuffer <- 2,
  MaxBuffer <- 64, MinFile <- 1, MaxFile <- 64, Buffers <- {5}, Files <- {5},
  MaxMade <- 10, Nil <- null,
  handles <- v1, exists <- v2, made <- v3, names <- v4, lock <- v5

\* Options out of their ranges, within an int.
Clipped == INSTANCE Options WITH
  Handles <- {d1, d2}, Repairers <- {}, IntBits <- 8, SizeBits <- 10, MinBuffer <- 2,
  MaxBuffer <- 64, MinFile <- 1, MaxFile <- 64, Buffers <- {0, 1, 2, 63, 64, 65, 127},
  Files <- {0, 3, 5}, MaxMade <- 4, Nil <- null,
  handles <- v1, exists <- v2, made <- v3, names <- v4, lock <- v5

\* Words and numbers are narrower than in the code, buffers and blocks smaller.
Util == INSTANCE Utilities WITH
  Bits <- 7, Multiplier <- 3, ByteBits <- 2, HashM <- 147, HashR <- 6, Seed <- 188,
  MaxBytes <- 5, Histograms <- {u1, u2}, NumBuckets <- 12, Huge <- 100,
  Values <- {0, 9, 10, 40}, Percents <- {1, 25, 50, 75, 100}, MaxCount <- 3,
  Threads <- {t1, t2}, Small <- 4, Large <- 6, Header <- 2, LogMessages <- 0..5,
  MaxEntries <- 3, Slots <- {s1, s2, s3}, Addresses <- 1..4, Codes <- {1, 5},
  StatusMessages <- {0, 2}, BlockSize <- 16, Align <- 4, PointerSize <- 4,
  Sizes <- {1, 3, 4, 9}, MaxRegions <- 5, Base <- 3, MaxUint <- 15, Pad <- 2,
  MaxDigits <- 5, MaxItems <- 3, MaxPuts <- 2,
  seed_ <- v1, first <- v2, draws <- v3, data <- v1, hist <- v1, added <- v2,
  buffered <- v1, file <- v2, thread <- v3, logged <- v4, count <- v5, slot <- v1,
  heap <- v2, meant <- v3, blocks <- v1, cur <- v2, ptr <- v3, remaining <- v4,
  usage <- v5, regions <- v6, prefix <- v1, digits <- v2, suffix <- v3, parsed <- v4,
  parsedOk <- v5, dumpType <- v1, items <- v2, dumpPos <- v3, dumped <- v4, dumpPc <- v5,
  dumpOk <- v6

\* Every message is encoded into buffers of several sizes, and arrives once or
\* twice, delimited or ended by a zero.
Trip == INSTANCE Nanopb WITH
  Types <- TypesDef, Older <- OlderDef,
  Messages <- Chosen({"plain", "fixed", "heap", "union", "choice", "open"}),
  Deliveries <- {"whole", "twice", "zero", "framed"},
  MaxSizes <- {0, 1, 2, 3, 4, 6, 8, 9, 10, 12, 14, 16, 20, 99}, MaxAllocs <- 0,
  type <- v1, sent <- v2, stage <- v3, pos <- v4, ostream <- v5, rtype <- v6, how <- v7,
  failAt <- v8, st <- v9, msg <- v10, aux <- v11

\* Messages arrive cut off.
Cut == INSTANCE Nanopb WITH
  Types <- TypesDef, Older <- OlderDef,
  Messages <- Chosen({"plain", "heap", "union", "choice"}), Deliveries <- {"cut"},
  MaxSizes <- {99}, MaxAllocs <- 0,
  type <- v1, sent <- v2, stage <- v3, pos <- v4, ostream <- v5, rtype <- v6, how <- v7,
  failAt <- v8, st <- v9, msg <- v10, aux <- v11

\* An allocation fails.
Scarce == INSTANCE Nanopb WITH
  Types <- TypesDef, Older <- OlderDef, Messages <- Chosen({"union", "open"}),
  Deliveries <- {"whole", "twice"}, MaxSizes <- {99}, MaxAllocs <- 5,
  type <- v1, sent <- v2, stage <- v3, pos <- v4, ostream <- v5, rtype <- v6, how <- v7,
  failAt <- v8, st <- v9, msg <- v10, aux <- v11

\* Numbers of up to 9 bits, in groups of 2 instead of 7.
Number == INSTANCE Varint WITH
  Group <- 2, Narrow <- 5, Wide <- 9, Widths <- {3, 4, 5, 9}, RawMax <- 5, Wrap <- 32,
  MaxBytes <- 6,
  field <- v1, out <- v2, seen <- v3, total <- v4, wide <- v5, narrow <- v6, skip <- v7,
  raw <- v8

\* Messages of up to three members.
Layout == INSTANCE FieldLayout WITH
  Sizes <- {1, 8, 12}, MaxMembers <- 3, SizeMax <- 1000,
  members <- v1, layout <- v2, fields <- v3, iter <- v4, sought <- v5

\* Bytes of every kind of boundary, texts with padding and blanks.
Text == INSTANCE Base64 WITH
  Bytes <- {0, 1, 66, 255}, MaxBytes <- 5, Lengths <- {10, 16, 20}, Digits <- {0, 4, 33},
  MaxText <- 6, Sizes <- {0, 1, 4, 5, 8, 9},
  phase <- v1, begin <- v2, left <- v3, state <- v4, target <- v5, targsize <- v6,
  tarindex <- v7, text <- v8, bytes <- v9, length <- v10

-----------------------------------------------------------------------------

\* What a part with so many variables leaves alone.
Rest1 == <<part, envVars, v2, v3, v4, v5, v6, v7, v8, v9, v10, v11>>
Rest2 == <<part, envVars, v3, v4, v5, v6, v7, v8, v9, v10, v11>>
Rest3 == <<part, envVars, v4, v5, v6, v7, v8, v9, v10, v11>>
Rest5 == <<part, envVars, v6, v7, v8, v9, v10, v11>>
Rest6 == <<part, envVars, v7, v8, v9, v10, v11>>
Rest8 == <<part, envVars, v9, v10, v11>>
Rest10 == <<part, envVars, v11>>
Rest11 == <<part, envVars>>
Off10 == v11 = 0
Off8 == v9 = 0 /\ v10 = 0 /\ Off10
Off6 == v7 = 0 /\ v8 = 0 /\ Off8
Off5 == v6 = 0 /\ Off6
Off3 == v4 = 0 /\ v5 = 0 /\ Off5
Off2 == v3 = 0 /\ Off3
Off1 == v2 = 0 /\ Off2
Off0 == v1 = 0 /\ Off1

EnvInit == LocksInit /\ LimitsInit /\ ThreadInit /\ FileInit /\ CurrentInit

\* Which kind the file will be is chosen when it is made.
Resting == EnvInit /\ kind = "other"

Init ==
  /\ Resting
  /\ \/ part \in {"single", "limits", "thread", "file", "current"} /\ Off0
     \/ part = "threaded" /\ Threaded!LocksInit /\ Off3
     \/ part = "calls" /\ Calls!Init /\ Off5
     \/ part = "others" /\ Others!Init /\ Off5
     \/ part = "sums" /\ Sums!Init /\ Off8
     \/ part = "fast" /\ Fast!Init /\ Off8
     \/ part = "shared" /\ Shared!Init /\ Off5
     \/ part = "clipped" /\ Clipped!Init /\ Off5
     \/ part = "random" /\ Util!RandomInit /\ Off3
     \/ part = "hash" /\ Util!HashInit /\ Off1
     \/ part = "histogram" /\ Util!HistogramInit /\ Off2
     \/ part = "info-log" /\ Util!InfoLogInit /\ Off5
     \/ part = "status" /\ Util!StatusInit /\ Off3
     \/ part = "arena" /\ Util!ArenaInit /\ Off6
     \/ part = "names" /\ Util!NameInit /\ Off5
     \/ part = "dump" /\ Util!DumpInit /\ Off6
     \/ part = "trip" /\ Trip!Init
     \/ part = "cut" /\ Cut!Init
     \/ part = "scarce" /\ Scarce!Init
     \/ part = "number" /\ Number!Init /\ Off8
     \/ part = "layout" /\ Layout!Init /\ Off5
     \/ part = "text" /\ Text!Init /\ Off10

Next ==
  \/ part = "single" /\ LocksNext /\ UNCHANGED <<part, limitVars, threadVars, fileVars, currentVars, slots>>
  \/ part = "limits" /\ LimitsNext /\ UNCHANGED <<part, lockVars, threadVars, fileVars, currentVars, slots>>
  \/ part = "thread" /\ ThreadNext /\ UNCHANGED <<part, lockVars, limitVars, fileVars, currentVars, slots>>
  \/ part = "file" /\ FileNext /\ UNCHANGED <<part, lockVars, limitVars, threadVars, currentVars, slots>>
  \/ part = "current" /\ CurrentNext /\ UNCHANGED <<part, lockVars, limitVars, threadVars, fileVars, slots>>
  \/ part = "threaded" /\ Threaded!LocksNext /\ UNCHANGED Rest3
  \/ part = "calls" /\ Calls!Next /\ UNCHANGED Rest5
  \/ part = "others" /\ Others!Next /\ UNCHANGED Rest5
  \/ part = "sums" /\ Sums!Next /\ UNCHANGED Rest8
  \/ part = "fast" /\ Fast!Next /\ UNCHANGED Rest8
  \/ part = "shared" /\ Shared!Next /\ UNCHANGED Rest5
  \/ part = "clipped" /\ Clipped!Next /\ UNCHANGED Rest5
  \/ part = "random" /\ Util!RandomNext /\ UNCHANGED Rest3
  \/ part = "hash" /\ Util!HashNext /\ UNCHANGED Rest1
  \/ part = "histogram" /\ Util!HistogramNext /\ UNCHANGED Rest2
  \/ part = "info-log" /\ Util!InfoLogNext /\ UNCHANGED Rest5
  \/ part = "status" /\ Util!StatusNext /\ UNCHANGED Rest3
  \/ part = "arena" /\ Util!ArenaNext /\ UNCHANGED Rest6
  \/ part = "names" /\ Util!NameNext /\ UNCHANGED Rest5
  \/ part = "dump" /\ Util!DumpNext /\ UNCHANGED Rest6
  \/ part = "trip" /\ Trip!Next /\ UNCHANGED Rest11
  \/ part = "cut" /\ Cut!Next /\ UNCHANGED Rest11
  \/ part = "scarce" /\ Scarce!Next /\ UNCHANGED Rest11
  \/ part = "number" /\ Number!Next /\ UNCHANGED Rest8
  \/ part = "layout" /\ Layout!Next /\ UNCHANGED Rest5
  \/ part = "text" /\ Text!Next /\ UNCHANGED Rest10

Spec == Init /\ [][Next]_vars

-----------------------------------------------------------------------------

\* What the modules assume of their constants.
ASSUME Assumptions ==
  /\ EnvAssumption
  /\ Threaded!LocksAssumption
  /\ Calls!CBindingAssumption
  /\ Others!CBindingAssumption
  /\ Sums!ChecksumsAssumption
  /\ Fast!ChecksumsAssumption
  /\ Shared!OptionsAssumption
  /\ Clipped!OptionsAssumption
  /\ Util!RandomAssumption
  /\ Util!HashingAssumption
  /\ Util!HistogramAssumption
  /\ Util!InfoLogAssumption
  /\ Util!StatusesAssumption
  /\ Util!ArenaAssumption
  /\ Number!VarintAssumption
  /\ Layout!FieldLayoutAssumption
  /\ Text!Base64Assumption

-----------------------------------------------------------------------------
(* Properties, besides EnvIsSound of the environment                       *)

\* Nothing is used after it was freed, freed twice or left over: the objects and
\* error strings of the C interface (c.cc), the messages that statuses own
\* (status.cc), what databases that share options make and hold (db_impl.cc,
\* SanitizeOptions), and the memory of an arena, whose allocations are aligned and
\* do not overlap, and waste less than a quarter of a block (arena.cc).  The lock
\* on a database has one holder among the threads of a process, and whoever gives
\* it up or is refused leaves nothing behind (env_posix.cc, PosixLockTable).
NothingDangles ==
  /\ [](part = "calls" =>
          /\ Calls!NothingLeaksOrDangles /\ Calls!ErrorIsNewest
          /\ Calls!AnswersAreTold /\ Calls!StatesAreDestroyedOnce)
  /\ [](part = "others" => Others!NothingLeaksOrDangles /\ Others!StatesAreDestroyedOnce)
  /\ [](part = "shared" => Shared!HeldExists /\ Shared!NothingLeft)
  /\ [](part = "threaded" => Threaded!OneInProcess /\ Threaded!LeavesNothing)
  /\ [](part = "status" => Util!OneOwner /\ Util!SaysWhatWasMeant)
  /\ [](part = "arena" => Util!NoOverlap /\ Util!AlignedWell /\ Util!UsageCovers)
  /\ [][part = "arena" => Util!WastesLittle]_vars

\* A checksum is the same however data are cut into pieces and whichever way it is
\* computed, sees every short burst, and its mask can be taken off (crc32c.cc,
\* crc32c.h); the hash tells words apart that differ in one place (hash.cc), random
\* numbers go through all seeds (random.h), merged histograms are what one would be
\* and their percentiles in order (histogram.cc), and options end up in their
\* ranges, with room for the files of the database itself (db_impl.cc).
SumsAreRight ==
  /\ part = "sums" =>
       Sums!IsChecksum /\ Sums!MaskInverts /\ Sums!BurstsAreSeen /\ Sums!WordsAreAligned
  /\ part = "fast" => Fast!IsChecksum
  /\ part = "hash" => Util!TellsOneWord
  /\ part = "random" => Util!CyclesThroughAll
  /\ part = "histogram" => Util!AsIfAdded /\ Util!InItsBucket /\ Util!PercentilesInOrder
  /\ part = "clipped" => Clipped!Reasonable /\ Clipped!RoomForFile

\* Names of files parse to the numbers they stand for, and a number that does not
\* fit is refused (filename.cc, logging.cc); an entry of the information log is a
\* whole line within its buffer, threads or not (posix_logger.h); and a dump
\* accounts for all of a file, batches as a whole (dumpfile.cc).
TextIsTrue ==
  /\ part = "names" => Util!NumbersAreTrue /\ Util!ReadsItsNames
  /\ part = "info-log" => Util!InBounds /\ Util!WholeLines /\ Util!Kept
  /\ part = "dump" => Util!AllAccounted /\ Util!BatchesWhole

\* What is decoded is what was encoded, for a receiver that knows all fields and
\* for one that knows fewer; a whole message is never refused; of a message cut
\* off on the way nothing is made up; and the size announced for a message is
\* the size it has, so that a buffer one byte short is the first that does not
\* do (pb_encode.c, pb_decode.c).  The iterator both step through the fields with
\* points at the member its description is of, counts the required fields it
\* passed, and finds a tag wherever it stood before (pb_common.c).
DecodedIsSent ==
  /\ part = "trip" => Trip!AcceptedIsSent /\ Trip!WholeIsAccepted /\ Trip!SizeIsExact
  /\ part = "cut" => Cut!CutIsPartial
  /\ part = "layout" => Layout!PointsAtField /\ Layout!IndexedByRequired /\ Layout!FindTells

\* After pb_decode failed, or pb_release was called, nothing is left on the heap
\* and nothing was freed twice, although a member of a union replaces another,
\* the message is cut off or an allocation fails (pb_decode.c, pb_release).
AllIsFreed ==
  /\ part = "cut" => Cut!AllIsFreed
  /\ part = "scarce" => Scarce!AllIsFreed

\* A number reads back as it was written, whatever its type and width, the
\* readers for 32 and for 64 bits agree, and all consume the same bytes; text
\* reads back as the bytes it was made of, the decoder that only measures says
\* what decoding will store, a buffer is big enough exactly when nothing is
\* refused, and a text that decodes is the one its bytes encode to, so no two texts
\* stand for the same bytes (pb_decode.c, fbase64.c).
ReadsBack ==
  /\ part = "number" =>
       Number!RoundTrip /\ Number!WideIsExact /\ Number!ReadersAgree /\ Number!SameLength
  /\ part = "text" =>
       Text!MeasuredIsStored /\ Text!RoundTrip /\ Text!FitsExactly /\ Text!NoSecondText

=============================================================================
