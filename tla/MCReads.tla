------------------------------ MODULE MCReads -------------------------------
(***************************************************************************)
(* How leveldb finds what was written, for TLC: the skip list, the levels  *)
(* and their compactions, the iterators, blocks, tables with their         *)
(* filters, and the blocks that are read and shared.  A behaviour is one   *)
(* of one part: "part" says of which.  "list" is the skip list and has its *)
(* variables, "cached" and "filter" are BlockReads and have its variables; *)
(* the other parts have theirs in the slots v1, v2 and so on, and the list *)
(* and the heap stay empty.                                                *)
(***************************************************************************)
EXTENDS SkipList, BlockReads

CONSTANTS
  nothing, r2,
  MaxFilterId  \* bound: tables opened in the part "filter"

VARIABLES
  part,   \* the part that runs; it never changes
  v1, v2, v3, v4, v5, v6, v7, v8, v9, v10, v11, v12, v13, v14

slots == <<v1, v2, v3, v4, v5, v6, v7, v8, v9, v10, v11, v12, v13, v14>>
allVars == <<part, vars, readsVars, slots>>

-----------------------------------------------------------------------------
(* The parts                                                               *)

\* Four levels; memtables are flushed at any time.
Flushes == INSTANCE Levels WITH
  Keys <- {1, 2}, NumLevels <- 4, MaxMemLevel <- 2, L0Trigger <- 2, MaxFile <- 1,
  MaxLevelSize <- 2, LevelFactor <- 1, MaxGrandparent <- 1, MaxExpanded <- 9,
  AllowedSeeks <- 1, Types <- {"val", "del"}, ReadKeys <- {}, MaxWrites <- 4,
  MaxSnapshots <- 0, MaxManual <- 0, FlushAnyTime <- TRUE, MayFail <- TRUE, Nil <- nothing,
  mem <- v1, files <- v2, snaps <- v3, lastSeq <- v4, nextFile <- v5, pointer <- v6,
  toCompact <- v7, comp <- v8, bgError <- v9, hist <- v10, taken <- v11, manuals <- v12

\* Reads wear files out.
Seeks == INSTANCE Levels WITH
  Keys <- {1, 2}, NumLevels <- 3, MaxMemLevel <- 0, L0Trigger <- 2, MaxFile <- 2,
  MaxLevelSize <- 2, LevelFactor <- 10, MaxGrandparent <- 1, MaxExpanded <- 9,
  AllowedSeeks <- 1, Types <- {"val", "del"}, ReadKeys <- {1}, MaxWrites <- 4,
  MaxSnapshots <- 0, MaxManual <- 0, FlushAnyTime <- TRUE, MayFail <- TRUE, Nil <- nothing,
  mem <- v1, files <- v2, snaps <- v3, lastSeq <- v4, nextFile <- v5, pointer <- v6,
  toCompact <- v7, comp <- v8, bgError <- v9, hist <- v10, taken <- v11, manuals <- v12

\* A snapshot.
Snaps == INSTANCE Levels WITH
  Keys <- {1, 2}, NumLevels <- 3, MaxMemLevel <- 1, L0Trigger <- 2, MaxFile <- 9,
  MaxLevelSize <- 2, LevelFactor <- 10, MaxGrandparent <- 1, MaxExpanded <- 9,
  AllowedSeeks <- 1, Types <- {"val", "del"}, ReadKeys <- {}, MaxWrites <- 4,
  MaxSnapshots <- 1, MaxManual <- 0, FlushAnyTime <- TRUE, MayFail <- FALSE, Nil <- nothing,
  mem <- v1, files <- v2, snaps <- v3, lastSeq <- v4, nextFile <- v5, pointer <- v6,
  toCompact <- v7, comp <- v8, bgError <- v9, hist <- v10, taken <- v11, manuals <- v12

\* A manual compaction of a quiet database.
Manual == INSTANCE Levels WITH
  Keys <- {1, 2, 3}, NumLevels <- 4, MaxMemLevel <- 2, L0Trigger <- 4, MaxFile <- 3,
  MaxLevelSize <- 9, LevelFactor <- 10, MaxGrandparent <- 1, MaxExpanded <- 9,
  AllowedSeeks <- 1, Types <- {"val", "del"}, ReadKeys <- {}, MaxWrites <- 4,
  MaxSnapshots <- 0, MaxManual <- 1, FlushAnyTime <- FALSE, MayFail <- FALSE, Nil <- nothing,
  mem <- v1, files <- v2, snaps <- v3, lastSeq <- v4, nextFile <- v5, pointer <- v6,
  toCompact <- v7, comp <- v8, bgError <- v9, hist <- v10, taken <- v11, manuals <- v12

\* Three keys, one to a block.
Scan == INSTANCE Iterators WITH
  Keys <- {1, 2, 3}, MaxWrites <- 3, BlockSizes <- {1}, FileSizes <- {1},
  EntryTypes <- {"value", "deletion"}, Faults <- FALSE,
  snapshot <- v1, it <- v2, fwd <- v3, valid <- v4, saved <- v5, good <- v6, view <- v7,
  call <- v8, broken <- v9

\* Many versions of two keys.
Versions == INSTANCE Iterators WITH
  Keys <- {1, 2}, MaxWrites <- 4, BlockSizes <- {2}, FileSizes <- {1},
  EntryTypes <- {"value", "deletion"}, Faults <- FALSE,
  snapshot <- v1, it <- v2, fwd <- v3, valid <- v4, saved <- v5, good <- v6, view <- v7,
  call <- v8, broken <- v9

\* Blocks that cannot be read and entries that cannot be parsed.
Faulty == INSTANCE Iterators WITH
  Keys <- {1, 2}, MaxWrites <- 2, BlockSizes <- {1}, FileSizes <- {2},
  EntryTypes <- {"value", "bad"}, Faults <- TRUE,
  snapshot <- v1, it <- v2, fwd <- v3, valid <- v4, saved <- v5, good <- v6, view <- v7,
  call <- v8, broken <- v9

\* Six entries with prefixes in common.
Block == INSTANCE Blocks WITH
  Letters <- {1, 2}, MaxLen <- 2, MaxEntries <- 6, Intervals <- {1, 2, 3},
  Damages <- {"none"},
  contents <- v1, data <- v2, restarts <- v3, i <- v4, call <- v5

\* Blocks with a damage.
BadBlock == INSTANCE Blocks WITH
  Letters <- {1, 2}, MaxLen <- 2, MaxEntries <- 4, Intervals <- {1, 2, 3},
  Damages <- {"entry", "shared", "short"},
  contents <- v1, data <- v2, restarts <- v3, i <- v4, call <- v5

\* Three entries in blocks of one or two, with filters.
Table == INSTANCE Tables WITH
  Letters <- {1, 2, 3}, MaxLen <- 2, MaxSeq <- 1, MaxEntries <- 3, BlockSizes <- {1, 2},
  FilterBase <- 3, BitsPerKey <- 5, ByteBits <- 8, Filtered <- TRUE, Faults <- {},
  stage <- v1, blockSize <- v2, file <- v3, offset <- v4, good <- v5, dataBlock <- v6,
  index <- v7, last <- v8, added <- v9, pending <- v10, filter <- v11, failed <- v12,
  damaged <- v13, table <- v14

\* Appending fails, or a filter is damaged.
BadTable == INSTANCE Tables WITH
  Letters <- {1, 2}, MaxLen <- 2, MaxSeq <- 1, MaxEntries <- 4, BlockSizes <- {2},
  FilterBase <- 2, BitsPerKey <- 5, ByteBits <- 8, Filtered <- TRUE,
  Faults <- {"append", "damage"},
  stage <- v1, blockSize <- v2, file <- v3, offset <- v4, good <- v5, dataBlock <- v6,
  index <- v7, last <- v8, added <- v9, pending <- v10, filter <- v11, failed <- v12,
  damaged <- v13, table <- v14

\* Tables with filters and compressed blocks, without a block cache; r2 reads
\* nothing.  Readers and addresses are the same, so InUseIsLive speaks of this too.
Filter == INSTANCE BlockReads WITH
  Filters <- TRUE, BlockCache <- FALSE, HaveSnappy <- TRUE, MaxId <- MaxFilterId

\* Handles of numbers of 3 bits.
Footer == INSTANCE Metadata WITH
  Group <- 1, Word32 <- 2, Word64 <- 3, Fixed <- 1, MagicLo <- 3, MagicHi <- 2,
  Values <- {0, 1, 3, 6}, Damages <- {"cut", "byte"}, NumLevels <- 0, Numbers <- {},
  MaxString <- 0, MaxFields <- 0,
  edit <- v1, fields <- v2, file <- v1, wrote <- v2, status <- v3, read <- v4, harmed <- v5

-----------------------------------------------------------------------------

\* Slots and variables that a part leaves alone.
Rest5 == <<part, vars, readsVars, v6, v7, v8, v9, v10, v11, v12, v13, v14>>
Rest9 == <<part, vars, readsVars, v10, v11, v12, v13, v14>>
Rest12 == <<part, vars, readsVars, v13, v14>>
Off12 == v13 = 0 /\ v14 = 0
Off9 == v10 = 0 /\ v11 = 0 /\ v12 = 0 /\ Off12
Off5 == v6 = 0 /\ v7 = 0 /\ v8 = 0 /\ v9 = 0 /\ Off9
Off0 == v1 = 0 /\ v2 = 0 /\ v3 = 0 /\ v4 = 0 /\ v5 = 0 /\ Off5

Rests == Init /\ ReadsInit

PartInit ==
  \/ part = "list" /\ Init /\ ReadsInit /\ Off0
  \/ part = "flushes" /\ Flushes!Init /\ Off12 /\ Rests
  \/ part = "seeks" /\ Seeks!Init /\ Off12 /\ Rests
  \/ part = "snaps" /\ Snaps!Init /\ Off12 /\ Rests
  \/ part = "manual" /\ Manual!Init /\ Off12 /\ Rests
  \/ part = "scan" /\ Scan!Init /\ Off9 /\ Rests
  \/ part = "versions" /\ Versions!Init /\ Off9 /\ Rests
  \/ part = "faulty" /\ Faulty!Init /\ Off9 /\ Rests
  \/ part = "block" /\ Block!Init /\ Off5 /\ Rests
  \/ part = "bad-block" /\ BadBlock!Init /\ Off5 /\ Rests
  \/ part = "table" /\ Table!Init /\ Rests
  \/ part = "bad-table" /\ BadTable!Init /\ Rests
  \/ part = "cached" /\ Init /\ ReadsInit /\ Off0
  \/ part = "filter" /\ Init /\ Filter!ReadsInit /\ Off0
  \/ part = "footer" /\ Footer!FooterInit /\ Off5 /\ Rests

PartNext ==
  \/ part = "list" /\ Next /\ UNCHANGED <<part, readsVars, slots>>
  \/ part = "flushes" /\ Flushes!Next /\ UNCHANGED Rest12
  \/ part = "seeks" /\ Seeks!Next /\ UNCHANGED Rest12
  \/ part = "snaps" /\ Snaps!Next /\ UNCHANGED Rest12
  \/ part = "manual" /\ Manual!Next /\ UNCHANGED Rest12
  \/ part = "scan" /\ Scan!Next /\ UNCHANGED Rest9
  \/ part = "versions" /\ Versions!Next /\ UNCHANGED Rest9
  \/ part = "faulty" /\ Faulty!Next /\ UNCHANGED Rest9
  \/ part = "block" /\ Block!Next /\ UNCHANGED Rest5
  \/ part = "bad-block" /\ BadBlock!Next /\ UNCHANGED Rest5
  \/ part = "table" /\ Table!Next /\ UNCHANGED <<part, vars, readsVars>>
  \/ part = "bad-table" /\ BadTable!Next /\ UNCHANGED <<part, vars, readsVars>>
  \/ part = "cached" /\ ReadsNext /\ UNCHANGED <<part, vars, slots>>
  \/ part = "filter" /\ Filter!ReadsNext /\ UNCHANGED <<part, vars, slots, iter[r2]>>
  \/ part = "footer" /\ Footer!FooterNext /\ UNCHANGED Rest5

PartSpec == PartInit /\ [][PartNext]_allVars

-----------------------------------------------------------------------------

\* What the modules assume of their constants.
ASSUME Assumptions ==
  /\ SizesAssumption
  /\ Flushes!LevelsAssumption
  /\ Seeks!LevelsAssumption
  /\ Snaps!LevelsAssumption
  /\ Manual!LevelsAssumption
  /\ BlockReadsAssumption
  /\ Filter!BlockReadsAssumption
  /\ Footer!HandlesAssumption

-----------------------------------------------------------------------------
(* Properties, besides ReadsAreSafe of SkipList, InUseIsLive of BlockReads *)

\* A read, of the present or at a snapshot, returns the newest value written before
\* it, although memtables go to any level they may, compactions move, merge and
\* drop entries, fail half way, and reads wear files out (version_set.cc,
\* db_impl.cc).
ReadsAreRight ==
  /\ part = "flushes" => Flushes!ReadsAreRight
  /\ part = "seeks" => Seeks!ReadsAreRight
  /\ part = "snaps" => Snaps!ReadsAreRight
  /\ part = "manual" => Manual!ReadsAreRight

\* Below level 0 the files of a level do not overlap, of two entries for a key the
\* newer is in the upper level, and the sizes kept for levels are those of their
\* files (version_set.cc, VersionSet::Builder and PickCompaction).
LevelsInOrder ==
  /\ part = "flushes" => Flushes!LevelsDisjoint
  /\ part = "seeks" => Seeks!NewerIsAbove /\ Seeks!SizesAreExact

\* Whatever is called, in whatever order and direction, an iterator over blocks,
\* tables, levels and memtables behaves as a cursor over the keys of one state of
\* the database; errors are kept.  A block's iterator finds the restart point
\* before a key, and calls no sound block corrupted (db_iter.cc, merger.cc,
\* two_level_iterator.cc, block.cc).
IsCursor ==
  /\ part = "scan" => Scan!Abstract!Init
  /\ part = "versions" => Versions!Abstract!Init
  /\ part = "faulty" => Faulty!Abstract!Init
  /\ part = "block" => Block!Abstract!Init
  /\ part = "bad-block" => BadBlock!Abstract!Init
  /\ [][/\ part = "scan" => Scan!Abstract!Next \/ UNCHANGED Scan!Abstract!vars
        /\ part = "versions" => Versions!Abstract!Next \/ UNCHANGED Versions!Abstract!vars
        /\ part = "faulty" => Faulty!Abstract!Next \/ UNCHANGED Faulty!Abstract!vars
        /\ part = "block" => Block!Abstract!Next \/ UNCHANGED Block!Abstract!vars
        /\ part = "bad-block" => BadBlock!Abstract!Next \/ UNCHANGED BadBlock!Abstract!vars]_allVars
  /\ [](part = "versions" => Versions!DirectionHolds)
  /\ [](part = "block" => Block!RestartIsNear /\ Block!NoFalseAlarm)

\* A table finds the newest entry for a key up to a sequence number, through index
\* and filter, and refuses what it cannot read; offsets of keys grow with the keys;
\* a builder keeps the first failure.  The footer that leads to the index reads
\* back, and a damaged one is refused (table_builder.cc, table.cc, bloom.cc,
\* format.cc).
GetFindsNewest ==
  /\ part = "table" => Table!GetFindsNewest /\ Table!OffsetsGrow
  /\ part = "bad-table" =>
       BadTable!GetFindsNewest /\ BadTable!FailureIsKept /\ BadTable!OpensAgain
  /\ part = "footer" => Footer!FooterRoundTrip /\ Footer!DamageIsSeen

=============================================================================
