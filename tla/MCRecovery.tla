----------------------------- MODULE MCRecovery -----------------------------
(***************************************************************************)
(* What leveldb keeps on disk, for TLC: crashes and restarts of a          *)
(* database, the record log, version edits, repairing and destroying a     *)
(* database.  A behaviour is one of one part: "part" says of which.  The   *)
(* parts that are databases have the variables of Durability; the others   *)
(* have theirs in the slots v1, v2 and so on, and the database is down.    *)
(***************************************************************************)
EXTENDS Durability

CONSTANTS
  p1

VARIABLES
  part,   \* the part that runs; it never changes
  v1, v2, v3, v4, v5, v6, v7, v8, v9, v10, v11, v12, v13, v14, v15, v16, v17, v18

slots == <<v1, v2, v3, v4, v5, v6, v7, v8, v9, v10, v11, v12, v13, v14, v15, v16, v17, v18>>
allVars == <<part, vars, slots>>

-----------------------------------------------------------------------------
(* The parts.  "crash" is a database as the configuration sizes it: the    *)
(* machine crashes twice, memtables are flushed and tables compacted.      *)

\* For constants of machines that do not run here.
NotUsed == {}

\* Two compactions while an iterator pins a version.
Files == INSTANCE Durability WITH
  MaxWrites <- 2, MaxFiles <- 11, MaxCrashes <- 1, MaxCompactions <- 2, MaxPins <- 1,
  BufferSize <- 1, ReuseLogs <- FALSE, Preexisting <- TRUE, MachineCrashes <- TRUE,
  MayFail <- {}

\* Logs are reused.
Reuse == INSTANCE Durability WITH
  MaxWrites <- 3, MaxFiles <- 9, MaxCrashes <- 1, MaxCompactions <- 1, MaxPins <- 0,
  BufferSize <- 1, ReuseLogs <- TRUE, Preexisting <- TRUE, MachineCrashes <- TRUE,
  MayFail <- {}

\* Writing the manifest fails.
Fail == INSTANCE Durability WITH
  MaxWrites <- 2, MaxFiles <- 11, MaxCrashes <- 2, MaxCompactions <- 1, MaxPins <- 0,
  BufferSize <- 1, ReuseLogs <- FALSE, Preexisting <- TRUE, MachineCrashes <- TRUE,
  MayFail <- {"manifest"}

\* A new database; the process is killed twice.
New == INSTANCE Durability WITH
  MaxWrites <- 2, MaxFiles <- 12, MaxCrashes <- 2, MaxCompactions <- 1, MaxPins <- 0,
  BufferSize <- 1, ReuseLogs <- FALSE, Preexisting <- FALSE, MachineCrashes <- FALSE,
  MayFail <- {}

\* Everything may go wrong, in a log of two records.
Read == INSTANCE RecordLog WITH
  BlockSize <- 6, Lengths <- {4}, Offsets <- {0, 8}, Checksum <- TRUE, MaxRecords <- 2,
  MaxCrashes <- 1, MaxDamage <- 1, MayReuse <- TRUE, AppendMayFail <- TRUE,
  ReadMayFail <- TRUE,
  file <- v1, blockOffset <- v2, written <- v3, damaged <- v4, crashes <- v5, mode <- v6,
  rd <- v7, out <- v8, drops <- v9

\* A byte is damaged.
Damage == INSTANCE RecordLog WITH
  BlockSize <- 6, Lengths <- {0, 4, 8}, Offsets <- {0}, Checksum <- TRUE, MaxRecords <- 2,
  MaxCrashes <- 1, MaxDamage <- 1, MayReuse <- TRUE, AppendMayFail <- FALSE,
  ReadMayFail <- FALSE,
  file <- v1, blockOffset <- v2, written <- v3, damaged <- v4, crashes <- v5, mode <- v6,
  rd <- v7, out <- v8, drops <- v9

\* The tail is torn.
Torn == INSTANCE RecordLog WITH
  BlockSize <- 6, Lengths <- {0, 1, 3, 4, 8}, Offsets <- {0}, Checksum <- TRUE,
  MaxRecords <- 3, MaxCrashes <- 1, MaxDamage <- 0, MayReuse <- FALSE,
  AppendMayFail <- FALSE, ReadMayFail <- FALSE,
  file <- v1, blockOffset <- v2, written <- v3, damaged <- v4, crashes <- v5, mode <- v6,
  rd <- v7, out <- v8, drops <- v9

\* Reading begins anywhere.
Offset == INSTANCE RecordLog WITH
  BlockSize <- 6, Lengths <- {0, 2, 8}, Offsets <- 0..14, Checksum <- TRUE,
  MaxRecords <- 3, MaxCrashes <- 1, MaxDamage <- 0, MayReuse <- FALSE,
  AppendMayFail <- FALSE, ReadMayFail <- FALSE,
  file <- v1, blockOffset <- v2, written <- v3, damaged <- v4, crashes <- v5, mode <- v6,
  rd <- v7, out <- v8, drops <- v9

\* The process is killed while it repairs.
Repairs == INSTANCE Repair WITH
  Damages <- {"whole", "part", "junk"}, LogDamages <- {"whole", "short", "flipped"},
  MayFail <- {}, MaxCrashes <- 1, Compacted <- FALSE,
  dir <- v1, tabc <- v2, logc <- v3, lost <- v4, man <- v5, phase <- v6, logs <- v7,
  todo <- v8, found <- v9, next <- v10, src <- v11, copy <- v12, crashes <- v13,
  failed <- v14

\* Steps of a repair fail.
Failing == INSTANCE Repair WITH
  Damages <- {"whole", "part", "junk"}, LogDamages <- {"whole"},
  MayFail <- {"build", "create", "finish", "rename", "descriptor"}, MaxCrashes <- 0,
  Compacted <- TRUE,
  dir <- v1, tabc <- v2, logc <- v3, lost <- v4, man <- v5, phase <- v6, logs <- v7,
  todo <- v8, found <- v9, next <- v10, src <- v11, copy <- v12, crashes <- v13,
  failed <- v14

\* One process destroys and opens, and is killed once.
Destroyed == INSTANCE Destroy WITH
  Processes <- {p1}, MaxValues <- 2, MaxInodes <- 2, MaxNumber <- 10, MaxDestroys <- 2,
  MaxKills <- 1,
  dir <- v1, lockfile <- v2, inodes <- v3, owner <- v4, fs <- v5, logs <- v6, tables <- v7,
  manifests <- v8, pc <- v9, fd <- v10, listed <- v11, db <- v12, result <- v13,
  values <- v14, doomed <- v15, gone <- v16, destroys <- v17, kills <- v18

\* Edits of three fields; numbers in groups of 2 bits.
Edits == INSTANCE Metadata WITH
  Group <- 2, Word32 <- 5, Word64 <- 7, NumLevels <- 2, Numbers <- {0, 6}, MaxString <- 1,
  MaxFields <- 3, Fixed <- NotUsed, MagicLo <- NotUsed, MagicHi <- NotUsed, Values <- NotUsed,
  Damages <- NotUsed,
  edit <- v1, fields <- v2, file <- v1, wrote <- v2, status <- v3, read <- v4, harmed <- v5

-----------------------------------------------------------------------------

\* What a part with so many variables leaves alone.
Rest2 == <<part, vars, v3, v4, v5, v6, v7, v8, v9, v10, v11, v12, v13, v14, v15, v16, v17, v18>>
Rest9 == <<part, vars, v10, v11, v12, v13, v14, v15, v16, v17, v18>>
Rest14 == <<part, vars, v15, v16, v17, v18>>
Off14 == v15 = 0 /\ v16 = 0 /\ v17 = 0 /\ v18 = 0
Off9 == v10 = 0 /\ v11 = 0 /\ v12 = 0 /\ v13 = 0 /\ v14 = 0 /\ Off14
Off2 == v3 = 0 /\ v4 = 0 /\ v5 = 0 /\ v6 = 0 /\ v7 = 0 /\ v8 = 0 /\ v9 = 0 /\ Off9
Off0 == v1 = 0 /\ v2 = 0 /\ Off2

PartInit ==
  \/ part = "crash" /\ Init /\ Off0
  \/ part = "files" /\ Files!Init /\ Off0
  \/ part = "reuse" /\ Reuse!Init /\ Off0
  \/ part = "fail" /\ Fail!Init /\ Off0
  \/ part = "new" /\ New!Init /\ Off0
  \/ /\ Init
     /\ \/ part = "read" /\ Read!Init /\ Off9
        \/ part = "damage" /\ Damage!Init /\ Off9
        \/ part = "tail" /\ Torn!Init /\ Off9
        \/ part = "offset" /\ Offset!Init /\ Off9
        \/ part = "repair" /\ Repairs!Init /\ Off14
        \/ part = "failing" /\ Failing!Init /\ Off14
        \/ part = "destroy" /\ Destroyed!Init
        \/ part = "edits" /\ Edits!EditInit /\ Off2

PartNext ==
  \/ part = "crash" /\ Next /\ UNCHANGED <<part, slots>>
  \/ part = "files" /\ Files!Next /\ UNCHANGED <<part, slots>>
  \/ part = "reuse" /\ Reuse!Next /\ UNCHANGED <<part, slots>>
  \/ part = "fail" /\ Fail!Next /\ UNCHANGED <<part, slots>>
  \/ part = "new" /\ New!Next /\ UNCHANGED <<part, slots>>
  \/ part = "read" /\ Read!Next /\ UNCHANGED Rest9
  \/ part = "damage" /\ Damage!Next /\ UNCHANGED Rest9
  \/ part = "tail" /\ Torn!Next /\ UNCHANGED Rest9
  \/ part = "offset" /\ Offset!Next /\ UNCHANGED Rest9
  \/ part = "repair" /\ Repairs!Next /\ UNCHANGED Rest14
  \/ part = "failing" /\ Failing!Next /\ UNCHANGED Rest14
  \/ part = "destroy" /\ Destroyed!Next /\ UNCHANGED <<part, vars>>
  \/ part = "edits" /\ Edits!EditNext /\ UNCHANGED Rest2

PartSpec == PartInit /\ [][PartNext]_allVars

-----------------------------------------------------------------------------

\* What the modules assume of their constants.
ASSUME Assumptions ==
  /\ DurabilityAssumption
  /\ Files!DurabilityAssumption
  /\ Reuse!DurabilityAssumption
  /\ Fail!DurabilityAssumption
  /\ New!DurabilityAssumption
  /\ Read!LogAssumption
  /\ Damage!LogAssumption
  /\ Torn!LogAssumption
  /\ Offset!LogAssumption
  /\ Repairs!RepairAssumption
  /\ Failing!RepairAssumption
  /\ Destroyed!DestroyAssumption

-----------------------------------------------------------------------------
(* Properties, besides those of Durability, which hold of all databases here *)

\* A record that is read was written, from the offset asked for on; a damaged byte
\* loses no record outside its block, and a torn tail none before it, without an
\* alarm (log_writer.cc, log_reader.cc).  The edits in the manifest's records
\* read back as they were written, and bytes that are no edit are refused
\* (version_edit.cc).
LogReadsBack ==
  /\ part = "read" => Read!ReadsOnlyWritten
  /\ part = "damage" => Damage!LossIsConfined
  /\ part = "tail" => Torn!TornTailIsSilent /\ Torn!LastRecordOffset
  /\ part = "offset" => Offset!StartsAtInitialOffset
  /\ part = "edits" => Edits!ReadsBack /\ Edits!NothingMadeUp /\ Edits!LevelsExist

\* A repair lists every table that can be read, leaves a database that can be
\* used, and at no step, a kill or a failure included, is an entry gone that was
\* readable, in a log or archived (repair.cc).
RepairKeeps ==
  /\ [](part = "repair" => Repairs!AllIsListed /\ Repairs!CanBeUsed)
  /\ [](part = "failing" => Failing!CanBeUsed)
  /\ [][(part = "repair" => Repairs!NothingVanishes) /\ (part = "failing" => Failing!NothingVanishes)]_allVars

\* DestroyDB that succeeds leaves no file of the database, and what is written
\* afterwards to a database of the same name is there (db_impl.cc, DestroyDB).
GoneIsGone == part = "destroy" => Destroyed!GoneIsGone /\ Destroyed!WrittenIsThere

=============================================================================
