-------------------------------- MODULE Repair --------------------------------
(***************************************************************************)
(* RepairDB: a manifest is made up from the tables and logs found in the   *)
(* directory.  Logs become tables, every table is scanned, a damaged one   *)
(* is copied as far as it can be read, what is replaced goes to lost/.     *)
(* Files are handled one operation at a time; the process may crash        *)
(* between any two and repair be started again; operations may fail.       *)
(*                                                                         *)
(* An entry is [k, s, good]: key, sequence number, and whether it is what  *)
(* was written.  Larger s is newer.                                        *)
(***************************************************************************)
EXTENDS Integers, Sequences, FiniteSets, FiniteSetsExt, SequencesExt

CONSTANTS
  Damages,        \* what may have happened to a table: subset of TableStates
  LogDamages,     \* what may have happened to a log record: subset of RecordStates
  MayFail,        \* operations that may fail: "build", "create", "finish", "rename",
                  \* "descriptor"
  MaxCrashes,     \* bound
  Compacted       \* the older table may be the output of a later compaction

RepairAssumption ==
  /\ Damages \subseteq {"whole", "part", "junk"}
  /\ LogDamages \subseteq {"whole", "short", "flipped"}
  /\ MayFail \subseteq {"build", "create", "finish", "rename", "descriptor"}
  /\ MaxCrashes \in Nat /\ Compacted \in BOOLEAN

VARIABLES
  dir,            \* logs, tables, manifests, current, tmp in the directory
  tabc,           \* contents of tables: ents, of which readable, state
  logc,           \* contents of logs: a sequence of records
  lost,           \* what lost/ holds of entries, by file name
  man,            \* contents of MANIFEST-000001: tables, next, seq
  phase,          \* where Repairer::Run is
  logs, todo,     \* logs_ and table_numbers_ still to be dealt with
  found,          \* tables_: numbers and their max_sequence
  next,           \* next_file_number_
  src, copy,      \* the table RepairTable works on and its copy
  crashes, failed

files  == <<dir, tabc, logc, lost, man>>
locals == <<logs, todo, found, next, src, copy>>
vars   == <<files, phase, locals, crashes, failed>>

None == 0
Numbers == 1..16
NoTable == [ents |-> {}, readable |-> {}, state |-> "junk"]
Seqs(S) == {e.s : e \in S} \cup {0}

-----------------------------------------------------------------------------
(* Files (external, as the code uses them)                                 *)

\* Mistake: the file is deleted.
ArchiveTable_Deleted(n, ok) == dir' = [dir EXCEPT !.tables = @ \ {n}] /\ UNCHANGED lost

\* ArchiveFile: a rename into lost/, over a file of that name, its error ignored.
ArchiveTable(n, ok) ==
  IF ok THEN /\ dir' = [dir EXCEPT !.tables = @ \ {n}]
             /\ lost' = [lost EXCEPT ![n].table = tabc[n].readable]
  ELSE UNCHANGED <<dir, lost>>

Undamaged(recs) == {[k |-> recs[i].k, s |-> recs[i].s, good |-> TRUE] :
                     i \in {j \in DOMAIN recs : recs[j].state = "whole"}}

\* An operation that may fail does or does not.
Outcome(op) == IF op \in MayFail THEN BOOLEAN ELSE {TRUE}

-----------------------------------------------------------------------------
(* Repairer::Run                                                           *)

\* FindFiles.  The names come in any order; only descriptors do not count for
\* the next file number.
FindFiles ==
  /\ phase = "find"
  /\ logs' \in SetToSeqs(dir.logs)
  /\ todo' = dir.tables
  /\ next' = Max({0} \cup dir.logs \cup dir.tables) + 1
  /\ found' = {} /\ src' = None /\ copy' = None
  /\ phase' = "convert"
  /\ UNCHANGED <<files, crashes, failed>>

\* The reader of ConvertLogToTable is told not to verify checksums.
Checksum == FALSE

\* The record reaches the memtable: it is not short, and damage was not seen.
Inserted(r) ==
  IF r.state = "whole" THEN {[k |-> r.k, s |-> r.s, good |-> TRUE]}
  ELSE IF r.state = "flipped" /\ ~Checksum THEN {[k |-> r.k, s |-> r.s, good |-> FALSE]}
  ELSE {}

MemTable(recs) == UNION {Inserted(recs[i]) : i \in DOMAIN recs}

\* ConvertLogToTable.  BuildTable leaves no file when it fails or there is
\* nothing to save.
ConvertLogToTable ==
  /\ phase = "convert" /\ logs # <<>>
  /\ \E ok \in Outcome("build") :
       LET ents == MemTable(logc[Head(logs)])
           keep == ok /\ ents # {}
       IN  /\ dir' = IF keep THEN [dir EXCEPT !.tables = @ \cup {next}] ELSE dir
           /\ tabc' = IF keep THEN [tabc EXCEPT ![next] = [ents |-> ents, readable |-> ents, state |-> "whole"]]
                      ELSE tabc
           /\ todo' = IF keep THEN todo \cup {next} ELSE todo
           /\ failed' = (failed \/ ~ok)
  /\ next' = next + 1
  /\ phase' = "archivelog"
  /\ UNCHANGED <<logc, lost, man, logs, found, src, copy, crashes>>

ArchiveLog(n) ==
  /\ dir' = [dir EXCEPT !.logs = @ \ {n}]
  /\ lost' = [lost EXCEPT ![n].log = Undamaged(logc[n])]

\* ConvertLogFilesToTables: the log goes to lost/ whether it was converted or
\* not.
ArchiveConverted ==
  /\ phase = "archivelog"
  /\ \/ ArchiveLog(Head(logs)) /\ UNCHANGED failed
     \/ "rename" \in MayFail /\ UNCHANGED <<dir, lost>> /\ failed' = TRUE
  /\ logs' = Tail(logs)
  /\ phase' = "convert"
  /\ UNCHANGED <<tabc, logc, man, todo, found, next, src, copy, crashes>>

\* The largest sequence number ScanTable met.
MaxSequence(readable) == Max(Seqs(readable))

Scanned(n) == [num |-> n, seq |-> MaxSequence(tabc[n].readable)]

\* ScanTable
ScanTable ==
  /\ phase = "convert" /\ logs = <<>> /\ todo # {}
  /\ \E n \in todo :
       /\ todo' = todo \ {n}
       /\ IF tabc[n].state = "whole"
          THEN found' = found \cup {Scanned(n)} /\ UNCHANGED <<src, phase>>
          ELSE src' = n /\ phase' = "copy" /\ UNCHANGED found
  /\ UNCHANGED <<files, logs, next, copy, crashes, failed>>

\* RepairTable: the copy is created; when it cannot be, that was all.
CreateCopy ==
  /\ phase = "copy"
  /\ next' = next + 1
  /\ \/ /\ dir' = [dir EXCEPT !.tables = @ \cup {next}]
        /\ tabc' = [tabc EXCEPT ![next] = NoTable]
        /\ copy' = next /\ phase' = "archivetable"
        /\ UNCHANGED failed
     \/ /\ "create" \in MayFail
        /\ failed' = TRUE /\ phase' = "convert"
        /\ UNCHANGED <<dir, tabc, copy>>
  /\ UNCHANGED <<logc, lost, man, logs, todo, found, src, crashes>>

\* The readable entries are with the builder; the source is archived.
ArchiveSource ==
  /\ phase = "archivetable"
  /\ \E ok \in Outcome("rename") : ArchiveTable(src, ok) /\ failed' = (failed \/ ~ok)
  /\ phase' = "finish"
  /\ UNCHANGED <<tabc, logc, man, locals, crashes>>

DropCopy(d) == [d EXCEPT !.tables = @ \ {copy}]

\* Finish and Close.  With nothing read the builder is abandoned and the empty
\* copy stays.
FinishCopy ==
  /\ phase = "finish"
  /\ LET read == tabc[src].readable IN
     \/ /\ read = {} /\ phase' = "convert"
        /\ UNCHANGED <<dir, tabc, failed>>
     \/ /\ read # {} /\ phase' = "renametable"
        /\ tabc' = [tabc EXCEPT ![copy] = [ents |-> read, readable |-> read, state |-> "whole"]]
        /\ UNCHANGED <<dir, failed>>
     \/ /\ "finish" \in MayFail /\ phase' = "convert"
        /\ dir' = DropCopy(dir) /\ failed' = TRUE
        /\ UNCHANGED tabc
  /\ UNCHANGED <<logc, lost, man, locals, crashes>>

\* The copy takes the source's name.
RenameCopy ==
  /\ phase = "renametable"
  /\ \/ /\ dir' = [dir EXCEPT !.tables = (@ \ {copy}) \cup {src}]
        /\ tabc' = [tabc EXCEPT ![src] = tabc[copy]]
        /\ found' = found \cup {Scanned(src)}
        /\ UNCHANGED failed
     \/ /\ "rename" \in MayFail
        /\ dir' = DropCopy(dir) /\ failed' = TRUE
        /\ UNCHANGED <<tabc, found>>
  /\ phase' = "convert"
  /\ UNCHANGED <<logc, lost, man, logs, todo, next, src, copy, crashes>>

\* The record of WriteDescriptor: every table found, all of them at level 0.
Descriptor ==
  [tables |-> {t.num : t \in found}, next |-> next,
   seq |-> Max({t.seq : t \in found} \cup {0})]

\* WriteDescriptor: the temporary file.
WriteDescriptor ==
  /\ phase = "convert" /\ logs = <<>> /\ todo = {}
  /\ dir' = [dir EXCEPT !.tmp = Descriptor]
  /\ phase' = "archivemanifests"
  /\ UNCHANGED <<tabc, logc, lost, man, locals, crashes, failed>>

\* Those FindFiles met, which is all of them.
ArchiveManifests ==
  /\ phase = "archivemanifests"
  /\ \E ok \in Outcome("rename") :
       /\ dir' = IF ok THEN [dir EXCEPT !.manifests = {}] ELSE dir
       /\ failed' = (failed \/ ~ok)
  /\ phase' = "renametmp"
  /\ UNCHANGED <<tabc, logc, lost, man, locals, crashes>>

InstallManifest ==
  /\ phase = "renametmp"
  /\ man' = dir.tmp
  /\ dir' = [dir EXCEPT !.manifests = @ \cup {1}, !.tmp = {}]
  /\ phase' = "setcurrent"
  /\ UNCHANGED <<tabc, logc, lost, locals, crashes, failed>>

SetCurrentFile ==
  /\ phase = "setcurrent"
  /\ dir' = [dir EXCEPT !.current = 1]
  /\ phase' = "done"
  /\ UNCHANGED <<tabc, logc, lost, man, locals, crashes, failed>>

\* WriteDescriptor returns an error, and so does RepairDB.
DescriptorFails ==
  /\ "descriptor" \in MayFail
  /\ phase \in {"renametmp", "setcurrent"} \/ (phase = "convert" /\ logs = <<>> /\ todo = {})
  /\ dir' = [dir EXCEPT !.tmp = {}]
  /\ phase' = "error" /\ failed' = TRUE
  /\ UNCHANGED <<tabc, logc, lost, man, locals, crashes>>

\* The process dies and repair is started again.
Crash ==
  /\ phase \notin {"find", "done", "error"} /\ crashes < MaxCrashes
  /\ crashes' = crashes + 1
  /\ phase' = "find"
  /\ UNCHANGED <<files, locals, failed>>

-----------------------------------------------------------------------------

\* The history: three keys' worth of writes, older ones in two tables, newer
\* ones in the logs of imm_ and of mem_.
Old    == {[k |-> 1, s |-> 1, good |-> TRUE], [k |-> 2, s |-> 2, good |-> TRUE]}
Newer  == {[k |-> 1, s |-> 3, good |-> TRUE], [k |-> 3, s |-> 4, good |-> TRUE]}
Record(k, s, state) == [k |-> k, s |-> s, state |-> state]

Table(ents, state) ==
  {[ents |-> ents, readable |-> r, state |-> state] :
     r \in CASE state = "whole" -> {ents}
             [] state = "part"  -> {{e} : e \in ents}
             [] state = "junk"  -> {{}}}

\* The table with the older writes has the larger number when a compaction of
\* deeper levels made it after the newer one was flushed.
Init ==
  /\ \E a \in (IF Compacted THEN {2, 5} ELSE {2}), d1, d2 \in Damages, l1, l2 \in LogDamages :
       /\ dir = [logs |-> {4, 6}, tables |-> {a, 3}, manifests |-> {1}, current |-> 1, tmp |-> {}]
       /\ \E t1 \in Table(Old, d1), t2 \in Table(Newer, d2) :
            tabc = [n \in Numbers |-> IF n = a THEN t1 ELSE IF n = 3 THEN t2 ELSE NoTable]
       /\ logc = [n \in Numbers |-> IF n = 4 THEN <<Record(2, 5, l1), Record(1, 6, "whole")>>
                                    ELSE IF n = 6 THEN <<Record(2, 7, l2)>> ELSE <<>>]
  /\ lost = [n \in Numbers |-> [table |-> {}, log |-> {}]] /\ man = [tables |-> {}, next |-> 0, seq |-> 0]
  /\ phase = "find"
  /\ logs = <<>> /\ todo = {} /\ found = {} /\ next = 1 /\ src = None /\ copy = None
  /\ crashes = 0 /\ failed = FALSE

Next ==
  \/ FindFiles \/ ConvertLogToTable \/ ArchiveConverted
  \/ ScanTable \/ CreateCopy \/ ArchiveSource \/ FinishCopy \/ RenameCopy
  \/ WriteDescriptor \/ ArchiveManifests \/ InstallManifest \/ SetCurrentFile
  \/ DescriptorFails \/ Crash

Spec == Init /\ [][Next]_vars

-----------------------------------------------------------------------------
(* Properties                                                              *)

Readable == UNION {tabc[n].readable : n \in dir.tables}
InLogs == UNION {Undamaged(logc[n]) : n \in dir.logs}
Listed == UNION {tabc[n].readable : n \in man.tables}
Archived == UNION {lost[n].table \cup lost[n].log : n \in Numbers}

\* The builder holds what was read from a source that is in lost/ by then, so
\* nothing that could be read is ever in neither the directory nor lost/,
\* whatever fails and wherever the process dies.
NothingVanishes ==
  Readable \cup InLogs \cup Archived \subseteq Readable' \cup InLogs' \cup Archived'

\* When no operation failed and repair was not interrupted, all that can be
\* read of tables and logs is in the repaired database.
AllIsListed ==
  phase = "done" /\ ~failed /\ crashes = 0 => Archived \cup Readable \subseteq Listed

\* A repaired database can be opened and written to: CURRENT names the manifest,
\* its tables are there and can be read, new files and new writes get numbers
\* beyond the old ones.
CanBeUsed ==
  phase = "done" =>
    /\ dir.current \in dir.manifests /\ man.tables \subseteq dir.tables
    /\ \A n \in man.tables : tabc[n].state = "whole" /\ n < man.next
    /\ \A e \in Listed : e.s =< man.seq

\* A comment says that damage causes whole commits to be skipped: no entry of
\* the repaired database is anything but what was written.
DamageIsSkipped == \A e \in Listed : e.good

\* Level 0 is searched from the largest file number down, and the first table
\* with the key answers: what that finds is the newest entry.
NewestAnswers ==
  phase = "done" =>
    \A k \in {e.k : e \in Listed} :
      LET has(n) == {e \in tabc[n].readable : e.k = k}
          first  == Max({n \in man.tables : has(n) # {}})
      IN  Max(Seqs(has(first))) = Max(Seqs({e \in Listed : e.k = k}))

\* A comment says that RepairTable archives its input: no table with readable
\* entries is left for DeleteObsoleteFiles to delete at the next open.
InputIsArchived == phase = "done" => \A n \in dir.tables \ man.tables : tabc[n].readable \subseteq Archived \cup Listed
=============================================================================
