------------------------------ MODULE Durability ------------------------------
(***************************************************************************)
(* What a leveldb database keeps on disk and how it comes back: logs,      *)
(* tables, manifests, temporary files and CURRENT; DB::Open with NewDB,    *)
(* Recover and RecoverLogFile; LogAndApply; the flush of a memtable and a  *)
(* compaction as far as files are concerned; DeleteObsoleteFiles.          *)
(*                                                                         *)
(* Between any two file operations the process or the machine may crash.   *)
(* When the machine does, a file keeps at least what was synced, and the   *)
(* directory some state since the last sync of any file: its operations    *)
(* take effect in order.                                                   *)
(*                                                                         *)
(* A batch is [id, seq]; an edit names the tables added and deleted.       *)
(***************************************************************************)
EXTENDS Integers, Sequences, FiniteSets, SequencesExt

CONSTANTS
  MaxWrites, MaxFiles, MaxCrashes, MaxCompactions, MaxPins,    \* bounds
  BufferSize,          \* write_buffer_size, in batches
  ReuseLogs,           \* Options::reuse_logs
  Preexisting,         \* the database was created and closed before
  MachineCrashes,      \* the machine may crash, not only the process
  MayFail              \* which operations may fail: "manifest"

DurabilityAssumption ==
  /\ {MaxWrites, MaxFiles, MaxCrashes, MaxCompactions, MaxPins, BufferSize} \subseteq Nat
  /\ BufferSize > 0 /\ MaxFiles > 2
  /\ {ReuseLogs, Preexisting, MachineCrashes} \subseteq BOOLEAN /\ MayFail \subseteq {"manifest"}

VARIABLES
  dir,          \* the names in the database directory, by kind and number
  lost,         \* older states of it that a crash of the machine may bring back
  logc, manc,   \* contents of logs and manifests: records, how many are synced
  tabc,         \* contents of tables, complete when they were synced
  phase,        \* where DB::Open is, or "run"
  v,            \* VersionSet and DBImpl: all that a crash wipes out
  job,          \* what the background thread is doing
  acked,        \* ghost: batches acknowledged, those with sync in must
  must,
  overwritten,  \* ghost: a file in use was created anew
  writes, crashes, compactions

disk  == <<dir, lost, logc, manc, tabc>>
ghost == <<acked, must, overwritten>>
count == <<writes, crashes, compactions>>
vars  == <<disk, phase, v, job, ghost, count>>

Numbers == 1..MaxFiles
Empty == [recs |-> <<>>, synced |-> 0]
None == 0

-----------------------------------------------------------------------------
(* The file system (external, as env_posix.cc uses it)                     *)

\* The directory changes; the old state may come back.
ChangeDir(d) == dir' = d /\ lost' = lost \cup {dir}

\* A sync of a file also commits the directory.
CommitDir(d) == dir' = d /\ lost' = {}

Appended(f, r) == [f EXCEPT !.recs = Append(@, r)]
SyncedFile(f) == [f EXCEPT !.synced = Len(f.recs)]

\* Of a file, the machine keeps at least what was synced.
Cuts(f) == f.synced..Len(f.recs)

\* What the files with the given numbers may hold after the machine crashed:
\* any part of what was not synced, from its beginning.
AfterCrash(f, nums) ==
  LET loose == {n \in nums : f[n].synced < Len(f[n].recs)}
      Cut(n, k) == [recs |-> SubSeq(f[n].recs, 1, k), synced |-> k]
  IN  {[n \in Numbers |-> IF n \in loose THEN Cut(n, keep[n]) ELSE f[n]] :
         keep \in {k \in [loose -> UNION {Cuts(f[n]) : n \in loose}] :
                     \A n \in loose : k[n] \in Cuts(f[n])}}

-----------------------------------------------------------------------------
(* Edits and versions                                                      *)

\* A VersionEdit; None stands for a field that is not set.
Edit(add, del, log, next, seq) ==
  [add |-> add, del |-> del, log |-> log, next |-> next, seq |-> seq, full |-> TRUE]

\* WriteSnapshot: the files only.
Snapshot(live) ==
  [add |-> live, del |-> {}, log |-> None, next |-> None, seq |-> 0, full |-> FALSE]

NewDBEdit == Edit({}, {}, 0, 2, 0)

\* VersionSet::Recover: apply the edits in order, keep the last of each field.  A
\* table is live if no edit after the last that added it deletes it.
Replay(recs) ==
  LET full == {i \in DOMAIN recs : recs[i].full}
      last == recs[CHOOSE i \in full : \A j \in full : j =< i]
  IN  [live |-> {t \in Numbers : \E i \in DOMAIN recs :
                   /\ t \in recs[i].add
                   /\ \A j \in DOMAIN recs : j > i => t \notin recs[j].del},
       log  |-> IF full = {} THEN None ELSE last.log,
       next |-> IF full = {} THEN None ELSE last.next,
       seq  |-> IF full = {} THEN 0 ELSE last.seq,
       any  |-> full # {}]

NoJob == [kind |-> "none", stage |-> "", num |-> None, ents |-> {}, edit |-> NewDBEdit]

\* The VersionSet and DBImpl of a process that has just started.
Fresh ==
  [live |-> {}, logNo |-> 0, manifest |-> None, descriptor |-> FALSE, next |-> 2, seq |-> 0,
   mem |-> {}, imm |-> {}, hasImm |-> FALSE, logfile |-> None, edit |-> {}, save |-> FALSE,
   todo |-> {}, pins |-> <<>>, pending |-> {}, bgError |-> FALSE]

\* NewFileNumber is v.next; the counter moves on.
Bumped == v.next + 1

\* AddLiveFiles: the files of every version somebody refers to.
LiveFiles == v.live \cup UNION Range(v.pins)

\* A table or log with the number n is created over one that is in use.
Clobbers(kind, n) ==
  \/ kind = "table" /\ n \in LiveFiles \cup v.pending
  \/ kind = "log" /\ n \in dir.logs /\ n >= v.logNo

-----------------------------------------------------------------------------
(* DB::Open                                                                *)

Quiet == UNCHANGED <<ghost, count, job>>

\* Recover looks for CURRENT.
OpenStart ==
  /\ phase = "down"
  /\ v' = Fresh
  /\ phase' = IF dir.current = None THEN "newdb" ELSE "recover"
  /\ UNCHANGED disk /\ Quiet

\* NewDB: the first manifest is written and closed.
NewDBManifest ==
  /\ phase = "newdb"
  /\ ChangeDir([dir EXCEPT !.manifests = @ \cup {1}])
  /\ manc' = [manc EXCEPT ![1] = Appended(Empty, NewDBEdit)]
  /\ phase' = "newdbtemp"
  /\ UNCHANGED <<logc, tabc, v>> /\ Quiet

\* SetCurrentFile: a temporary file is written and synced, then renamed.
WriteTemp(n, then) ==
  /\ CommitDir([dir EXCEPT !.temps = @ \cup {n}])
  /\ phase' = then
  /\ UNCHANGED <<logc, manc, tabc, v>> /\ Quiet

RenameTemp(n, then) ==
  /\ ChangeDir([dir EXCEPT !.temps = @ \ {n}, !.current = n])
  /\ phase' = then
  /\ UNCHANGED <<logc, manc, tabc, v>> /\ Quiet

NewDBTemp   == phase = "newdbtemp" /\ WriteTemp(1, "newdbname")
NewDBRename == phase = "newdbname" /\ RenameTemp(1, "recover")

\* The logs that may hold batches no table has.
LogsToRecover(log) == {n \in dir.logs : n >= log}

\* ReuseManifest appends to the manifest there is.
ReuseManifest == ReuseLogs

\* A file counts as present when a name of any kind has its number.
Listed == dir.logs \cup dir.tables \cup dir.manifests \cup dir.temps

\* VersionSet::Recover and the check for missing tables.
RecoverVersions ==
  /\ phase = "recover"
  /\ LET n  == dir.current
         st == Replay(manc[n].recs)
         ok == n \in dir.manifests /\ st.any /\ st.live \subseteq Listed
     IN  /\ phase' = IF ok THEN "logs" ELSE "corrupt"
         /\ v' = IF ~ok THEN v
                 ELSE [v EXCEPT !.live = st.live, !.logNo = st.log, !.seq = st.seq,
                                !.manifest = IF ReuseManifest THEN n ELSE st.next,
                                !.descriptor = ReuseManifest,
                                !.save = ~ReuseManifest,
                                !.next = st.next + 1,
                                !.todo = LogsToRecover(st.log)]
  /\ UNCHANGED disk /\ Quiet

\* The records of a log in the memtables RecoverLogFile makes of them: it goes
\* on with a new one when one holds more than BufferSize.
Chunks(recs) ==
  LET Nth(i) == (i - 1) \div (BufferSize + 1)   \* the memtable of a record, from 0
      k == Len(recs) \div (BufferSize + 1)
  IN  [full |-> [m \in 1..k |-> {recs[i] : i \in {j \in DOMAIN recs : Nth(j) = m - 1}}],
       rest |-> {recs[i] : i \in {j \in DOMAIN recs : Nth(j) >= k}}]

MarkFileNumberUsed(next, n) == IF next =< n THEN n + 1 ELSE next

\* Mistake: what the logs say is left out.
MaxSequence_Manifest(recs) == v.seq

MaxSequence(recs) ==
  IF recs = <<>> \/ Last(recs).seq < v.seq THEN v.seq ELSE Last(recs).seq

\* RecoverLogFile, of the oldest log: tables for full memtables; the last log may
\* be kept in use.
RecoverLogFile(n) ==
  /\ phase = "logs" /\ \A m \in v.todo : n =< m
  /\ LET recs  == logc[n].recs
         ch    == Chunks(recs)
         reuse == ReuseLogs /\ v.todo = {n} /\ ch.full = <<>>
         tabs  == IF reuse \/ ch.rest = {} THEN ch.full ELSE Append(ch.full, ch.rest)
         Num(i) == v.next + i - 1
         nums  == {Num(i) : i \in DOMAIN tabs}
     IN  /\ v.next + Len(tabs) =< MaxFiles /\ n < MaxFiles
         /\ overwritten' = (overwritten \/ \E m \in nums : Clobbers("table", m))
         /\ IF tabs = <<>> THEN UNCHANGED <<dir, lost, tabc>>
            ELSE /\ CommitDir([dir EXCEPT !.tables = @ \cup nums])
                 /\ tabc' = [m \in Numbers |-> IF m \in nums THEN tabs[m - v.next + 1] ELSE tabc[m]]
         /\ v' = [v EXCEPT !.todo = @ \ {n}, !.edit = @ \cup nums,
                           !.save = @ \/ tabs # <<>>,
                           !.seq = MaxSequence(recs),
                           !.next = MarkFileNumberUsed(v.next + Len(tabs), n),
                           !.logfile = IF reuse THEN n ELSE None,
                           !.mem = IF reuse THEN ch.rest ELSE {}]
  /\ UNCHANGED <<logc, manc, phase, job, acked, must, count>>

\* A new log, unless one is reused.
NewLog ==
  /\ phase = "logs" /\ v.todo = {} /\ v.logfile = None /\ v.next =< MaxFiles
  /\ ChangeDir([dir EXCEPT !.logs = @ \cup {v.next}])
  /\ logc' = [logc EXCEPT ![v.next] = Empty]
  /\ overwritten' = (overwritten \/ Clobbers("log", v.next))
  /\ v' = [v EXCEPT !.logfile = v.next, !.next = Bumped]
  /\ UNCHANGED <<manc, tabc, phase, job, acked, must, count>>

OpenEdit == Edit(v.edit, {}, v.logfile, v.next, v.seq)

\* LogAndApply of the recovered state.  A new manifest begins with a snapshot.
OpenManifest ==
  /\ phase = "logs" /\ v.logfile # None /\ v.save
  /\ v.manifest =< MaxFiles
  /\ LET m == v.manifest IN
     \/ /\ v.descriptor
        /\ manc' = [manc EXCEPT ![m] = Appended(@, OpenEdit)]
        /\ UNCHANGED <<dir, lost>>
     \/ /\ ~v.descriptor
        /\ ChangeDir([dir EXCEPT !.manifests = @ \cup {m}])
        /\ manc' = [manc EXCEPT ![m] = Appended(Appended(Empty, Snapshot(v.live)), OpenEdit)]
  /\ phase' = "opensync"
  /\ UNCHANGED <<logc, tabc, v>> /\ Quiet

SyncsManifest(f) == SyncedFile(f)

OpenSync ==
  /\ phase = "opensync"
  /\ manc' = [manc EXCEPT ![v.manifest] = SyncsManifest(@)]
  /\ CommitDir(dir)
  /\ phase' = IF v.descriptor THEN "install" ELSE "opentemp"
  /\ UNCHANGED <<logc, tabc, v>> /\ Quiet

OpenTemp   == phase = "opentemp" /\ WriteTemp(v.manifest, "openname")
OpenRename == phase = "openname" /\ RenameTemp(v.manifest, "install")

OpenInstall ==
  /\ phase = "install"
  /\ v' = [v EXCEPT !.live = @ \cup v.edit, !.edit = {}, !.logNo = v.logfile,
                    !.descriptor = TRUE]
  /\ phase' = "clean"
  /\ UNCHANGED disk /\ Quiet

\* Nothing has to be written: the manifest and the log are both reused.
OpenReused ==
  /\ phase = "logs" /\ v.logfile # None /\ ~v.save
  /\ phase' = "clean"
  /\ UNCHANGED <<disk, v>> /\ Quiet

\* The new manifest cannot be written or installed: it is removed and DB::Open
\* returns the error (counted as a crash).
OpenFails ==
  /\ crashes < MaxCrashes /\ crashes' = crashes + 1
  /\ phase \in {"opensync", "opentemp", "openname"} /\ "manifest" \in MayFail /\ ~v.descriptor
  /\ ChangeDir([dir EXCEPT !.manifests = @ \ {v.manifest}, !.temps = @ \ {v.manifest}])
  /\ v' = Fresh
  /\ phase' = "down"
  /\ UNCHANGED <<logc, manc, tabc, ghost, job, writes, compactions>>

-----------------------------------------------------------------------------
(* DeleteObsoleteFiles                                                     *)

KeepsLog(n) == n >= v.logNo

\* Mistake: only the files of the current version are kept.
KeepsTable_Current(n) == n \in v.live \cup v.pending

KeepsTable(n) == n \in LiveFiles \cup v.pending

\* Mistake: the manifest in use is removed.
KeepsManifest_Newer(n) == n > v.manifest

KeepsManifest(n) == n >= v.manifest

\* The files to remove, by kind, and the directory without some files.
Obsolete ==
  [logs |-> {n \in dir.logs : ~KeepsLog(n)}, tables |-> {n \in dir.tables : ~KeepsTable(n)},
   manifests |-> {n \in dir.manifests : ~KeepsManifest(n)},
   temps |-> dir.temps \ (LiveFiles \cup v.pending)]

Without(gone) ==
  [dir EXCEPT !.logs = @ \ gone.logs, !.tables = @ \ gone.tables,
              !.manifests = @ \ gone.manifests, !.temps = @ \ gone.temps]

\* They are removed one by one, in whatever order GetChildren lists them.
DeleteObsoleteFiles ==
  /\ dir' = Without(Obsolete)
  /\ lost' = lost \cup {Without(gone) : gone \in
                 [logs : SUBSET Obsolete.logs, tables : SUBSET Obsolete.tables,
                  manifests : SUBSET Obsolete.manifests, temps : SUBSET Obsolete.temps]}

OpenClean ==
  /\ phase = "clean"
  /\ DeleteObsoleteFiles
  /\ phase' = "run"
  /\ UNCHANGED <<logc, manc, tabc, v>> /\ Quiet

-----------------------------------------------------------------------------
(* A database that is open                                                 *)

\* Write: the batch is appended to the log, synced if asked, acknowledged.
Write(sync) ==
  /\ phase = "run" /\ ~v.bgError /\ writes < MaxWrites
  /\ LET b == [id |-> writes + 1, seq |-> v.seq + 1]
         f == Appended(logc[v.logfile], b)
     IN  /\ logc' = [logc EXCEPT ![v.logfile] = IF sync THEN SyncedFile(f) ELSE f]
         /\ IF sync THEN CommitDir(dir) ELSE UNCHANGED <<dir, lost>>
         /\ v' = [v EXCEPT !.mem = @ \cup {b}, !.seq = @ + 1]
         /\ acked' = acked \cup {b.id}
         /\ must' = IF sync THEN must \cup {b.id} ELSE must
  /\ writes' = writes + 1
  /\ UNCHANGED <<manc, tabc, phase, job, overwritten, crashes, compactions>>

\* MakeRoomForWrite: a new log and memtable.
SwitchMemTable ==
  /\ phase = "run" /\ ~v.bgError /\ ~v.hasImm /\ v.mem # {} /\ v.next =< MaxFiles
  /\ ChangeDir([dir EXCEPT !.logs = @ \cup {v.next}])
  /\ logc' = [logc EXCEPT ![v.next] = Empty]
  /\ overwritten' = (overwritten \/ Clobbers("log", v.next))
  /\ v' = [v EXCEPT !.logfile = v.next, !.next = Bumped, !.imm = v.mem, !.mem = {},
                    !.hasImm = TRUE]
  /\ UNCHANGED <<manc, tabc, phase, job, acked, must, count>>

\* WriteLevel0Table or OpenCompactionOutputFile: the number is taken, the file
\* created.
StartTable(kind, ents, del) ==
  /\ phase = "run" /\ job = NoJob /\ ~v.bgError /\ v.next =< MaxFiles
  /\ ChangeDir([dir EXCEPT !.tables = @ \cup {v.next}])
  /\ tabc' = [tabc EXCEPT ![v.next] = {}]
  /\ overwritten' = (overwritten \/ Clobbers("table", v.next))
  /\ v' = [v EXCEPT !.next = Bumped, !.pending = @ \cup {v.next}]
  /\ job' = [kind |-> kind, stage |-> "build", num |-> v.next, ents |-> ents,
             edit |-> Edit({v.next}, del, None, None, 0)]
  /\ UNCHANGED <<logc, manc, phase, acked, must, writes, crashes>>

CompactMemTable ==
  v.hasImm /\ StartTable("mem", v.imm, {}) /\ UNCHANGED compactions

\* A compaction merges some tables into one; nothing is obsolete.
DoCompactionWork ==
  /\ compactions < MaxCompactions /\ ~v.hasImm
  /\ \E T \in SUBSET v.live \ {{}} :
       StartTable("comp", UNION {tabc[t] : t \in T}, T)
  /\ compactions' = compactions + 1

\* The table is complete and synced.  What goes to the manifest is settled
\* when LogAndApply is entered.
FinishTable ==
  /\ job.stage = "build"
  /\ tabc' = [tabc EXCEPT ![job.num] = job.ents]
  /\ CommitDir(dir)
  /\ v' = [v EXCEPT !.pending = IF job.kind = "mem" THEN @ \ {job.num} ELSE @]
  /\ job' = [job EXCEPT !.stage = "append",
               !.edit = [@ EXCEPT !.log = IF job.kind = "mem" THEN v.logfile ELSE v.logNo,
                                  !.next = v.next, !.seq = v.seq]]
  /\ UNCHANGED <<logc, manc, phase, ghost, count>>

\* LogAndApply, without the mutex: append to the manifest, sync it.
AppendEdit ==
  /\ job.stage = "append"
  /\ manc' = [manc EXCEPT ![v.manifest] = Appended(@, job.edit)]
  /\ job' = [job EXCEPT !.stage = "sync"]
  /\ UNCHANGED <<dir, lost, logc, tabc, phase, v, ghost, count>>

SyncEdit ==
  /\ job.stage = "sync"
  /\ manc' = [manc EXCEPT ![v.manifest] = SyncsManifest(@)]
  /\ CommitDir(dir)
  /\ job' = [job EXCEPT !.stage = "install"]
  /\ UNCHANGED <<logc, tabc, phase, v, ghost, count>>

\* Mistake: files are removed before the edit is known to be on disk.
MayInstall_Early(stage) == stage = "sync" \/ stage = "install"

MayInstall(stage) == stage = "install"

\* The new version is installed; what it makes obsolete is removed.
Install ==
  /\ MayInstall(job.stage)
  /\ v' = [v EXCEPT !.live = (@ \ job.edit.del) \cup job.edit.add,
                    !.logNo = job.edit.log,
                    !.pending = @ \ {job.num},
                    !.imm = IF job.kind = "mem" THEN {} ELSE @,
                    !.hasImm = IF job.kind = "mem" THEN FALSE ELSE @]
  /\ job' = [NoJob EXCEPT !.stage = "clean"]
  /\ UNCHANGED <<disk, phase, ghost, count>>

MayCollect == ~v.bgError

Clean ==
  /\ job.stage = "clean"
  /\ \/ MayCollect /\ DeleteObsoleteFiles
     \/ ~MayCollect /\ UNCHANGED <<dir, lost>>
  /\ job' = NoJob
  /\ UNCHANGED <<logc, manc, tabc, phase, v, ghost, count>>

\* The append or the sync fails; the record may be in the file all the same.
\* A compaction cleans up after itself even then.
EditFails ==
  /\ job.stage \in {"append", "sync"} /\ "manifest" \in MayFail
  /\ manc' \in {manc, [manc EXCEPT ![v.manifest] =
                        IF job.stage = "append" THEN Appended(@, job.edit) ELSE @]}
  /\ v' = [v EXCEPT !.bgError = TRUE, !.pending = @ \ {job.num}]
  /\ job' = IF job.kind = "comp" THEN [NoJob EXCEPT !.stage = "clean"] ELSE NoJob
  /\ UNCHANGED <<dir, lost, logc, tabc, phase, ghost, count>>

\* An iterator refers to the version it was made from.
NewIterator ==
  /\ phase = "run" /\ Len(v.pins) < MaxPins /\ v.live # {}
  /\ v' = [v EXCEPT !.pins = Append(@, v.live)]
  /\ UNCHANGED <<disk, phase>> /\ Quiet

-----------------------------------------------------------------------------
(* Crashes                                                                 *)

\* The process dies; what it handed to the operating system is kept.
ProcessCrash ==
  /\ phase # "down" /\ phase # "corrupt" /\ crashes < MaxCrashes
  /\ phase' = "down" /\ v' = Fresh /\ job' = NoJob
  /\ crashes' = crashes + 1
  /\ UNCHANGED <<disk, ghost, writes, compactions>>

\* The machine dies; acknowledged batches that were not synced may be gone.
MachineCrash ==
  /\ MachineCrashes
  /\ phase # "corrupt" /\ crashes < MaxCrashes
  /\ \E d \in lost \cup {dir} : dir' = d
  /\ lost' = {}
  /\ logc' \in AfterCrash(logc, dir'.logs)
  /\ manc' \in AfterCrash(manc, dir'.manifests)
  /\ UNCHANGED tabc
  /\ phase' = "down" /\ v' = Fresh /\ job' = NoJob
  /\ acked' = must
  /\ crashes' = crashes + 1
  /\ UNCHANGED <<must, overwritten, writes, compactions>>

-----------------------------------------------------------------------------

NoDir == [logs |-> {}, tables |-> {}, manifests |-> {}, temps |-> {}, current |-> None]

\* No database, or an empty one that was closed properly.
Init ==
  /\ dir = IF Preexisting THEN [NoDir EXCEPT !.logs = {3}, !.manifests = {2}, !.current = 2]
           ELSE NoDir
  /\ lost = {}
  /\ logc = [n \in Numbers |-> Empty]
  /\ manc = [n \in Numbers |->
               IF Preexisting /\ n = 2
               THEN SyncedFile(Appended(Appended(Empty, Snapshot({})), Edit({}, {}, 3, 4, 0)))
               ELSE Empty]
  /\ tabc = [n \in Numbers |-> {}]
  /\ phase = "down" /\ v = Fresh /\ job = NoJob
  /\ acked = {} /\ must = {} /\ overwritten = FALSE
  /\ writes = 0 /\ crashes = 0 /\ compactions = 0

Open ==
  \/ OpenStart \/ NewDBManifest \/ NewDBTemp \/ NewDBRename
  \/ RecoverVersions \/ (\E n \in v.todo : RecoverLogFile(n)) \/ NewLog
  \/ OpenManifest \/ OpenSync \/ OpenTemp \/ OpenRename \/ OpenInstall
  \/ OpenReused \/ OpenFails \/ OpenClean

Run ==
  \/ \E sync \in BOOLEAN : Write(sync)
  \/ SwitchMemTable \/ CompactMemTable \/ DoCompactionWork
  \/ FinishTable \/ AppendEdit \/ SyncEdit \/ Install \/ Clean \/ EditFails
  \/ NewIterator

Next == Open \/ Run \/ ProcessCrash \/ MachineCrash

Spec == Init /\ [][Next]_vars

-----------------------------------------------------------------------------
(* Properties                                                              *)

\* The batches a read can see.
Contents == v.mem \cup v.imm \cup UNION {tabc[t] : t \in v.live}

\* When the database is open, every batch that must have survived is there:
\* acknowledged ones as long as only processes crashed, synced ones always.
NothingLost == phase = "run" => acked \subseteq {b.id : b \in Contents}

\* No file of a version that the database or an iterator uses is removed or
\* overwritten.
LiveFilesExist ==
  /\ ~overwritten
  /\ phase = "run" => LiveFiles \subseteq dir.tables

\* A batch written now is newer than any batch there is, in the logs, too: after
\* recovery no sequence number is given twice.
SequenceIsNewest ==
  phase = "run" => \A b \in Contents : b.seq =< v.seq

\* When a crash of the machine is survived: the database was there before, as NewDB
\* does not sync the first manifest, and manifests are not reused, as nothing syncs
\* what a killed process left in one before files are removed because of it.
Survivable == MachineCrashes => Preexisting /\ ~ReuseLogs

\* "the creation of the DB is committed only when the descriptor is created"
\* (DBImpl::Recover): whenever the machine crashes, the database can be opened.
CanBeOpened == phase # "corrupt"

=============================================================================
