------------------------------ MODULE References ------------------------------
(***************************************************************************)
(* Who keeps what alive in a leveldb database: versions, FileMetaData and  *)
(* memtables are counted by reference, versions are on a doubly linked     *)
(* list, and the tables on disk follow the list.  Gets and iterators take  *)
(* their references under the mutex and use them without it; the           *)
(* background thread builds a new version, lets go of the mutex while the  *)
(* manifest is written, and installs or deletes the version afterwards.    *)
(*                                                                         *)
(* Every action is what happens between two points where the mutex is      *)
(* free.  The levels and the contents of files are in Levels; here a       *)
(* version has a set of files, and a file object its table's number.       *)
(***************************************************************************)
EXTENDS Integers, FiniteSets, FiniteSetsExt, TLC

CONSTANTS
  Readers,                              \* Gets and iterators under way at most
  MaxVersions, MaxFiles, MaxMems,       \* bounds: objects ever allocated
  Recovered,                            \* tables the manifest names at the start
  None

ReferencesAssumption ==
  /\ {MaxVersions, MaxFiles, MaxMems, Recovered} \subseteq Nat
  /\ MaxVersions > 1 /\ MaxMems > 0 /\ Recovered =< MaxFiles
  /\ None \notin Nat

VARIABLES
  h,            \* versions, the links between them and file objects
  current,      \* VersionSet::current_
  mrefs,        \* MemTable::refs_
  mem, imm,
  held,         \* what each reader has: kind, version, mem, imm (IterState)
  job,          \* the background thread: kind, stage, base, inputs, added, v
  disk,         \* numbers of the tables in the directory
  pending,      \* pending_outputs_
  bgError, open,
  versions, files, mems       \* how many were ever allocated

heap == <<h, current, mrefs, mem, imm>>
made == <<versions, files, mems>>
vars == <<heap, held, job, disk, pending, bgError, open, made>>

Dummy == 0                    \* dummy_versions_
Versions == 1..MaxVersions
Files == 1..MaxFiles
Mems == 1..MaxMems
Freed == -1                   \* the count of what is not allocated

Nothing == [kind |-> "none", version |-> None, mem |-> None, imm |-> None]
Idle == [kind |-> "none", stage |-> "", base |-> None, inputs |-> {}, added |-> {}, v |-> None]

-----------------------------------------------------------------------------
(* Counting                                                                *)

\* A file of a version that goes away; the last one deletes it.
DropFile(file, f) ==
  [file EXCEPT ![f].refs = IF @ - 1 =< 0 THEN Freed ELSE @ - 1]

\* Version::~Version: off the list, and one reference less for its files.
DeleteVersion(g, v) ==
  [g EXCEPT !.next[g.prev[v]] = g.next[v],
            !.prev[g.next[v]] = g.prev[v],
            !.ver[v].refs = Freed,
            !.file = FoldSet(LAMBDA f, file : DropFile(file, f), g.file, g.ver[v].files)]

Ref(g, v) == [g EXCEPT !.ver[v].refs = @ + 1]

Unref(g, v) ==
  IF g.ver[v].refs - 1 = 0 THEN DeleteVersion(g, v) ELSE [g EXCEPT !.ver[v].refs = @ - 1]

MemUnref(refs, m) ==
  IF m = None THEN refs ELSE [refs EXCEPT ![m] = IF @ - 1 =< 0 THEN Freed ELSE @ - 1]

MemRef(refs, m) == IF m = None THEN refs ELSE [refs EXCEPT ![m] = @ + 1]

\* VersionSet::AppendVersion
AppendVersion(g, cur, v) ==
  LET a == Ref(IF cur = None THEN g ELSE Unref(g, cur), v)
      last == a.prev[Dummy]
  IN  [a EXCEPT !.next[last] = v, !.next[v] = Dummy, !.prev[v] = last, !.prev[Dummy] = v]

\* The references of a Builder to the files it added go with it.
DropAdded(g, added) ==
  [g EXCEPT !.file = FoldSet(LAMBDA f, file : DropFile(file, f), g.file, added)]

\* Builder::SaveTo, MaybeAddFile: the version refers to all its files.
CountFiles(g, fs) ==
  [g EXCEPT !.file = [f \in Files |-> IF f \in fs THEN [@[f] EXCEPT !.refs = @ + 1] ELSE @[f]]]

\* A Builder on the version base, the edit applied and saved in the new
\* version v, the Builder destroyed.  nums are the tables the edit adds.
Build(g, base, v, deleted, added, nums) ==
  LET b1 == Ref(g, base)
      b2 == [b1 EXCEPT !.file = [f \in Files |-> IF f \in added THEN [refs |-> 1, num |-> nums[f]] ELSE @[f]]]
      fs == (g.ver[base].files \ deleted) \cup added
      b3 == CountFiles([b2 EXCEPT !.ver[v] = [refs |-> 0, files |-> fs],
                                  !.next[v] = v, !.prev[v] = v], fs)
  IN  Unref(DropAdded(b3, added), base)

-----------------------------------------------------------------------------
(* Readers                                                                 *)

\* Mistake: an iterator relies on the version being current.
Pinned_Not(g, v) == g

Pinned(g, v) == Ref(g, v)

\* DBImpl::Get up to the unlock, or NewInternalIterator.
Begin(r, kind) ==
  /\ open /\ held[r].kind = "none"
  /\ h' = Pinned(h, current)
  /\ mrefs' = MemRef(MemRef(mrefs, mem), imm)
  /\ held' = [held EXCEPT ![r] = [kind |-> kind, version |-> current, mem |-> mem, imm |-> imm]]
  /\ UNCHANGED <<current, mem, imm, job, disk, pending, bgError, open, made>>

\* The end of Get, or CleanupIteratorState when the iterator is deleted.
End(r) ==
  /\ held[r].kind # "none"
  /\ mrefs' = MemUnref(MemUnref(mrefs, held[r].mem), held[r].imm)
  /\ h' = Unref(h, held[r].version)
  /\ held' = [held EXCEPT ![r] = Nothing]
  /\ UNCHANGED <<current, mem, imm, job, disk, pending, bgError, open, made>>

-----------------------------------------------------------------------------
(* The background thread                                                   *)

\* MakeRoomForWrite: mem_ and its reference become imm_.
SwitchMemTable ==
  /\ open /\ imm = None /\ ~bgError /\ mems < MaxMems
  /\ imm' = mem /\ mem' = mems + 1
  /\ mrefs' = [mrefs EXCEPT ![mems + 1] = 1]
  /\ mems' = mems + 1
  /\ UNCHANGED <<h, current, held, job, disk, pending, bgError, open, versions, files>>

\* The versions between the links of dummy_versions_.
OnList(g) == {v \in Versions : g.prev[v] \notin {None, v} /\ g.next[g.prev[v]] = v}

AddLiveFiles(g) == {g.file[f].num : f \in UNION {g.ver[v].files : v \in OnList(g)}}

\* DBImpl::DeleteObsoleteFiles
Collected(g, pend, err) == IF err THEN disk ELSE disk \cap (AddLiveFiles(g) \cup pend)

\* CompactMemTable until WriteLevel0Table releases the mutex.
BeginFlush ==
  /\ open /\ job.kind = "none" /\ imm # None /\ ~bgError /\ files < MaxFiles
  /\ h' = Ref(h, current)
  /\ files' = files + 1
  /\ pending' = pending \cup {files + 1}
  /\ job' = [Idle EXCEPT !.kind = "flush", !.stage = "work", !.base = current, !.added = {files + 1}]
  /\ UNCHANGED <<current, mrefs, mem, imm, held, disk, bgError, open, versions, mems>>

\* PickCompaction or CompactRange; DoCompactionWork opens an output.
BeginCompaction(inputs) ==
  /\ open /\ job.kind = "none" /\ imm = None /\ ~bgError /\ files < MaxFiles
  /\ h' = Ref(h, current)
  /\ files' = files + 1
  /\ pending' = pending \cup {files + 1}
  /\ job' = [Idle EXCEPT !.kind = "compact", !.stage = "work", !.base = current, !.inputs = inputs,
                         !.added = {files + 1}]
  /\ UNCHANGED <<current, mrefs, mem, imm, held, disk, bgError, open, versions, mems>>

\* LogAndApply until it releases the mutex.
LogAndApply(g) ==
  /\ versions < MaxVersions
  /\ versions' = versions + 1
  /\ h' = Build(g, current, versions + 1, job'.inputs, job'.added,
                [f \in job'.added |-> IF job'.kind = "move" THEN h.file[Max(job'.inputs)].num ELSE f])

\* A move to the next level: a new object for the same table.
BeginMove(f) ==
  /\ open /\ job.kind = "none" /\ imm = None /\ ~bgError /\ files < MaxFiles
  /\ files' = files + 1
  /\ job' = [Idle EXCEPT !.kind = "move", !.stage = "apply", !.base = current, !.inputs = {f},
                         !.added = {files + 1}, !.v = versions + 1]
  /\ LogAndApply(Ref(h, current))
  /\ UNCHANGED <<current, mrefs, mem, imm, held, disk, pending, bgError, open, mems>>

\* The table is written.  A flush lets go of base and of its number here.
Worked ==
  /\ job.stage = "work"
  /\ disk' = disk \cup job.added
  /\ job' = [job EXCEPT !.stage = "apply", !.v = versions + 1,
                        !.base = IF job.kind = "flush" THEN None ELSE @]
  /\ pending' = IF job.kind = "flush" THEN pending \ job.added ELSE pending
  /\ LogAndApply(IF job.kind = "flush" THEN Unref(h, job.base) ELSE h)
  /\ UNCHANGED <<current, mrefs, mem, imm, held, bgError, open, files, mems>>

\* Compaction::ReleaseInputs, and ~Compaction for what was not released.
ReleaseInputs(g) == IF job.base = None THEN g ELSE Unref(g, job.base)

\* The table could not be written: RecordBackgroundError, cleaned up.
WorkFails ==
  /\ job.stage = "work"
  /\ disk' \in {disk, IF job.kind = "flush" THEN disk ELSE disk \cup job.added}
  /\ h' = ReleaseInputs(h)
  /\ pending' = pending \ job.added
  /\ bgError' = TRUE
  /\ job' = Idle
  /\ UNCHANGED <<current, mrefs, mem, imm, held, open, made>>

\* The job lets go of its inputs, then obsolete files are deleted.
AfterJob(g) ==
  /\ h' = ReleaseInputs(g)
  /\ disk' = IF job.kind = "move" THEN disk ELSE Collected(h', pending', bgError')

\* The manifest is written: AppendVersion, and what follows LogAndApply.
Applied ==
  /\ job.stage = "apply"
  /\ current' = job.v
  /\ pending' = pending \ job.added
  /\ imm' = IF job.kind = "flush" THEN None ELSE imm
  /\ mrefs' = IF job.kind = "flush" THEN MemUnref(mrefs, imm) ELSE mrefs
  /\ bgError' = bgError
  /\ AfterJob(AppendVersion(h, current, job.v))
  /\ job' = Idle
  /\ UNCHANGED <<mem, held, open, made>>

\* The manifest could not be written: the new version is deleted.
ApplyFails ==
  /\ job.stage = "apply"
  /\ pending' = pending \ job.added
  /\ bgError' = TRUE
  /\ AfterJob(DeleteVersion(h, job.v))
  /\ job' = Idle
  /\ UNCHANGED <<current, mrefs, mem, imm, held, open, made>>

-----------------------------------------------------------------------------
(* Open and close                                                          *)

\* VersionSet::VersionSet and Recover, whose Builder lasts until the recovered
\* version is installed.
Fresh ==
  LET zero == [ver  |-> [v \in Versions |-> [refs |-> Freed, files |-> {}]],
               next |-> [v \in 0..MaxVersions |-> IF v = Dummy THEN Dummy ELSE None],
               prev |-> [v \in 0..MaxVersions |-> IF v = Dummy THEN Dummy ELSE None],
               file |-> [f \in Files |-> [refs |-> Freed, num |-> None]]]
      g1   == AppendVersion([zero EXCEPT !.ver[1].refs = 0, !.next[1] = 1, !.prev[1] = 1], None, 1)
      fs   == 1..Recovered
      g2   == Ref([g1 EXCEPT !.file = [f \in Files |-> IF f \in fs THEN [refs |-> 1, num |-> f] ELSE @[f]]], 1)
      g3   == CountFiles([g2 EXCEPT !.ver[2] = [refs |-> 0, files |-> fs],
                                    !.next[2] = 2, !.prev[2] = 2], fs)
  IN  Unref(DropAdded(AppendVersion(g3, 1, 2), fs), 1)

Init ==
  /\ h = Fresh /\ current = 2
  /\ mrefs = [m \in Mems |-> IF m = 1 THEN 1 ELSE Freed]
  /\ mem = 1 /\ imm = None
  /\ held = [r \in Readers |-> Nothing] /\ job = Idle
  /\ disk = 1..Recovered /\ pending = {}
  /\ bgError = FALSE /\ open = TRUE
  /\ versions = 2 /\ files = Recovered /\ mems = 1

\* DBImpl::~DBImpl, when the caller has finished reading and the background
\* thread is done.
Close ==
  /\ open /\ job.kind = "none" /\ \A r \in Readers : held[r].kind = "none"
  /\ h' = Unref(h, current)
  /\ mrefs' = MemUnref(MemUnref(mrefs, mem), imm)
  /\ open' = FALSE /\ current' = None /\ mem' = None /\ imm' = None
  /\ UNCHANGED <<held, job, disk, pending, bgError, made>>

Next ==
  \/ \E r \in Readers : Begin(r, "get") \/ Begin(r, "iter") \/ End(r)
  \/ SwitchMemTable
  \/ BeginFlush
  \/ open /\ \E inputs \in (SUBSET h.ver[current].files) \ {{}} : BeginCompaction(inputs)
  \/ open /\ \E f \in h.ver[current].files : BeginMove(f)
  \/ Worked \/ WorkFails \/ Applied \/ ApplyFails
  \/ Close

Spec == Init /\ [][Next]_vars

-----------------------------------------------------------------------------
(* Properties                                                              *)

Pointed == {current, job.base} \cup {held[r].version : r \in Readers}
Allocated == {v \in Versions : h.ver[v].refs >= 0}

\* Every version has as many references as there are pointers to it: it is
\* neither freed under a reader nor kept when the last one has gone.
CountsAreExact ==
  \A v \in Versions :
    LET n == Cardinality({r \in Readers : held[r].version = v})
             + (IF current = v THEN 1 ELSE 0) + (IF job.base = v THEN 1 ELSE 0)
    IN  h.ver[v].refs = IF n > 0 \/ job.v = v THEN n ELSE Freed

\* A file object has a reference for each allocated version it is in, the one
\* that is not installed yet included, and exists no longer than they do.
FilesAreCounted ==
  \A f \in Files :
    LET n == Cardinality({v \in Allocated : f \in h.ver[v].files})
    IN  h.file[f].refs = IF n > 0 THEN n ELSE Freed

\* A reader's memtables and the ones the database writes to and flushes are
\* there, and no other.
MemTablesAreCounted ==
  \A m \in Mems :
    LET n == Cardinality({r \in Readers : held[r].mem = m}) + Cardinality({r \in Readers : held[r].imm = m})
             + (IF m \in {mem, imm} THEN 1 ELSE 0)
    IN  mrefs[m] = IF n > 0 THEN n ELSE Freed

\* The list has the versions in use and no other, oldest first, both ways; the
\* one waiting for the manifest is not on it.
ListIsInOrder ==
  LET live == {v \in Versions : h.ver[v].refs > 0} \cup {Dummy}
      After(v) == {u \in live : u > v}
      Then(v) == IF After(v) = {} THEN Dummy ELSE Min(After(v))
  IN  \A v \in live : h.next[v] = Then(v) /\ h.prev[Then(v)] = v

\* Whatever version somebody may still read, its tables are on disk.
TablesStay ==
  \A v \in (Pointed \ {None}) : {h.file[f].num : f \in h.ver[v].files} \subseteq disk

\* When a flush or a compaction is done and nobody reads, what it replaced is
\* deleted: the tables left are those of the current version.
GarbageGoes ==
  Applied /\ job.kind # "move" /\ (\A r \in Readers : held[r].kind = "none")
    => disk' = {h'.file[f].num : f \in h'.ver[current'].files}

-----------------------------------------------------------------------------
(***************************************************************************)
(* The doubly linked list of the snapshots of a leveldb database.  A       *)
(* compaction asks it for the oldest one and drops what that one cannot    *)
(* see; snapshots are released in any order.                               *)
(***************************************************************************)

CONSTANTS MaxSnapshots, MaxSequence      \* bounds

SnapshotListAssumption == MaxSnapshots \in Nat /\ MaxSequence \in Nat

VARIABLES
  nextSnap, prevSnap,    \* the links; 0 is list_, the dummy head
  numberOf,      \* number_
  liveSnaps,     \* the snapshots callers have
  lastSeq, madeSnaps

snapshotVars == <<nextSnap, prevSnap, numberOf, liveSnaps, lastSeq, madeSnaps>>

Snapshots == 1..MaxSnapshots
Head == 0

empty == nextSnap[Head] = Head
oldest == nextSnap[Head]
newest == prevSnap[Head]

\* DBImpl::GetSnapshot: SnapshotList::New(versions_->LastSequence())
New ==
  /\ madeSnaps < MaxSnapshots
  /\ LET s == madeSnaps + 1 IN
       /\ nextSnap' = [nextSnap EXCEPT ![prevSnap[Head]] = s, ![s] = Head]
       /\ prevSnap' = [prevSnap EXCEPT ![Head] = s, ![s] = prevSnap[Head]]
       /\ numberOf' = [numberOf EXCEPT ![s] = lastSeq]
       /\ liveSnaps' = liveSnaps \cup {s}
       /\ madeSnaps' = s
  /\ UNCHANGED lastSeq

Unlink(s) ==
  /\ nextSnap' = [nextSnap EXCEPT ![prevSnap[s]] = nextSnap[s]]
  /\ prevSnap' = [prevSnap EXCEPT ![nextSnap[s]] = prevSnap[s]]

\* DBImpl::ReleaseSnapshot
Delete(s) ==
  /\ Unlink(s)
  /\ liveSnaps' = liveSnaps \ {s}
  /\ UNCHANGED <<numberOf, lastSeq, madeSnaps>>

\* DBImpl::Write moves the last sequence number on.
Write ==
  /\ lastSeq < MaxSequence
  /\ lastSeq' = lastSeq + 1
  /\ UNCHANGED <<nextSnap, prevSnap, numberOf, liveSnaps, madeSnaps>>

SnapshotInit ==
  /\ nextSnap = [s \in {Head} \cup Snapshots |-> Head] /\ prevSnap = nextSnap
  /\ numberOf = [s \in Snapshots |-> 0]
  /\ liveSnaps = {} /\ lastSeq = 0 /\ madeSnaps = 0

SnapshotNext == New \/ Write \/ \E s \in liveSnaps : Delete(s)

SnapshotSpec == SnapshotInit /\ [][SnapshotNext]_snapshotVars

-----------------------------------------------------------------------------

\* DoCompactionWork: what is hidden at this number is dropped.
SmallestSnapshot == IF empty THEN lastSeq ELSE numberOf[oldest]

\* Whatever snapshots were released and in whatever order, a compaction drops
\* nothing that a snapshot still held, or a reader from now on, can see: the
\* number it goes by is the smallest of theirs and of the last write.
NobodySeesLess == SmallestSnapshot = Min({numberOf[s] : s \in liveSnaps} \cup {lastSeq})

\* The links hold the live snapshots and no other, both ways, and the list is
\* empty when the last one was released.
LinksMatch ==
  LET on == liveSnaps \cup {Head}
  IN  \A s \in on : nextSnap[s] \in on /\ prevSnap[nextSnap[s]] = s /\ (s # Head => numberOf[s] =< lastSeq)

=============================================================================
