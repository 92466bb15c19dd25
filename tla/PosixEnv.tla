------------------------------ MODULE PosixEnv ------------------------------
(***************************************************************************)
(* The parts of PosixEnv (util/env_posix.cc), leveldb's view of the operating *)
(* system.  They share no state, so each is a machine of its own: the lock on *)
(* a database, the limits on open tables, the background thread, a file    *)
(* that is written, and the file CURRENT, which is replaced as a whole.    *)
(***************************************************************************)
EXTENDS Integers, Sequences, FiniteSets, SequencesExt

-----------------------------------------------------------------------------
(***************************************************************************)
(* The lock on a database: PosixEnv::LockFile and UnlockFile               *)
(* (util/env_posix.cc), called by DBImpl::Recover, ~DBImpl and DestroyDB.  *)
(* Each process keeps a set of the names it has locked; the kernel keeps   *)
(* record locks, which belong to a process and go when the process closes  *)
(* any descriptor of the file.                                             *)
(***************************************************************************)

CONSTANTS Processes, Threads, None

LocksAssumption == None \notin Processes

VARIABLES
  locked,     \* the process that has the record lock, or None
  listed,     \* the processes whose locks_ has the name
  lockPc      \* where a thread is; it has the file open unless idle or closed

lockVars == <<locked, listed, lockPc>>

LockGoes(p, t, there) == lockPc' = [lockPc EXCEPT ![p][t] = there]

-----------------------------------------------------------------------------
(* The kernel                                                              *)

\* fcntl(F_SETLK) with F_WRLCK
Grants(p) == locked \in {None, p}

\* fcntl(F_SETLK) with F_UNLCK, and what close(2) does
Dropped(p) == IF locked = p THEN None ELSE locked

-----------------------------------------------------------------------------
(* LockFile                                                                *)

\* open(fname, O_RDWR | O_CREAT)
OpenLock(p, t) ==
  /\ lockPc[p][t] = "idle"
  /\ LockGoes(p, t, "opened")
  /\ UNCHANGED <<locked, listed>>

\* PosixLockTable::Insert returns whether the name was new.
IsNew(p) == p \notin listed

InsertName(p, t) ==
  /\ lockPc[p][t] = "opened" /\ IsNew(p)
  /\ listed' = listed \cup {p}
  /\ LockGoes(p, t, "listed")
  /\ UNCHANGED locked

AlreadyHeld(p, t) ==
  /\ lockPc[p][t] = "opened" /\ ~IsNew(p)
  /\ LockGoes(p, t, "refused")
  /\ UNCHANGED <<locked, listed>>

\* "already held by process": the descriptor is closed again.
CloseRefused(p, t) ==
  /\ lockPc[p][t] = "refused"
  /\ locked' = Dropped(p)
  /\ LockGoes(p, t, "idle")
  /\ UNCHANGED listed

\* Mistake: the result of fcntl is not looked at.
Locks_Anyway(p) == TRUE

Locks(p) == Grants(p)

TakeLock(p, t) ==
  /\ lockPc[p][t] = "listed" /\ Locks(p)
  /\ locked' = IF Grants(p) THEN p ELSE locked
  /\ LockGoes(p, t, "holds")
  /\ UNCHANGED listed

\* Another process has the lock: the descriptor is closed.
LockFails(p, t) ==
  /\ lockPc[p][t] = "listed" /\ ~Locks(p)
  /\ locked' = Dropped(p)
  /\ LockGoes(p, t, "closed")
  /\ UNCHANGED listed

\* PosixLockTable::Remove
WithoutName(p) == listed \ {p}

\* Then the name is taken out of the table.
RemoveFailed(p, t) ==
  /\ lockPc[p][t] = "closed"
  /\ listed' = WithoutName(p)
  /\ LockGoes(p, t, "idle")
  /\ UNCHANGED locked

-----------------------------------------------------------------------------
(* UnlockFile                                                              *)

Unlock(p, t) ==
  /\ lockPc[p][t] = "holds"
  /\ locked' = Dropped(p)
  /\ LockGoes(p, t, "unlocked")
  /\ UNCHANGED listed

RemoveName(p, t) ==
  /\ lockPc[p][t] = "unlocked"
  /\ listed' = listed \ {p}
  /\ LockGoes(p, t, "removed")
  /\ UNCHANGED locked

CloseFile(p, t) ==
  /\ lockPc[p][t] = "removed"
  /\ locked' = Dropped(p)
  /\ LockGoes(p, t, "idle")
  /\ UNCHANGED listed

-----------------------------------------------------------------------------

\* A process ends, in whatever state it is, and may be started again.
Exit(p) ==
  /\ locked' = Dropped(p)
  /\ listed' = listed \ {p}
  /\ lockPc' = [lockPc EXCEPT ![p] = [t \in Threads |-> "idle"]]

LocksInit ==
  /\ locked = None /\ listed = {}
  /\ lockPc = [p \in Processes |-> [t \in Threads |-> "idle"]]

LockFile(p, t) == OpenLock(p, t) \/ InsertName(p, t) \/ AlreadyHeld(p, t) \/ CloseRefused(p, t)
                    \/ TakeLock(p, t) \/ LockFails(p, t) \/ RemoveFailed(p, t)
UnlockFile(p, t) == Unlock(p, t) \/ RemoveName(p, t) \/ CloseFile(p, t)

LocksNext ==
  \E p \in Processes :
    \/ \E t \in Threads : LockFile(p, t) \/ UnlockFile(p, t)
    \/ Exit(p)

LocksSpec == LocksInit /\ [][LocksNext]_lockVars

-----------------------------------------------------------------------------
(* Properties                                                              *)

Holders == {h \in Processes \X Threads : lockPc[h[1]][h[2]] = "holds"}

\* env.h says of LockFile that it is used "to prevent concurrent access to the same
\* db by multiple processes".
OneProcess == \A h, g \in Holders : h[1] = g[1]

\* The comment on PosixLockTable: what fcntl does not provide, protection against
\* multiple uses from the same process.
OneInProcess == \A h, g \in Holders : h[1] = g[1] => h = g

\* An attempt that failed leaves nothing behind that would refuse the next one,
\* nor does a process that ended.
LeavesNothing ==
  \A p \in Processes : (\A t \in Threads : lockPc[p][t] = "idle") => p \notin listed /\ locked # p


-----------------------------------------------------------------------------
(***************************************************************************)
(* Tables that are open for reading (util/env_posix.cc).  A file is mapped *)
(* while the limit on maps allows it; further files keep a descriptor,     *)
(* while the limit on those allows it; the rest is opened for every read.  *)
(*                                                                         *)
(* An actor opens a file, reads from it and deletes it, again and again.   *)
(***************************************************************************)

CONSTANTS
  Actors,
  MmapLimit,       \* MaxMmaps()
  FdLimit          \* MaxOpenFiles()

LimitsAssumption == IsFiniteSet(Actors) /\ MmapLimit \in Nat /\ FdLimit \in Nat

Limiters == {"mmap", "fd"}
Limit == [k \in Limiters |-> IF k = "mmap" THEN MmapLimit ELSE FdLimit]

VARIABLES
  allowed,         \* Limiter::allowed_ of mmap_limit_ and fd_limit_
  readPc,          \* where an actor is
  fds, maps        \* the actors that have a descriptor open, a file mapped

limitVars == <<allowed, readPc, fds, maps>>

LimitGoes(a, there) == readPc' = [readPc EXCEPT ![a] = there]

-----------------------------------------------------------------------------
(* Limiter                                                                 *)

\* The test in Acquire, once without mu_ and once with it.
MayTake(k) == allowed[k] > 0

\* Acquire, the first look: at once, or after mu_ is taken.
Look(a, k, at, then, else) ==
  /\ readPc[a] = at
  /\ LimitGoes(a, IF allowed[k] > 0 THEN then ELSE else)
  /\ UNCHANGED <<allowed, fds, maps>>

Acquire(a, k, at, then) ==
  /\ readPc[a] = at /\ MayTake(k)
  /\ allowed' = [allowed EXCEPT ![k] = @ - 1]
  /\ LimitGoes(a, then)
  /\ UNCHANGED <<fds, maps>>

Refused(a, k, at, else) ==
  /\ readPc[a] = at /\ ~MayTake(k)
  /\ LimitGoes(a, else)
  /\ UNCHANGED <<allowed, fds, maps>>

Released(k) == [allowed EXCEPT ![k] = @ + 1]

-----------------------------------------------------------------------------
(* NewRandomAccessFile                                                     *)

OpenTable(a) ==
  /\ readPc[a] = "none"
  /\ fds' = fds \cup {a} /\ LimitGoes(a, "look_mmap")
  /\ UNCHANGED <<allowed, maps>>

LookMmap(a) == Look(a, "mmap", "look_mmap", "lock_mmap", "look_fd")
AcquireMmap(a) == Acquire(a, "mmap", "lock_mmap", "map") \/ Refused(a, "mmap", "lock_mmap", "look_fd")

\* GetFileSize and mmap work; the descriptor is closed.
Map(a) ==
  /\ readPc[a] = "map"
  /\ maps' = maps \cup {a} /\ fds' = fds \ {a} /\ LimitGoes(a, "mapped")
  /\ UNCHANGED allowed

\* mmap_limit_.Release() when the status is not ok.
AfterFailure(k) == Released(k)

MapFails(a) ==
  /\ readPc[a] = "map"
  /\ fds' = fds \ {a} /\ allowed' = AfterFailure("mmap") /\ LimitGoes(a, "none")
  /\ UNCHANGED maps

\* PosixRandomAccessFile::PosixRandomAccessFile
LookFd(a) == Look(a, "fd", "look_fd", "lock_fd", "temporary")
AcquireFd(a) == Acquire(a, "fd", "lock_fd", "kept") \/ Refused(a, "fd", "lock_fd", "temporary")

\* close(fd_); fd_ = -1;
WithoutFd(a) == fds \ {a}

CloseTemporary(a) ==
  /\ readPc[a] = "temporary"
  /\ fds' = WithoutFd(a) /\ LimitGoes(a, "closed")
  /\ UNCHANGED <<allowed, maps>>

-----------------------------------------------------------------------------
(* Use and deletion                                                        *)

\* PosixRandomAccessFile::Read with temporary_fd_; the other two kinds of Read
\* change nothing here.
ReopenRead(a) ==
  /\ readPc[a] = "closed"
  /\ fds' = fds \cup {a} /\ LimitGoes(a, "reading")
  /\ UNCHANGED <<allowed, maps>>

EndRead(a) ==
  /\ readPc[a] = "reading"
  /\ fds' = fds \ {a} /\ LimitGoes(a, "closed")
  /\ UNCHANGED <<allowed, maps>>

\* ~PosixMmapReadableFile
Unmap(a) ==
  /\ readPc[a] = "mapped"
  /\ maps' = maps \ {a} /\ allowed' = Released("mmap") /\ LimitGoes(a, "none")
  /\ UNCHANGED fds

\* ~PosixRandomAccessFile
Deleted(a) == IF readPc[a] = "kept" THEN Released("fd") ELSE allowed

DeleteReader(a) ==
  /\ readPc[a] \in {"kept", "closed"}
  /\ fds' = fds \ {a} /\ allowed' = Deleted(a) /\ LimitGoes(a, "none")
  /\ UNCHANGED maps

LimitsInit ==
  /\ allowed = Limit
  /\ readPc = [a \in Actors |-> "none"]
  /\ fds = {} /\ maps = {}

LimitsNext ==
  \E a \in Actors :
    \/ OpenTable(a) \/ LookMmap(a) \/ AcquireMmap(a) \/ Map(a) \/ MapFails(a)
    \/ LookFd(a) \/ AcquireFd(a) \/ CloseTemporary(a)
    \/ ReopenRead(a) \/ EndRead(a) \/ Unmap(a) \/ DeleteReader(a)

LimitsSpec == LimitsInit /\ [][LimitsNext]_limitVars

-----------------------------------------------------------------------------
(* Properties                                                              *)

\* Threads that race for the last map do not exceed the limit.
MapsLimited == Cardinality(maps) =< MmapLimit

Busy == {a \in Actors : readPc[a] \notin {"none", "mapped", "kept", "closed"}}

\* Descriptors are limited too, but for those of calls under way.
FdsLimited == Cardinality(fds \ Busy) =< FdLimit

\* Nothing is lost and nothing is given back twice: when no file is open all that
\* is limited is free again, after whatever failures.
LimitsComeBack ==
  (\A a \in Actors : readPc[a] = "none") => allowed = Limit /\ fds = {} /\ maps = {}


-----------------------------------------------------------------------------
(***************************************************************************)
(* PosixEnv::Schedule and BGThread (util/env_posix.cc): databases hand     *)
(* work to one thread, which is started for the first of it.               *)
(*                                                                         *)
(* What is done while mu_ is held is one step.  An item is the number of   *)
(* its call.  Schedule is called by any thread, also by the function that  *)
(* runs, as DBImpl::BackgroundCall does.                                   *)
(***************************************************************************)

CONSTANTS
  MaxItems      \* bound: calls of Schedule

VARIABLES
  started,      \* started_bgthread_
  bg,           \* "none", "check", "waiting", "woken" or "run"
  queue, item,  \* queue_; what runs
  calls, ran    \* ghost: items in the order of their calls, and of their runs

threadVars == <<started, bg, queue, item, calls, ran>>

-----------------------------------------------------------------------------

\* The thread may be waiting when the queue is empty.
Signals(q) == q = <<>>

\* queue_.push_back
Queued(q, i) == Append(q, i)

\* Schedule.  pthread_cond_signal without a waiting thread does nothing.
Schedule ==
  /\ Len(calls) < MaxItems
  /\ started' = TRUE
  /\ bg' = IF ~started THEN "check"
           ELSE IF Signals(queue) /\ bg = "waiting" THEN "woken" ELSE bg
  /\ queue' = Queued(queue, Len(calls) + 1)
  /\ calls' = Append(calls, Len(calls) + 1)
  /\ UNCHANGED <<item, ran>>

\* pthread_cond_wait comes back without a signal.
SpuriousWake ==
  /\ bg = "waiting" /\ bg' = "woken"
  /\ UNCHANGED <<started, queue, item, calls, ran>>

\* while (queue_.empty()) wait
Wait ==
  /\ bg \in {"check", "woken"} /\ queue = <<>>
  /\ bg' = "waiting"
  /\ UNCHANGED <<started, queue, item, calls, ran>>

\* The first item is taken out and mu_ released.
Take ==
  /\ bg \in {"check", "woken"} /\ queue # <<>>
  /\ bg' = "run" /\ item' = Head(queue) /\ queue' = Tail(queue)
  /\ ran' = Append(ran, Head(queue))
  /\ UNCHANGED <<started, calls>>

\* The function returns.
Return ==
  /\ bg = "run"
  /\ bg' = "check" /\ item' = 0
  /\ UNCHANGED <<started, queue, calls, ran>>

BGThread == Wait \/ Take \/ Return

ThreadInit ==
  /\ started = FALSE
  /\ bg = "none" /\ queue = <<>> /\ item = 0
  /\ calls = <<>> /\ ran = <<>>

ThreadNext ==
  Schedule \/ SpuriousWake \/ BGThread

ThreadSpec == ThreadInit /\ [][ThreadNext]_threadVars

\* The background thread goes on, and functions return.
ThreadFairSpec == ThreadSpec /\ WF_threadVars(BGThread)

-----------------------------------------------------------------------------
(* Properties                                                              *)

\* Items run in the order in which they were scheduled, each once.
RunsInOrder == IsPrefix(ran, calls)

\* Whatever is scheduled runs: no signal is lost between the test of the queue and
\* the wait, although it is given only when the queue is empty.
EverythingRuns == \A i \in 1..MaxItems : Len(calls) >= i ~> Len(ran) >= i


-----------------------------------------------------------------------------
(***************************************************************************)
(* A file leveldb writes, as PosixWritableFile does it (util/env_posix.cc).*)
(* What is appended goes from the buffer of stdio to the kernel and from   *)
(* there to the disk; a crash of the process loses the buffer, a crash of  *)
(* the machine also what the kernel had.  Appended pieces are numbered.    *)
(***************************************************************************)

CONSTANTS
  Kinds,         \* {"MANIFEST", "other"}: by the name of the file
  MaxPieces,     \* bound: calls of Append
  MaxCrashes     \* bound

VARIABLES
  kind, open,    \* the file; whether there is a PosixWritableFile for it
  named,         \* "no", "cached" or "disk": how far the name has come
  buf, kernel,   \* pieces in the buffer of stdio, and in the kernel
  disk,          \* how many of the latter are on disk
  sync,          \* where Sync is
  safe, flushed, \* ghost: pieces that Sync, Flush said are out
  gone,          \* ghost: pieces that were lost
  failed,        \* ghost: pieces that a call said it failed to write
  next, crashes

file  == <<kind, named, kernel, disk>>
ghost == <<safe, flushed, gone, failed>>
fileVars  == <<file, open, buf, sync, ghost, next, crashes>>

Pieces == 1..MaxPieces

-----------------------------------------------------------------------------
(* The kernel                                                              *)

\* stdio writes its buffer out, when it is full or told to.
Spill ==
  /\ open /\ buf # <<>>
  /\ kernel' = Append(kernel, Head(buf)) /\ buf' = Tail(buf)
  /\ UNCHANGED <<kind, named, disk, open, sync, ghost, next, crashes>>

\* The kernel writes back what it likes.
WriteBack ==
  /\ disk < Len(kernel)
  /\ disk' = disk + 1
  /\ UNCHANGED <<kind, named, kernel, open, buf, sync, ghost, next, crashes>>

-----------------------------------------------------------------------------
(* PosixEnv and PosixWritableFile                                          *)

\* NewWritableFile
NewWritableFile(k) ==
  /\ named = "no" /\ ~open
  /\ kind' = k /\ named' = "cached" /\ kernel' = <<>> /\ disk' = 0
  /\ open' = TRUE /\ buf' = <<>> /\ sync' = "no"
  /\ UNCHANGED <<ghost, next, crashes>>

\* NewAppendableFile, of a file that is there
NewAppendableFile ==
  /\ named # "no" /\ ~open
  /\ open' = TRUE /\ buf' = <<>> /\ sync' = "no"
  /\ UNCHANGED <<file, ghost, next, crashes>>

\* The pieces an error is returned for: r != data.size()
Reported(p, ok) == IF ok THEN {} ELSE {p}

\* Append: fwrite takes it, or reports an error.
AppendPiece(ok) ==
  /\ open /\ sync = "no" /\ next \in Pieces
  /\ next' = next + 1
  /\ buf' = IF ok THEN Append(buf, next) ELSE buf
  /\ failed' = failed \cup Reported(next, ok)
  /\ UNCHANGED <<file, open, sync, safe, flushed, gone, crashes>>

\* What fflush does: all goes to the kernel; or some does, an error is reported and
\* stdio drops the rest.
FlushBuffer(ok) ==
  /\ buf' = <<>>
  /\ \E n \in 0..Len(buf) :
       /\ ok => n = Len(buf)
       /\ kernel' = kernel \o SubSeq(buf, 1, n)
       /\ failed' = failed \cup ToSet(SubSeq(buf, n + 1, Len(buf)))
  /\ flushed' = IF ok THEN flushed \cup ToSet(kernel') ELSE flushed

Flush(ok) ==
  /\ open /\ sync = "no"
  /\ FlushBuffer(ok)
  /\ UNCHANGED <<kind, named, disk, open, sync, safe, gone, next, crashes>>

SyncsDir(k) == k = "MANIFEST"

\* SyncDirIfManifest
SyncDir(ok) ==
  /\ open /\ sync = "no"
  /\ named' = IF SyncsDir(kind) /\ ok THEN "disk" ELSE named
  /\ sync' = IF SyncsDir(kind) /\ ~ok THEN "no" ELSE "flush"
  /\ UNCHANGED <<kind, kernel, disk, open, buf, ghost, next, crashes>>

SyncFlush(ok) ==
  /\ sync = "flush"
  /\ FlushBuffer(ok)
  /\ sync' = IF ok THEN "data" ELSE "no"
  /\ UNCHANGED <<kind, named, disk, open, safe, gone, next, crashes>>

\* fdatasync
OnDisk == Len(kernel)

SyncData(ok) ==
  /\ sync = "data"
  /\ sync' = "no"
  /\ IF ok THEN disk' = OnDisk /\ safe' = safe \cup ToSet(kernel)
           ELSE UNCHANGED <<disk, safe>>
  /\ UNCHANGED <<kind, named, kernel, open, buf, flushed, gone, failed, next, crashes>>

\* Close
Close(ok) ==
  /\ open /\ sync = "no"
  /\ FlushBuffer(ok) /\ open' = FALSE
  /\ UNCHANGED <<kind, named, disk, sync, safe, gone, next, crashes>>

\* ~PosixWritableFile of a file that was not closed: errors are ignored.
Delete(ok) ==
  /\ open /\ sync = "no"
  /\ open' = FALSE /\ buf' = <<>>
  /\ IF ok THEN kernel' = kernel \o buf /\ UNCHANGED gone
           ELSE gone' = gone \cup ToSet(buf) /\ UNCHANGED kernel
  /\ UNCHANGED <<kind, named, disk, sync, safe, flushed, failed, next, crashes>>

-----------------------------------------------------------------------------

ProcessCrash ==
  /\ crashes < MaxCrashes /\ open
  /\ crashes' = crashes + 1
  /\ open' = FALSE /\ buf' = <<>> /\ sync' = "no" /\ gone' = gone \cup ToSet(buf)
  /\ UNCHANGED <<file, safe, flushed, failed, next>>

\* The name of a file that was never synced may be gone; a sync of its data brings
\* the name to the disk with it (external: as file systems with a journal do).
MachineCrash ==
  /\ crashes < MaxCrashes /\ named # "no"
  /\ crashes' = crashes + 1
  /\ \E keep \in {named = "disk" \/ disk > 0, TRUE} :
       /\ named' = IF keep THEN "disk" ELSE "no"
       /\ kernel' = IF keep THEN SubSeq(kernel, 1, disk) ELSE <<>>
       /\ disk' = Len(kernel')
       /\ gone' = gone \cup ((ToSet(kernel) \cup ToSet(buf)) \ ToSet(kernel'))
       /\ flushed' = flushed \ gone'
  /\ open' = FALSE /\ buf' = <<>> /\ sync' = "no"
  /\ UNCHANGED <<kind, safe, failed, next>>

FileInit ==
  /\ kind \in Kinds /\ named = "no" /\ kernel = <<>> /\ disk = 0
  /\ open = FALSE /\ buf = <<>> /\ sync = "no"
  /\ safe = {} /\ flushed = {} /\ gone = {} /\ failed = {}
  /\ next = 1 /\ crashes = 0

FileNext ==
  \/ Spill \/ WriteBack \/ NewAppendableFile \/ ProcessCrash \/ MachineCrash
  \/ \E k \in Kinds : NewWritableFile(k)
  \/ \E ok \in BOOLEAN : AppendPiece(ok) \/ Flush(ok) \/ SyncDir(ok) \/ SyncFlush(ok) \/ SyncData(ok)
                           \/ Close(ok) \/ Delete(ok)

FileSpec == FileInit /\ [][FileNext]_fileVars

-----------------------------------------------------------------------------
(* Properties                                                              *)

InOrder(s) == \A i, j \in DOMAIN s : i < j => s[i] < s[j]

\* What Sync reported to be written survives crashes of the machine; what Flush
\* reported survives crashes of the process.
SyncedStays == safe \subseteq ToSet(kernel)
FlushedStays == flushed \subseteq ToSet(kernel)

\* A manifest that was synced once is found under its name.
ManifestIsNamed == kind = "MANIFEST" /\ safe # {} => named = "disk"

\* A piece is missing from the file only if the call that wrote it, or a later one,
\* reported an error, or the buffer went with a crash or with the destructor, which
\* ignores errors; the rest is there in the order of the calls.
NothingSilent ==
  /\ InOrder(kernel \o buf)
  /\ \A p \in 1..(next - 1) : p \in ToSet(kernel) \cup ToSet(buf) \cup failed \cup gone


-----------------------------------------------------------------------------
(***************************************************************************)
(* How CURRENT, the file that names the manifest, is written and read      *)
(* (SetCurrentFile, DoWriteStringToFile, ReadFileToString,                 *)
(* PosixSequentialFile): a temporary file is written, synced, closed and   *)
(* renamed.  Every call may fail, and the process may be killed between    *)
(* any two; what the machine loses in a crash is in Durability.            *)
(*                                                                         *)
(* The text that names manifest n is Length times n and a newline.         *)
(***************************************************************************)

CONSTANTS
  Manifests,       \* numbers of descriptors, not 0
  Length,          \* of a name
  FragmentSize,    \* kBufferSize
  MaxKills         \* bound

CurrentFileAssumption ==
  /\ Manifests \subseteq Nat \ {0}
  /\ Length \in Nat /\ FragmentSize \in Nat \ {0} /\ MaxKills \in Nat

VARIABLES
  current, tmp,    \* the contents of the two files; Absent if there is none
  setPc,           \* where SetCurrentFile is; "idle" outside of it
  manifest,        \* descriptor_number
  tmpBuf,          \* the buffer of the FILE that is written
  setOk,           \* s.ok()
  was,          \* ghost: CURRENT when SetCurrentFile was called
  read,            \* ReadFileToString: [at, pos, data, ok]
  kills

writer == <<setPc, manifest, tmpBuf, setOk, was>>
currentVars == <<current, tmp, writer, read, kills>>

Newline == 0
Absent == <<-1>>

Contents(n) == [i \in 1..Length |-> n] \o <<Newline>>

NoRead == [at |-> "no", pos |-> 0, data |-> <<>>, ok |-> TRUE]

-----------------------------------------------------------------------------
(* SetCurrentFile                                                          *)

SetCurrentFile(n) ==
  /\ setPc = "idle" /\ read = NoRead
  /\ manifest' = n /\ setOk' = TRUE /\ was' = current
  /\ setPc' = "open"
  /\ UNCHANGED <<current, tmp, tmpBuf, read, kills>>

\* NewWritableFile, which empties a file that is there
NewTmp ==
  /\ setPc = "open"
  /\ \/ tmp' = <<>> /\ tmpBuf' = <<>> /\ setPc' = "append" /\ UNCHANGED setOk
     \/ setOk' = FALSE /\ setPc' = "cleanup" /\ UNCHANGED <<tmp, tmpBuf>>
  /\ UNCHANGED <<current, manifest, was, read, kills>>

\* Part of the buffer reaches the file; the whole of it unless the call fails.
SomeWritten(all) ==
  \E k \in 0..Len(all) : tmp' = tmp \o SubSeq(all, 1, k) /\ tmpBuf' = SubSeq(all, k + 1, Len(all))

Written == tmp' = tmp \o tmpBuf /\ tmpBuf' = <<>>

\* An error: the file is deleted.
GiveUp == setPc' = "delete" /\ setOk' = FALSE

\* Append: fwrite
Write ==
  /\ setPc = "append"
  /\ SomeWritten(Contents(manifest))
  /\ \/ setPc' = "sync" /\ UNCHANGED setOk
     \/ GiveUp
  /\ UNCHANGED <<current, manifest, was, read, kills>>

\* Sync: fflush and fdatasync
Sync ==
  /\ setPc = "sync"
  /\ \/ Written /\ setPc' = "close" /\ UNCHANGED setOk
     \/ SomeWritten(tmpBuf) /\ GiveUp
  /\ UNCHANGED <<current, manifest, was, read, kills>>

\* Close: fclose, which writes what is left.
CloseTmp ==
  /\ setPc = "close"
  /\ \/ Written /\ setPc' = "rename" /\ UNCHANGED setOk
     \/ SomeWritten(tmpBuf) /\ GiveUp
  /\ UNCHANGED <<current, manifest, was, read, kills>>

\* The destructor closes the file, errors ignored, and DeleteFile may fail.
DeleteTmp ==
  /\ setPc = "delete"
  /\ tmpBuf' = <<>>
  /\ \/ tmp' = Absent
     \/ \E k \in 0..Len(tmpBuf) : tmp' = tmp \o SubSeq(tmpBuf, 1, k)
  /\ setPc' = "cleanup"
  /\ UNCHANGED <<current, manifest, setOk, was, read, kills>>

NotRenamed == setOk' = FALSE

\* RenameFile
Rename ==
  /\ setPc = "rename"
  /\ \/ current' = tmp /\ tmp' = Absent /\ setPc' = "return" /\ UNCHANGED setOk
     \/ NotRenamed /\ setPc' = "cleanup" /\ UNCHANGED <<current, tmp>>
  /\ UNCHANGED <<manifest, tmpBuf, was, read, kills>>

\* SetCurrentFile deletes the temporary file once more.
Cleanup ==
  /\ setPc = "cleanup"
  /\ tmp' = Absent \/ UNCHANGED tmp
  /\ setPc' = "return"
  /\ UNCHANGED <<current, manifest, tmpBuf, setOk, was, read, kills>>

SetReturns ==
  /\ setPc = "return" /\ setPc' = "idle"
  /\ UNCHANGED <<current, tmp, manifest, tmpBuf, setOk, was, read, kills>>

-----------------------------------------------------------------------------
(* ReadFileToString                                                        *)

\* NewSequentialFile
NewSequentialFile ==
  /\ setPc = "idle" /\ read = NoRead
  /\ \/ current # Absent /\ read' = [NoRead EXCEPT !.at = "loop"]
     \/ read' = [NoRead EXCEPT !.at = "done", !.ok = FALSE]
  /\ UNCHANGED <<current, tmp, writer, kills>>

\* The end of a fragment that starts after pos and is read without an error.
FragmentEnd(pos) ==
  IF pos + FragmentSize > Len(current) THEN Len(current) ELSE pos + FragmentSize

AfterError(r) == [r EXCEPT !.at = "done", !.ok = FALSE]

\* Read: a short fragment is fine at the end of the file only; an empty one ends
\* the loop.
Read ==
  LET end == FragmentEnd(read.pos) IN
  /\ read.at = "loop"
  /\ \/ read' = [read EXCEPT !.pos = end, !.data = @ \o SubSeq(current, read.pos + 1, end),
                             !.at = IF end = read.pos THEN "done" ELSE "loop"]
     \/ read' = AfterError(read)
  /\ UNCHANGED <<current, tmp, writer, kills>>

\* Recover goes on with what it has read.
ReadDone ==
  /\ read.at = "done" /\ read' = NoRead
  /\ UNCHANGED <<current, tmp, writer, kills>>

\* VersionSet::Recover takes the text for a name.
Accepted(r) == r.ok /\ r.data # <<>> /\ Last(r.data) = Newline

-----------------------------------------------------------------------------

\* The process is killed; a new one starts.
Kill ==
  /\ kills < MaxKills
  /\ kills' = kills + 1
  /\ setPc' = "idle" /\ tmpBuf' = <<>> /\ read' = NoRead
  /\ UNCHANGED <<current, tmp, manifest, setOk, was>>

CurrentInit ==
  /\ current = Absent /\ tmp = Absent
  /\ setPc = "idle" /\ manifest = 0 /\ tmpBuf = <<>> /\ setOk = TRUE /\ was = Absent
  /\ read = NoRead
  /\ kills = 0

CurrentNext ==
  \/ \E n \in Manifests : SetCurrentFile(n)
  \/ NewTmp \/ Write \/ Sync \/ CloseTmp \/ DeleteTmp \/ Rename \/ Cleanup \/ SetReturns
  \/ NewSequentialFile \/ Read \/ ReadDone
  \/ Kill

CurrentSpec == CurrentInit /\ [][CurrentNext]_currentVars

-----------------------------------------------------------------------------
(* Properties                                                              *)

\* CURRENT is never seen half written, whatever failed and whenever the process
\* was killed.
NamesOne == current = Absent \/ \E n \in Manifests : current = Contents(n)

\* SetCurrentFile tells the truth: CURRENT names the new manifest if it returns
\* OK, and what it named before if not.
ReturnIsTrue ==
  setPc = "return" => current = IF setOk THEN Contents(manifest) ELSE was

\* Recover never goes on with part of a name: what it accepts is all of CURRENT.
ReadIsWhole == read.at = "done" /\ read.ok => read.data = current /\ Accepted(read)

-----------------------------------------------------------------------------
(***************************************************************************)
(* The environment as a whole: the machines run side by side.              *)
(***************************************************************************)

EnvSpec == LocksSpec /\ LimitsSpec /\ ThreadSpec /\ FileSpec /\ CurrentSpec

EnvAssumption == LocksAssumption /\ LimitsAssumption /\ CurrentFileAssumption

\* What leveldb relies on.  One process, and one user in it, holds the lock on a
\* database, and who gives it up or fails to get it leaves nothing behind (among
\* processes of several threads a failed attempt may lose the record lock); open
\* tables stay within the limits, which come back although opening fails; the
\* background thread runs what it is given in order; what was synced or flushed is
\* kept and nothing else is lost without a word; CURRENT is replaced and read as a
\* whole (env_posix.cc, filename.cc).
EnvIsSound ==
  /\ OneInProcess /\ LeavesNothing /\ ((\A t, u \in Threads : t = u) => OneProcess)
  /\ MapsLimited /\ FdsLimited /\ LimitsComeBack
  /\ RunsInOrder
  /\ SyncedStays /\ FlushedStays /\ ManifestIsNamed /\ NothingSilent
  /\ NamesOne /\ ReturnIsTrue /\ ReadIsWhole

=============================================================================
