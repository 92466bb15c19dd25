-------------------------------- MODULE Destroy --------------------------------
(***************************************************************************)
(* Processes open, write, close and destroy one database (db_impl.cc:      *)
(* SanitizeOptions, Recover, DestroyDB) through the directory operations   *)
(* of PosixEnv.  The lock is on the file that LOCK named when it was       *)
(* opened; processes may be killed.  Opening makes the directory, takes    *)
(* the lock in two steps and recovers in one, which only the owner of the  *)
(* lock takes.  create_if_missing is set, error_if_exists is not.          *)
(***************************************************************************)
EXTENDS Integers, FiniteSets, FiniteSetsExt

CONSTANTS
  Processes,
  MaxValues,      \* writes, bound
  MaxInodes,      \* files that have been named LOCK, bound
  MaxNumber,      \* largest file number, bound
  MaxDestroys, MaxKills   \* bounds

DestroyAssumption ==
  {MaxValues, MaxInodes, MaxNumber, MaxDestroys, MaxKills} \subseteq Nat

VARIABLES
  dir,            \* the directory exists
  lockfile,       \* the file named LOCK, 0 when there is none
  inodes,         \* how many such files there have been
  owner,          \* file -> process with a record lock on it, or None
  fs,             \* names: current (manifest number or 0), manifests, logs, tables, info
  logs, tables,   \* number -> values in it
  manifests,      \* number -> tables, log, next
  pc, fd,         \* of processes: where, and the LOCK file it has open
  listed,         \* of processes: what GetChildren returned
  db,             \* of processes: the open database
  result,         \* of processes: what DestroyDB will return
  values, doomed, gone,  \* writes so far; under a destroy; after one that was OK
  destroys, kills

vars == <<dir, lockfile, inodes, owner, fs, logs, tables, manifests, pc, fd, listed, db, result,
          values, doomed, gone, destroys, kills>>
disk == <<fs, logs, tables, manifests>>
history == <<values, doomed, gone, destroys, kills>>

None == "none"
NoNames == [current |-> 0, manifests |-> {}, logs |-> {}, tables |-> {}, info |-> FALSE]
Closed == [log |-> 0, imm |-> 0, next |-> 0, manifest |-> 0, view |-> {}]
Numbers == 1..MaxNumber
Exists(n) == n.current # 0 \/ n.manifests # {} \/ n.logs # {} \/ n.tables # {} \/ n.info
Goes(p, there) == pc' = [pc EXCEPT ![p] = there]

-----------------------------------------------------------------------------
(* LockFile and UnlockFile of PosixEnv                                     *)

\* open(fname, O_RDWR | O_CREAT); it fails without a directory.
OpenLock(p, from, to, fail) ==
  /\ pc[p] = from
  /\ \/ /\ ~dir /\ Goes(p, fail) /\ UNCHANGED <<lockfile, inodes, fd>>
     \/ /\ dir /\ lockfile # 0
        /\ fd' = [fd EXCEPT ![p] = lockfile] /\ Goes(p, to)
        /\ UNCHANGED <<lockfile, inodes>>
     \/ /\ dir /\ lockfile = 0 /\ inodes < MaxInodes
        /\ lockfile' = inodes + 1 /\ inodes' = inodes + 1
        /\ fd' = [fd EXCEPT ![p] = inodes + 1] /\ Goes(p, to)
  /\ UNCHANGED <<dir, owner, disk, listed, db, result, history>>

\* fcntl(F_SETLK)
Granted(p) == owner[fd[p]] \in {None, p}
Taken(p) == owner' = [owner EXCEPT ![fd[p]] = p]
Unlocked(p) == [i \in DOMAIN owner |-> IF owner[i] = p THEN None ELSE owner[i]]

-----------------------------------------------------------------------------
(* DB::Open                                                                *)

\* SanitizeOptions, before there is a lock: the directory, and LOG renamed to
\* LOG.old and made anew.
SanitizeOptions(p) ==
  /\ pc[p] = "idle" /\ inodes < MaxInodes
  /\ dir' = TRUE
  /\ fs' = [fs EXCEPT !.info = TRUE]
  /\ Goes(p, "sanitized")
  /\ UNCHANGED <<lockfile, inodes, owner, logs, tables, manifests, fd, listed, db, result, history>>

\* Recover begins: the directory again, in case it is not there.
CreateDir(p) ==
  /\ pc[p] = "sanitized"
  /\ dir' = TRUE
  /\ Goes(p, "opening")
  /\ UNCHANGED <<lockfile, inodes, owner, disk, fd, listed, db, result, history>>

OpenToOpen(p) == OpenLock(p, "opening", "locking", "idle")

LockToOpen(p) ==
  /\ pc[p] = "locking"
  /\ IF Granted(p) THEN Taken(p) /\ Goes(p, "recovering") ELSE UNCHANGED owner /\ Goes(p, "idle")
  /\ UNCHANGED <<dir, lockfile, inodes, disk, fd, listed, db, result, history>>

\* The logs that Recover replays: those in the directory, not older than the
\* manifest's.
ToReplay(names, man) == {n \in names.logs : n >= man.log}

\* Recover, with NewDB when there is no CURRENT: what is in the logs goes to a
\* table, a new log and manifest are made, and DeleteObsoleteFiles deletes the
\* others.
Recover(p) ==
  /\ pc[p] = "recovering"
  /\ LET new    == [tables |-> {}, log |-> 0, next |-> 2]
         man    == IF fs.current = 0 THEN new ELSE manifests[fs.current]
         redo   == ToReplay(fs, man)
         used   == Max({man.next - 1} \cup redo)
         m      == used + 1
         t      == used + 2
         log    == used + 3
         old    == UNION {tables[n] : n \in man.tables}
         redone == UNION {logs[n] : n \in redo}
         kept   == man.tables \cup (IF redone = {} THEN {} ELSE {t})
     IN  /\ log =< MaxNumber
         /\ (fs.current # 0 => fs.current \in fs.manifests /\ man.tables \subseteq fs.tables)
         /\ tables' = [tables EXCEPT ![t] = redone]
         /\ logs' = [logs EXCEPT ![log] = {}]
         /\ manifests' = [manifests EXCEPT ![m] = [tables |-> kept, log |-> log, next |-> log + 1]]
         /\ fs' = [fs EXCEPT !.current = m, !.manifests = {m}, !.logs = {log}, !.tables = kept]
         /\ db' = [db EXCEPT ![p] = [log |-> log, imm |-> 0, next |-> log + 1, manifest |-> m,
                                     view |-> old \cup redone]]
  /\ Goes(p, "open")
  /\ UNCHANGED <<dir, lockfile, inodes, owner, fd, listed, result, history>>

\* CURRENT names files that are not there: Recover returns an error.
RecoverFails(p) ==
  /\ pc[p] = "recovering" /\ fs.current # 0
  /\ fs.current \notin fs.manifests \/ ~(manifests[fs.current].tables \subseteq fs.tables)
  /\ owner' = Unlocked(p)
  /\ Goes(p, "idle")
  /\ UNCHANGED <<dir, lockfile, inodes, disk, fd, listed, db, result, history>>

Write(p) ==
  /\ pc[p] = "open" /\ values < MaxValues
  /\ values' = values + 1
  /\ logs' = [logs EXCEPT ![db[p].log] = @ \cup {values + 1}]
  /\ db' = [db EXCEPT ![p].view = @ \cup {values + 1}]
  /\ UNCHANGED <<dir, lockfile, inodes, owner, fs, tables, manifests, pc, fd, listed, result,
                 doomed, gone, destroys, kills>>

\* MakeRoomForWrite: a new log; the old one stays until its memtable is flushed.
SwitchLog(p) ==
  /\ pc[p] = "open" /\ db[p].imm = 0 /\ db[p].next =< MaxNumber
  /\ fs' = [fs EXCEPT !.logs = @ \cup {db[p].next}]
  /\ logs' = [logs EXCEPT ![db[p].next] = {}]
  /\ db' = [db EXCEPT ![p].imm = db[p].log, ![p].log = db[p].next, ![p].next = @ + 1]
  /\ UNCHANGED <<dir, lockfile, inodes, owner, tables, manifests, pc, fd, listed, result, history>>

\* CompactMemTable
Flush(p) ==
  /\ pc[p] = "open" /\ db[p].imm # 0 /\ db[p].next =< MaxNumber
  /\ LET t == db[p].next IN
     /\ tables' = [tables EXCEPT ![t] = logs[db[p].imm]]
     /\ fs' = [fs EXCEPT !.tables = @ \cup {t}, !.logs = @ \ {db[p].imm}]
     /\ manifests' = [manifests EXCEPT ![db[p].manifest] =
                        [tables |-> @.tables \cup {t}, log |-> db[p].log, next |-> t + 1]]
     /\ db' = [db EXCEPT ![p].imm = 0, ![p].next = t + 1]
  /\ UNCHANGED <<dir, lockfile, inodes, owner, logs, pc, fd, listed, result, history>>

\* ~DBImpl
Close(p) ==
  /\ pc[p] = "open"
  /\ owner' = Unlocked(p)
  /\ db' = [db EXCEPT ![p] = Closed]
  /\ Goes(p, "idle")
  /\ UNCHANGED <<dir, lockfile, inodes, disk, fd, listed, result, history>>

-----------------------------------------------------------------------------
(* DestroyDB                                                               *)

\* GetChildren, before there is a lock; no files, nothing to do.
List(p) ==
  /\ pc[p] = "idle" /\ destroys < MaxDestroys
  /\ dir
  /\ destroys' = destroys + 1
  /\ listed' = [listed EXCEPT ![p] = fs]
  /\ result' = [result EXCEPT ![p] = TRUE]
  /\ Goes(p, "listed")
  /\ UNCHANGED <<dir, lockfile, inodes, owner, disk, fd, db, values, doomed, gone, kills>>

OpenToDestroy(p) == OpenLock(p, "listed", "claiming", "idle")

LockToDestroy(p) ==
  /\ pc[p] = "claiming"
  /\ IF Granted(p) THEN Taken(p) /\ Goes(p, "deleting") /\ doomed' = doomed \cup (1..values)
     ELSE UNCHANGED <<owner, doomed>> /\ Goes(p, "idle")
  /\ UNCHANGED <<dir, lockfile, inodes, disk, fd, listed, db, result, values, gone, destroys, kills>>

\* Mistake: logs are left.
Deleted_NotLogs(names, old) ==
  [names EXCEPT !.current = 0, !.manifests = @ \ old.manifests, !.tables = @ \ old.tables,
                !.info = FALSE]

\* What is left when the files on the list are deleted.
Deleted(names, old) ==
  [names EXCEPT !.current = IF old.current # 0 THEN 0 ELSE @, !.manifests = @ \ old.manifests,
                !.logs = @ \ old.logs, !.tables = @ \ old.tables, !.info = @ /\ ~old.info]

\* A file on the list that is not there any more makes the result an error.
AllThere(names, old) ==
  /\ old.manifests \subseteq names.manifests /\ old.logs \subseteq names.logs
  /\ old.tables \subseteq names.tables
  /\ (old.current # 0 => names.current # 0) /\ (old.info => names.info)

DeleteFiles(p) ==
  /\ pc[p] = "deleting"
  /\ fs' = Deleted(fs, listed[p])
  /\ result' = [result EXCEPT ![p] = AllThere(fs, listed[p])]
  /\ Goes(p, "deleted")
  /\ UNCHANGED <<dir, lockfile, inodes, owner, logs, tables, manifests, fd, listed, db, history>>

UnlockFile(p) ==
  /\ pc[p] = "deleted"
  /\ owner' = Unlocked(p)
  /\ Goes(p, "unlocked")
  /\ UNCHANGED <<dir, lockfile, inodes, disk, fd, listed, db, result, history>>

DeleteLock(p) ==
  /\ pc[p] = "unlocked"
  /\ lockfile' = 0
  /\ Goes(p, "lockgone")
  /\ UNCHANGED <<dir, inodes, owner, disk, fd, listed, db, result, history>>

\* rmdir(2) fails when there are files.
DeleteDir(p) ==
  /\ pc[p] = "lockgone"
  /\ dir' = (dir /\ (Exists(fs) \/ lockfile # 0))
  /\ gone' = IF result[p] THEN gone \cup doomed ELSE gone
  /\ Goes(p, "idle")
  /\ UNCHANGED <<lockfile, inodes, owner, disk, fd, listed, db, result, values, doomed, destroys, kills>>

\* The files on a list that the loop has come to when the process dies: they
\* are listed in any order.
Parts(old) ==
  [current : {0, old.current}, manifests : SUBSET old.manifests, logs : SUBSET old.logs,
   tables : SUBSET old.tables, info : {FALSE, old.info}]

\* The process dies and is started again.
Kill(p) ==
  /\ pc[p] # "idle" /\ kills < MaxKills
  /\ kills' = kills + 1
  /\ owner' = Unlocked(p)
  /\ db' = [db EXCEPT ![p] = Closed]
  /\ \/ UNCHANGED fs
     \/ /\ pc[p] = "deleting"
        /\ \E part \in Parts(listed[p]) : fs' = Deleted(fs, part)
  /\ Goes(p, "idle")
  /\ UNCHANGED <<dir, lockfile, inodes, logs, tables, manifests, fd, listed, result,
                 values, doomed, gone, destroys>>

-----------------------------------------------------------------------------

Init ==
  /\ dir = FALSE /\ lockfile = 0 /\ inodes = 0
  /\ owner = [i \in 1..MaxInodes |-> None]
  /\ fs = NoNames
  /\ logs = [n \in Numbers |-> {}] /\ tables = [n \in Numbers |-> {}]
  /\ manifests = [n \in Numbers |-> [tables |-> {}, log |-> 0, next |-> 0]]
  /\ pc = [p \in Processes |-> "idle"] /\ fd = [p \in Processes |-> 0]
  /\ listed = [p \in Processes |-> NoNames] /\ db = [p \in Processes |-> Closed]
  /\ result = [p \in Processes |-> TRUE]
  /\ values = 0 /\ doomed = {} /\ gone = {} /\ destroys = 0 /\ kills = 0

Next ==
  \E p \in Processes :
    \/ SanitizeOptions(p) \/ CreateDir(p) \/ OpenToOpen(p) \/ LockToOpen(p)
    \/ Recover(p) \/ RecoverFails(p)
    \/ Write(p) \/ SwitchLog(p) \/ Flush(p) \/ Close(p)
    \/ List(p) \/ OpenToDestroy(p) \/ LockToDestroy(p) \/ DeleteFiles(p) \/ UnlockFile(p)
    \/ DeleteLock(p) \/ DeleteDir(p) \/ Kill(p)

Spec == Init /\ [][Next]_vars

-----------------------------------------------------------------------------
(* Properties                                                              *)

Opened == {p \in Processes : pc[p] = "open"}

\* "Destroy the contents of the specified database": what was in it when a
\* DestroyDB that returned OK took the lock is never read again, although
\* recovery replays any log it finds in the directory.
GoneIsGone == \A p \in Opened : db[p].view \cap gone = {}

\* What was written before a kill or a close, with a memtable waiting or not,
\* is there after the next open, unless a DestroyDB had begun.
WrittenIsThere == \A p \in Opened : (1..values) \ doomed \subseteq db[p].view

\* LockFile is "used to prevent concurrent access to the same db by multiple
\* processes": at most one has it open or deletes its files.
OneOwner == Cardinality({p \in Processes : pc[p] \in {"recovering", "open", "deleting", "deleted"}}) =< 1
=============================================================================
