--------------------------- MODULE PosixEnvProofs ---------------------------
(***************************************************************************)
(* The machines of PosixEnv: what TLC checks of them for a few processes,  *)
(* readers, items and pieces, proved for any number of them.               *)
(***************************************************************************)
EXTENDS PosixEnv, FiniteSetTheorems, SequenceTheorems, TLAPS

-----------------------------------------------------------------------------
(* The lock on a database                                                  *)

LockPcs == {"idle", "opened", "listed", "refused", "holds", "closed", "unlocked", "removed"}

\* Where a thread is while it has put the name into the table of its process.
Naming == {"listed", "holds", "closed", "unlocked"}

LockTypes ==
  /\ locked \in Processes \cup {None} /\ listed \subseteq Processes
  /\ lockPc \in [Processes -> [Threads -> LockPcs]]

\* The name is in the table of a process for the sake of exactly one of its threads.
NamesHaveThread == \A p \in listed : \E t \in Threads : lockPc[p][t] \in Naming
ThreadsHaveName == \A p \in Processes, t \in Threads : lockPc[p][t] \in Naming => p \in listed
OneIsNaming ==
  \A p \in Processes, t, u \in Threads :
    lockPc[p][t] \in Naming /\ lockPc[p][u] \in Naming => t = u
NamesAreOwned == NamesHaveThread /\ ThreadsHaveName /\ OneIsNaming

\* A record lock belongs to somebody.
LockIsOwned == \A p \in Processes : locked = p => \E t \in Threads : lockPc[p][t] = "holds"

LockInv == LockTypes /\ NamesAreOwned /\ LockIsOwned

\* Who believes to have the lock has it; only where processes have one thread.
HoldersHaveIt == \A p \in Processes, t \in Threads : lockPc[p][t] = "holds" => locked = p

\* A thread moves; the others of all processes stay where they are.
Moved(p, t, there) ==
  /\ lockPc' \in [Processes -> [Threads -> LockPcs]]
  /\ \A q \in Processes, u \in Threads :
       lockPc'[q][u] = IF q = p /\ u = t THEN there ELSE lockPc[q][u]

\* LockGoes moves one thread.
LEMMA ThreadMoves ==
  ASSUME LockTypes, NEW p \in Processes, NEW t \in Threads, NEW there \in LockPcs,
         LockGoes(p, t, there)
  PROVE  Moved(p, t, there)
BY DEF LockTypes, LockGoes, Moved

\* Nobody has opened the lock file yet.
LEMMA LocksInitInv ==
  ASSUME LocksAssumption
  PROVE  LocksInit => LockInv /\ HoldersHaveIt
BY DEF LocksAssumption, LocksInit, LockInv, LockTypes, NamesAreOwned, NamesHaveThread, ThreadsHaveName, OneIsNaming, LockIsOwned, HoldersHaveIt,
       LockPcs, Naming

\* Each call of LockFile and UnlockFile keeps the invariant, and the stronger one
\* where a process has one thread.
LEMMA LockStep ==
  ASSUME LocksAssumption, LockInv, NEW p \in Processes, NEW t \in Threads,
         LockFile(p, t) \/ UnlockFile(p, t)
  PROVE  LockInv' /\ ((\A u, v \in Threads : u = v) /\ HoldersHaveIt => HoldersHaveIt')
<1> USE DEF LockInv, LockTypes
<1>1. CASE OpenLock(p, t)
  <2>1. LockGoes(p, t, "opened") /\ UNCHANGED <<locked, listed>> /\ lockPc[p][t] = "idle"
    BY <1>1 DEF OpenLock
  <2>2. Moved(p, t, "opened")
    BY <2>1, ThreadMoves DEF LockPcs
  <2>3. LockTypes'
    BY <2>1, <2>2 DEF Moved
  <2>4. NamesAreOwned'
    <3>1. NamesHaveThread'
      BY <2>1, <2>2 DEF Moved, NamesAreOwned, NamesHaveThread, OneIsNaming, Naming
    <3>2. ThreadsHaveName'
      BY <2>1, <2>2 DEF Moved, NamesAreOwned, ThreadsHaveName, OneIsNaming, Naming
    <3>3. OneIsNaming'
      BY <2>1, <2>2 DEF Moved, NamesAreOwned, ThreadsHaveName, OneIsNaming, Naming
    <3> QED BY <3>1, <3>2, <3>3 DEF NamesAreOwned
  <2>5. LockIsOwned'
    BY <2>1, <2>2 DEF Moved, LockIsOwned, LocksAssumption
  <2>6. (\A u, v \in Threads : u = v) /\ HoldersHaveIt => HoldersHaveIt'
    BY <2>1, <2>2 DEF Moved, HoldersHaveIt, LocksAssumption
  <2> QED BY <2>3, <2>4, <2>5, <2>6
<1>2. CASE InsertName(p, t)
  <2>1. /\ LockGoes(p, t, "listed") /\ listed' = listed \cup {p} /\ locked' = locked
        /\ lockPc[p][t] = "opened" /\ p \notin listed
    BY <1>2 DEF InsertName, IsNew
  <2>2. Moved(p, t, "listed")
    BY <2>1, ThreadMoves DEF LockPcs
  <2>3. LockTypes'
    BY <2>1, <2>2 DEF Moved
  <2>4. NamesAreOwned'
    <3>1. NamesHaveThread'
      BY <2>1, <2>2 DEF Moved, NamesAreOwned, NamesHaveThread, OneIsNaming, Naming
    <3>2. ThreadsHaveName'
      BY <2>1, <2>2 DEF Moved, NamesAreOwned, ThreadsHaveName, OneIsNaming, Naming
    <3>3. OneIsNaming'
      BY <2>1, <2>2 DEF Moved, NamesAreOwned, ThreadsHaveName, OneIsNaming, Naming
    <3> QED BY <3>1, <3>2, <3>3 DEF NamesAreOwned
  <2>5. LockIsOwned'
    BY <2>1, <2>2 DEF Moved, LockIsOwned, LocksAssumption
  <2>6. (\A u, v \in Threads : u = v) /\ HoldersHaveIt => HoldersHaveIt'
    BY <2>1, <2>2 DEF Moved, HoldersHaveIt, LocksAssumption
  <2> QED BY <2>3, <2>4, <2>5, <2>6
<1>3. CASE AlreadyHeld(p, t)
  <2>1. LockGoes(p, t, "refused") /\ UNCHANGED <<locked, listed>> /\ lockPc[p][t] = "opened"
    BY <1>3 DEF AlreadyHeld
  <2>2. Moved(p, t, "refused")
    BY <2>1, ThreadMoves DEF LockPcs
  <2>3. LockTypes'
    BY <2>1, <2>2 DEF Moved
  <2>4. NamesAreOwned'
    <3>1. NamesHaveThread'
      BY <2>1, <2>2 DEF Moved, NamesAreOwned, NamesHaveThread, OneIsNaming, Naming
    <3>2. ThreadsHaveName'
      BY <2>1, <2>2 DEF Moved, NamesAreOwned, ThreadsHaveName, OneIsNaming, Naming
    <3>3. OneIsNaming'
      BY <2>1, <2>2 DEF Moved, NamesAreOwned, ThreadsHaveName, OneIsNaming, Naming
    <3> QED BY <3>1, <3>2, <3>3 DEF NamesAreOwned
  <2>5. LockIsOwned'
    BY <2>1, <2>2 DEF Moved, LockIsOwned, LocksAssumption
  <2>6. (\A u, v \in Threads : u = v) /\ HoldersHaveIt => HoldersHaveIt'
    BY <2>1, <2>2 DEF Moved, HoldersHaveIt, LocksAssumption
  <2> QED BY <2>3, <2>4, <2>5, <2>6
<1>4. CASE CloseRefused(p, t)
  <2>1. /\ LockGoes(p, t, "idle") /\ listed' = listed /\ lockPc[p][t] = "refused"
        /\ locked' = IF locked = p THEN None ELSE locked
    BY <1>4 DEF CloseRefused, Dropped
  <2>2. Moved(p, t, "idle")
    BY <2>1, ThreadMoves DEF LockPcs
  <2>3. LockTypes'
    BY <2>1, <2>2 DEF Moved
  <2>4. NamesAreOwned'
    <3>1. NamesHaveThread'
      BY <2>1, <2>2 DEF Moved, NamesAreOwned, NamesHaveThread, OneIsNaming, Naming
    <3>2. ThreadsHaveName'
      BY <2>1, <2>2 DEF Moved, NamesAreOwned, ThreadsHaveName, OneIsNaming, Naming
    <3>3. OneIsNaming'
      BY <2>1, <2>2 DEF Moved, NamesAreOwned, ThreadsHaveName, OneIsNaming, Naming
    <3> QED BY <3>1, <3>2, <3>3 DEF NamesAreOwned
  <2>5. LockIsOwned'
    BY <2>1, <2>2 DEF Moved, LockIsOwned, LocksAssumption
  <2>6. (\A u, v \in Threads : u = v) /\ HoldersHaveIt => HoldersHaveIt'
    BY <2>1, <2>2 DEF Moved, HoldersHaveIt, LocksAssumption
  <2> QED BY <2>3, <2>4, <2>5, <2>6
<1>5. CASE TakeLock(p, t)
  <2>1. /\ LockGoes(p, t, "holds") /\ listed' = listed /\ lockPc[p][t] = "listed"
        /\ locked' = p /\ locked \in {None, p}
    BY <1>5 DEF TakeLock, Locks, Grants
  <2>2. Moved(p, t, "holds")
    BY <2>1, ThreadMoves DEF LockPcs
  <2>3. LockTypes'
    BY <2>1, <2>2 DEF Moved
  <2>4. NamesAreOwned'
    <3>1. NamesHaveThread'
      BY <2>1, <2>2 DEF Moved, NamesAreOwned, NamesHaveThread, OneIsNaming, Naming
    <3>2. ThreadsHaveName'
      BY <2>1, <2>2 DEF Moved, NamesAreOwned, ThreadsHaveName, OneIsNaming, Naming
    <3>3. OneIsNaming'
      BY <2>1, <2>2 DEF Moved, NamesAreOwned, ThreadsHaveName, OneIsNaming, Naming
    <3> QED BY <3>1, <3>2, <3>3 DEF NamesAreOwned
  <2>5. LockIsOwned'
    BY <2>1, <2>2 DEF Moved, LockIsOwned, LocksAssumption
  <2>6. (\A u, v \in Threads : u = v) /\ HoldersHaveIt => HoldersHaveIt'
    BY <2>1, <2>2 DEF Moved, HoldersHaveIt, LocksAssumption
  <2> QED BY <2>3, <2>4, <2>5, <2>6
<1>6. CASE LockFails(p, t)
  <2>1. /\ LockGoes(p, t, "closed") /\ listed' = listed /\ lockPc[p][t] = "listed"
        /\ locked' = IF locked = p THEN None ELSE locked
    BY <1>6 DEF LockFails, Dropped
  <2>2. Moved(p, t, "closed")
    BY <2>1, ThreadMoves DEF LockPcs
  <2>3. LockTypes'
    BY <2>1, <2>2 DEF Moved
  <2>4. NamesAreOwned'
    <3>1. NamesHaveThread'
      BY <2>1, <2>2 DEF Moved, NamesAreOwned, NamesHaveThread, OneIsNaming, Naming
    <3>2. ThreadsHaveName'
      BY <2>1, <2>2 DEF Moved, NamesAreOwned, ThreadsHaveName, OneIsNaming, Naming
    <3>3. OneIsNaming'
      BY <2>1, <2>2 DEF Moved, NamesAreOwned, ThreadsHaveName, OneIsNaming, Naming
    <3> QED BY <3>1, <3>2, <3>3 DEF NamesAreOwned
  <2>5. LockIsOwned'
    BY <2>1, <2>2 DEF Moved, LockIsOwned, LocksAssumption
  <2>6. (\A u, v \in Threads : u = v) /\ HoldersHaveIt => HoldersHaveIt'
    BY <2>1, <2>2 DEF Moved, HoldersHaveIt, LocksAssumption
  <2> QED BY <2>3, <2>4, <2>5, <2>6
<1>7. CASE RemoveFailed(p, t)
  <2>1. /\ LockGoes(p, t, "idle") /\ listed' = listed \ {p} /\ locked' = locked
        /\ lockPc[p][t] = "closed"
    BY <1>7 DEF RemoveFailed, WithoutName
  <2>2. Moved(p, t, "idle")
    BY <2>1, ThreadMoves DEF LockPcs
  <2>3. LockTypes'
    BY <2>1, <2>2 DEF Moved
  <2>4. NamesAreOwned'
    <3>1. NamesHaveThread'
      BY <2>1, <2>2 DEF Moved, NamesAreOwned, NamesHaveThread, OneIsNaming, Naming
    <3>2. ThreadsHaveName'
      BY <2>1, <2>2 DEF Moved, NamesAreOwned, ThreadsHaveName, OneIsNaming, Naming
    <3>3. OneIsNaming'
      BY <2>1, <2>2 DEF Moved, NamesAreOwned, ThreadsHaveName, OneIsNaming, Naming
    <3> QED BY <3>1, <3>2, <3>3 DEF NamesAreOwned
  <2>5. LockIsOwned'
    BY <2>1, <2>2 DEF Moved, LockIsOwned, LocksAssumption
  <2>6. (\A u, v \in Threads : u = v) /\ HoldersHaveIt => HoldersHaveIt'
    BY <2>1, <2>2 DEF Moved, HoldersHaveIt, LocksAssumption
  <2> QED BY <2>3, <2>4, <2>5, <2>6
<1>8. CASE Unlock(p, t)
  <2>1. /\ LockGoes(p, t, "unlocked") /\ listed' = listed /\ lockPc[p][t] = "holds"
        /\ locked' = IF locked = p THEN None ELSE locked
    BY <1>8 DEF Unlock, Dropped
  <2>2. Moved(p, t, "unlocked")
    BY <2>1, ThreadMoves DEF LockPcs
  <2>3. LockTypes'
    BY <2>1, <2>2 DEF Moved
  <2>4. NamesAreOwned'
    <3>1. NamesHaveThread'
      BY <2>1, <2>2 DEF Moved, NamesAreOwned, NamesHaveThread, OneIsNaming, Naming
    <3>2. ThreadsHaveName'
      BY <2>1, <2>2 DEF Moved, NamesAreOwned, ThreadsHaveName, OneIsNaming, Naming
    <3>3. OneIsNaming'
      BY <2>1, <2>2 DEF Moved, NamesAreOwned, ThreadsHaveName, OneIsNaming, Naming
    <3> QED BY <3>1, <3>2, <3>3 DEF NamesAreOwned
  <2>5. LockIsOwned'
    BY <2>1, <2>2 DEF Moved, LockIsOwned, LocksAssumption
  <2>6. (\A u, v \in Threads : u = v) /\ HoldersHaveIt => HoldersHaveIt'
    BY <2>1, <2>2 DEF Moved, HoldersHaveIt, LocksAssumption
  <2> QED BY <2>3, <2>4, <2>5, <2>6
<1>9. CASE RemoveName(p, t)
  <2>1. /\ LockGoes(p, t, "removed") /\ listed' = listed \ {p} /\ locked' = locked
        /\ lockPc[p][t] = "unlocked"
    BY <1>9 DEF RemoveName
  <2>2. Moved(p, t, "removed")
    BY <2>1, ThreadMoves DEF LockPcs
  <2>3. LockTypes'
    BY <2>1, <2>2 DEF Moved
  <2>4. NamesAreOwned'
    <3>1. NamesHaveThread'
      BY <2>1, <2>2 DEF Moved, NamesAreOwned, NamesHaveThread, OneIsNaming, Naming
    <3>2. ThreadsHaveName'
      BY <2>1, <2>2 DEF Moved, NamesAreOwned, ThreadsHaveName, OneIsNaming, Naming
    <3>3. OneIsNaming'
      BY <2>1, <2>2 DEF Moved, NamesAreOwned, ThreadsHaveName, OneIsNaming, Naming
    <3> QED BY <3>1, <3>2, <3>3 DEF NamesAreOwned
  <2>5. LockIsOwned'
    BY <2>1, <2>2 DEF Moved, LockIsOwned, LocksAssumption
  <2>6. (\A u, v \in Threads : u = v) /\ HoldersHaveIt => HoldersHaveIt'
    BY <2>1, <2>2 DEF Moved, HoldersHaveIt, LocksAssumption
  <2> QED BY <2>3, <2>4, <2>5, <2>6
<1>10. CASE CloseFile(p, t)
  <2>1. /\ LockGoes(p, t, "idle") /\ listed' = listed /\ lockPc[p][t] = "removed"
        /\ locked' = IF locked = p THEN None ELSE locked
    BY <1>10 DEF CloseFile, Dropped
  <2>2. Moved(p, t, "idle")
    BY <2>1, ThreadMoves DEF LockPcs
  <2>3. LockTypes'
    BY <2>1, <2>2 DEF Moved
  <2>4. NamesAreOwned'
    <3>1. NamesHaveThread'
      BY <2>1, <2>2 DEF Moved, NamesAreOwned, NamesHaveThread, OneIsNaming, Naming
    <3>2. ThreadsHaveName'
      BY <2>1, <2>2 DEF Moved, NamesAreOwned, ThreadsHaveName, OneIsNaming, Naming
    <3>3. OneIsNaming'
      BY <2>1, <2>2 DEF Moved, NamesAreOwned, ThreadsHaveName, OneIsNaming, Naming
    <3> QED BY <3>1, <3>2, <3>3 DEF NamesAreOwned
  <2>5. LockIsOwned'
    BY <2>1, <2>2 DEF Moved, LockIsOwned, LocksAssumption
  <2>6. (\A u, v \in Threads : u = v) /\ HoldersHaveIt => HoldersHaveIt'
    BY <2>1, <2>2 DEF Moved, HoldersHaveIt, LocksAssumption
  <2> QED BY <2>3, <2>4, <2>5, <2>6
<1> QED
  BY <1>1, <1>2, <1>3, <1>4, <1>5, <1>6, <1>7, <1>8, <1>9, <1>10 DEF LockFile, UnlockFile

\* So does the end of a process.
LEMMA ExitStep ==
  ASSUME LocksAssumption, LockInv, NEW p \in Processes, Exit(p)
  PROVE  LockInv' /\ (HoldersHaveIt => HoldersHaveIt')
<1>1. /\ lockPc' \in [Processes -> [Threads -> LockPcs]]
      /\ \A q \in Processes, u \in Threads :
           lockPc'[q][u] = IF q = p THEN "idle" ELSE lockPc[q][u]
  BY DEF LockInv, LockTypes, Exit, LockPcs
<1>2. listed' = listed \ {p} /\ locked' = IF locked = p THEN None ELSE locked
  BY DEF Exit, Dropped
<1> QED
  BY <1>1, <1>2
     DEF LockInv, LockTypes, NamesAreOwned, NamesHaveThread, ThreadsHaveName, OneIsNaming, LockIsOwned, HoldersHaveIt, Naming, LocksAssumption

\* The invariant of the locks.
LEMMA LocksInvariance ==
  ASSUME LocksAssumption
  PROVE  LocksSpec => []LockInv
<1>1. LocksInit => LockInv
  BY LocksInitInv
<1>2. LockInv /\ [LocksNext]_lockVars => LockInv'
  <2> SUFFICES ASSUME LockInv, [LocksNext]_lockVars PROVE LockInv'
    OBVIOUS
  <2>1. CASE LocksNext
    BY <2>1, LockStep, ExitStep DEF LocksNext
  <2>2. CASE UNCHANGED lockVars
    BY <2>2 DEF lockVars, LockInv, LockTypes, NamesAreOwned, NamesHaveThread, ThreadsHaveName, OneIsNaming, LockIsOwned
  <2> QED BY <2>1, <2>2
<1> QED BY <1>1, <1>2, PTL DEF LocksSpec

\* PosixLockTable does what fcntl does not: of one process, one thread at a time
\* holds the lock (env_posix.cc, LockFile).
THEOREM OneThreadHolds ==
  ASSUME LocksAssumption
  PROVE  LocksSpec => []OneInProcess
<1>1. LockInv => OneInProcess
  BY DEF LockInv, NamesAreOwned, NamesHaveThread, ThreadsHaveName, OneIsNaming, Naming, OneInProcess, Holders
<1> QED BY <1>1, LocksInvariance, PTL

\* An attempt to lock that failed, a lock that was given up and a process that ended
\* leave no name in the table and no record lock in the kernel.
THEOREM LocksLeaveNothing ==
  ASSUME LocksAssumption
  PROVE  LocksSpec => []LeavesNothing
<1>1. LockInv => LeavesNothing
  BY DEF LockInv, NamesAreOwned, NamesHaveThread, ThreadsHaveName, OneIsNaming, LockIsOwned, Naming, LeavesNothing
<1> QED BY <1>1, LocksInvariance, PTL

\* A database is held by one process, if no process opens the lock file twice: closing
\* the second descriptor would give up the record lock of the first.
THEOREM OneProcessHolds ==
  ASSUME LocksAssumption, \A t, u \in Threads : t = u
  PROVE  LocksSpec => []OneProcess
<1> DEFINE I == LockInv /\ HoldersHaveIt
<1>1. LocksInit => I
  BY LocksInitInv
<1>2. I /\ [LocksNext]_lockVars => I'
  <2> SUFFICES ASSUME I, [LocksNext]_lockVars PROVE I'
    OBVIOUS
  <2>1. CASE LocksNext
    BY <2>1, LockStep, ExitStep DEF LocksNext
  <2>2. CASE UNCHANGED lockVars
    BY <2>2 DEF lockVars, LockInv, LockTypes, NamesAreOwned, NamesHaveThread, ThreadsHaveName, OneIsNaming, LockIsOwned, HoldersHaveIt
  <2> QED BY <2>1, <2>2
<1>3. I => OneProcess
  BY DEF HoldersHaveIt, OneProcess, Holders
<1> QED BY <1>1, <1>2, <1>3, PTL DEF LocksSpec

-----------------------------------------------------------------------------
(* The limits on open tables                                               *)

ReadPcs == {"none", "look_mmap", "lock_mmap", "map", "mapped", "look_fd", "lock_fd", "kept",
            "temporary", "closed", "reading"}

\* The readers that have taken a map, or a descriptor that stays open.
HasMap == {a \in Actors : readPc[a] \in {"map", "mapped"}}
HasFd == {a \in Actors : readPc[a] = "kept"}

LimitTypes ==
  /\ allowed \in [Limiters -> Nat]
  /\ readPc \in [Actors -> ReadPcs]

\* What is free and what is taken make up the limit.
Balance ==
  /\ allowed["mmap"] + Cardinality(HasMap) = MmapLimit
  /\ allowed["fd"] + Cardinality(HasFd) = FdLimit

\* Which files are mapped and which descriptors are open.
Opened ==
  /\ maps = {a \in Actors : readPc[a] = "mapped"}
  /\ fds = {a \in Actors : readPc[a] \notin {"none", "mapped", "closed"}}

LimitInv == LimitTypes /\ Balance /\ Opened

\* A reader moves; the others stay where they are.
LEMMA ReaderMoves ==
  ASSUME LimitTypes, NEW a \in Actors, NEW there \in ReadPcs, LimitGoes(a, there)
  PROVE  /\ readPc' \in [Actors -> ReadPcs]
         /\ \A b \in Actors : readPc'[b] = IF b = a THEN there ELSE readPc[b]
BY DEF LimitTypes, LimitGoes

\* How the numbers of those who have a map or a descriptor follow a move.
LEMMA CountsFollow ==
  ASSUME LimitsAssumption, NEW S, NEW T, S \subseteq Actors, NEW a \in Actors
  PROVE  /\ Cardinality(S) \in Nat
         /\ T = S \cup {a} /\ a \notin S => Cardinality(T) = Cardinality(S) + 1
         /\ T = S \ {a} /\ a \in S => Cardinality(T) = Cardinality(S) - 1
<1>1. IsFiniteSet(S)
  BY FS_Subset DEF LimitsAssumption
<1> QED BY <1>1, FS_CardinalityType, FS_AddElement, FS_RemoveElement

\* A move between places that count alike.
LEMMA SameCounts ==
  ASSUME LimitTypes, NEW a \in Actors, NEW there \in ReadPcs, LimitGoes(a, there),
         readPc[a] \in {"map", "mapped"} <=> there \in {"map", "mapped"},
         readPc[a] = "kept" <=> there = "kept"
  PROVE  HasMap' = HasMap /\ HasFd' = HasFd
BY ReaderMoves DEF HasMap, HasFd

\* The look at a limit without its mutex decides only where to go on.
LEMMA LookStep ==
  ASSUME LimitInv, NEW a \in Actors, LookMmap(a) \/ LookFd(a)
  PROVE  LimitInv'
<1>1. PICK there \in {"lock_mmap", "look_fd", "lock_fd", "temporary"} :
        /\ LimitGoes(a, there) /\ UNCHANGED <<allowed, fds, maps>>
        /\ readPc[a] \in {"look_mmap", "look_fd"}
  BY DEF LookMmap, LookFd, Look
<1>2. there \in ReadPcs
  BY DEF ReadPcs
<1>3. HasMap' = HasMap /\ HasFd' = HasFd
  BY <1>1, <1>2, SameCounts DEF LimitInv
<1>4. LimitTypes' /\ Opened'
  BY <1>1, <1>2, ReaderMoves DEF LimitInv, LimitTypes, Opened
<1> QED BY <1>1, <1>3, <1>4 DEF LimitInv, Balance

\* Acquire with the mutex takes what it has seen to be there.
LEMMA AcquireStep ==
  ASSUME LimitsAssumption, LimitInv, NEW a \in Actors, AcquireMmap(a) \/ AcquireFd(a)
  PROVE  LimitInv'
<1> USE DEF LimitInv, Limiters
<1>1. CASE Acquire(a, "mmap", "lock_mmap", "map")
  <2>1. /\ LimitGoes(a, "map") /\ readPc[a] = "lock_mmap" /\ UNCHANGED <<fds, maps>>
        /\ allowed["mmap"] > 0 /\ allowed' = [allowed EXCEPT !["mmap"] = @ - 1]
    BY <1>1 DEF Acquire, MayTake
  <2>2. "map" \in ReadPcs
    BY DEF ReadPcs
  <2>3. /\ allowed' \in [Limiters -> Nat] /\ allowed'["fd"] = allowed["fd"]
        /\ allowed'["mmap"] = allowed["mmap"] - 1
    BY <2>1 DEF LimitTypes
  <2>4. LimitTypes' /\ Opened'
    BY <2>1, <2>2, <2>3, ReaderMoves DEF LimitTypes, Opened
  <2>5. HasMap' = HasMap \cup {a} /\ a \notin HasMap /\ HasFd' = HasFd
    BY <2>1, <2>2, ReaderMoves DEF HasMap, HasFd
  <2>6. Cardinality(HasMap') = Cardinality(HasMap) + 1 /\ Cardinality(HasMap) \in Nat
    BY <2>5, CountsFollow DEF HasMap
  <2>7. Balance'
    BY <2>3, <2>5, <2>6 DEF Balance, LimitTypes, LimitsAssumption
  <2> QED BY <2>4, <2>7
<1>2. CASE Acquire(a, "fd", "lock_fd", "kept")
  <2>1. /\ LimitGoes(a, "kept") /\ readPc[a] = "lock_fd" /\ UNCHANGED <<fds, maps>>
        /\ allowed["fd"] > 0 /\ allowed' = [allowed EXCEPT !["fd"] = @ - 1]
    BY <1>2 DEF Acquire, MayTake
  <2>2. "kept" \in ReadPcs
    BY DEF ReadPcs
  <2>3. /\ allowed' \in [Limiters -> Nat] /\ allowed'["mmap"] = allowed["mmap"]
        /\ allowed'["fd"] = allowed["fd"] - 1
    BY <2>1 DEF LimitTypes
  <2>4. LimitTypes' /\ Opened'
    BY <2>1, <2>2, <2>3, ReaderMoves DEF LimitTypes, Opened
  <2>5. HasFd' = HasFd \cup {a} /\ a \notin HasFd /\ HasMap' = HasMap
    BY <2>1, <2>2, ReaderMoves DEF HasMap, HasFd
  <2>6. Cardinality(HasFd') = Cardinality(HasFd) + 1 /\ Cardinality(HasFd) \in Nat
    BY <2>5, CountsFollow DEF HasFd
  <2>7. Balance'
    BY <2>3, <2>5, <2>6 DEF Balance, LimitTypes, LimitsAssumption
  <2> QED BY <2>4, <2>7
<1>3. CASE Refused(a, "mmap", "lock_mmap", "look_fd") \/ Refused(a, "fd", "lock_fd", "temporary")
  <2>1. PICK there \in {"look_fd", "temporary"} :
          /\ LimitGoes(a, there) /\ UNCHANGED <<allowed, fds, maps>>
          /\ readPc[a] \in {"lock_mmap", "lock_fd"}
    BY <1>3 DEF Refused
  <2>2. there \in ReadPcs
    BY DEF ReadPcs
  <2>3. HasMap' = HasMap /\ HasFd' = HasFd
    BY <2>1, <2>2, SameCounts
  <2>4. LimitTypes' /\ Opened'
    BY <2>1, <2>2, ReaderMoves DEF LimitTypes, Opened
  <2> QED BY <2>1, <2>3, <2>4 DEF Balance
<1> QED BY <1>1, <1>2, <1>3 DEF AcquireMmap, AcquireFd

\* Files are opened, mapped and closed without a change of what was taken.
LEMMA FileStep ==
  ASSUME LimitInv, NEW a \in Actors,
         OpenTable(a) \/ Map(a) \/ CloseTemporary(a) \/ ReopenRead(a) \/ EndRead(a)
  PROVE  LimitInv'
<1> USE DEF LimitInv, ReadPcs
<1>1. CASE OpenTable(a)
  <2>1. LimitGoes(a, "look_mmap") /\ readPc[a] = "none"
    BY <1>1 DEF OpenTable
  <2>2. HasMap' = HasMap /\ HasFd' = HasFd
    BY <2>1, SameCounts
  <2>3. LimitTypes' /\ Opened'
    BY <1>1, <2>1, ReaderMoves DEF OpenTable, LimitTypes, Opened
  <2> QED BY <1>1, <2>2, <2>3 DEF OpenTable, Balance
<1>2. CASE Map(a)
  <2>1. LimitGoes(a, "mapped") /\ readPc[a] = "map"
    BY <1>2 DEF Map
  <2>2. HasMap' = HasMap /\ HasFd' = HasFd
    BY <2>1, SameCounts
  <2>3. LimitTypes' /\ Opened'
    BY <1>2, <2>1, ReaderMoves DEF Map, LimitTypes, Opened
  <2> QED BY <1>2, <2>2, <2>3 DEF Map, Balance
<1>3. CASE CloseTemporary(a)
  <2>1. LimitGoes(a, "closed") /\ readPc[a] = "temporary"
    BY <1>3 DEF CloseTemporary
  <2>2. HasMap' = HasMap /\ HasFd' = HasFd
    BY <2>1, SameCounts
  <2>3. LimitTypes' /\ Opened'
    BY <1>3, <2>1, ReaderMoves DEF CloseTemporary, WithoutFd, LimitTypes, Opened
  <2> QED BY <1>3, <2>2, <2>3 DEF CloseTemporary, Balance
<1>4. CASE ReopenRead(a)
  <2>1. LimitGoes(a, "reading") /\ readPc[a] = "closed"
    BY <1>4 DEF ReopenRead
  <2>2. HasMap' = HasMap /\ HasFd' = HasFd
    BY <2>1, SameCounts
  <2>3. LimitTypes' /\ Opened'
    BY <1>4, <2>1, ReaderMoves DEF ReopenRead, LimitTypes, Opened
  <2> QED BY <1>4, <2>2, <2>3 DEF ReopenRead, Balance
<1>5. CASE EndRead(a)
  <2>1. LimitGoes(a, "closed") /\ readPc[a] = "reading"
    BY <1>5 DEF EndRead
  <2>2. HasMap' = HasMap /\ HasFd' = HasFd
    BY <2>1, SameCounts
  <2>3. LimitTypes' /\ Opened'
    BY <1>5, <2>1, ReaderMoves DEF EndRead, LimitTypes, Opened
  <2> QED BY <1>5, <2>2, <2>3 DEF EndRead, Balance
<1> QED BY <1>1, <1>2, <1>3, <1>4, <1>5

\* A map that fails and a reader that is deleted give back what was taken.
LEMMA ReleaseStep ==
  ASSUME LimitsAssumption, LimitInv, NEW a \in Actors,
         MapFails(a) \/ Unmap(a) \/ DeleteReader(a)
  PROVE  LimitInv'
<1> USE DEF LimitInv, Limiters
<1>0. "none" \in ReadPcs
  BY DEF ReadPcs
<1>1. CASE MapFails(a) \/ Unmap(a)
  <2>1. /\ LimitGoes(a, "none") /\ readPc[a] \in {"map", "mapped"}
        /\ allowed' = [allowed EXCEPT !["mmap"] = @ + 1]
        /\ fds' = fds \ {a} /\ maps' = maps \ {a}
    BY <1>1 DEF MapFails, Unmap, AfterFailure, Released, Opened
  <2>2. /\ allowed' \in [Limiters -> Nat] /\ allowed'["fd"] = allowed["fd"]
        /\ allowed'["mmap"] = allowed["mmap"] + 1
    BY <2>1 DEF LimitTypes
  <2>3. LimitTypes' /\ Opened'
    BY <1>0, <2>1, <2>2, ReaderMoves DEF LimitTypes, Opened
  <2>4. HasMap' = HasMap \ {a} /\ a \in HasMap /\ HasFd' = HasFd
    BY <1>0, <2>1, ReaderMoves DEF HasMap, HasFd
  <2>5. Cardinality(HasMap') = Cardinality(HasMap) - 1 /\ Cardinality(HasMap) \in Nat
    BY <2>4, CountsFollow DEF HasMap
  <2>6. Balance'
    BY <2>2, <2>4, <2>5 DEF Balance, LimitTypes, LimitsAssumption
  <2> QED BY <2>3, <2>6
<1>2. CASE DeleteReader(a) /\ readPc[a] = "kept"
  <2>1. /\ LimitGoes(a, "none") /\ readPc[a] = "kept"
        /\ allowed' = [allowed EXCEPT !["fd"] = @ + 1]
        /\ fds' = fds \ {a} /\ maps' = maps
    BY <1>2 DEF DeleteReader, Deleted, Released
  <2>2. /\ allowed' \in [Limiters -> Nat] /\ allowed'["mmap"] = allowed["mmap"]
        /\ allowed'["fd"] = allowed["fd"] + 1
    BY <2>1 DEF LimitTypes
  <2>3. LimitTypes' /\ Opened'
    BY <1>0, <2>1, <2>2, ReaderMoves DEF LimitTypes, Opened
  <2>4. HasFd' = HasFd \ {a} /\ a \in HasFd /\ HasMap' = HasMap
    BY <1>0, <2>1, ReaderMoves DEF HasMap, HasFd
  <2>5. Cardinality(HasFd') = Cardinality(HasFd) - 1 /\ Cardinality(HasFd) \in Nat
    BY <2>4, CountsFollow DEF HasFd
  <2>6. Balance'
    BY <2>2, <2>4, <2>5 DEF Balance, LimitTypes, LimitsAssumption
  <2> QED BY <2>3, <2>6
<1>3. CASE DeleteReader(a) /\ readPc[a] = "closed"
  <2>1. /\ LimitGoes(a, "none") /\ readPc[a] = "closed" /\ allowed' = allowed
        /\ fds' = fds \ {a} /\ maps' = maps
    BY <1>3 DEF DeleteReader, Deleted
  <2>2. HasMap' = HasMap /\ HasFd' = HasFd
    BY <1>0, <2>1, SameCounts
  <2>3. LimitTypes' /\ Opened'
    BY <1>0, <2>1, ReaderMoves DEF LimitTypes, Opened
  <2> QED BY <2>1, <2>2, <2>3 DEF Balance
<1> QED BY <1>1, <1>2, <1>3 DEF DeleteReader

\* The invariant of the limits.
LEMMA LimitsInvariance ==
  ASSUME LimitsAssumption
  PROVE  LimitsSpec => []LimitInv
<1>1. LimitsInit => LimitInv
  <2> SUFFICES ASSUME LimitsInit PROVE LimitInv
    OBVIOUS
  <2>1. HasMap = {} /\ HasFd = {}
    BY DEF LimitsInit, HasMap, HasFd
  <2>2. Balance
    BY <2>1, FS_EmptySet DEF LimitsInit, Balance, Limit, Limiters, LimitsAssumption
  <2>3. LimitTypes /\ Opened
    BY DEF LimitsInit, LimitTypes, Opened, Limit, Limiters, LimitsAssumption, ReadPcs
  <2> QED BY <2>2, <2>3 DEF LimitInv
<1>2. LimitInv /\ [LimitsNext]_limitVars => LimitInv'
  <2> SUFFICES ASSUME LimitInv, [LimitsNext]_limitVars PROVE LimitInv'
    OBVIOUS
  <2>1. CASE LimitsNext
    BY <2>1, LookStep, AcquireStep, FileStep, ReleaseStep DEF LimitsNext
  <2>2. CASE UNCHANGED limitVars
    BY <2>2 DEF limitVars, LimitInv, LimitTypes, Balance, Opened, HasMap, HasFd
  <2> QED BY <2>1, <2>2
<1> QED BY <1>1, <1>2, PTL DEF LimitsSpec

\* However many threads race for the last map or descriptor, the limits of the process
\* are kept (env_posix.cc, Limiter).
THEOREM LimitsAreKept ==
  ASSUME LimitsAssumption
  PROVE  LimitsSpec => [](MapsLimited /\ FdsLimited)
<1>1. LimitInv => MapsLimited /\ FdsLimited
  <2> SUFFICES ASSUME LimitInv PROVE MapsLimited /\ FdsLimited
    OBVIOUS
  <2>1. IsFiniteSet(HasMap) /\ IsFiniteSet(HasFd)
    BY FS_Subset DEF LimitsAssumption, HasMap, HasFd
  <2>2. maps \subseteq HasMap /\ fds \ Busy \subseteq HasFd
    BY DEF LimitInv, LimitTypes, Opened, HasMap, HasFd, Busy, ReadPcs
  <2>3. /\ Cardinality(maps) =< Cardinality(HasMap) /\ Cardinality(maps) \in Nat
        /\ Cardinality(fds \ Busy) =< Cardinality(HasFd) /\ Cardinality(fds \ Busy) \in Nat
    BY <2>1, <2>2, FS_Subset, FS_CardinalityType
  <2>4. Cardinality(HasMap) =< MmapLimit /\ Cardinality(HasFd) =< FdLimit
    <3>1. Cardinality(HasMap) \in Nat /\ Cardinality(HasFd) \in Nat
      BY <2>1, FS_CardinalityType
    <3>2. allowed["mmap"] \in Nat /\ allowed["fd"] \in Nat
      BY DEF LimitInv, LimitTypes, Limiters
    <3> QED BY <3>1, <3>2 DEF LimitInv, Balance, LimitsAssumption
  <2>5. Cardinality(HasMap) \in Nat /\ Cardinality(HasFd) \in Nat
    BY <2>1, FS_CardinalityType
  <2> QED BY <2>3, <2>4, <2>5 DEF MapsLimited, FdsLimited, LimitsAssumption
<1> QED BY <1>1, LimitsInvariance, PTL

\* Nothing that was taken from a limit is lost or given back twice, whatever failed:
\* when no table is open, all of it is free (env_posix.cc, NewRandomAccessFile).
THEOREM LimitsAreGivenBack ==
  ASSUME LimitsAssumption
  PROVE  LimitsSpec => []LimitsComeBack
<1>1. LimitInv => LimitsComeBack
  <2> SUFFICES ASSUME LimitInv, \A a \in Actors : readPc[a] = "none"
               PROVE  allowed = Limit /\ fds = {} /\ maps = {}
    BY DEF LimitsComeBack
  <2>1. HasMap = {} /\ HasFd = {}
    BY DEF HasMap, HasFd
  <2>2. allowed["mmap"] = MmapLimit /\ allowed["fd"] = FdLimit
    <3>1. allowed["mmap"] \in Nat /\ allowed["fd"] \in Nat
      BY DEF LimitInv, LimitTypes, Limiters
    <3> QED BY <2>1, <3>1, FS_EmptySet DEF LimitInv, Balance, LimitsAssumption
  <2>3. allowed = Limit
    BY <2>2 DEF LimitInv, LimitTypes, Limit, Limiters
  <2>4. fds = {} /\ maps = {}
    BY DEF LimitInv, Opened
  <2> QED BY <2>3, <2>4
<1> QED BY <1>1, LimitsInvariance, PTL

-----------------------------------------------------------------------------
(* The background thread                                                   *)

\* What has run and what waits are, in this order, what was scheduled.
ThreadInv ==
  /\ calls \in Seq(Nat) /\ ran \in Seq(Nat) /\ queue \in Seq(Nat)
  /\ calls = ran \o queue

\* Two ways to cut a sequence of which one has an element more in its first part.
LEMMA CutMoves ==
  ASSUME NEW a \in Seq(Nat), NEW r \in Seq(Nat), NEW done \in Seq(Nat), NEW todo \in Seq(Nat),
         Len(a) = Len(done) + 1, Len(todo) = Len(r) + 1, a[Len(a)] = todo[1],
         \A i \in 1..Len(done) : a[i] = done[i],
         \A i \in 1..Len(r) : r[i] = todo[i + 1]
  PROVE  a \o r = done \o todo
<1>1. /\ a \o r \in Seq(Nat) /\ Len(a \o r) = Len(a) + Len(r)
      /\ \A i \in 1..(Len(a) + Len(r)) :
           (a \o r)[i] = IF i <= Len(a) THEN a[i] ELSE r[i - Len(a)]
  BY ConcatProperties
<1>2. /\ done \o todo \in Seq(Nat) /\ Len(done \o todo) = Len(done) + Len(todo)
      /\ \A i \in 1..(Len(done) + Len(todo)) :
           (done \o todo)[i] = IF i <= Len(done) THEN done[i] ELSE todo[i - Len(done)]
  BY ConcatProperties
<1>3. Len(a) \in Nat /\ Len(r) \in Nat /\ Len(done) \in Nat /\ Len(todo) \in Nat
  BY LenProperties
<1>4. Len(a) + Len(r) = Len(done) + Len(todo)
  BY <1>3
<1>5. ASSUME NEW i \in 1..(Len(a) + Len(r)) PROVE (a \o r)[i] = (done \o todo)[i]
  <2>1. (a \o r)[i] = IF i <= Len(a) THEN a[i] ELSE r[i - Len(a)]
    BY <1>1
  <2>2. (done \o todo)[i] = IF i <= Len(done) THEN done[i] ELSE todo[i - Len(done)]
    BY <1>2, <1>4
  <2>3. CASE i <= Len(done)
    <3>1. i \in 1..Len(done) /\ i <= Len(a)
      BY <1>3, <2>3
    <3>2. a[i] = done[i]
      BY <3>1
    <3> QED BY <2>1, <2>2, <2>3, <3>1, <3>2
  <2>4. CASE i = Len(a)
    <3>1. ~(i <= Len(done)) /\ i - Len(done) = 1 /\ i <= Len(a)
      BY <1>3, <2>4
    <3> QED BY <2>1, <2>2, <2>4, <3>1
  <2>5. CASE i > Len(a)
    <3>1. ~(i <= Len(done)) /\ ~(i <= Len(a)) /\ i - Len(a) \in 1..Len(r)
          /\ i - Len(done) = (i - Len(a)) + 1
      BY <1>3, <2>5
    <3>2. r[i - Len(a)] = todo[(i - Len(a)) + 1]
      BY <3>1
    <3> QED BY <2>1, <2>2, <3>1, <3>2
  <2>6. i <= Len(done) \/ i = Len(a) \/ i > Len(a)
    BY <1>3
  <2> QED BY <2>3, <2>4, <2>5, <2>6
<1> QED BY <1>1, <1>2, <1>4, <1>5, SeqEqual

\* The first of what waits may be put behind what is done.
LEMMA HeadMoves ==
  ASSUME NEW done \in Seq(Nat), NEW todo \in Seq(Nat), todo # <<>>
  PROVE  Append(done, Head(todo)) \o Tail(todo) = done \o todo
<1>1. /\ Head(todo) \in Nat /\ Tail(todo) \in Seq(Nat) /\ Len(Tail(todo)) = Len(todo) - 1
      /\ \A i \in 1..Len(Tail(todo)) : Tail(todo)[i] = todo[i + 1]
  BY HeadTailProperties
<1>2. Head(todo) = todo[1] /\ Len(todo) \in Nat /\ Len(done) \in Nat
  BY LenProperties
<1>3. PICK a \in Seq(Nat) : a = Append(done, Head(todo))
  BY <1>1, AppendProperties
<1>4. /\ Len(a) = Len(done) + 1 /\ a[Len(done) + 1] = Head(todo)
      /\ \A i \in 1..Len(done) : a[i] = done[i]
  BY <1>1, <1>3, AppendProperties
<1>5. PICK r \in Seq(Nat) : r = Tail(todo)
  BY <1>1
<1>6. a \o r = done \o todo
  <2>1. Len(todo) = Len(r) + 1
    BY <1>1, <1>2, <1>5
  <2>2. \A i \in 1..Len(r) : r[i] = todo[i + 1]
    BY <1>1, <1>5
  <2>3. a[Len(a)] = todo[1]
    BY <1>2, <1>4
  <2>4. Len(a) = Len(done) + 1 /\ \A i \in 1..Len(done) : a[i] = done[i]
    BY <1>4
  <2> QED BY <2>1, <2>2, <2>3, <2>4, CutMoves, ZenonT(60)
<1> QED BY <1>3, <1>5, <1>6

\* The background thread runs what it is given in the order of the calls of Schedule,
\* each once (env_posix.cc, BGThread).
THEOREM WorkRunsInOrder == ThreadSpec => []RunsInOrder
<1>1. ThreadInit => ThreadInv
  BY DEF ThreadInit, ThreadInv
<1>2. ThreadInv /\ [ThreadNext]_threadVars => ThreadInv'
  <2> SUFFICES ASSUME ThreadInv, [ThreadNext]_threadVars PROVE ThreadInv'
    OBVIOUS
  <2>1. CASE Schedule
    <3> DEFINE n == Len(calls) + 1
    <3>1. n \in Nat
      BY DEF ThreadInv
    <3>2. queue' = Append(queue, n) /\ calls' = Append(calls, n) /\ ran' = ran
      BY <2>1 DEF Schedule, Queued
    <3> HIDE DEF n
    <3>3. Append(ran \o queue, n) = ran \o Append(queue, n)
      BY <3>1 DEF ThreadInv
    <3> QED BY <3>1, <3>2, <3>3 DEF ThreadInv
  <2>2. CASE Take
    <3>1. queue # <<>> /\ queue' = Tail(queue) /\ ran' = Append(ran, Head(queue)) /\ calls' = calls
      BY <2>2 DEF Take
    <3>2. Head(queue) \in Nat /\ Tail(queue) \in Seq(Nat)
      BY <3>1, HeadTailProperties DEF ThreadInv
    <3>3. Append(ran, Head(queue)) \o Tail(queue) = ran \o queue
      BY <3>1, HeadMoves DEF ThreadInv
    <3> QED BY <3>1, <3>2, <3>3 DEF ThreadInv
  <2>3. CASE SpuriousWake \/ Wait \/ Return \/ UNCHANGED threadVars
    BY <2>3 DEF SpuriousWake, Wait, Return, threadVars, ThreadInv
  <2> QED BY <2>1, <2>2, <2>3 DEF ThreadNext, BGThread
<1>3. ThreadInv => RunsInOrder
  BY DEF ThreadInv, RunsInOrder, IsPrefix
<1> QED BY <1>1, <1>2, <1>3, PTL DEF ThreadSpec

-----------------------------------------------------------------------------
(* A file that is written                                                  *)

\* The pieces in the kernel and in the buffer are in the order of the calls.
FileOrder(k, b, n) ==
  /\ k \in Seq(Nat) /\ b \in Seq(Nat)
  /\ \A i, j \in 1..Len(k) : i < j => k[i] < k[j]
  /\ \A i, j \in 1..Len(b) : i < j => b[i] < b[j]
  /\ \A i \in 1..Len(k), j \in 1..Len(b) : k[i] < b[j]
  /\ \A i \in 1..Len(k) : k[i] < n
  /\ \A i \in 1..Len(b) : b[i] < n

FileTypes ==
  /\ disk \in 0..Len(kernel) /\ next \in Nat \ {0} /\ open \in BOOLEAN
  /\ named \in {"no", "cached", "disk"} /\ sync \in {"no", "flush", "data"}

\* Whatever Append was called with is somewhere, or somebody was told.
Covered == \A p \in 1..(next - 1) : p \in ToSet(kernel) \cup ToSet(buf) \cup failed \cup gone

\* What Sync answered for is in the part of the file that is on disk.
SafeOnDisk == \A p \in safe : \E i \in 1..disk : p = kernel[i]

\* A file that is not open has no buffer; one without a name has nothing at all.
Closed == ~open => buf = <<>> /\ sync = "no"
Unnamed == named = "no" => kernel = <<>> /\ ~open

\* From the sync of its directory on the name of a manifest is on disk.
DirIsSynced == kind = "MANIFEST" /\ (sync # "no" \/ safe # {}) => named = "disk"

FileInv ==
  /\ FileTypes /\ FileOrder(kernel, buf, next) /\ Covered
  /\ SafeOnDisk /\ FlushedStays /\ Closed /\ Unnamed /\ DirIsSynced

\* What was the beginning of the buffer is now the end of the file.
Grows(old, new, b, n) ==
  /\ new \in Seq(Nat) /\ Len(new) = Len(old) + n
  /\ \A i \in 1..Len(old) : new[i] = old[i]
  /\ \A i \in 1..n : new[Len(old) + i] = b[i]

\* The elements of a sequence, by their positions.
LEMMA Elements ==
  ASSUME NEW s \in Seq(Nat)
  PROVE  \A p : p \in ToSet(s) <=> \E i \in 1..Len(s) : p = s[i]
BY DEF ToSet

\* SubSeq keeps a part of the sequence.
LEMMA Part ==
  ASSUME NEW s \in Seq(Nat), NEW m \in 0..Len(s)
  PROVE  /\ SubSeq(s, 1, m) \in Seq(Nat) /\ Len(SubSeq(s, 1, m)) = m
         /\ \A i \in 1..m : SubSeq(s, 1, m)[i] = s[i]
BY SubSeqProperties

\* And SubSeq from there on the rest of it.
LEMMA Rest ==
  ASSUME NEW s \in Seq(Nat), NEW m \in 0..Len(s)
  PROVE  /\ SubSeq(s, m + 1, Len(s)) \in Seq(Nat)
         /\ \A i \in 1..Len(s) : i > m => s[i] \in ToSet(SubSeq(s, m + 1, Len(s)))
<1>1. Len(s) \in Nat
  BY LenProperties
<1>2. /\ SubSeq(s, m + 1, Len(s)) \in Seq(Nat)
      /\ Len(SubSeq(s, m + 1, Len(s))) = Len(s) - m
      /\ \A i \in 1..(Len(s) - m) : SubSeq(s, m + 1, Len(s))[i] = s[m + i]
  <2>1. CASE m < Len(s)
    <3>1. m + 1 \in 1..Len(s) /\ Len(s) \in m..Len(s) /\ m + 1 <= Len(s)
      BY <1>1, <2>1
    <3>2. /\ SubSeq(s, m + 1, Len(s)) \in Seq(Nat)
          /\ Len(SubSeq(s, m + 1, Len(s))) = Len(s) - (m + 1) + 1
          /\ \A i \in 1..(Len(s) - (m + 1) + 1) : SubSeq(s, m + 1, Len(s))[i] = s[(m + 1) + i - 1]
      BY <1>1, <3>1, SubSeqProperties
    <3>3. Len(s) - (m + 1) + 1 = Len(s) - m
      BY <1>1
    <3>4. ASSUME NEW i \in 1..(Len(s) - m) PROVE SubSeq(s, m + 1, Len(s))[i] = s[m + i]
      <4>1. (m + 1) + i - 1 = m + i /\ i \in 1..(Len(s) - (m + 1) + 1)
        BY <3>3, <1>1
      <4> QED BY <3>2, <4>1
    <3> QED BY <3>2, <3>3, <3>4
  <2>2. CASE m = Len(s)
    BY <1>1, <2>2, SubSeqEmpty
  <2> QED BY <1>1, <2>1, <2>2
<1>3. ASSUME NEW i \in 1..Len(s), i > m PROVE s[i] \in ToSet(SubSeq(s, m + 1, Len(s)))
  <2>1. i - m \in 1..(Len(s) - m) /\ m + (i - m) = i
    BY <1>1, <1>3
  <2>2. SubSeq(s, m + 1, Len(s))[i - m] = s[i]
    BY <1>2, <2>1
  <2> QED BY <1>2, <2>1, <2>2, Elements
<1> QED BY <1>2, <1>3

\* Concatenation makes the file grow.
LEMMA ConcatGrows ==
  ASSUME NEW k \in Seq(Nat), NEW b \in Seq(Nat), NEW m \in 0..Len(b)
  PROVE  Grows(k, k \o SubSeq(b, 1, m), b, m)
<1>1. PICK t \in Seq(Nat) : t = SubSeq(b, 1, m)
  BY Part
<1>2. Len(t) = m /\ \A i \in 1..m : t[i] = b[i]
  BY <1>1, Part
<1>3. Len(k) \in Nat /\ m \in Nat
  BY LenProperties
<1>4. /\ k \o t \in Seq(Nat) /\ Len(k \o t) = Len(k) + Len(t)
      /\ \A i \in 1..(Len(k) + Len(t)) : (k \o t)[i] = IF i <= Len(k) THEN k[i] ELSE t[i - Len(k)]
  BY ConcatProperties
<1>5. \A i \in 1..Len(k) : (k \o t)[i] = k[i]
  BY <1>2, <1>3, <1>4
<1>6. ASSUME NEW i \in 1..m PROVE (k \o t)[Len(k) + i] = b[i]
  <2>1. Len(k) + i \in 1..(Len(k) + Len(t)) /\ ~(Len(k) + i <= Len(k)) /\ (Len(k) + i) - Len(k) = i
    BY <1>2, <1>3
  <2> QED BY <1>2, <1>4, <2>1
<1>7. Grows(k, k \o t, b, m)
  BY <1>2, <1>4, <1>5, <1>6 DEF Grows
<1> QED BY <1>1, <1>7

\* The order is kept when the buffer goes to the kernel, or part of it does and the
\* rest is dropped (fflush, fclose).
LEMMA OrderGrows ==
  ASSUME NEW k, NEW b, NEW n \in Nat, NEW m, NEW t,
         FileOrder(k, b, n), m \in 0..Len(b), Grows(k, t, b, m)
  PROVE  FileOrder(t, <<>>, n)
<1>1. k \in Seq(Nat) /\ b \in Seq(Nat) /\ Len(k) \in Nat /\ Len(b) \in Nat /\ m \in Nat
  BY LenProperties DEF FileOrder
<1>2. /\ t \in Seq(Nat) /\ Len(t) = Len(k) + m
      /\ \A i \in 1..Len(k) : t[i] = k[i]
      /\ \A i \in 1..m : t[Len(k) + i] = b[i]
  BY DEF Grows
<1>3. ASSUME NEW i \in 1..Len(t), i > Len(k)
      PROVE  i - Len(k) \in 1..Len(b) /\ t[i] = b[i - Len(k)]
  <2>1. i - Len(k) \in 1..m /\ Len(k) + (i - Len(k)) = i
    BY <1>1, <1>2, <1>3
  <2>2. t[Len(k) + (i - Len(k))] = b[i - Len(k)]
    BY <1>2, <2>1
  <2> QED BY <1>1, <2>1, <2>2
<1>4. ASSUME NEW i \in 1..Len(t), ~(i > Len(k)) PROVE i \in 1..Len(k) /\ t[i] = k[i]
  BY <1>1, <1>2, <1>4
<1>5. ASSUME NEW i \in 1..Len(t), NEW j \in 1..Len(t), i < j PROVE t[i] < t[j]
  <2>1. CASE j > Len(k) /\ i > Len(k)
    <3>1. i - Len(k) < j - Len(k)
      BY <1>1, <1>2, <1>5
    <3> QED BY <1>3, <2>1, <3>1 DEF FileOrder
  <2>2. CASE j > Len(k) /\ ~(i > Len(k))
    BY <1>3, <1>4, <2>2 DEF FileOrder
  <2>3. CASE ~(j > Len(k))
    <3>1. ~(i > Len(k))
      BY <1>1, <1>2, <1>5, <2>3
    <3> QED BY <1>4, <1>5, <2>3, <3>1 DEF FileOrder
  <2> QED BY <2>1, <2>2, <2>3
<1>6. ASSUME NEW i \in 1..Len(t) PROVE t[i] < n
  BY <1>3, <1>4 DEF FileOrder
<1> QED BY <1>2, <1>5, <1>6 DEF FileOrder

\* The order is kept when stdio hands on one piece.
LEMMA OrderSpills ==
  ASSUME NEW k, NEW b, NEW n \in Nat, FileOrder(k, b, n), b # <<>>
  PROVE  /\ FileOrder(Append(k, Head(b)), Tail(b), n)
         /\ \A i \in 1..Len(k) : Append(k, Head(b))[i] = k[i]
         /\ Len(Append(k, Head(b))) = Len(k) + 1
         /\ \A p : p \in ToSet(k) \cup ToSet(b) => p \in ToSet(Append(k, Head(b))) \cup ToSet(Tail(b))
<1>1. k \in Seq(Nat) /\ b \in Seq(Nat) /\ Len(k) \in Nat /\ Len(b) \in Nat
  BY LenProperties DEF FileOrder
<1>2. PICK h \in Nat : h = Head(b)
  BY <1>1, HeadTailProperties
<1>3. PICK r \in Seq(Nat) : r = Tail(b)
  BY <1>1, HeadTailProperties
<1>4. /\ h = b[1] /\ Len(b) > 0 /\ Len(r) = Len(b) - 1
      /\ \A i \in 1..Len(r) : r[i] = b[i + 1]
  BY <1>1, <1>2, <1>3, HeadTailProperties, EmptySeq
<1>5. PICK a \in Seq(Nat) : a = Append(k, h)
  BY <1>1, AppendProperties
<1>6. Len(a) = Len(k) + 1 /\ a[Len(k) + 1] = h /\ \A i \in 1..Len(k) : a[i] = k[i]
  BY <1>1, <1>5, AppendProperties
<1>7. \A i \in 1..Len(a) : i \in 1..Len(k) \/ i = Len(k) + 1
  BY <1>1, <1>6
<1>8. 1 \in 1..Len(b) /\ \A i \in 1..Len(r) : i + 1 \in 1..Len(b) /\ 1 < i + 1
  BY <1>1, <1>4
<1>9. FileOrder(a, r, n)
  <2>1. ASSUME NEW i \in 1..Len(a), NEW j \in 1..Len(a), i < j PROVE a[i] < a[j]
    <3>1. i \in 1..Len(k)
      BY <1>1, <1>6, <2>1
    <3>2. CASE j \in 1..Len(k)
      BY <1>6, <2>1, <3>1, <3>2 DEF FileOrder
    <3>3. CASE j = Len(k) + 1
      BY <1>4, <1>6, <1>8, <3>1, <3>3 DEF FileOrder
    <3> QED BY <1>7, <3>2, <3>3
  <2>2. ASSUME NEW i \in 1..Len(r), NEW j \in 1..Len(r), i < j PROVE r[i] < r[j]
    <3>1. i + 1 < j + 1
      BY <2>2
    <3> QED BY <1>4, <1>8, <3>1 DEF FileOrder
  <2>3. ASSUME NEW i \in 1..Len(a), NEW j \in 1..Len(r) PROVE a[i] < r[j]
    <3>1. CASE i \in 1..Len(k)
      BY <1>4, <1>6, <1>8, <3>1 DEF FileOrder
    <3>2. CASE i = Len(k) + 1
      BY <1>4, <1>6, <1>8, <3>2 DEF FileOrder
    <3> QED BY <1>7, <3>1, <3>2
  <2>4. ASSUME NEW i \in 1..Len(a) PROVE a[i] < n
    BY <1>4, <1>6, <1>7, <1>8 DEF FileOrder
  <2>5. ASSUME NEW i \in 1..Len(r) PROVE r[i] < n
    BY <1>4, <1>8 DEF FileOrder
  <2> QED BY <2>1, <2>2, <2>3, <2>4, <2>5 DEF FileOrder
<1>10. ASSUME NEW p, p \in ToSet(k) \cup ToSet(b) PROVE p \in ToSet(a) \cup ToSet(r)
  <2>1. CASE p \in ToSet(k)
    <3>1. PICK i \in 1..Len(k) : p = k[i]
      BY <1>1, <2>1, Elements
    <3>2. i \in 1..Len(a) /\ p = a[i]
      BY <1>1, <1>6, <3>1
    <3> QED BY <3>2, Elements
  <2>2. CASE p \in ToSet(b)
    <3>1. PICK i \in 1..Len(b) : p = b[i]
      BY <1>1, <2>2, Elements
    <3>2. CASE i = 1
      <4>1. Len(k) + 1 \in 1..Len(a) /\ p = a[Len(k) + 1]
        BY <1>1, <1>4, <1>6, <3>1, <3>2
      <4> QED BY <4>1, Elements
    <3>3. CASE i # 1
      <4>1. i - 1 \in 1..Len(r) /\ (i - 1) + 1 = i
        BY <1>1, <1>4, <3>3
      <4>2. p = r[i - 1]
        BY <1>4, <3>1, <4>1
      <4> QED BY <4>1, <4>2, Elements
    <3> QED BY <3>2, <3>3
  <2> QED BY <1>10, <2>1, <2>2
<1> QED BY <1>2, <1>3, <1>5, <1>6, <1>9, <1>10

\* The order is kept by Append, which numbers the pieces.
LEMMA OrderAppends ==
  ASSUME NEW k, NEW b, NEW n \in Nat, FileOrder(k, b, n)
  PROVE  /\ FileOrder(k, Append(b, n), n + 1) /\ FileOrder(k, b, n + 1)
         /\ n \in ToSet(Append(b, n)) /\ \A p \in ToSet(b) : p \in ToSet(Append(b, n))
<1>1. k \in Seq(Nat) /\ b \in Seq(Nat) /\ Len(k) \in Nat /\ Len(b) \in Nat
  BY LenProperties DEF FileOrder
<1>2. PICK a \in Seq(Nat) : a = Append(b, n)
  BY <1>1, AppendProperties
<1>3. Len(a) = Len(b) + 1 /\ a[Len(b) + 1] = n /\ \A i \in 1..Len(b) : a[i] = b[i]
  BY <1>1, <1>2, AppendProperties
<1>4. \A i \in 1..Len(a) : i \in 1..Len(b) \/ i = Len(b) + 1
  BY <1>1, <1>3
<1>5. /\ \A i \in 1..Len(k) : k[i] < n /\ k[i] \in Nat
      /\ \A i \in 1..Len(b) : b[i] < n /\ b[i] \in Nat
  BY <1>1, ElementOfSeq DEF FileOrder
<1>6. /\ \A i \in 1..Len(k) : k[i] < n + 1
      /\ \A i \in 1..Len(b) : b[i] < n + 1
  BY <1>5
<1>7. FileOrder(k, a, n + 1)
  <2>1. ASSUME NEW i \in 1..Len(a), NEW j \in 1..Len(a), i < j PROVE a[i] < a[j]
    <3>1. i \in 1..Len(b)
      BY <1>1, <1>3, <2>1
    <3>2. CASE j \in 1..Len(b)
      BY <1>3, <2>1, <3>1, <3>2 DEF FileOrder
    <3>3. CASE j = Len(b) + 1
      BY <1>3, <1>5, <3>1, <3>3
    <3> QED BY <1>4, <3>2, <3>3
  <2>2. ASSUME NEW i \in 1..Len(k), NEW j \in 1..Len(a) PROVE k[i] < a[j]
    BY <1>3, <1>4, <1>5 DEF FileOrder
  <2>3. ASSUME NEW i \in 1..Len(a) PROVE a[i] < n + 1
    BY <1>3, <1>4, <1>6
  <2> QED BY <1>1, <1>6, <2>1, <2>2, <2>3 DEF FileOrder
<1>8. FileOrder(k, b, n + 1)
  BY <1>1, <1>6 DEF FileOrder
<1>9. n \in ToSet(a)
  <2>1. Len(b) + 1 \in 1..Len(a)
    BY <1>1, <1>3
  <2> QED BY <1>3, <2>1, Elements
<1>10. ASSUME NEW p \in ToSet(b) PROVE p \in ToSet(a)
  <2>1. PICK i \in 1..Len(b) : p = b[i]
    BY <1>1, Elements
  <2>2. i \in 1..Len(a) /\ p = a[i]
    BY <1>1, <1>3, <2>1
  <2> QED BY <2>2, Elements
<1> QED BY <1>2, <1>7, <1>8, <1>9, <1>10

\* The order is kept when a crash takes all but the beginning.
LEMMA OrderCut ==
  ASSUME NEW k, NEW b, NEW n \in Nat, NEW d, FileOrder(k, b, n), d \in 0..Len(k)
  PROVE  FileOrder(SubSeq(k, 1, d), <<>>, n)
<1>1. k \in Seq(Nat) /\ Len(k) \in Nat
  BY LenProperties DEF FileOrder
<1>2. PICK t \in Seq(Nat) : t = SubSeq(k, 1, d)
  BY <1>1, Part
<1>3. Len(t) = d /\ \A i \in 1..d : t[i] = k[i] /\ i \in 1..Len(k)
  BY <1>1, <1>2, Part
<1>4. /\ \A i, j \in 1..Len(t) : i < j => t[i] < t[j]
      /\ \A i \in 1..Len(t) : t[i] < n
  BY <1>3 DEF FileOrder
<1>5. FileOrder(t, <<>>, n)
  BY <1>4 DEF FileOrder
<1> QED BY <1>2, <1>5

\* What the first part of a file says stays true while the file grows.
LEMMA GrowsKeeps ==
  ASSUME NEW k \in Seq(Nat), NEW b \in Seq(Nat), NEW m \in 0..Len(b), NEW t, Grows(k, t, b, m)
  PROVE  /\ \A p \in ToSet(k) : p \in ToSet(t)
         /\ \A p \in ToSet(b) : p \in ToSet(t) \/ \E i \in 1..Len(b) : i > m /\ p = b[i]
<1>1. Len(k) \in Nat /\ Len(b) \in Nat /\ m \in Nat
  BY LenProperties
<1>2. t \in Seq(Nat) /\ Len(t) = Len(k) + m
  BY DEF Grows
<1>3. ASSUME NEW p \in ToSet(k) PROVE p \in ToSet(t)
  <2>1. PICK i \in 1..Len(k) : p = k[i]
    BY Elements
  <2>2. i \in 1..Len(t) /\ p = t[i]
    BY <1>1, <1>2, <2>1 DEF Grows
  <2> QED BY <1>2, <2>2, Elements
<1>4. ASSUME NEW p \in ToSet(b) PROVE p \in ToSet(t) \/ \E i \in 1..Len(b) : i > m /\ p = b[i]
  <2>1. PICK i \in 1..Len(b) : p = b[i]
    BY Elements
  <2>2. CASE i > m
    BY <2>1, <2>2
  <2>3. CASE ~(i > m)
    <3>1. i \in 1..m /\ Len(k) + i \in 1..Len(t)
      BY <1>1, <1>2, <2>3
    <3>2. p = t[Len(k) + i]
      BY <2>1, <3>1 DEF Grows
    <3> QED BY <1>2, <3>1, <3>2, Elements
  <2> QED BY <2>2, <2>3
<1> QED BY <1>3, <1>4

\* What a file that grew, and whose buffer went, keeps of the invariant.
LEMMA FlushKeeps ==
  ASSUME FileInv, NEW m \in 0..Len(buf), Grows(kernel, kernel', buf, m),
         buf' = <<>>, next' = next, disk' = disk, safe' = safe,
         failed \subseteq failed', gone \subseteq gone',
         \A i \in 1..Len(buf) : i > m => buf[i] \in failed' \cup gone'
  PROVE  /\ FileOrder(kernel, buf, next)' /\ Covered' /\ SafeOnDisk'
         /\ disk' \in 0..Len(kernel') /\ ToSet(kernel) \subseteq ToSet(kernel')
<1>1. kernel \in Seq(Nat) /\ buf \in Seq(Nat) /\ next \in Nat
  BY DEF FileInv, FileTypes, FileOrder
<1>2. FileOrder(kernel, buf, next)
  BY DEF FileInv
<1>3. FileOrder(kernel', <<>>, next)
  BY <1>1, <1>2, OrderGrows
<1>4. ToSet(kernel) \subseteq ToSet(kernel')
  BY <1>1, GrowsKeeps
<1>5. \A p \in ToSet(buf) : p \in ToSet(kernel') \cup failed' \cup gone'
  BY <1>1, GrowsKeeps
<1>6. Covered'
  <2> SUFFICES ASSUME NEW p \in 1..(next - 1)
               PROVE  p \in ToSet(kernel') \cup ToSet(buf') \cup failed' \cup gone'
    BY DEF Covered
  <2>1. p \in ToSet(kernel) \cup ToSet(buf) \cup failed \cup gone
    BY DEF FileInv, Covered
  <2> QED BY <1>4, <1>5, <2>1
<1>7. Len(kernel) \in Nat /\ Len(kernel') = Len(kernel) + m /\ m \in Nat /\ disk \in 0..Len(kernel)
  BY <1>1, LenProperties DEF Grows, FileInv, FileTypes
<1>8. SafeOnDisk'
  <2>1. \A i \in 1..disk : kernel'[i] = kernel[i]
    BY <1>7 DEF Grows
  <2> QED BY <2>1 DEF FileInv, SafeOnDisk
<1> QED BY <1>3, <1>4, <1>6, <1>7, <1>8

\* A call of fflush or fclose.
LEMMA FlushStep ==
  ASSUME FileInv, NEW ok \in BOOLEAN, FlushBuffer(ok),
         next' = next, disk' = disk, safe' = safe, gone' = gone
  PROVE  /\ FileOrder(kernel, buf, next)' /\ Covered' /\ SafeOnDisk' /\ FlushedStays'
         /\ disk' \in 0..Len(kernel') /\ buf' = <<>>
<1>1. kernel \in Seq(Nat) /\ buf \in Seq(Nat) /\ Len(buf) \in Nat
  BY LenProperties DEF FileInv, FileOrder
<1>2. PICK n \in 0..Len(buf) :
        /\ kernel' = kernel \o SubSeq(buf, 1, n)
        /\ failed' = failed \cup ToSet(SubSeq(buf, n + 1, Len(buf)))
  BY DEF FlushBuffer
<1>3. Grows(kernel, kernel', buf, n)
  BY <1>1, <1>2, ConcatGrows
<1>4. \A i \in 1..Len(buf) : i > n => buf[i] \in failed' \cup gone'
  BY <1>1, <1>2, Rest
<1>5. buf' = <<>>
  BY DEF FlushBuffer
<1>6. /\ FileOrder(kernel, buf, next)' /\ Covered' /\ SafeOnDisk'
      /\ disk' \in 0..Len(kernel') /\ ToSet(kernel) \subseteq ToSet(kernel')
  BY <1>2, <1>3, <1>4, <1>5, FlushKeeps
<1>7. FlushedStays'
  BY <1>6 DEF FlushBuffer, FileInv, FlushedStays
<1> QED BY <1>5, <1>6, <1>7

\* stdio hands on a piece of its buffer.
LEMMA SpillStep ==
  ASSUME FileInv, Spill PROVE FileInv'
<1>1. FileOrder(kernel, buf, next) /\ next \in Nat /\ kernel \in Seq(Nat)
  BY DEF FileInv, FileTypes, FileOrder
<1>2. /\ open /\ buf # <<>> /\ kernel' = Append(kernel, Head(buf)) /\ buf' = Tail(buf)
      /\ UNCHANGED <<kind, named, disk, open, sync, safe, flushed, gone, failed, next>>
  BY DEF Spill, ghost
<1>3. /\ FileOrder(kernel', buf', next)
      /\ \A i \in 1..Len(kernel) : kernel'[i] = kernel[i]
      /\ Len(kernel') = Len(kernel) + 1
      /\ \A p : p \in ToSet(kernel) \cup ToSet(buf) => p \in ToSet(kernel') \cup ToSet(buf')
  BY <1>1, <1>2, OrderSpills
<1>4. Covered'
  BY <1>2, <1>3 DEF FileInv, Covered
<1>5. Len(kernel) \in Nat /\ disk \in 0..Len(kernel)
  BY <1>1, LenProperties DEF FileInv, FileTypes
<1>6. SafeOnDisk'
  <2>1. \A i \in 1..disk : kernel'[i] = kernel[i]
    BY <1>3, <1>5
  <2> QED BY <1>2, <2>1 DEF FileInv, SafeOnDisk
<1>7. kernel' \in Seq(Nat)
  BY <1>3 DEF FileOrder
<1>8. ToSet(kernel) \subseteq ToSet(kernel')
  <2> SUFFICES ASSUME NEW p \in ToSet(kernel) PROVE p \in ToSet(kernel')
    OBVIOUS
  <2>1. PICK i \in 1..Len(kernel) : p = kernel[i]
    BY <1>1, Elements
  <2>2. i \in 1..Len(kernel') /\ p = kernel'[i]
    BY <1>3, <1>5, <2>1
  <2> QED BY <1>7, <2>2, Elements
<1>9. FileTypes' /\ FlushedStays' /\ Closed' /\ Unnamed' /\ DirIsSynced'
  <2>1. FileTypes'
    BY <1>2, <1>3, <1>5 DEF FileInv, FileTypes
  <2>2. FlushedStays'
    BY <1>2, <1>8 DEF FileInv, FlushedStays
  <2>3. Closed' /\ Unnamed' /\ DirIsSynced'
    BY <1>2 DEF FileInv, Closed, Unnamed, DirIsSynced
  <2> QED BY <2>1, <2>2, <2>3
<1> QED BY <1>2, <1>3, <1>4, <1>6, <1>9 DEF FileInv

\* Opening a file, writing back and the sync of the directory leave the pieces.
LEMMA QuietFileStep ==
  ASSUME FileInv,
         \/ WriteBack \/ NewAppendableFile \/ \E k \in Kinds : NewWritableFile(k)
         \/ \E ok \in BOOLEAN : SyncDir(ok)
  PROVE  FileInv'
<1>1. kernel \in Seq(Nat) /\ Len(kernel) \in Nat /\ disk \in 0..Len(kernel)
  BY LenProperties DEF FileInv, FileTypes, FileOrder
<1>2. CASE WriteBack
  <2>1. /\ disk < Len(kernel) /\ disk' = disk + 1
        /\ UNCHANGED <<kind, named, kernel, open, buf, sync, safe, flushed, gone, failed, next>>
    BY <1>2 DEF WriteBack, ghost
  <2>2. FileTypes'
    BY <1>1, <2>1 DEF FileInv, FileTypes
  <2>3. SafeOnDisk'
    <3>1. \A i \in 1..disk : i \in 1..disk'
      BY <1>1, <2>1
    <3> QED BY <2>1, <3>1 DEF FileInv, SafeOnDisk
  <2> QED BY <2>1, <2>2, <2>3 DEF FileInv, Covered, FlushedStays, Closed, Unnamed, DirIsSynced
<1>3. CASE NewAppendableFile
  <2>1. /\ named # "no" /\ ~open /\ open' /\ buf' = <<>> /\ sync' = "no"
        /\ UNCHANGED <<kind, named, kernel, disk, safe, flushed, gone, failed, next>>
    BY <1>3 DEF NewAppendableFile, file, ghost
  <2>2. buf = <<>>
    BY <2>1 DEF FileInv, Closed
  <2>3. FileTypes'
    BY <1>3, <2>1 DEF FileInv, FileTypes, NewAppendableFile
  <2> QED BY <2>1, <2>2, <2>3 DEF FileInv, Covered, SafeOnDisk, FlushedStays, Closed, Unnamed, DirIsSynced
<1>4. ASSUME NEW k \in Kinds, NewWritableFile(k) PROVE FileInv'
  <2>1. /\ named = "no" /\ ~open /\ kind' = k /\ named' = "cached" /\ kernel' = <<>> /\ disk' = 0
        /\ open' = TRUE /\ buf' = <<>> /\ sync' = "no"
        /\ UNCHANGED <<safe, flushed, gone, failed, next>>
    BY <1>4 DEF NewWritableFile, ghost
  <2>2. kernel = <<>> /\ buf = <<>>
    BY <2>1 DEF FileInv, Unnamed, Closed
  <2>3. disk = 0
    BY <1>1, <2>2
  <2>4. safe = {}
    BY <2>3 DEF FileInv, SafeOnDisk
  <2>5. FileTypes'
    BY <2>1 DEF FileInv, FileTypes
  <2> QED BY <2>1, <2>2, <2>3, <2>4, <2>5
          DEF FileInv, Covered, SafeOnDisk, FlushedStays, Closed, Unnamed, DirIsSynced
<1>5. ASSUME NEW ok \in BOOLEAN, SyncDir(ok) PROVE FileInv'
  <2>1. /\ open /\ sync = "no"
        /\ named' = IF SyncsDir(kind) /\ ok THEN "disk" ELSE named
        /\ sync' = IF SyncsDir(kind) /\ ~ok THEN "no" ELSE "flush"
        /\ UNCHANGED <<kind, kernel, disk, open, buf, safe, flushed, gone, failed, next>>
    BY <1>5 DEF SyncDir, ghost
  <2>2. named # "no"
    BY <2>1 DEF FileInv, Unnamed
  <2>3. FileTypes'
    BY <2>1 DEF FileInv, FileTypes
  <2>4. Unnamed' /\ Closed'
    BY <2>1, <2>2 DEF Unnamed, Closed
  <2>5. DirIsSynced'
    BY <2>1 DEF FileInv, DirIsSynced, SyncsDir
  <2> QED BY <2>1, <2>3, <2>4, <2>5 DEF FileInv, Covered, SafeOnDisk, FlushedStays
<1> QED BY <1>2, <1>3, <1>4, <1>5

\* Append puts a new piece into the buffer, or says that it did not.
LEMMA AppendStep ==
  ASSUME FileInv, NEW ok \in BOOLEAN, AppendPiece(ok) PROVE FileInv'
<1>1. FileOrder(kernel, buf, next) /\ next \in Nat
  BY DEF FileInv, FileTypes
<1>2. /\ open /\ next' = next + 1
      /\ buf' = IF ok THEN Append(buf, next) ELSE buf
      /\ failed' = failed \cup (IF ok THEN {} ELSE {next})
      /\ UNCHANGED <<kind, named, kernel, disk, open, sync, safe, flushed, gone>>
  BY DEF AppendPiece, file, Reported
<1>3. FileOrder(kernel', buf', next')
  BY <1>1, <1>2, OrderAppends
<1>4. next \in ToSet(buf') \cup failed' /\ \A p \in ToSet(buf) : p \in ToSet(buf')
  BY <1>1, <1>2, OrderAppends
<1>5. Covered'
  <2> SUFFICES ASSUME NEW p \in 1..(next' - 1)
               PROVE  p \in ToSet(kernel') \cup ToSet(buf') \cup failed' \cup gone'
    BY DEF Covered
  <2>1. p = next \/ p \in 1..(next - 1)
    BY <1>1, <1>2
  <2>2. CASE p \in 1..(next - 1)
    <3>1. p \in ToSet(kernel) \cup ToSet(buf) \cup failed \cup gone
      BY <2>2 DEF FileInv, Covered
    <3> QED BY <1>2, <1>4, <3>1
  <2> QED BY <1>4, <2>1, <2>2
<1>6. FileTypes'
  BY <1>1, <1>2 DEF FileInv, FileTypes
<1> QED BY <1>2, <1>3, <1>5, <1>6
        DEF FileInv, SafeOnDisk, FlushedStays, Closed, Unnamed, DirIsSynced

\* Flush, the flush of a Sync, and Close empty the buffer; an error is reported for
\* what did not get out.
LEMMA FlushesStep ==
  ASSUME FileInv, NEW ok \in BOOLEAN, Flush(ok) \/ SyncFlush(ok) \/ Close(ok) PROVE FileInv'
<1>1. /\ FlushBuffer(ok) /\ UNCHANGED <<kind, named, disk, safe, gone, next>>
      /\ open' \in BOOLEAN /\ sync' \in {"no", "flush", "data"}
      /\ (open' => open) /\ (sync' # "no" => sync # "no") /\ (~open' => sync' = "no")
  BY DEF Flush, SyncFlush, Close, FileInv, FileTypes, Closed
<1>2. /\ FileOrder(kernel, buf, next)' /\ Covered' /\ SafeOnDisk' /\ FlushedStays'
      /\ disk' \in 0..Len(kernel') /\ buf' = <<>>
  BY <1>1, FlushStep
<1>3. FileTypes'
  BY <1>1, <1>2 DEF FileInv, FileTypes
<1>4. Closed'
  BY <1>1, <1>2 DEF Closed
<1>5. DirIsSynced'
  BY <1>1 DEF FileInv, DirIsSynced
<1>6. Unnamed'
  <2> SUFFICES ASSUME named = "no" PROVE kernel' = <<>> /\ ~open'
    BY <1>1 DEF Unnamed
  <2>1. ~open
    BY DEF FileInv, Unnamed
  <2>2. sync = "no"
    BY <2>1 DEF FileInv, Closed
  <2> QED BY <2>1, <2>2 DEF Flush, SyncFlush, Close
<1> QED BY <1>2, <1>3, <1>4, <1>5, <1>6 DEF FileInv

\* fdatasync brings to disk whatever the kernel has.
LEMMA SyncDataStep ==
  ASSUME FileInv, NEW ok \in BOOLEAN, SyncData(ok) PROVE FileInv'
<1>1. kernel \in Seq(Nat) /\ Len(kernel) \in Nat /\ disk \in 0..Len(kernel)
  BY LenProperties DEF FileInv, FileTypes, FileOrder
<1>2. /\ sync = "data" /\ sync' = "no"
      /\ IF ok THEN disk' = Len(kernel) /\ safe' = safe \cup ToSet(kernel)
               ELSE UNCHANGED <<disk, safe>>
      /\ UNCHANGED <<kind, named, kernel, open, buf, flushed, gone, failed, next>>
  BY DEF SyncData, OnDisk
<1>3. SafeOnDisk'
  <2>1. CASE ok
    <3> SUFFICES ASSUME NEW p \in safe' PROVE \E i \in 1..Len(kernel) : p = kernel[i]
      BY <1>2, <2>1 DEF SafeOnDisk
    <3>1. CASE p \in safe
      <4>1. PICK i \in 1..disk : p = kernel[i]
        BY <3>1 DEF FileInv, SafeOnDisk
      <4>2. i \in 1..Len(kernel)
        BY <1>1
      <4> QED BY <4>1, <4>2
    <3>2. CASE p \in ToSet(kernel)
      BY <1>1, <3>2, Elements
    <3> QED BY <1>2, <2>1, <3>1, <3>2
  <2>2. CASE ~ok
    BY <1>2, <2>2 DEF FileInv, SafeOnDisk
  <2> QED BY <2>1, <2>2
<1>4. FileTypes'
  BY <1>1, <1>2 DEF FileInv, FileTypes
<1>5. DirIsSynced'
  BY <1>2 DEF FileInv, DirIsSynced
<1>6. Closed' /\ Unnamed'
  BY <1>2 DEF FileInv, Closed, Unnamed
<1> QED BY <1>2, <1>3, <1>4, <1>5, <1>6 DEF FileInv, Covered, FlushedStays

\* The destructor writes what it can; what it cannot is gone.
LEMMA DeleteStep ==
  ASSUME FileInv, NEW ok \in BOOLEAN, Delete(ok) PROVE FileInv'
<1>1. kernel \in Seq(Nat) /\ buf \in Seq(Nat) /\ Len(kernel) \in Nat /\ Len(buf) \in Nat
  BY LenProperties DEF FileInv, FileOrder
<1>2. /\ open /\ sync = "no" /\ open' = FALSE /\ buf' = <<>>
      /\ IF ok THEN kernel' = kernel \o buf /\ gone' = gone
               ELSE gone' = gone \cup ToSet(buf) /\ kernel' = kernel
      /\ UNCHANGED <<kind, named, disk, sync, safe, flushed, failed, next>>
  BY DEF Delete
<1>3. PICK m \in 0..Len(buf) :
        /\ Grows(kernel, kernel', buf, m)
        /\ \A i \in 1..Len(buf) : i > m => buf[i] \in failed' \cup gone'
  <2>1. CASE ok
    <3>1. SubSeq(buf, 1, Len(buf)) = buf
      BY <1>1, SubSeqFull
    <3>2. Len(buf) \in 0..Len(buf)
      BY <1>1
    <3>3. Grows(kernel, kernel', buf, Len(buf))
      BY <1>1, <1>2, <2>1, <3>1, <3>2, ConcatGrows
    <3>4. \A i \in 1..Len(buf) : ~(i > Len(buf))
      BY <1>1
    <3> QED BY <3>2, <3>3, <3>4
  <2>2. CASE ~ok
    <3>1. Grows(kernel, kernel', buf, 0)
      BY <1>1, <1>2, <2>2 DEF Grows
    <3>2. \A i \in 1..Len(buf) : buf[i] \in failed' \cup gone'
      BY <1>1, <1>2, <2>2, Elements
    <3> QED BY <1>1, <3>1, <3>2
  <2> QED BY <2>1, <2>2
<1>4. /\ FileOrder(kernel, buf, next)' /\ Covered' /\ SafeOnDisk'
      /\ disk' \in 0..Len(kernel') /\ ToSet(kernel) \subseteq ToSet(kernel')
  BY <1>2, <1>3, FlushKeeps
<1>5. FileTypes' /\ FlushedStays' /\ Closed' /\ DirIsSynced'
  BY <1>2, <1>4 DEF FileInv, FileTypes, FlushedStays, Closed, DirIsSynced
<1>6. Unnamed'
  BY <1>2 DEF FileInv, Unnamed
<1> QED BY <1>2, <1>4, <1>5, <1>6 DEF FileInv

\* The process dies: the buffer goes.
LEMMA ProcessCrashStep ==
  ASSUME FileInv, ProcessCrash PROVE FileInv'
<1>1. kernel \in Seq(Nat) /\ buf \in Seq(Nat) /\ Len(kernel) \in Nat /\ Len(buf) \in Nat
  BY LenProperties DEF FileInv, FileOrder
<1>2. /\ open /\ open' = FALSE /\ buf' = <<>> /\ sync' = "no" /\ gone' = gone \cup ToSet(buf)
      /\ UNCHANGED <<kind, named, kernel, disk, safe, flushed, failed, next>>
  BY DEF ProcessCrash, file
<1>3. 0 \in 0..Len(buf) /\ Grows(kernel, kernel', buf, 0)
  BY <1>1, <1>2 DEF Grows
<1>4. \A i \in 1..Len(buf) : buf[i] \in failed' \cup gone'
  BY <1>1, <1>2, Elements
<1>5. /\ FileOrder(kernel, buf, next)' /\ Covered' /\ SafeOnDisk' /\ disk' \in 0..Len(kernel')
  BY <1>2, <1>3, <1>4, FlushKeeps
<1>6. FileTypes' /\ FlushedStays' /\ Closed' /\ DirIsSynced' /\ Unnamed'
  BY <1>2, <1>5 DEF FileInv, FileTypes, FlushedStays, Closed, DirIsSynced, Unnamed
<1> QED BY <1>2, <1>5, <1>6 DEF FileInv

\* The machine crashes: what is on disk stays, under its name if that is there too.
LEMMA MachineCrashStep ==
  ASSUME FileInv, MachineCrash PROVE FileInv'
<1>1. /\ FileOrder(kernel, buf, next) /\ next \in Nat
      /\ kernel \in Seq(Nat) /\ buf \in Seq(Nat) /\ Len(kernel) \in Nat /\ disk \in 0..Len(kernel)
  BY LenProperties DEF FileInv, FileTypes, FileOrder
<1>2. PICK keep \in {named = "disk" \/ disk > 0, TRUE} :
        /\ named' = IF keep THEN "disk" ELSE "no"
        /\ kernel' = IF keep THEN SubSeq(kernel, 1, disk) ELSE <<>>
        /\ disk' = Len(kernel')
        /\ gone' = gone \cup ((ToSet(kernel) \cup ToSet(buf)) \ ToSet(kernel'))
        /\ flushed' = flushed \ gone'
  BY DEF MachineCrash
<1>3. /\ open' = FALSE /\ buf' = <<>> /\ sync' = "no"
      /\ kind' = kind /\ safe' = safe /\ failed' = failed /\ next' = next
  BY DEF MachineCrash
<1>4. CASE keep
  <2>1. named' = "disk" /\ kernel' = SubSeq(kernel, 1, disk)
    BY <1>2, <1>4
  <2>2. kernel' \in Seq(Nat) /\ Len(kernel') = disk /\ \A i \in 1..disk : kernel'[i] = kernel[i]
    BY <1>1, <2>1, Part
  <2>3. FileOrder(kernel', <<>>, next)
    BY <1>1, <2>1, OrderCut
  <2>4. SafeOnDisk'
    BY <1>2, <1>3, <2>2 DEF FileInv, SafeOnDisk
  <2>5. disk' \in 0..Len(kernel')
    BY <1>1, <1>2, <2>2
  <2>6. Unnamed' /\ DirIsSynced'
    BY <2>1 DEF Unnamed, DirIsSynced
  <2> QED BY <1>3, <2>1, <2>3, <2>4, <2>5, <2>6, <1>2 DEF FileInv, FileTypes, Closed, Covered, FlushedStays
<1>5. CASE ~keep
  <2>1. named' = "no" /\ kernel' = <<>> /\ named # "disk" /\ ~(disk > 0)
    BY <1>2, <1>5
  <2>2. disk = 0 /\ disk' = 0
    BY <1>1, <1>2, <2>1
  <2>3. safe = {}
    BY <2>2 DEF FileInv, SafeOnDisk
  <2>4. FileOrder(kernel', <<>>, next)
    BY <2>1 DEF FileOrder
  <2>5. SafeOnDisk' /\ DirIsSynced'
    BY <1>3, <2>3 DEF SafeOnDisk, DirIsSynced
  <2>6. disk' \in 0..Len(kernel')
    BY <2>1, <2>2
  <2> QED BY <1>3, <2>1, <2>4, <2>5, <2>6, <1>2 DEF FileInv, FileTypes, Closed, Unnamed, Covered, FlushedStays
<1> QED BY <1>4, <1>5

\* The invariant holds before the file is made, and every step keeps it.
LEMMA FileInvariance == FileSpec => []FileInv
<1>1. FileInit => FileInv
  <2> SUFFICES ASSUME FileInit PROVE FileInv
    OBVIOUS
  <2>1. /\ named = "no" /\ kernel = <<>> /\ disk = 0 /\ open = FALSE /\ buf = <<>> /\ sync = "no"
        /\ safe = {} /\ flushed = {} /\ next = 1
    BY DEF FileInit
  <2>2. FileTypes
    <3>1. disk \in 0..Len(kernel) /\ next \in Nat \ {0}
      BY <2>1
    <3>2. open \in BOOLEAN
      BY <2>1
    <3> QED BY <2>1, <3>1, <3>2 DEF FileTypes
  <2>5. FileOrder(kernel, buf, next)
    BY <2>1 DEF FileOrder
  <2>3. Covered
    BY <2>1 DEF Covered
  <2>4. SafeOnDisk /\ FlushedStays /\ Closed /\ Unnamed /\ DirIsSynced
    BY <2>1 DEF SafeOnDisk, FlushedStays, Closed, Unnamed, DirIsSynced
  <2> QED BY <2>2, <2>3, <2>4, <2>5 DEF FileInv
<1>2. FileInv /\ [FileNext]_fileVars => FileInv'
  <2> SUFFICES ASSUME FileInv, [FileNext]_fileVars PROVE FileInv'
    OBVIOUS
  <2>1. CASE UNCHANGED fileVars
    BY <2>1 DEF fileVars, file, ghost, FileInv, FileTypes, FileOrder, Covered, SafeOnDisk,
                FlushedStays, Closed, Unnamed, DirIsSynced
  <2>2. CASE \/ WriteBack \/ NewAppendableFile \/ \E k \in Kinds : NewWritableFile(k)
             \/ \E ok \in BOOLEAN : SyncDir(ok)
    BY <2>2, QuietFileStep
  <2>3. CASE Spill
    BY <2>3, SpillStep
  <2>4. CASE ProcessCrash
    BY <2>4, ProcessCrashStep
  <2>5. CASE MachineCrash
    BY <2>5, MachineCrashStep
  <2>6. ASSUME NEW ok \in BOOLEAN, AppendPiece(ok) PROVE FileInv'
    BY <2>6, AppendStep
  <2>7. ASSUME NEW ok \in BOOLEAN, Flush(ok) \/ SyncFlush(ok) \/ Close(ok) PROVE FileInv'
    BY <2>7, FlushesStep
  <2>8. ASSUME NEW ok \in BOOLEAN, SyncData(ok) PROVE FileInv'
    BY <2>8, SyncDataStep
  <2>9. ASSUME NEW ok \in BOOLEAN, Delete(ok) PROVE FileInv'
    BY <2>9, DeleteStep
  <2> QED BY <2>1, <2>2, <2>3, <2>4, <2>5, <2>6, <2>7, <2>8, <2>9 DEF FileNext
<1> QED BY <1>1, <1>2, PTL DEF FileSpec

\* What Sync answered OK for is in the file for ever, crashes of the machine
\* included, and a manifest that was synced is found under its name; what Flush
\* answered OK for survives the process (env_posix.cc, PosixWritableFile).
THEOREM SyncedSurvives == FileSpec => [](SyncedStays /\ FlushedStays /\ ManifestIsNamed)
<1>1. FileInv => SyncedStays /\ FlushedStays /\ ManifestIsNamed
  <2> SUFFICES ASSUME FileInv PROVE SyncedStays /\ FlushedStays /\ ManifestIsNamed
    OBVIOUS
  <2>1. kernel \in Seq(Nat) /\ Len(kernel) \in Nat /\ disk \in 0..Len(kernel)
    BY LenProperties DEF FileInv, FileTypes, FileOrder
  <2>2. SyncedStays
    <3> SUFFICES ASSUME NEW p \in safe PROVE p \in ToSet(kernel)
      BY DEF SyncedStays
    <3>1. PICK i \in 1..disk : p = kernel[i]
      BY DEF FileInv, SafeOnDisk
    <3>2. i \in 1..Len(kernel)
      BY <2>1
    <3> QED BY <2>1, <3>1, <3>2, Elements
  <2>3. FlushedStays /\ ManifestIsNamed
    BY DEF FileInv, DirIsSynced, ManifestIsNamed
  <2> QED BY <2>2, <2>3
<1> QED BY <1>1, FileInvariance, PTL

\* Nothing that Append was called with is missing without a word, and the rest is
\* in the order of the calls (env_posix.cc, PosixWritableFile).
THEOREM NothingIsSilent == FileSpec => []NothingSilent
<1>1. FileInv => NothingSilent
  <2> SUFFICES ASSUME FileInv PROVE NothingSilent
    OBVIOUS
  <2>1. FileOrder(kernel, buf, next) /\ next \in Nat /\ kernel \in Seq(Nat) /\ buf \in Seq(Nat)
        /\ Len(kernel) \in Nat /\ Len(buf) \in Nat
    BY LenProperties DEF FileInv, FileTypes, FileOrder
  <2>2. PICK t \in Seq(Nat) : t = kernel \o buf
    BY <2>1, ConcatProperties
  <2>3. Grows(kernel, t, buf, Len(buf))
    <3>1. SubSeq(buf, 1, Len(buf)) = buf /\ Len(buf) \in 0..Len(buf)
      BY <2>1, SubSeqFull
    <3> QED BY <2>1, <2>2, <3>1, ConcatGrows
  <2>4. FileOrder(t, <<>>, next)
    <3>1. Len(buf) \in 0..Len(buf)
      BY <2>1
    <3> QED BY <2>1, <2>3, <3>1, OrderGrows
  <2>5. DOMAIN t = 1..Len(t)
    OBVIOUS
  <2>6. InOrder(t)
    BY <2>4, <2>5 DEF FileOrder, InOrder
  <2> QED BY <2>2, <2>6 DEF NothingSilent, FileInv, Covered
<1> QED BY <1>1, FileInvariance, PTL

-----------------------------------------------------------------------------
(* The file CURRENT                                                        *)

SetPcs == {"idle", "open", "append", "sync", "close", "delete", "rename", "cleanup", "return"}

\* The temporary file has what the text begins with and the buffer the rest of it;
\* all of it is in the file before that is renamed.
TmpIsText ==
  /\ setPc = "append" => tmp = <<>>
  /\ setPc = "sync" => tmp \o tmpBuf = Contents(manifest)
  /\ setPc = "close" => tmp = Contents(manifest) /\ tmpBuf = <<>>
  /\ setPc = "rename" => tmp = Contents(manifest)

\* CURRENT is not touched before the rename, which comes last, and only if all else
\* went well.
NotYetRenamed == setPc \notin {"idle", "return"} => current = was
OkSoFar ==
  /\ setPc \in {"open", "append", "sync", "close", "rename"} => setOk = TRUE
  /\ setPc \in {"delete", "cleanup"} => setOk = FALSE

\* What has been read is how CURRENT begins; nobody writes it meanwhile.
ReadSoFar ==
  /\ read \in [at : {"no", "loop", "done"}, pos : Nat, data : Seq(Int), ok : BOOLEAN]
  /\ read.at = "no" => read = NoRead
  /\ read.at # "no" => setPc = "idle"
  /\ read.at = "loop" =>
       /\ current # Absent /\ read.pos \in 0..Len(current)
       /\ read.data = SubSeq(current, 1, read.pos)
  /\ read.at = "done" /\ read.ok => current # Absent /\ read.data = current

CurrentInv ==
  /\ setPc \in SetPcs /\ (setPc # "idle" => manifest \in Manifests)
  /\ NamesOne /\ TmpIsText /\ NotYetRenamed /\ OkSoFar /\ ReturnIsTrue /\ ReadSoFar

\* A part of a sequence and what follows it.
LEMMA PartsJoin ==
  ASSUME NEW s \in Seq(Int), NEW p \in Nat, NEW e \in 0..Len(s), p <= e
  PROVE  /\ SubSeq(s, 1, p) \o SubSeq(s, p + 1, e) = SubSeq(s, 1, e)
         /\ SubSeq(s, 1, p) \in Seq(Int) /\ SubSeq(s, p + 1, e) \in Seq(Int)
         /\ SubSeq(s, 1, e) \in Seq(Int)
<1>1. Len(s) \in Nat /\ e \in Nat /\ \A i \in 1..Len(s) : s[i] \in Int
  BY LenProperties, ElementOfSeq
<1>2. PICK a \in Seq(Int) : a = SubSeq(s, 1, p)
  <2>1. \A i \in 1..p : s[i] \in Int
    BY <1>1
  <2>2. SubSeq(s, 1, p) \in Seq(Int)
    BY <1>1, <2>1, SubSeqProperties
  <2> QED BY <2>2
<1>3. Len(a) = p /\ \A i \in 1..p : a[i] = s[i]
  <2>1. \A i \in 1..p : s[i] \in Int
    BY <1>1
  <2>2. Len(a) = (IF 1 <= p THEN p - 1 + 1 ELSE 0) /\ \A i \in 1..(p - 1 + 1) : a[i] = s[1 + i - 1]
    BY <1>2, <2>1, SubSeqProperties
  <2>3. p - 1 + 1 = p
    OBVIOUS
  <2>4. ASSUME NEW i \in 1..p PROVE a[i] = s[i]
    <3>1. 1 + i - 1 = i
      OBVIOUS
    <3> QED BY <2>2, <2>3, <3>1
  <2> QED BY <2>2, <2>3, <2>4
<1>4. PICK b \in Seq(Int) : b = SubSeq(s, p + 1, e)
  <2>1. \A i \in (p + 1)..e : s[i] \in Int
    BY <1>1
  <2>2. SubSeq(s, p + 1, e) \in Seq(Int)
    BY <1>1, <2>1, SubSeqProperties
  <2> QED BY <2>2
<1>5. Len(b) = e - p /\ \A i \in 1..(e - p) : b[i] = s[p + i]
  <2>1. \A i \in (p + 1)..e : s[i] \in Int
    BY <1>1
  <2>2. /\ Len(b) = (IF p + 1 <= e THEN e - (p + 1) + 1 ELSE 0)
        /\ \A i \in 1..(e - (p + 1) + 1) : b[i] = s[(p + 1) + i - 1]
    BY <1>1, <1>4, <2>1, SubSeqProperties
  <2>3. e - (p + 1) + 1 = e - p
    BY <1>1
  <2>4. ASSUME NEW i \in 1..(e - p) PROVE b[i] = s[p + i]
    <3>1. (p + 1) + i - 1 = p + i
      BY <1>1
    <3> QED BY <2>2, <2>3, <3>1
  <2> QED BY <1>1, <2>2, <2>3, <2>4
<1>6. PICK c \in Seq(Int) : c = SubSeq(s, 1, e)
  <2>1. \A i \in 1..e : s[i] \in Int
    BY <1>1
  <2>2. SubSeq(s, 1, e) \in Seq(Int)
    BY <1>1, <2>1, SubSeqProperties
  <2> QED BY <2>2
<1>7. Len(c) = e /\ \A i \in 1..e : c[i] = s[i]
  <2>1. \A i \in 1..e : s[i] \in Int
    BY <1>1
  <2>2. Len(c) = (IF 1 <= e THEN e - 1 + 1 ELSE 0) /\ \A i \in 1..(e - 1 + 1) : c[i] = s[1 + i - 1]
    BY <1>1, <1>6, <2>1, SubSeqProperties
  <2>3. e - 1 + 1 = e
    BY <1>1
  <2>4. ASSUME NEW i \in 1..e PROVE c[i] = s[i]
    <3>1. 1 + i - 1 = i
      BY <1>1
    <3> QED BY <2>2, <2>3, <3>1
  <2> QED BY <1>1, <2>2, <2>3, <2>4
<1>8. /\ a \o b \in Seq(Int) /\ Len(a \o b) = Len(a) + Len(b)
      /\ \A i \in 1..(Len(a) + Len(b)) : (a \o b)[i] = IF i <= Len(a) THEN a[i] ELSE b[i - Len(a)]
  BY ConcatProperties
<1>9. Len(a \o b) = Len(c) /\ Len(a) + Len(b) = e
  BY <1>1, <1>3, <1>5, <1>7, <1>8
<1>10. ASSUME NEW i \in 1..e PROVE (a \o b)[i] = c[i]
  <2>1. (a \o b)[i] = IF i <= p THEN a[i] ELSE b[i - p]
    BY <1>3, <1>8, <1>9
  <2>2. CASE i <= p
    <3>1. i \in 1..p
      BY <1>1, <2>2
    <3> QED BY <1>3, <1>7, <2>1, <2>2, <3>1
  <2>3. CASE ~(i <= p)
    <3>1. i - p \in 1..(e - p) /\ p + (i - p) = i
      BY <1>1, <2>3
    <3>2. b[i - p] = s[i]
      BY <1>5, <3>1
    <3> QED BY <1>7, <2>1, <2>3, <3>2
  <2> QED BY <2>2, <2>3
<1>11. a \o b = c
  <2>1. \A i \in 1..Len(a \o b) : (a \o b)[i] = c[i]
    BY <1>7, <1>9, <1>10
  <2> QED BY <1>8, <1>9, <2>1, SeqEqual
<1> QED BY <1>2, <1>4, <1>6, <1>11

\* The text that names a manifest ends with a newline.
LEMMA TextEnds ==
  ASSUME CurrentFileAssumption, NEW n \in Manifests
  PROVE  /\ Contents(n) \in Seq(Int) /\ Contents(n) # <<>> /\ Last(Contents(n)) = Newline
<1>1. n \in Nat /\ Length \in Nat
  BY DEF CurrentFileAssumption
<1>2. PICK a \in Seq(Int) : a = [i \in 1..Length |-> n]
  <2>1. [i \in 1..Length |-> n] \in Seq(Int)
    BY <1>1, IsASeq
  <2> QED BY <2>1
<1>3. Len(a) = Length
  BY <1>1, <1>2
<1>4. PICK b \in Seq(Int) : b = <<Newline>> /\ Len(b) = 1 /\ b[1] = Newline
  <2>1. Newline \in Int
    BY DEF Newline
  <2>2. <<Newline>> \in Seq(Int) /\ Len(<<Newline>>) = 1 /\ <<Newline>>[1] = Newline
    BY <2>1
  <2> QED BY <2>2
<1>5. /\ a \o b \in Seq(Int) /\ Len(a \o b) = Len(a) + Len(b)
      /\ \A i \in 1..(Len(a) + Len(b)) : (a \o b)[i] = IF i <= Len(a) THEN a[i] ELSE b[i - Len(a)]
  BY ConcatProperties
<1>6. Len(a \o b) = Length + 1 /\ (a \o b)[Length + 1] = Newline
  <2>1. Length + 1 \in 1..(Len(a) + Len(b)) /\ ~(Length + 1 <= Len(a)) /\ (Length + 1) - Len(a) = 1
    BY <1>1, <1>3, <1>4
  <2> QED BY <1>3, <1>4, <1>5, <2>1
<1>7. Contents(n) = a \o b
  BY <1>2, <1>4 DEF Contents
<1>8. Contents(n) # <<>>
  BY <1>1, <1>5, <1>6, <1>7
<1> QED BY <1>5, <1>6, <1>7, <1>8 DEF Last

\* The steps of SetCurrentFile keep the invariant.
LEMMA SetStep ==
  ASSUME CurrentFileAssumption, CurrentInv,
         \/ \E n \in Manifests : SetCurrentFile(n)
         \/ NewTmp \/ Write \/ Sync \/ CloseTmp \/ DeleteTmp \/ Rename \/ Cleanup \/ SetReturns
  PROVE  CurrentInv'
<1>1. UNCHANGED <<read, kills>>
  BY DEF SetCurrentFile, NewTmp, Write, Sync, CloseTmp, DeleteTmp, Rename, Cleanup, SetReturns
<1>2. read.at = "no" /\ read = NoRead
  BY DEF SetCurrentFile, NewTmp, Write, Sync, CloseTmp, DeleteTmp, Rename, Cleanup, SetReturns,
         CurrentInv, ReadSoFar, NoRead
<1>3. ReadSoFar'
  <2>1. read'.at = "no" /\ read' = NoRead
    BY <1>1, <1>2
  <2>2. read' \in [at : {"no", "loop", "done"}, pos : Nat, data : Seq(Int), ok : BOOLEAN]
    BY <1>1 DEF CurrentInv, ReadSoFar
  <2> QED BY <2>1, <2>2 DEF ReadSoFar
<1>4. CASE \E n \in Manifests : SetCurrentFile(n)
  BY <1>3, <1>4 DEF SetCurrentFile, CurrentInv, SetPcs, NamesOne, TmpIsText, NotYetRenamed, OkSoFar,
                    ReturnIsTrue
<1>5. CASE NewTmp
  BY <1>3, <1>5 DEF NewTmp, CurrentInv, SetPcs, NamesOne, TmpIsText, NotYetRenamed, OkSoFar,
                    ReturnIsTrue
<1>6. CASE Write
  <2>1. /\ setPc = "append" /\ tmp = <<>> /\ manifest \in Manifests
        /\ current = was /\ setOk = TRUE /\ current' = current /\ manifest' = manifest /\ was' = was
    BY <1>6 DEF Write, CurrentInv, TmpIsText, NotYetRenamed, OkSoFar
  <2>2. PICK k \in 0..Len(Contents(manifest)) :
          /\ tmp' = tmp \o SubSeq(Contents(manifest), 1, k)
          /\ tmpBuf' = SubSeq(Contents(manifest), k + 1, Len(Contents(manifest)))
    BY <1>6 DEF Write, SomeWritten
  <2>3. tmp' \o tmpBuf' = Contents(manifest)
    <3>1. PICK c \in Seq(Int) : c = Contents(manifest)
      BY <2>1, TextEnds
    <3>2. Len(c) \in Nat /\ k \in Nat /\ k <= Len(c) /\ Len(c) \in 0..Len(c)
      BY <3>1, LenProperties
    <3>3. /\ SubSeq(c, 1, k) \o SubSeq(c, k + 1, Len(c)) = SubSeq(c, 1, Len(c))
          /\ SubSeq(c, 1, k) \in Seq(Int)
      BY <3>2, PartsJoin
    <3>4. SubSeq(c, 1, Len(c)) = c
      BY SubSeqFull
    <3>5. tmp' = SubSeq(c, 1, k)
      BY <2>1, <2>2, <3>1, <3>3, ConcatEmptySeq
    <3> QED BY <2>2, <3>1, <3>3, <3>4, <3>5
  <2>4. \/ setPc' = "sync" /\ setOk' = setOk
        \/ setPc' = "delete" /\ setOk' = FALSE
    BY <1>6 DEF Write, GiveUp
  <2> QED BY <1>3, <2>1, <2>3, <2>4 DEF CurrentInv, SetPcs, NamesOne, TmpIsText, NotYetRenamed, OkSoFar,
                                        ReturnIsTrue
<1>7. CASE Sync
  BY <1>3, <1>7 DEF Sync, Written, GiveUp, CurrentInv, SetPcs, NamesOne, TmpIsText, NotYetRenamed,
                    OkSoFar, ReturnIsTrue
<1>8. CASE CloseTmp
  <2>1. /\ setPc = "close" /\ tmp = Contents(manifest) /\ tmpBuf = <<>> /\ manifest \in Manifests
        /\ current = was /\ setOk = TRUE /\ current' = current /\ manifest' = manifest /\ was' = was
    BY <1>8 DEF CloseTmp, CurrentInv, TmpIsText, NotYetRenamed, OkSoFar
  <2>2. \/ setPc' = "rename" /\ setOk' = setOk /\ tmp' = tmp \o tmpBuf
        \/ setPc' = "delete" /\ setOk' = FALSE
    BY <1>8 DEF CloseTmp, Written, GiveUp
  <2>3. tmp \o tmpBuf = Contents(manifest)
    <3>1. PICK c \in Seq(Int) : c = Contents(manifest)
      BY <2>1, TextEnds
    <3> QED BY <2>1, <3>1, ConcatEmptySeq
  <2> QED BY <1>3, <2>1, <2>2, <2>3 DEF CurrentInv, SetPcs, NamesOne, TmpIsText, NotYetRenamed, OkSoFar,
                                        ReturnIsTrue
<1>9. CASE DeleteTmp
  BY <1>3, <1>9 DEF DeleteTmp, CurrentInv, SetPcs, NamesOne, TmpIsText, NotYetRenamed, OkSoFar,
                    ReturnIsTrue
<1>10. CASE Rename
  BY <1>3, <1>10 DEF Rename, NotRenamed, CurrentInv, SetPcs, NamesOne, TmpIsText, NotYetRenamed, OkSoFar,
                     ReturnIsTrue
<1>11. CASE Cleanup
  BY <1>3, <1>11 DEF Cleanup, CurrentInv, SetPcs, NamesOne, TmpIsText, NotYetRenamed, OkSoFar,
                     ReturnIsTrue
<1>12. CASE SetReturns
  BY <1>3, <1>12 DEF SetReturns, CurrentInv, SetPcs, NamesOne, TmpIsText, NotYetRenamed, OkSoFar,
                     ReturnIsTrue
<1> QED BY <1>4, <1>5, <1>6, <1>7, <1>8, <1>9, <1>10, <1>11, <1>12

\* The loop of ReadFileToString keeps the invariant: it ends at the end of the file.
LEMMA ReadStep ==
  ASSUME CurrentFileAssumption, CurrentInv, Read
  PROVE  ReadSoFar'
<1>1. /\ read \in [at : {"no", "loop", "done"}, pos : Nat, data : Seq(Int), ok : BOOLEAN]
      /\ read.at = "loop" /\ setPc = "idle" /\ current # Absent /\ read.pos \in 0..Len(current)
      /\ read.data = SubSeq(current, 1, read.pos)
      /\ current' = current /\ setPc' = setPc
  BY DEF Read, CurrentInv, ReadSoFar, writer
<1>2. PICK c \in Seq(Int) : c = current
  <2>1. PICK n \in Manifests : current = Contents(n)
    BY <1>1 DEF CurrentInv, NamesOne
  <2> QED BY <2>1, TextEnds
<1>3. PICK p \in Nat : p = read.pos /\ p <= Len(c) /\ Len(c) \in Nat
  BY <1>1, <1>2, LenProperties
<1>4. PICK e \in 0..Len(c) : e = FragmentEnd(read.pos) /\ p <= e /\ (e = p => e = Len(c))
  <2>1. FragmentSize \in Nat \ {0}
    BY DEF CurrentFileAssumption
  <2>2. FragmentEnd(read.pos) = IF p + FragmentSize > Len(c) THEN Len(c) ELSE p + FragmentSize
    BY <1>2, <1>3 DEF FragmentEnd
  <2>3. FragmentEnd(read.pos) \in 0..Len(c) /\ p <= FragmentEnd(read.pos)
        /\ (FragmentEnd(read.pos) = p => FragmentEnd(read.pos) = Len(c))
    BY <1>3, <2>1, <2>2
  <2> QED BY <2>3
<1>5. /\ SubSeq(c, 1, p) \o SubSeq(c, p + 1, e) = SubSeq(c, 1, e)
      /\ SubSeq(c, 1, e) \in Seq(Int)
  BY <1>3, <1>4, PartsJoin
<1>6. CASE read' = [read EXCEPT !.pos = e, !.data = @ \o SubSeq(current, read.pos + 1, e),
                                !.at = IF e = read.pos THEN "done" ELSE "loop"]
  <2>1. /\ read'.pos = e /\ read'.data = SubSeq(c, 1, e) /\ read'.ok = read.ok
        /\ read'.at = IF e = p THEN "done" ELSE "loop"
    BY <1>1, <1>2, <1>3, <1>5, <1>6
  <2>2. read' \in [at : {"no", "loop", "done"}, pos : Nat, data : Seq(Int), ok : BOOLEAN]
    <3>1. PICK d \in Seq(Int) : d = read.data \o SubSeq(current, read.pos + 1, e)
      BY <1>1, <1>2, <1>3, <1>5
    <3>2. PICK at \in {"done", "loop"} : at = IF e = read.pos THEN "done" ELSE "loop"
      OBVIOUS
    <3>3. read' = [read EXCEPT !.pos = e, !.data = d, !.at = at]
      BY <1>6, <3>1, <3>2
    <3>4. e \in Nat
      BY <1>3
    <3> QED BY <1>1, <3>3, <3>4
  <2>3. e = p => read'.data = current
    <3>1. SubSeq(c, 1, Len(c)) = c
      BY SubSeqFull
    <3> QED BY <1>2, <1>4, <2>1, <3>1
  <2> QED BY <1>1, <1>2, <2>1, <2>2, <2>3 DEF ReadSoFar
<1>7. CASE read' = AfterError(read)
  <2>1. /\ read' \in [at : {"no", "loop", "done"}, pos : Nat, data : Seq(Int), ok : BOOLEAN]
        /\ read'.at = "done" /\ read'.ok = FALSE
    BY <1>1, <1>7 DEF AfterError
  <2> QED BY <1>1, <2>1 DEF ReadSoFar
<1> QED BY <1>4, <1>6, <1>7 DEF Read

\* The invariant holds from the start, whatever fails and whenever the process ends.
LEMMA CurrentInvariance ==
  ASSUME CurrentFileAssumption
  PROVE  CurrentSpec => []CurrentInv
<1>1. NoRead \in [at : {"no", "loop", "done"}, pos : Nat, data : Seq(Int), ok : BOOLEAN]
  <2>1. <<>> \in Seq(Int)
    OBVIOUS
  <2> QED BY <2>1 DEF NoRead
<1>2. CurrentInit => CurrentInv
  BY <1>1 DEF CurrentInit, CurrentInv, SetPcs, NamesOne, TmpIsText, NotYetRenamed, OkSoFar, ReturnIsTrue,
              ReadSoFar, NoRead
<1>3. CurrentInv /\ [CurrentNext]_currentVars => CurrentInv'
  <2> SUFFICES ASSUME CurrentInv, [CurrentNext]_currentVars PROVE CurrentInv'
    OBVIOUS
  <2> DEFINE Still == UNCHANGED <<current, tmp, setPc, manifest, tmpBuf, setOk, was>>
  <2>1. CASE \/ \E n \in Manifests : SetCurrentFile(n)
             \/ NewTmp \/ Write \/ Sync \/ CloseTmp \/ DeleteTmp \/ Rename \/ Cleanup \/ SetReturns
    BY <2>1, SetStep
  <2>2. ASSUME Still, ReadSoFar' PROVE CurrentInv'
    BY <2>2 DEF CurrentInv, SetPcs, NamesOne, TmpIsText, NotYetRenamed, OkSoFar, ReturnIsTrue
  <2>3. CASE Read
    <3>1. Still
      BY <2>3 DEF Read, writer
    <3> QED BY <2>2, <2>3, <3>1, ReadStep
  <2>4. CASE NewSequentialFile
    <3>1. Still /\ setPc = "idle"
      BY <2>4 DEF NewSequentialFile, writer
    <3>2. CASE current # Absent /\ read' = [NoRead EXCEPT !.at = "loop"]
      <4>1. /\ read'.at = "loop" /\ read'.pos = 0 /\ read'.data = <<>> /\ read'.ok = TRUE
            /\ read' \in [at : {"no", "loop", "done"}, pos : Nat, data : Seq(Int), ok : BOOLEAN]
        BY <1>1, <3>2 DEF NoRead
      <4>2. PICK n \in Manifests : current = Contents(n)
        BY <3>2 DEF CurrentInv, NamesOne
      <4>3. Len(current) \in Nat
        BY <4>2, TextEnds, LenProperties
      <4>4. SubSeq(current, 1, 0) = <<>>
        BY SubSeqEmpty
      <4>5. ReadSoFar'
        BY <3>1, <3>2, <4>1, <4>3, <4>4 DEF ReadSoFar
      <4> QED BY <2>2, <3>1, <4>5
    <3>3. CASE read' = [NoRead EXCEPT !.at = "done", !.ok = FALSE]
      <4>1. /\ read'.at = "done" /\ read'.ok = FALSE
            /\ read' \in [at : {"no", "loop", "done"}, pos : Nat, data : Seq(Int), ok : BOOLEAN]
        BY <1>1, <3>3 DEF NoRead
      <4>2. ReadSoFar'
        BY <3>1, <4>1 DEF ReadSoFar
      <4> QED BY <2>2, <3>1, <4>2
    <3> QED BY <2>4, <3>2, <3>3 DEF NewSequentialFile
  <2>5. ASSUME read' = NoRead PROVE ReadSoFar'
    BY <1>1, <2>5 DEF ReadSoFar, NoRead
  <2>6. CASE ReadDone
    BY <2>2, <2>5, <2>6 DEF ReadDone, writer
  <2>7. CASE Kill
    <3>1. /\ setPc' = "idle" /\ read' = NoRead /\ current' = current
      BY <2>7 DEF Kill
    <3>2. ReadSoFar'
      BY <2>5, <3>1
    <3> QED BY <3>1, <3>2 DEF CurrentInv, SetPcs, NamesOne, TmpIsText, NotYetRenamed, OkSoFar, ReturnIsTrue
  <2>8. CASE UNCHANGED currentVars
    <3>1. Still /\ read' = read
      BY <2>8 DEF currentVars, writer
    <3>2. ReadSoFar'
      BY <3>1 DEF CurrentInv, ReadSoFar
    <3> QED BY <2>2, <3>1, <3>2
  <2> QED BY <2>1, <2>3, <2>4, <2>6, <2>7, <2>8 DEF CurrentNext
<1> QED BY <1>2, <1>3, PTL DEF CurrentSpec

\* CURRENT is replaced as a whole: it names one manifest or is not there, whatever
\* fails and whenever the process is killed, and SetCurrentFile tells truly whether
\* it was replaced (filename.cc, SetCurrentFile).
THEOREM CurrentIsWhole ==
  ASSUME CurrentFileAssumption
  PROVE  CurrentSpec => [](NamesOne /\ ReturnIsTrue)
<1>1. CurrentInv => NamesOne /\ ReturnIsTrue
  BY DEF CurrentInv
<1> QED BY <1>1, CurrentInvariance, PTL

\* Recover reads CURRENT whole or learns that it could not, in whatever pieces
\* ReadFileToString gets it (env.cc, ReadFileToString).
THEOREM CurrentIsReadWhole ==
  ASSUME CurrentFileAssumption
  PROVE  CurrentSpec => []ReadIsWhole
<1>1. CurrentInv => ReadIsWhole
  <2> SUFFICES ASSUME CurrentInv, read.at = "done", read.ok
               PROVE  read.data = current /\ Accepted(read)
    BY DEF ReadIsWhole
  <2>1. current # Absent /\ read.data = current
    BY DEF CurrentInv, ReadSoFar
  <2>2. PICK n \in Manifests : current = Contents(n)
    BY <2>1 DEF CurrentInv, NamesOne
  <2> QED BY <2>1, <2>2, TextEnds DEF Accepted
<1> QED BY <1>1, CurrentInvariance, PTL

-----------------------------------------------------------------------------
(* The environment as a whole                                              *)

\* What leveldb relies on holds of the environment, for any numbers of processes,
\* threads, readers, calls, pieces and crashes (env_posix.cc, filename.cc).
THEOREM EnvironmentIsSound ==
  ASSUME EnvAssumption
  PROVE  EnvSpec => []EnvIsSound
<1>1. LocksAssumption /\ LimitsAssumption /\ CurrentFileAssumption
  BY DEF EnvAssumption
<1>2. LocksSpec => [](OneInProcess /\ LeavesNothing)
  BY <1>1, OneThreadHolds, LocksLeaveNothing, PTL
<1>3. LocksSpec => []((\A t, u \in Threads : t = u) => OneProcess)
  <2>1. CASE \A t, u \in Threads : t = u
    BY <1>1, <2>1, OneProcessHolds, PTL
  <2>2. CASE ~(\A t, u \in Threads : t = u)
    <3>1. (\A t, u \in Threads : t = u) => OneProcess
      BY <2>2
    <3> QED BY <3>1, PTL
  <2> QED BY <2>1, <2>2
<1>4. LimitsSpec => [](MapsLimited /\ FdsLimited /\ LimitsComeBack)
  BY <1>1, LimitsAreKept, LimitsAreGivenBack, PTL
<1>5. CurrentSpec => [](NamesOne /\ ReturnIsTrue /\ ReadIsWhole)
  BY <1>1, CurrentIsWhole, CurrentIsReadWhole, PTL
<1>6. QED
  BY <1>2, <1>3, <1>4, <1>5, WorkRunsInOrder, SyncedSurvives, NothingIsSilent, PTL DEF EnvSpec, EnvIsSound

=============================================================================
