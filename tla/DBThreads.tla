------------------------------ MODULE DBThreads ------------------------------
(***************************************************************************)
(* The threads of leveldb's DBImpl: writers that queue and are served in   *)
(* groups, the one background thread that compacts, threads that ask for a *)
(* compaction, and the destructor.  All of them share mutex_; every action *)
(* is what one thread does from taking the mutex (or waking up with it) to *)
(* releasing it or waiting, or one piece of work done without it.          *)
(*                                                                         *)
(* A batch is a number, the count of Write calls so far; the memtable is   *)
(* full when it holds more than BufferSize of them.                        *)
(***************************************************************************)
EXTENDS Naturals, Sequences, FiniteSets, SequencesExt

CONSTANTS
  Writers,                 \* threads that call Put, Delete, Write
  Manuals,                 \* threads that call CompactRange
  BufferSize,              \* write_buffer_size
  MaxGroup,                \* how many batches the size limit lets in a group
  L0Trigger, L0Slowdown, L0Stop,   \* config::kL0_...
  MaxWrites, MaxManual,    \* bounds on calls
  MaxFiles,                \* bound on the files in the range of a CompactRange
  MayFail,                 \* which I/O may fail
  Nil

ThreadsAssumption ==
  /\ Nil \notin Writers \cup Manuals \cup Nat \cup Seq(Nat) /\ Writers \cap Manuals = {}
  /\ {BufferSize, MaxGroup, L0Trigger, L0Slowdown, L0Stop, MaxWrites, MaxManual, MaxFiles}
       \subseteq Nat
  /\ MaxGroup > 0 /\ L0Trigger > 0 /\ L0Trigger =< L0Stop
  /\ MayFail \subseteq {"append", "sync", "newfile", "build", "apply", "compact"}

VARIABLES
  writers,     \* writers_
  w,           \* each thread's Writer and the locals of MakeRoomForWrite
  pc,          \* where each thread is
  signalled,   \* writers whose own condition variable was signalled
  bgWait,      \* threads waiting on bg_cv_
  mem, imm,    \* mem_, imm_: the batches in them
  log,         \* ghost: [id, seq, synced] of every batch appended
  oldLogs,     \* ghost: how many entries of log are in closed log files
  lastSeq,     \* versions_->LastSequence()
  scheduled, bgError, shutting,    \* bg_compaction_scheduled_, ...
  manual, done, todo,              \* manual_compaction_; its done, and the files
                                   \* between its begin and end
  l0, inputs,  \* versions_->NumLevelFiles(0), and how many are being compacted
  bg,          \* where the background thread is
  tables,      \* ghost: the batches saved in tables
  calls, manuals,
  acked, syncFailed, forced        \* ghosts

writeVars == <<writers, w, pc, signalled, mem, imm, log, oldLogs, lastSeq>>
bgVars    == <<bgWait, scheduled, bgError, shutting, manual, done, todo, l0, inputs, bg, tables>>
ghosts    == <<calls, manuals, acked, syncFailed, forced>>
vars      == <<writeVars, bgVars, ghosts>>

Threads == Writers \cup Manuals

NewWriter(batch, sync) ==
  [batch |-> batch, sync |-> sync, done |-> FALSE, ok |-> TRUE,
   force |-> batch = Nil, delay |-> batch # Nil, last |-> Nil, synced |-> TRUE]

IsFull == Len(mem) > BufferSize

-----------------------------------------------------------------------------
(* Condition variables and scheduling.                                     *)

\* versions_->NeedsCompaction(), for the level that holds up writers.
NeedsCompaction(files) == files >= L0Trigger

\* Mistake: an immutable memtable alone is no reason to schedule.
WorkPending_NoImm(im, man, files, err) ==
  ~shutting /\ ~err /\ (man # Nil \/ NeedsCompaction(files))

\* There is something the background thread should do.
WorkPending(im, man, files, err) ==
  ~shutting /\ ~err /\ (im # Nil \/ man # Nil \/ NeedsCompaction(files))

\* MaybeScheduleCompaction, with the values the caller leaves behind.
MaybeSchedule(im, man, files, err) ==
  scheduled \/ WorkPending(im, man, files, err)

\* env_->Schedule: the background thread will come to BackgroundCall.
Schedule(now) ==
  /\ scheduled' = now
  /\ bg' = IF now /\ ~scheduled THEN "start" ELSE bg

\* bg_cv_.SignalAll() wakes everybody who waits.
SignalAll == bgWait' = {}

\* RecordBackgroundError: the first error stays and wakes everybody.
RecordBackgroundError(fails) ==
  /\ bgError' = (bgError \/ fails)
  /\ bgWait' = IF fails /\ ~bgError THEN {} ELSE bgWait

-----------------------------------------------------------------------------
(* Write                                                                   *)

Enqueue(t, batch, sync) ==
  /\ w' = [w EXCEPT ![t] = NewWriter(batch, sync)]
  /\ writers' = Append(writers, t)
  /\ pc' = [pc EXCEPT ![t] = IF writers = <<>> THEN "room" ELSE "wait"]

Write(t, sync) ==
  /\ t \in Writers /\ pc[t] = "idle" /\ ~shutting /\ calls < MaxWrites
  /\ calls' = calls + 1
  /\ Enqueue(t, calls + 1, sync)
  /\ UNCHANGED <<signalled, mem, imm, log, oldLogs, lastSeq, bgVars,
                 manuals, acked, syncFailed, forced>>

\* What the thread does after its Write: a writer is idle again, CompactRange
\* goes on with TEST_CompactMemTable.
AfterWrite(t, ok) ==
  IF t \in Manuals THEN IF ok THEN "flush" ELSE "range" ELSE "idle"

\* Whose status is OK.
Acknowledge(S, ok) ==
  acked' = IF ok THEN acked \cup {w[t].batch : t \in {u \in S : w[u].batch # Nil}}
           ELSE acked

\* Mistake: the new head is left asleep.
NewHead_Asleep(rest) == {}

NewHead(rest) == IF rest = <<>> THEN {} ELSE {Head(rest)}

\* The end of Write: the group leaves the queue, its members are told the
\* status, and the new head is told that it is the head.
PopWriters(t, last, ok) ==
  LET n     == CHOOSE i \in DOMAIN writers : writers[i] = last
      group == {writers[i] : i \in 1..n} \ {t}
      rest  == SubSeq(writers, n + 1, Len(writers))
  IN  /\ writers' = rest
      /\ w' = [u \in Threads |->
                IF u \in group THEN [w[u] EXCEPT !.done = TRUE, !.ok = ok] ELSE w[u]]
      /\ signalled' = signalled \cup group \cup NewHead(rest)
      /\ pc' = [pc EXCEPT ![t] = AfterWrite(t, ok)]
      /\ Acknowledge(group \cup {t}, ok)

\* A writer wakes up: it was served by another, it is the head, or neither.
WakeWriter(t) ==
  /\ pc[t] = "wait" /\ t \in signalled
  /\ signalled' = signalled \ {t}
  /\ \/ /\ w[t].done
        /\ pc' = [pc EXCEPT ![t] = AfterWrite(t, w[t].ok)]
     \/ /\ ~w[t].done
        /\ pc' = [pc EXCEPT ![t] = IF Head(writers) = t THEN "room" ELSE "wait"]
  /\ UNCHANGED <<writers, w, mem, imm, log, oldLogs, lastSeq, bgVars, ghosts>>

MayJoin(first, other) == ~(w[other].sync /\ ~w[first].sync)

\* BuildBatchGroup: how many of the writers in the queue make the group.
GroupSize ==
  LET first == Head(writers)
      Batches(n) == Cardinality({i \in 1..n : w[writers[i]].batch # Nil})
      Fits(n) == /\ \A i \in 2..n : MayJoin(first, writers[i])
                 /\ Batches(n) =< MaxGroup \/ w[writers[n]].batch = Nil \/ n = 1
  IN  CHOOSE n \in 1..Len(writers) :
        /\ \A i \in 1..n : Fits(i)
        /\ n < Len(writers) => ~Fits(n + 1)

\* One turn of the loop of MakeRoomForWrite.
RoomError(t) ==
  /\ pc[t] = "room" /\ bgError
  /\ PopWriters(t, t, FALSE)
  /\ UNCHANGED <<mem, imm, log, oldLogs, lastSeq, bgVars, calls, manuals,
                 syncFailed, forced>>

RoomDelay(t) ==
  /\ pc[t] = "room" /\ ~bgError
  /\ w[t].delay /\ l0 >= L0Slowdown
  /\ pc' = [pc EXCEPT ![t] = "sleep"]
  /\ UNCHANGED <<writers, w, signalled, mem, imm, log, oldLogs, lastSeq, bgVars, ghosts>>

Sleep(t) ==
  /\ pc[t] = "sleep"
  /\ pc' = [pc EXCEPT ![t] = "room"]
  /\ w' = [w EXCEPT ![t].delay = FALSE]
  /\ UNCHANGED <<writers, signalled, mem, imm, log, oldLogs, lastSeq, bgVars, ghosts>>

NoDelay(t) == pc[t] = "room" /\ ~bgError /\ ~(w[t].delay /\ l0 >= L0Slowdown)

\* There is room: a batch is grouped and logged, the NULL batch is done.
RoomLeft(t) ==
  /\ NoDelay(t) /\ ~w[t].force /\ ~IsFull
  /\ \/ /\ w[t].batch # Nil
        /\ pc' = [pc EXCEPT ![t] = "log"]
        /\ w' = [w EXCEPT ![t].last = writers[GroupSize]]
        /\ UNCHANGED <<writers, signalled, acked>>
     \/ /\ w[t].batch = Nil
        /\ PopWriters(t, t, TRUE)
  /\ UNCHANGED <<mem, imm, log, oldLogs, lastSeq, bgVars, calls, manuals, syncFailed, forced>>

NoRoom(t) == NoDelay(t) /\ (w[t].force \/ IsFull)

RoomWait(t) ==
  /\ NoRoom(t)
  /\ imm # Nil \/ l0 >= L0Stop
  /\ pc' = [pc EXCEPT ![t] = "bgwait"]
  /\ bgWait' = bgWait \cup {t}
  /\ UNCHANGED <<writers, w, signalled, mem, imm, log, oldLogs, lastSeq, scheduled,
                 bgError, shutting, manual, done, todo, l0, inputs, bg, tables, ghosts>>

\* A new log and memtable; the old log is closed, not synced.
RoomSwitch(t) ==
  /\ NoRoom(t) /\ imm = Nil /\ l0 < L0Stop
  /\ imm' = mem /\ mem' = <<>> /\ oldLogs' = Len(log)
  /\ w' = [w EXCEPT ![t].force = FALSE]
  /\ Schedule(MaybeSchedule(imm', manual, l0, bgError))
  /\ UNCHANGED <<writers, pc, signalled, log, lastSeq, bgWait, bgError, shutting,
                 manual, done, todo, l0, inputs, tables, ghosts>>

RoomSwitchFails(t) ==
  /\ NoRoom(t) /\ imm = Nil /\ l0 < L0Stop /\ "newfile" \in MayFail
  /\ PopWriters(t, t, FALSE)
  /\ UNCHANGED <<mem, imm, log, oldLogs, lastSeq, bgVars, calls, manuals, syncFailed, forced>>

\* bg_cv_ was signalled: back to the loop.
WakeRoom(t) ==
  /\ pc[t] = "bgwait" /\ t \notin bgWait
  /\ pc' = [pc EXCEPT ![t] = "room"]
  /\ UNCHANGED <<writers, w, signalled, mem, imm, log, oldLogs, lastSeq, bgVars, ghosts>>

\* The batches of the group of the head, in order.
GroupOf(t) ==
  LET n      == CHOOSE i \in DOMAIN writers : writers[i] = w[t].last
      at     == {i \in 1..n : w[writers[i]].batch # Nil}
      Nth(k) == CHOOSE i \in at : Cardinality({j \in at : j =< i}) = k
  IN  [k \in 1..Cardinality(at) |-> w[writers[Nth(k)]].batch]

\* Without the mutex: append to the log, sync if asked, insert into mem_.
\* Only the head of the queue is ever here.
Log(t) ==
  /\ pc[t] = "log"
  /\ LET g == GroupOf(t)
         Entries(s) == [i \in DOMAIN g |->
                         [id |-> g[i], seq |-> lastSeq + i, synced |-> s]]
         Synced(l) == [i \in DOMAIN l |->
                         [l[i] EXCEPT !.synced = @ \/ i > oldLogs]]
     IN  \/ /\ log' = IF w[t].sync THEN Synced(log \o Entries(TRUE))
                      ELSE log \o Entries(FALSE)
            /\ mem' = mem \o g
            /\ w' = [w EXCEPT ![t].ok = TRUE]
         \/ /\ "append" \in MayFail   \* the record may be in the file all the same
            /\ log' \in {log, log \o Entries(FALSE)}
            /\ w' = [w EXCEPT ![t].ok = FALSE]
            /\ UNCHANGED mem
         \/ /\ "sync" \in MayFail /\ w[t].sync
            /\ log' = log \o Entries(FALSE)
            /\ w' = [w EXCEPT ![t].ok = FALSE, ![t].synced = FALSE]
            /\ UNCHANGED mem
  /\ pc' = [pc EXCEPT ![t] = "commit"]
  /\ UNCHANGED <<writers, signalled, imm, oldLogs, lastSeq, bgVars, ghosts>>

SyncError(t) == ~w[t].synced

SetLastSequence(t) == lastSeq + Len(GroupOf(t))

\* With the mutex again: the sequence numbers are used up, the group leaves.
Commit(t) ==
  /\ pc[t] = "commit"
  /\ RecordBackgroundError(SyncError(t))
  /\ syncFailed' = (syncFailed \/ ~w[t].synced)
  /\ lastSeq' = SetLastSequence(t)
  /\ PopWriters(t, w[t].last, w[t].ok)
  /\ UNCHANGED <<mem, imm, log, oldLogs, scheduled, shutting, manual, done, todo, l0, inputs, bg,
                 tables, calls, manuals, forced>>

-----------------------------------------------------------------------------
(* CompactRange: TEST_CompactMemTable, then TEST_CompactRange (one level). *)

CompactRange(t) ==
  /\ t \in Manuals /\ pc[t] = "idle" /\ ~shutting /\ manuals < MaxManual
  /\ manuals' = manuals + 1
  /\ Enqueue(t, Nil, FALSE)
  /\ forced' = [forced EXCEPT ![t] = acked]
  /\ done' = [done EXCEPT ![t] = FALSE]
  /\ \E n \in 0..MaxFiles : todo' = [todo EXCEPT ![t] = n]
  /\ UNCHANGED <<signalled, mem, imm, log, oldLogs, lastSeq, bgWait, scheduled, bgError,
                 shutting, manual, l0, inputs, bg, tables, calls, acked, syncFailed>>

\* TEST_CompactMemTable waits until imm_ is gone.
FlushWait(t) ==
  /\ pc[t] = "flush" /\ t \notin bgWait
  /\ \/ /\ imm # Nil /\ ~bgError
        /\ bgWait' = bgWait \cup {t}
        /\ UNCHANGED pc
     \/ /\ imm = Nil \/ bgError
        /\ pc' = [pc EXCEPT ![t] = IF imm = Nil THEN "flushed" ELSE "range"]
        /\ UNCHANGED bgWait
  /\ UNCHANGED <<writers, w, signalled, mem, imm, log, oldLogs, lastSeq, scheduled,
                 bgError, shutting, manual, done, todo, l0, inputs, bg, tables, ghosts>>

\* TEST_CompactMemTable has returned OK.
Flushed(t) ==
  /\ pc[t] = "flushed"
  /\ pc' = [pc EXCEPT ![t] = "range"]
  /\ UNCHANGED <<writers, w, signalled, mem, imm, log, oldLogs, lastSeq, bgVars, ghosts>>

\* The loop of TEST_CompactRange.
RangeLoop(t) ==
  /\ pc[t] = "range" /\ t \notin bgWait
  /\ ~done[t] /\ ~shutting /\ ~bgError
  /\ \/ /\ manual = Nil
        /\ manual' = t
        /\ Schedule(MaybeSchedule(imm, t, l0, bgError))
        /\ UNCHANGED bgWait
     \/ /\ manual # Nil
        /\ bgWait' = bgWait \cup {t}
        /\ UNCHANGED <<manual, scheduled, bg>>
  /\ UNCHANGED <<writers, w, pc, signalled, mem, imm, log, oldLogs, lastSeq, bgError,
                 shutting, done, todo, l0, inputs, tables, ghosts>>

\* It ends: a compaction that is still to be done is taken back.
RangeEnd(t) ==
  /\ pc[t] = "range" /\ t \notin bgWait
  /\ done[t] \/ shutting \/ bgError
  /\ manual' = IF manual = t THEN Nil ELSE manual
  /\ pc' = [pc EXCEPT ![t] = "idle"]
  /\ UNCHANGED <<writers, w, signalled, mem, imm, log, oldLogs, lastSeq, bgWait, scheduled,
                 bgError, shutting, done, todo, l0, inputs, bg, tables, ghosts>>

-----------------------------------------------------------------------------
(* The background thread.                                                  *)

\* The end of BackgroundCall.
BgFinish(im, man, files, err) ==
  LET again == WorkPending(im, man, files, err)
  IN  /\ scheduled' = again
      /\ bg' = IF again THEN "start" ELSE "none"
      /\ SignalAll

\* BackgroundCall finds that it may not work any more.
BgRefuse ==
  /\ bg = "start"
  /\ shutting \/ bgError
  /\ BgFinish(imm, manual, l0, bgError)
  /\ UNCHANGED <<writeVars, bgError, shutting, manual, done, todo, l0, inputs, tables, ghosts>>

\* BackgroundCompaction begins its work: the immutable memtable first, then a
\* manual request, then what the sizes ask for.  n files of level 0 are inputs.
BgBegin(where, n) ==
  /\ bg = "start" /\ ~shutting /\ ~bgError
  /\ bg' = where /\ inputs' = n
  /\ UNCHANGED <<writeVars, bgWait, scheduled, bgError, shutting, manual, done, todo, l0,
                 tables, ghosts>>

BgChoose ==
  \/ imm # Nil /\ BgBegin("build", 0)
  \/ /\ imm = Nil /\ manual # Nil /\ todo[manual] > 0
     /\ \E n \in 0..l0 : BgBegin("manual", n)
  \/ /\ imm = Nil /\ manual = Nil /\ NeedsCompaction(l0)
     /\ \E n \in 1..l0 : BgBegin("work", n)

\* A manual request for a range without files is done.
BgManualDone ==
  /\ bg = "start" /\ ~shutting /\ ~bgError /\ imm = Nil /\ manual # Nil
  /\ todo[manual] = 0
  /\ done' = [done EXCEPT ![manual] = TRUE]
  /\ manual' = Nil
  /\ BgFinish(imm, Nil, l0, bgError)
  /\ UNCHANGED <<writeVars, bgError, shutting, todo, l0, inputs, tables, ghosts>>

\* Nothing to do after all: another thread took its request back.
BgNothing ==
  /\ bg = "start" /\ ~shutting /\ ~bgError
  /\ imm = Nil /\ manual = Nil /\ ~NeedsCompaction(l0)
  /\ BgFinish(imm, manual, l0, bgError)
  /\ UNCHANGED <<writeVars, bgError, shutting, manual, done, todo, l0, inputs, tables, ghosts>>

\* WriteLevel0Table, without the mutex; then LogAndApply, without it again.
\* outer is where the thread is when the memtable is compacted in the middle
\* of another compaction.
BgBuild(from, to, back) ==
  /\ bg = from
  /\ \/ /\ ~shutting
        /\ bg' = to
        /\ UNCHANGED <<bgWait, scheduled, bgError>>
     \/ /\ "build" \in MayFail \/ shutting
        /\ bgError' = TRUE
        /\ IF back = "end" THEN BgFinish(imm, manual, l0, TRUE)
           ELSE bg' = back /\ SignalAll /\ UNCHANGED scheduled
  /\ UNCHANGED <<writeVars, shutting, manual, done, todo, l0, inputs, tables, ghosts>>

\* Mistake: the memtable is given up although its table was not installed.
Installed_Always(ok) == TRUE

Installed(ok) == ok

BgApply(from, back) ==
  /\ bg = from
  /\ \E ok \in (IF "apply" \in MayFail THEN BOOLEAN ELSE {TRUE}) :
       /\ tables' = IF ok THEN tables \cup ToSet(imm) ELSE tables
       /\ l0' = IF ok /\ imm # <<>> THEN l0 + 1 ELSE l0
       /\ imm' = IF Installed(ok) THEN Nil ELSE imm
       /\ bgError' = (bgError \/ ~ok)
       /\ IF back = "end" THEN BgFinish(imm', manual, l0', bgError')
          ELSE bg' = back /\ SignalAll /\ UNCHANGED scheduled
  /\ UNCHANGED <<writers, w, pc, signalled, mem, log, oldLogs, lastSeq, shutting,
                 manual, done, todo, inputs, ghosts>>

\* DoCompactionWork, for level 0 or for a manual request: an immutable memtable
\* is served first.
BgPrioritize(from, to) ==
  /\ bg = from /\ imm # Nil
  /\ bg' = to
  /\ UNCHANGED <<writeVars, bgWait, scheduled, bgError, shutting, manual, done, todo, l0, inputs,
                 tables, ghosts>>

\* The inputs were merged and the result installed, or not.
BgWorked(fails) ==
  /\ l0' = IF fails THEN l0 ELSE l0 - inputs
  /\ bgError' = (bgError \/ fails)

BgWork ==
  /\ bg = "work"
  /\ \E fails \in (IF shutting THEN {TRUE} ELSE IF "compact" \in MayFail THEN BOOLEAN
                   ELSE {FALSE}) :
       /\ BgWorked(fails)
       /\ BgFinish(imm, manual, l0', bgError')
  /\ UNCHANGED <<writeVars, shutting, manual, done, todo, inputs, tables, ghosts>>

\* The same for a manual compaction; afterwards manual_compaction_ is used
\* again, without looking whether it is still there.
BgManual ==
  /\ bg = "manual"
  /\ \E fails \in (IF shutting THEN {TRUE} ELSE IF "compact" \in MayFail THEN BOOLEAN
                   ELSE {FALSE}) :
       /\ BgWorked(fails)
       /\ \/ /\ manual = Nil
             /\ bg' = "crashed"
             /\ UNCHANGED <<bgWait, scheduled, manual, done, todo>>
          \/ /\ manual # Nil
             /\ done' = [done EXCEPT ![manual] = @ \/ fails]
             /\ \E n \in 0..(todo[manual] - 1) : todo' = [todo EXCEPT ![manual] = n]
             /\ manual' = Nil
             /\ BgFinish(imm, Nil, l0', bgError')
  /\ UNCHANGED <<writeVars, shutting, inputs, tables, ghosts>>

\* ~DBImpl, when no call is under way: no more background work.
Close ==
  /\ ~shutting /\ \A t \in Threads : pc[t] = "idle"
  /\ shutting' = TRUE
  /\ UNCHANGED <<writeVars, bgWait, scheduled, bgError, manual, done, todo, l0, inputs, bg, tables, ghosts>>

-----------------------------------------------------------------------------

Init ==
  /\ writers = <<>> /\ w = [t \in Threads |-> NewWriter(Nil, FALSE)]
  /\ pc = [t \in Threads |-> "idle"]
  /\ signalled = {} /\ bgWait = {}
  /\ mem = <<>> /\ imm = Nil /\ log = <<>> /\ oldLogs = 0 /\ lastSeq = 0
  /\ scheduled = FALSE /\ bgError = FALSE /\ shutting = FALSE
  /\ manual = Nil /\ done = [t \in Manuals |-> FALSE] /\ todo = [t \in Manuals |-> 0]
  /\ l0 = 0 /\ inputs = 0 /\ bg = "none" /\ tables = {}
  /\ calls = 0 /\ manuals = 0
  /\ acked = {} /\ syncFailed = FALSE /\ forced = [t \in Manuals |-> {}]

WriterStep(t) ==
  \/ WakeWriter(t) \/ RoomError(t) \/ RoomDelay(t) \/ Sleep(t) \/ RoomLeft(t)
  \/ RoomWait(t) \/ RoomSwitch(t) \/ RoomSwitchFails(t) \/ WakeRoom(t)
  \/ Log(t) \/ Commit(t)

ManualStep(t) == FlushWait(t) \/ Flushed(t) \/ RangeLoop(t) \/ RangeEnd(t)

BgStep ==
  \/ BgRefuse \/ BgChoose \/ BgManualDone \/ BgNothing
  \/ BgBuild("build", "apply", "end") \/ BgApply("apply", "end")
  \/ BgPrioritize("work", "wbuild") \/ BgBuild("wbuild", "wapply", "work")
  \/ BgApply("wapply", "work") \/ BgWork
  \/ BgPrioritize("manual", "mbuild") \/ BgBuild("mbuild", "mapply", "manual")
  \/ BgApply("mapply", "manual") \/ BgManual

Next ==
  /\ bg # "crashed"
  /\ \/ \E t \in Writers, sync \in BOOLEAN : Write(t, sync)
     \/ \E t \in Threads : WriterStep(t)
     \/ \E t \in Manuals : CompactRange(t) \/ ManualStep(t)
     \/ BgStep
     \/ Close

Spec == Init /\ [][Next]_vars

\* Every thread that can take a step eventually does, the background thread
\* included (the Env runs what was scheduled).  Nobody has to call.
FairSpec ==
  /\ Spec
  /\ \A t \in Threads : WF_vars(WriterStep(t))
  /\ \A t \in Manuals : WF_vars(ManualStep(t))
  /\ WF_vars(BgStep)

-----------------------------------------------------------------------------
(* Properties                                                              *)

Ids == 1..MaxWrites
Pcs == {"idle", "wait", "room", "sleep", "bgwait", "log", "commit", "flush", "flushed", "range"}

TypeOK ==
  /\ writers \in Seq(Threads)
  /\ pc \in [Threads -> Pcs]
  /\ signalled \subseteq Threads /\ bgWait \subseteq Threads
  /\ mem \in Seq(Ids) /\ imm \in Seq(Ids) \cup {Nil}
  /\ manual \in Manuals \cup {Nil}
  /\ {scheduled, bgError, shutting, syncFailed} \subseteq BOOLEAN
  /\ l0 \in Nat /\ lastSeq \in 0..MaxWrites
  /\ acked \subseteq Ids /\ tables \subseteq Ids

EntryOf(id) == CHOOSE i \in DOMAIN log : log[i].id = id

\* A write with WriteOptions::sync that returned OK has been synced, although
\* another thread may have logged it as part of a group.
SyncWritesAreSynced ==
  \A t \in Writers : pc[t] = "idle" /\ w[t].sync /\ w[t].batch \in acked =>
    log[EntryOf(w[t].batch)].synced

\* Whatever was acknowledged is in mem_, in imm_ or in an installed table: a
\* failed compaction never costs the memtable it failed to save.
AckedIsKept ==
  acked \subseteq tables \cup ToSet(mem) \cup (IF imm = Nil THEN {} ELSE ToSet(imm))

\* No two batches get the same sequence number, even when a group fails half
\* way: later groups are numbered above what may be in the log.
SequencesIncrease ==
  \A i, j \in DOMAIN log : i < j => log[i].seq < log[j].seq

\* After a failed sync "the state of the log file is indeterminate": nothing is
\* acknowledged any more (db_impl.cc, Write).
FailsStop == syncFailed => acked' = acked

\* What Write promises: whatever it acknowledged is kept, in the order of the
\* sequence numbers and synced if that was asked for; and it promises nothing
\* any more once the log may be broken.
WritesAreSafe ==
  /\ [](AckedIsKept /\ SyncWritesAreSynced /\ SequencesIncrease)
  /\ [][FailsStop]_vars

\* Nobody waits for nothing: a thread that waits on bg_cv_ has a background
\* call that will signal it, and the head of the writers is awake or about to
\* be.
SomebodyWillSignal ==
  /\ bgWait # {} => scheduled
  /\ writers # <<>> => pc[Head(writers)] # "wait" \/ Head(writers) \in signalled

\* Every call of Write and CompactRange returns.
CallsReturn == \A t \in Threads : pc[t] # "idle" ~> pc[t] = "idle"

\* The background thread finds the manual compaction it worked for: the loop of
\* TEST_CompactRange takes it back only when it "aborted early".
ManualStillThere == bg # "crashed"

\* "Force current memtable contents to be compacted" (db_impl.h): when
\* TEST_CompactMemTable returns OK, what was acknowledged before it was called
\* is in tables.
MemTableForced ==
  \A t \in Manuals : pc[t] = "flushed" => forced[t] \subseteq tables

=============================================================================
