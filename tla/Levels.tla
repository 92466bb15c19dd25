-------------------------------- MODULE Levels --------------------------------
(***************************************************************************)
(* The files of a leveldb database: the memtable, the levels of sorted     *)
(* tables, how a read searches them, how memtables are placed and files    *)
(* compacted, and which entries a compaction drops.  A compaction is       *)
(* picked and installed with mutex_ held; in between writes, snapshots,    *)
(* reads and the flush of a memtable go on.                                *)
(*                                                                         *)
(* An entry is [k, s, t]: user key, sequence number, and whether it is a   *)
(* value (named by its sequence number) or a deletion.  Sizes are counted  *)
(* in entries.                                                             *)
(***************************************************************************)
EXTENDS Integers, Sequences, FiniteSets, SequencesExt

CONSTANTS
  Keys,                  \* user keys, 1..n
  NumLevels,             \* config::kNumLevels
  MaxMemLevel,           \* config::kMaxMemCompactLevel
  L0Trigger,             \* config::kL0_CompactionTrigger
  MaxFile,               \* Options::max_file_size
  MaxLevelSize,          \* MaxBytesForLevel of levels 0 and 1
  LevelFactor,           \* from one level to the next: 10 in the code
  MaxGrandparent,        \* MaxGrandParentOverlapBytes
  MaxExpanded,           \* ExpandedCompactionByteSizeLimit
  AllowedSeeks,          \* FileMetaData::allowed_seeks of a new file
  Types,                 \* which writes: Put, Delete
  ReadKeys,              \* the keys whose reads are charged for seeks
  MaxWrites, MaxSnapshots, MaxManual,      \* bounds
  FlushAnyTime,          \* a memtable may be flushed during a compaction
  MayFail,               \* a compaction may fail
  Nil

LevelsAssumption ==
  /\ Keys \subseteq Nat /\ ReadKeys \subseteq Keys /\ Types \subseteq {"val", "del"}
  /\ NumLevels \in Nat /\ NumLevels > 2
  /\ MaxMemLevel \in 0..(NumLevels - 1)
  /\ {L0Trigger, MaxFile, MaxLevelSize, LevelFactor, MaxGrandparent, MaxExpanded, AllowedSeeks,
      MaxWrites, MaxSnapshots, MaxManual} \subseteq Nat
  /\ L0Trigger > 0 /\ MaxFile > 0 /\ MaxLevelSize > 0 /\ LevelFactor > 0 /\ AllowedSeeks > 0
  /\ {FlushAnyTime, MayFail} \subseteq BOOLEAN

VARIABLES
  mem,          \* the memtable: a set of entries
  files,        \* current_->files_: for each level a sequence of files
  snaps,        \* snapshots_: live snapshots, a function to sequence numbers
  lastSeq, nextFile,
  pointer,      \* compact_pointer_: for each level an entry or Nil
  toCompact,    \* file_to_compact_ and its level, or Nil
  comp,         \* the compaction under way, or Nil
  bgError,
  hist,         \* ghost: every write, by sequence number
  taken, manuals

vars == <<mem, files, snaps, lastSeq, nextFile, pointer, toCompact, comp, bgError, hist,
          taken, manuals>>

AllLevels == 0..(NumLevels - 1)
MaxSeq == MaxWrites + 1           \* kMaxSequenceNumber

-----------------------------------------------------------------------------
(* Keys, files and what of a level a range of keys overlaps                *)

\* InternalKeyComparator: by user key, the newest first.
Before(a, b) == a.k < b.k \/ (a.k = b.k /\ a.s > b.s)

\* The entries in S in that order.
Sorted(S) ==
  [i \in 1..Cardinality(S) |-> CHOOSE e \in S : Cardinality({d \in S : Before(d, e)}) = i - 1]

Smallest(f) == Head(f.ents)
Largest(f) == Last(f.ents)
Size(f) == Len(f.ents)
Entries(fs) == UNION {ToSet(fs[i].ents) : i \in DOMAIN fs}
TotalSize(fs) == FoldSeq(LAMBDA f, n : n + Size(f), 0, fs)

NewFile(num, ents) == [num |-> num, ents |-> ents, seeks |-> AllowedSeeks]

\* LookupKey(user_key, sequence)
Lookup(k, s) == [k |-> k, s |-> s, t |-> "val"]

RECURSIVE BinarySearch(_, _, _, _)
BinarySearch(fs, key, left, right) ==
  IF left >= right THEN right
  ELSE LET mid == (left + right) \div 2 IN
       IF Before(Largest(fs[mid]), key) THEN BinarySearch(fs, key, mid + 1, right)
       ELSE BinarySearch(fs, key, left, mid)

\* The first file whose largest key is not before key; Len(fs) + 1 if none is.
FindFile(fs, key) == BinarySearch(fs, key, 1, Len(fs) + 1)

AfterFile(k, f)  == k # Nil /\ k > Largest(f).k
BeforeFile(k, f) == k # Nil /\ k < Smallest(f).k

SomeFileOverlapsRange(disjoint, fs, lo, hi) ==
  IF ~disjoint
  THEN \E i \in DOMAIN fs : ~(AfterFile(lo, fs[i]) \/ BeforeFile(hi, fs[i]))
  ELSE LET i == FindFile(fs, Lookup(lo, MaxSeq))
       IN  i =< Len(fs) /\ ~BeforeFile(hi, fs[i])

OverlapInLevel(level, lo, hi) ==
  SomeFileOverlapsRange(level > 0, files[level], lo, hi)

\* Mistake: the range of a level-0 file that was picked up does not count.
GetOverlappingInputs_NoRestart(level, lo, hi) ==
  SelectSeq(files[level], LAMBDA f : ~AfterFile(lo, f) /\ ~BeforeFile(hi, f))

RECURSIVE GetOverlappingInputs(_, _, _)
\* Files in level that overlap [lo, hi].  Files in level 0 may overlap each
\* other, so there a file that extends the range starts the search again.
GetOverlappingInputs(level, lo, hi) ==
  LET fs == SelectSeq(files[level], LAMBDA f : ~AfterFile(lo, f) /\ ~BeforeFile(hi, f))
      Lower(f)  == lo # Nil /\ Smallest(f).k < lo
      Higher(f) == hi # Nil /\ Largest(f).k > hi
  IN  IF level = 0 /\ \E i \in DOMAIN fs : Lower(fs[i]) \/ Higher(fs[i])
      THEN LET f == fs[CHOOSE i \in DOMAIN fs : Lower(fs[i]) \/ Higher(fs[i])]
           IN  IF Lower(f) THEN GetOverlappingInputs(level, Smallest(f).k, hi)
               ELSE GetOverlappingInputs(level, lo, Largest(f).k)
      ELSE fs

\* GetRange: the first and the last key of the files.
GetRange(fs) ==
  LET sorted == Sorted(Entries(fs)) IN [lo |-> Head(sorted), hi |-> Last(sorted)]

-----------------------------------------------------------------------------
(* Reads                                                                   *)

\* The newest entry of k in the memtable that is visible at s.
MemGet(k, s) ==
  LET es == {e \in mem : e.k = k /\ e.s =< s}
  IN  IF es = {} THEN Nil ELSE Head(Sorted(es))

\* TableCache::Get with SaveValue: the first entry at or after the lookup key
\* counts if it is for the same user key.
TableGet(f, k, s) ==
  LET at == SelectSeq(f.ents, LAMBDA e : ~Before(e, Lookup(k, s)))
  IN  IF at = <<>> \/ Head(at).k # k THEN Nil ELSE Head(at)

NewestFirst(f, g) == f.num > g.num

\* The files Version::Get and ForEachOverlapping look at in a level: all that
\* overlap, newest first, in level 0; at most one elsewhere.
Candidates(level, k, s) ==
  LET fs == files[level]
      i  == FindFile(fs, Lookup(k, s))
  IN  IF level = 0
      THEN SortSeq(SelectSeq(fs, LAMBDA f : k >= Smallest(f).k /\ k =< Largest(f).k),
                   NewestFirst)
      ELSE IF i > Len(fs) THEN <<>>
      ELSE IF k < Smallest(fs[i]).k THEN <<>> ELSE <<fs[i]>>

\* All of them, level by level, with the level each comes from.
SearchOrder(k, s) ==
  LET Level(l) == LET fs == Candidates(l, k, s)
                  IN  [i \in DOMAIN fs |-> [file |-> fs[i], level |-> l]]
  IN  FlattenSeq([l \in 1..NumLevels |-> Level(l - 1)])

Result(e) == IF e = Nil THEN Nil ELSE IF e.t = "del" THEN Nil ELSE e.s

\* The position in the search order of the file that answers, or 0.
AnsweredBy(order, k, s) ==
  LET hits == {i \in DOMAIN order : TableGet(order[i].file, k, s) # Nil}
  IN  IF hits = {} THEN 0 ELSE CHOOSE i \in hits : \A j \in hits : i =< j

GetIn(order, k, s) ==
  LET a == AnsweredBy(order, k, s) IN IF a = 0 THEN Nil ELSE Result(TableGet(order[a].file, k, s))

\* DBImpl::Get: the memtable, then the version.
Get(k, s) ==
  IF MemGet(k, s) # Nil THEN Result(MemGet(k, s)) ELSE GetIn(SearchOrder(k, s), k, s)

\* UpdateStats: the file charged with a seek that found nothing.
Charge(f, level) ==
  LET i == CHOOSE j \in DOMAIN files[level] : files[level][j].num = f.num
  IN  /\ files' = [files EXCEPT ![level][i].seeks = IF @ > 0 THEN @ - 1 ELSE 0]
      /\ toCompact' = IF f.seeks =< 1 /\ toCompact = Nil
                      THEN [num |-> f.num, level |-> level] ELSE toCompact

\* A read that had to look into a second file charges the first.
ReadCharges(k, s) ==
  /\ MemGet(k, s) = Nil
  /\ \E order \in {SearchOrder(k, s)} :
       /\ Len(order) > 1 /\ AnsweredBy(order, k, s) # 1
       /\ Charge(order[1].file, order[1].level)
  /\ UNCHANGED <<mem, snaps, lastSeq, nextFile, pointer, comp, bgError, hist, taken, manuals>>

\* RecordReadSample, called by iterators: two files hold the key.
RecordReadSample(k, s) ==
  /\ \E order \in {SearchOrder(k, s)} :
         /\ Len(order) > 1
         /\ Charge(order[1].file, order[1].level)
  /\ UNCHANGED <<mem, snaps, lastSeq, nextFile, pointer, comp, bgError, hist, taken, manuals>>

\* Above level 0 the files are sorted: none behind this one has smaller keys.
StopsAt(level, key, f) == level > 0 /\ Before(key, Smallest(f))

\* What ApproximateOffsetOf adds up for a level: whole files before the key, and
\* the part before it of the files it falls into.
OffsetIn(level, key) ==
  LET fs == files[level]
      Stop == {i \in DOMAIN fs : StopsAt(level, key, fs[i])}
      Seen == {i \in DOMAIN fs : \A j \in Stop : i < j}
      Part(f) == IF ~Before(key, Largest(f)) THEN Size(f)
                 ELSE Cardinality({e \in ToSet(f.ents) : Before(e, key)})
  IN  FoldSet(LAMBDA i, n : n + Part(fs[i]), 0, Seen)

ApproximateOffsetOf(key) == FoldSet(LAMBDA l, n : n + OffsetIn(l, key), 0, AllLevels)

-----------------------------------------------------------------------------
(* Writes, snapshots and the flush of the memtable                         *)

Write(k, t) ==
  /\ lastSeq < MaxWrites
  /\ lastSeq' = lastSeq + 1
  /\ mem' = mem \cup {[k |-> k, s |-> lastSeq + 1, t |-> t]}
  /\ hist' = Append(hist, [k |-> k, t |-> t])
  /\ UNCHANGED <<files, snaps, nextFile, pointer, toCompact, comp, bgError, taken, manuals>>

GetSnapshot ==
  /\ taken < MaxSnapshots
  /\ taken' = taken + 1
  /\ snaps' = [i \in DOMAIN snaps \cup {taken'} |-> IF i = taken' THEN lastSeq ELSE snaps[i]]
  /\ UNCHANGED <<mem, files, lastSeq, nextFile, pointer, toCompact, comp, bgError, hist, manuals>>

ReleaseSnapshot(i) ==
  /\ snaps' = [j \in DOMAIN snaps \ {i} |-> snaps[j]]
  /\ UNCHANGED <<mem, files, lastSeq, nextFile, pointer, toCompact, comp, bgError, hist, taken,
                 manuals>>

\* One turn of the loop of PickLevelForMemTableOutput.
MayPush(level, lo, hi) ==
  /\ level < MaxMemLevel
  /\ ~OverlapInLevel(level + 1, lo, hi)
  /\ level + 2 < NumLevels =>
       TotalSize(GetOverlappingInputs(level + 2, lo, hi)) =< MaxGrandparent

PickLevelForMemTableOutput(lo, hi) ==
  IF OverlapInLevel(0, lo, hi) THEN 0
  ELSE CHOOSE l \in 0..MaxMemLevel :
         /\ \A j \in 0..(l - 1) : MayPush(j, lo, hi)
         /\ ~MayPush(l, lo, hi)

\* BySmallestKey: the order of the files of a level.
BySmallestKey(f, g) ==
  \/ Before(Smallest(f), Smallest(g))
  \/ Smallest(f) = Smallest(g) /\ f.num < g.num

\* VersionSet::Builder, Apply and SaveTo: the files of a level without those
\* deleted, with those added.
SaveTo(level, deleted, added) ==
  SortSeq(SelectSeq(files[level], LAMBDA f : f.num \notin deleted) \o added, BySmallestKey)

\* CompactMemTable: WriteLevel0Table puts the table where nothing newer is
\* below it, the version is replaced, and its seek statistics with it.
Flush ==
  /\ mem # {} /\ ~bgError
  /\ comp = Nil \/ FlushAnyTime
  /\ LET ents  == Sorted(mem)
         level == PickLevelForMemTableOutput(Head(ents).k, Last(ents).k)
     IN  files' = [files EXCEPT ![level] = SaveTo(level, {}, <<NewFile(nextFile, ents)>>)]
  /\ nextFile' = nextFile + 1
  /\ mem' = {}
  /\ toCompact' = Nil
  /\ UNCHANGED <<snaps, lastSeq, pointer, comp, bgError, hist, taken, manuals>>

-----------------------------------------------------------------------------
(* Picking a compaction                                                    *)

\* Finalize: how badly each level needs a compaction, in hundredths.
MaxBytesForLevel(level) == IF level =< 1 THEN MaxLevelSize ELSE MaxLevelSize * LevelFactor^(level - 1)

Score(level) ==
  IF level = 0 THEN (100 * Len(files[0])) \div L0Trigger
  ELSE (100 * TotalSize(files[level])) \div MaxBytesForLevel(level)

\* The first of the levels with the best score; the last level is never one.
BestLevel ==
  CHOOSE l \in 0..(NumLevels - 2) :
    \A m \in 0..(NumLevels - 2) : Score(m) < Score(l) \/ (Score(m) = Score(l) /\ l =< m)

SizeCompaction == Score(BestLevel) >= 100

\* The first file after the compaction pointer of the level, around the end.
PickFile(level) ==
  LET after == SelectSeq(files[level], LAMBDA f :
                 pointer[level] = Nil \/ Before(pointer[level], Largest(f)))
  IN  IF after = <<>> THEN <<Head(files[level])>> ELSE <<Head(after)>>

\* The oldest snapshot, when the compaction begins.
SmallestSnapshot ==
  IF snaps = <<>> THEN lastSeq
  ELSE CHOOSE s \in Range(snaps) : \A t \in Range(snaps) : s =< t

\* The files of a level that overlap a range.
InRange(level, range) == GetOverlappingInputs(level, range.lo.k, range.hi.k)

\* The compaction of these files.
CompactionOf(level, in0, in1, manual) ==
  [level |-> level, in0 |-> in0, in1 |-> in1,
   gps |-> IF level + 2 < NumLevels THEN InRange(level + 2, GetRange(in0 \o in1)) ELSE <<>>,
   manual |-> manual,
   next |-> GetRange(in0).hi,
   base |-> UNION {ToSet(files[l]) : l \in (level + 2)..(NumLevels - 1)},
   smallest |-> SmallestSnapshot]

\* More files of this level are taken if that picks up no more of the next.
Grows(in0, in1, exp0, exp1) ==
  /\ in1 # <<>> /\ Len(exp0) > Len(in0)
  /\ TotalSize(in1) + TotalSize(exp0) < MaxExpanded
  /\ Len(exp1) = Len(in1)

Expanded(level, in0, in1, exp0, manual) ==
  IF Grows(in0, in1, exp0, InRange(level + 1, GetRange(exp0)))
  THEN CompactionOf(level, exp0, InRange(level + 1, GetRange(exp0)), manual)
  ELSE CompactionOf(level, in0, in1, manual)

WithNextLevel(level, in0, in1, manual) ==
  Expanded(level, in0, in1, InRange(level, GetRange(in0 \o in1)), manual)

\* SetupOtherInputs: the overlapping files of the next level, and more of this.
SetupOtherInputs(level, in0, manual) ==
  WithNextLevel(level, in0, InRange(level + 1, GetRange(in0)), manual)

\* PickCompaction: in level 0 also the files that overlap the one picked.
WithOverlapping(level, first) == IF level = 0 THEN InRange(0, GetRange(first)) ELSE first
PickedIn(level, first) == SetupOtherInputs(level, WithOverlapping(level, first), FALSE)
Picked ==
  IF SizeCompaction THEN PickedIn(BestLevel, PickFile(BestLevel))
  ELSE PickedIn(toCompact.level, SelectSeq(files[toCompact.level], LAMBDA f : f.num = toCompact.num))

\* VersionSet::CompactRange: not too much in one shot, except in level 0.
Limited(level, fs) ==
  LET big == {i \in DOMAIN fs : TotalSize(SubSeq(fs, 1, i)) >= MaxFile}
  IN  IF level = 0 \/ big = {} THEN fs
      ELSE SubSeq(fs, 1, CHOOSE i \in big : \A j \in big : i =< j)

-----------------------------------------------------------------------------
(* Doing it                                                                *)

IsTrivialMove(c) ==
  ~c.manual /\ Len(c.in0) = 1 /\ c.in1 = <<>> /\ TotalSize(c.gps) =< MaxGrandparent

\* Mistake: a deletion is obsolete whatever the levels below hold.
IsBaseLevelForKey_Always(c, k) == TRUE

\* No file in the levels below the output has k in its range.
IsBaseLevelForKey(c, k) == \A f \in c.base : ~(Smallest(f).k =< k /\ k =< Largest(f).k)

\* Rule (A): a newer entry of the same key that every snapshot sees.
Hidden(c, last) == last =< c.smallest

Obsolete(c, e) == e.t = "del" /\ e.s =< c.smallest /\ IsBaseLevelForKey(c, e.k)

\* ShouldStopBefore: the output so far overlaps too much of the grandparents.
Passed(c, st, e) == {i \in DOMAIN c.gps : i >= st.gp /\ Before(Largest(c.gps[i]), e)}

\* One turn of the loop of DoCompactionWork for the entry e.
Turn(c, st, e) ==
  LET passed == Passed(c, st, e)
      over   == st.over + (IF st.seen THEN FoldSet(LAMBDA i, n : n + Size(c.gps[i]), 0, passed)
                           ELSE 0)
      stop   == over > MaxGrandparent
      cut    == stop /\ st.cur # <<>>
      outs   == IF cut THEN Append(st.outs, st.cur) ELSE st.outs
      cur    == IF cut THEN <<>> ELSE st.cur
      last   == IF st.key = e.k THEN st.last ELSE MaxSeq
      drop   == Hidden(c, last) \/ Obsolete(c, e)
      add    == IF drop THEN cur ELSE Append(cur, e)
      full   == ~drop /\ Len(add) >= MaxFile
  IN  [outs |-> IF full THEN Append(outs, add) ELSE outs,
       cur  |-> IF full THEN <<>> ELSE add,
       key  |-> e.k, last |-> e.s,
       gp   |-> st.gp + Cardinality(passed), seen |-> TRUE,
       over |-> IF stop THEN 0 ELSE over]

\* outputs, the output being built, and the local variables of the loop.
CompactionState ==
  [outs |-> <<>>, cur |-> <<>>, key |-> Nil, last |-> MaxSeq, gp |-> 1, seen |-> FALSE, over |-> 0]

\* The files a compaction makes from its inputs.
AllOutputs(st) == IF st.cur = <<>> THEN st.outs ELSE Append(st.outs, st.cur)
Outputs(c) ==
  AllOutputs(FoldLeft(LAMBDA st, e : Turn(c, st, e), CompactionState, Sorted(Entries(c.in0 \o c.in1))))

\* BackgroundCompaction, until the mutex is released.
Begin(c) ==
  /\ comp = Nil /\ ~bgError
  /\ comp' = c
  /\ pointer' = [pointer EXCEPT ![c.level] = c.next]
  /\ UNCHANGED <<mem, files, snaps, lastSeq, nextFile, toCompact, bgError, hist, taken>>

PickCompaction ==
  /\ SizeCompaction \/ toCompact # Nil
  /\ Begin(Picked)
  /\ UNCHANGED manuals

ManualCompaction(level, lo, hi) ==
  /\ manuals < MaxManual
  /\ GetOverlappingInputs(level, lo, hi) # <<>>
  /\ manuals' = manuals + 1
  /\ Begin(SetupOtherInputs(level, Limited(level, GetOverlappingInputs(level, lo, hi)), TRUE))

\* Compaction::AddInputDeletions
InputDeletions(fs) == {fs[i].num : i \in DOMAIN fs}

Numbered(outs) == [i \in DOMAIN outs |-> NewFile(nextFile + i - 1, outs[i])]

\* InstallCompactionResults, or the move of a single file.  The version it is
\* applied to may have a memtable more than the one that was picked from.
Install ==
  /\ comp # Nil
  /\ LET c == comp IN
     \E outs \in {IF IsTrivialMove(c) THEN <<NewFile(c.in0[1].num, c.in0[1].ents)>>
                  ELSE Numbered(Outputs(c))} :
       /\ files' = [files EXCEPT ![c.level]     = SaveTo(c.level, InputDeletions(c.in0), <<>>),
                                 ![c.level + 1] = SaveTo(c.level + 1, InputDeletions(c.in1), outs)]
       /\ nextFile' = nextFile + Len(outs)
  /\ comp' = Nil
  /\ toCompact' = Nil
  /\ UNCHANGED <<mem, snaps, lastSeq, pointer, bgError, hist, taken, manuals>>

\* It fails: nothing is installed and no other compaction is begun.
Fail ==
  /\ comp # Nil /\ MayFail
  /\ comp' = Nil
  /\ bgError' = TRUE
  /\ UNCHANGED <<mem, files, snaps, lastSeq, nextFile, pointer, toCompact, hist, taken, manuals>>

-----------------------------------------------------------------------------

Init ==
  /\ mem = {} /\ files = [l \in AllLevels |-> <<>>]
  /\ snaps = <<>> /\ lastSeq = 0 /\ nextFile = 1
  /\ pointer = [l \in AllLevels |-> Nil] /\ toCompact = Nil /\ comp = Nil
  /\ bgError = FALSE /\ hist = <<>> /\ taken = 0 /\ manuals = 0

ReadPoints == Range(snaps) \cup {lastSeq}

Next ==
  \/ \E k \in Keys, t \in Types : Write(k, t)
  \/ GetSnapshot
  \/ \E i \in DOMAIN snaps : ReleaseSnapshot(i)
  \/ \E k \in ReadKeys, s \in ReadPoints : ReadCharges(k, s) \/ RecordReadSample(k, s)
  \/ Flush
  \/ PickCompaction
  \/ \E level \in 0..(NumLevels - 2), lo, hi \in Keys \cup {Nil} : ManualCompaction(level, lo, hi)
  \/ Install
  \/ Fail

Spec == Init /\ [][Next]_vars

-----------------------------------------------------------------------------
(* Properties                                                              *)

\* What a read of k at s must return: the last write of k up to s.
Latest(k, s) ==
  LET ws == {i \in 1..s : hist[i].k = k}
  IN  IF ws = {} THEN Nil
      ELSE LET i == CHOOSE i \in ws : \A j \in ws : j =< i
           IN  IF hist[i].t = "del" THEN Nil ELSE i

\* Whatever was flushed, moved, merged or dropped, a read at any live snapshot,
\* and a read without one, returns the last write before it.
ReadsAreRight == \A k \in Keys, s \in ReadPoints : Get(k, s) = Latest(k, s)

\* "Make sure there is no overlap in levels > 0" (SaveTo).
LevelsDisjoint ==
  \A l \in AllLevels \ {0} : \A i \in 1..(Len(files[l]) - 1) :
    Before(Largest(files[l][i]), Smallest(files[l][i + 1]))

\* "entries never hop across levels ... if we find data in an smaller level,
\* later levels are irrelevant" (Version::Get): of two entries of a key the
\* newer one is in the memtable, in a level above the other's, in a newer file
\* of level 0, or in the same level.
NewerIsAbove ==
  /\ \A e \in mem, l \in AllLevels : \A f \in Entries(files[l]) : e.k = f.k => e.s > f.s
  /\ \A l, m \in AllLevels : l < m =>
       \A e \in Entries(files[l]), f \in Entries(files[m]) : e.k = f.k => e.s > f.s
  /\ \A i, j \in DOMAIN files[0] : files[0][i].num > files[0][j].num =>
       \A e \in ToSet(files[0][i].ents), f \in ToSet(files[0][j].ents) : e.k = f.k => e.s > f.s

\* ApproximateOffsetOf stops at the first file behind the key, and still counts
\* every entry before it.
SizesAreExact ==
  \A k \in Keys : LET key == Lookup(k, MaxSeq) IN
    ApproximateOffsetOf(key) =
      Cardinality({e \in UNION {Entries(files[l]) : l \in AllLevels} : Before(e, key)})

=============================================================================
