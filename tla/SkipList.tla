------------------------------- MODULE SkipList -------------------------------
(***************************************************************************)
(* The memtable of leveldb is a skip list that one writer extends while    *)
(* readers search it without a lock (skiplist.h, memtable.cc).  Only the   *)
(* barriers of AtomicPointer order what the writer stores.                 *)
(*                                                                         *)
(* Entries are numbered in the order of their keys, 1..N; an entry is also *)
(* the node that holds it.  Node 0 is the head, Nil the null pointer; it   *)
(* sorts after all keys, as NULL does for the code.                        *)
(*                                                                         *)
(* A location <<n, i>> is the pointer of node n at level i; <<n, -1>> is   *)
(* the key of node n; <<0, -1>> is max_height_.  mem is memory as the      *)
(* writer sees it, seen as readers see it: stores in dirty have not        *)
(* reached them yet, and may do so in any order unless there is a barrier. *)
(* Readers write nothing, so one reader stands for any number.             *)
(***************************************************************************)
EXTENDS Integers, FiniteSets

CONSTANTS
  N,            \* entries that may be inserted
  MaxHeight     \* kMaxHeight

SizesAssumption == N \in Nat /\ MaxHeight \in Nat \ {0}

VARIABLES
  mem, seen, dirty,
  ins,          \* Insert: [key, height, level, linked, prev]; key = 0 when idle
  published,    \* entries that the writer has made known to readers
  rd            \* the reader: [pc, op, t, x, level, base, node]

vars == <<mem, seen, dirty, ins, published, rd>>

Nodes == 0..N
Levels == 0..(MaxHeight - 1)
Locs == Nodes \X (-1..(MaxHeight - 1))
Head == 0
Nil == N + 1
Garbage == -1          \* memory that was never written

Height == <<Head, -1>>
KeyOf(n) == <<n, -1>>
Link(n, i) == <<n, i>>

-----------------------------------------------------------------------------
(* AtomicPointer                                                           *)

\* A store without a barrier reaches readers sometime.
NoBarrier_Store(m, loc, v) == [mem |-> [m.mem EXCEPT ![loc] = v], seen |-> m.seen, dirty |-> m.dirty \cup {loc}]

\* Mistake: the barrier comes after the store.
Release_Store_BarrierAfter(m, loc, v) ==
  [mem |-> [m.mem EXCEPT ![loc] = v], seen |-> [m.seen EXCEPT ![loc] = v], dirty |-> m.dirty]

\* A release store reaches readers after all that was stored before it.
Release_Store(m, loc, v) == [mem |-> [m.mem EXCEPT ![loc] = v], seen |-> m.mem, dirty |-> {loc}]

Memory == [mem |-> mem, seen |-> seen, dirty |-> dirty]
Stored(m) == mem' = m.mem /\ seen' = m.seen /\ dirty' = m.dirty

\* A store reaches the readers.
Drain ==
  /\ \E loc \in dirty : seen' = [seen EXCEPT ![loc] = mem[loc]] /\ dirty' = dirty \ {loc}
  /\ UNCHANGED <<mem, ins, published, rd>>

-----------------------------------------------------------------------------
(* The writer                                                              *)

Idle == [key |-> 0, height |-> 0, level |-> 0, linked |-> FALSE]

\* prev[level] of FindGreaterOrEqual: the last node before key at that level.
\* The code looks all of them up first; no other writer changes them meanwhile.
Prev(key, i) == CHOOSE n \in Nodes : n < key /\ mem[Link(n, i)] # Garbage /\ mem[Link(n, i)] >= key

\* Insert, up to the loop: the height is raised and the node is made.
BeginInsert(key, height) ==
  /\ ins.key = 0 /\ mem[KeyOf(key)] = Garbage
  /\ LET m == IF height > mem[Height] THEN NoBarrier_Store(Memory, Height, height) ELSE Memory
     IN  Stored(NoBarrier_Store(m, KeyOf(key), key))
  /\ ins' = [key |-> key, height |-> height, level |-> 0, linked |-> FALSE]
  /\ UNCHANGED <<published, rd>>

\* The levels are linked from the lowest up.
LinkLevel(i) == i.level

\* x->NoBarrier_SetNext(i, prev[i]->NoBarrier_Next(i))
SetOwnLink ==
  /\ ins.key # 0 /\ ins.level < ins.height /\ ~ins.linked
  /\ LET i == LinkLevel(ins)
     IN  Stored(NoBarrier_Store(Memory, Link(ins.key, i), mem[Link(Prev(ins.key, i), i)]))
  /\ ins' = [ins EXCEPT !.linked = TRUE]
  /\ UNCHANGED <<published, rd>>

\* prev[i]->SetNext(i, x)
Splice ==
  /\ ins.key # 0 /\ ins.linked
  /\ LET i == LinkLevel(ins)
     IN  Stored(Release_Store(Memory, Link(Prev(ins.key, i), i), ins.key))
  /\ ins' = [ins EXCEPT !.level = @ + 1, !.linked = FALSE]
  /\ UNCHANGED <<published, rd>>

\* The write is acknowledged: DBImpl::Write takes and releases its mutex, and
\* readers that take it later see the entry.
Publish ==
  /\ ins.key # 0 /\ ins.level = ins.height
  /\ seen' = mem /\ dirty' = {}
  /\ published' = published \cup {ins.key}
  /\ ins' = Idle
  /\ UNCHANGED <<mem, rd>>

-----------------------------------------------------------------------------
(* The reader.  FindGreaterOrEqual ("ge"), FindLessThan ("lt") and FindLast *)
(* ("last") walk alike: to the right while the next node is before t.      *)

Start(op, t) ==
  /\ rd.pc = "idle"
  /\ rd' = [rd EXCEPT !.pc = "search", !.op = op, !.t = t, !.x = Head, !.level = seen[Height] - 1,
                      !.base = published]
  /\ UNCHANGED <<mem, seen, dirty, ins, published>>

\* Iterator::Seek, MemTable::Get
Seek(t) == Start("ge", t)

\* Iterator::Prev
PrevEntry == rd.node \notin {Nil, Garbage} /\ Start("lt", rd.node)

\* Iterator::SeekToLast
SeekToLast == Start("last", Nil)

\* KeyIsAfterNode
GoesRight(nxt, t) == nxt # Nil /\ nxt < t

\* What a search returns; the iterator takes the head for a null pointer.
Found(op, x, nxt) ==
  IF op = "ge" THEN nxt ELSE IF x = Head THEN Nil ELSE x

\* Switch to next list.
LevelBelow(level) == level - 1

\* One turn of the loop.
Walk ==
  /\ rd.pc = "search"
  /\ LET nxt == seen[Link(rd.x, rd.level)] IN
     IF nxt = Garbage \/ (nxt # Nil /\ seen[KeyOf(nxt)] = Garbage)
     THEN rd' = [rd EXCEPT !.pc = "lost"]
     ELSE IF GoesRight(nxt, rd.t) THEN rd' = [rd EXCEPT !.x = nxt]
     ELSE IF rd.level > 0 THEN rd' = [rd EXCEPT !.level = LevelBelow(@)]
     ELSE rd' = [rd EXCEPT !.pc = "idle", !.node = Found(rd.op, rd.x, nxt)]
  /\ UNCHANGED <<mem, seen, dirty, ins, published>>

\* Iterator::SeekToFirst and Iterator::Next: one load.
Step(op, from) ==
  /\ rd.pc = "idle"
  /\ rd' = [rd EXCEPT !.op = op, !.t = from, !.x = from, !.level = 0, !.base = published,
                      !.node = seen[Link(from, 0)]]
  /\ UNCHANGED <<mem, seen, dirty, ins, published>>

SeekToFirst == Step("first", Head)
NextEntry == rd.node \notin {Nil, Garbage} /\ Step("next", rd.node)

-----------------------------------------------------------------------------

InitMem ==
  [loc \in Locs |-> IF loc = Height THEN 1 ELSE IF loc[1] = Head THEN Nil ELSE Garbage]

Init ==
  /\ mem = InitMem /\ seen = InitMem /\ dirty = {}
  /\ ins = Idle
  /\ published = {}
  /\ rd = [pc |-> "idle", op |-> "new", t |-> 0, x |-> Head, level |-> 0, base |-> {}, node |-> Nil]

Insert == SetOwnLink \/ Splice \/ Publish
Read == Walk

Next ==
  \/ \E key \in 1..N, height \in 1..MaxHeight : BeginInsert(key, height)
  \/ Insert
  \/ Drain
  \/ \E t \in 1..N : Seek(t)
  \/ PrevEntry \/ SeekToLast \/ Walk \/ SeekToFirst \/ NextEntry

Spec == Init /\ [][Next]_vars

\* The thread of the reader goes on.
FairSpec == Spec /\ WF_vars(Read)

-----------------------------------------------------------------------------
(* Properties                                                              *)

\* A reader never follows a pointer that was not written, or to a node that is
\* not complete: the pointer at its level and its key are there before the node
\* can be reached.
NeverLost == rd.pc # "lost" /\ rd.node # Garbage

\* A reader finds every entry that was published before it began: there is none
\* between the place it asked for and the one it was given, whatever is being
\* inserted meanwhile.
FindsPublished ==
  rd.pc = "idle" => \A k \in rd.base :
    CASE rd.op = "ge"    -> rd.t =< k => rd.node =< k
      [] rd.op = "lt"    -> k < rd.t => rd.node # Nil /\ rd.node >= k
      [] rd.op = "last"  -> rd.node # Nil /\ rd.node >= k
      [] rd.op = "first" -> rd.node =< k
      [] rd.op = "next"  -> k > rd.t => rd.node =< k
      [] OTHER -> TRUE

\* Searching never leaves the order of the keys: what is found is on the side of
\* the target it was asked for.
StaysInOrder ==
  rd.pc = "idle" =>
    CASE rd.op = "ge"   -> rd.node >= rd.t
      [] rd.op = "lt"   -> rd.node = Nil \/ rd.node < rd.t
      [] rd.op = "next" -> rd.node > rd.t
      [] OTHER -> TRUE

\* Every node readers can reach at a level they can also reach at the level below.
LevelsNest ==
  \A i \in Levels \ {0}, n \in Nodes :
    LET m == seen[Link(n, i)] IN
    m \notin {Nil, Garbage} => \E p \in Nodes : seen[Link(p, i - 1)] = m

\* What a reader may rely on without a lock.
ReadsAreSafe == NeverLost /\ FindsPublished /\ StaysInOrder /\ LevelsNest

\* A search ends although entries are being inserted.
SearchEnds == rd.pc = "search" ~> rd.pc # "search"

=============================================================================
