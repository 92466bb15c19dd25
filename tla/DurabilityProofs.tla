--------------------------- MODULE DurabilityProofs ---------------------------
(***************************************************************************)
(* Recovery: what TLC checks of Durability for a few files, writes and     *)
(* crashes, proved for any number of them.                                 *)
(*                                                                         *)
(* The argument is about all that a crash may leave: the directories in    *)
(* Dirs, and for a manifest the ends in Ends.  In each of them CURRENT     *)
(* names a manifest that can be replayed, and its tables are there         *)
(* (FilesInv).  Each holds what had to survive, in a table or in a log     *)
(* that recovery reads (ContentsInv), and says a number that no batch of   *)
(* its tables is above (SeqInv).  DB::Open and the background thread       *)
(* change what a crash may leave one file operation at a time; the parts   *)
(* of the invariant say what they know in between.                         *)
(***************************************************************************)
EXTENDS Durability, SequenceTheorems, FiniteSetTheorems, TLAPS

-----------------------------------------------------------------------------
(* The inductive invariant: types                                          *)

Batch == [id : Nat, seq : Nat]

EditType ==
  [add : SUBSET Numbers, del : SUBSET Numbers, log : Nat, next : Nat, seq : Nat,
   full : BOOLEAN]

FileOf(R) == {f \in [recs : Seq(R), synced : Nat] : f.synced =< Len(f.recs)}

DirType ==
  [logs : SUBSET Numbers, tables : SUBSET Numbers, manifests : SUBSET Numbers,
   temps : SUBSET Numbers, current : Numbers \cup {None}]

Phases ==
  {"down", "newdb", "newdbtemp", "newdbname", "recover", "logs", "opensync", "opentemp",
   "openname", "install", "clean", "run"}

VType ==
  [live : SUBSET Numbers, logNo : Nat, manifest : Nat, descriptor : BOOLEAN, next : Nat,
   seq : Nat, mem : SUBSET Batch, imm : SUBSET Batch, hasImm : BOOLEAN, logfile : Nat,
   edit : SUBSET Numbers, save : BOOLEAN, todo : SUBSET Numbers,
   pins : Seq(SUBSET Numbers), pending : SUBSET Numbers, bgError : BOOLEAN]

Stages == {"", "build", "append", "sync", "install", "clean"}

JobType ==
  [kind : {"none", "mem", "comp"}, stage : Stages, num : Nat, ents : SUBSET Batch,
   edit : EditType]

DiskTypes ==
  /\ dir \in DirType /\ lost \subseteq DirType
  /\ logc \in [Numbers -> FileOf(Batch)]
  /\ manc \in [Numbers -> FileOf(EditType)]
  /\ tabc \in [Numbers -> SUBSET Batch]

Types ==
  /\ DiskTypes
  /\ phase \in Phases /\ v \in VType /\ job \in JobType
  /\ acked \subseteq Nat /\ must \subseteq Nat /\ overwritten \in BOOLEAN
  /\ writes \in Nat /\ crashes \in Nat /\ compactions \in Nat

-----------------------------------------------------------------------------
(* The inductive invariant: files                                          *)

\* The directories, and the ends of a file, that the next crash may leave.
Dirs == IF MachineCrashes THEN lost \cup {dir} ELSE {dir}
Ends(f) == IF MachineCrashes THEN Cuts(f) ELSE {Len(f.recs)}

\* What recovery makes of a manifest that ends after k records.
UpTo(f, k) == Replay(SubSeq(f.recs, 1, k))

\* The file keeps all it has.
Settled(f) == Ends(f) = {Len(f.recs)}

\* A directory and a state that its manifest may be read to; counters are
\* not above low.
Sound(d, st, low) ==
  /\ st.log \in Nat /\ st.next \in Nat /\ st.seq \in Nat
  /\ st.any /\ st.live \subseteq d.tables /\ \A t \in st.live : t < st.next
  /\ d.current < st.next /\ st.log < st.next /\ st.next =< low

\* A directory can be recovered, whatever a crash leaves of its manifest.  New logs
\* do not get the number of one that it has, if they are not in logs and above low.
Recoverable(d, f, low, logs) ==
  /\ d.current \in d.manifests
  /\ \A n \in d.logs : n \in logs \/ n < low
  /\ \A k \in Ends(f) : Sound(d, UpTo(f, k), UpTo(f, Len(f.recs)).next)
  /\ UpTo(f, Len(f.recs)).next =< low

Now == Replay(manc[dir.current].recs)
Mine == Replay(manc[v.manifest].recs)

DirsRecoverable ==
  \A d \in Dirs : d.current # None => Recoverable(d, manc[d.current], Now.next, dir.logs)

Creating == {"newdb", "newdbtemp", "newdbname"}

\* While there is no CURRENT, there is nothing else either.
NothingYet ==
  /\ MachineCrashes => \A d \in Dirs : d.current # None
  /\ dir.current = None =>
       phase \in Creating \cup {"down"} /\ dir.logs = {} /\ dir.tables = {}
  /\ phase \in Creating => dir.current = None
  /\ phase \in {"newdbtemp", "newdbname"} =>
       1 \in dir.manifests /\ manc[1] = Appended(Empty, NewDBEdit)

AtRest ==
  /\ phase # "run" => job = NoJob
  /\ phase \in Creating \cup {"down", "recover"} => v = Fresh

Opening == {"logs", "opensync", "opentemp", "openname", "install"}

\* DB::Open after the manifest was read: numbers and files.
OpenNumbers ==
  phase \in Opening =>
    /\ v.pins = <<>> /\ v.pending = {} /\ ~v.bgError /\ ~v.hasImm /\ v.imm = {}
    /\ v.todo \subseteq dir.logs /\ \A n \in dir.logs : n < v.next \/ n \in v.todo
    /\ v.live \subseteq dir.tables /\ \A t \in v.live \cup v.edit : t < v.next
    /\ \A d \in Dirs : v.edit \subseteq d.tables
    /\ v.logNo < v.next /\ \A n \in v.todo : v.logNo =< n
    /\ v.logfile # None => v.todo = {} /\ v.logfile \in dir.logs /\ v.logNo =< v.logfile
    /\ ~v.save => v.edit = {} /\ ReuseLogs
    /\ v.descriptor = ReuseLogs
    /\ 0 < v.manifest /\ v.manifest < v.next

ReadManifest ==
  phase = "logs" =>
    /\ v.live = Now.live /\ v.logNo = Now.log /\ Now.next < v.next
    /\ v.manifest = IF ReuseLogs THEN dir.current ELSE Now.next

WroteManifest ==
  phase \in Opening \ {"logs"} =>
    /\ v.logfile # None /\ v.manifest \in dir.manifests
    /\ Mine.any /\ Mine.live = v.live \cup v.edit /\ Mine.log = v.logfile
    /\ Mine.next = v.next /\ Mine.seq = v.seq

NotCurrentYet ==
  /\ phase \in {"opensync", "opentemp", "openname"} /\ ~v.descriptor =>
       Now.next =< v.manifest
  /\ phase \in {"opentemp", "openname"} => ~v.descriptor /\ Settled(manc[v.manifest])
  /\ phase = "opensync" /\ v.descriptor => dir.current = v.manifest
  /\ phase = "install" => dir.current = v.manifest /\ Settled(manc[v.manifest])

Open_ == phase \in {"clean", "run"}
Active == {"build", "append", "sync", "install"}

RunNumbers ==
  Open_ =>
    /\ v.edit = {} /\ v.todo = {}
    /\ dir.current = v.manifest
    /\ v.logfile \in dir.logs /\ v.logNo =< v.logfile /\ \A n \in dir.logs : n < v.next
    /\ LiveFiles \subseteq dir.tables
    /\ \A t \in LiveFiles \cup v.pending : t < v.next
    /\ Now.next =< v.next
    /\ v.bgError => job.stage \in {"", "clean"}
    /\ phase = "clean" => v.pins = <<>> /\ v.pending = {} /\ ~v.bgError /\ ~v.hasImm /\ v.imm = {}

JobNumbers ==
  /\ job.stage \in Active =>
       /\ job.kind # "none" /\ job.num \in dir.tables /\ job.num < v.next
       /\ job.edit.full /\ job.edit.add = {job.num} /\ job.edit.del \subseteq v.live
  /\ job.stage \in {"append", "sync", "install"} =>
       /\ job.num < job.edit.next /\ job.edit.log < job.edit.next
       /\ job.edit.log =< v.logfile
       /\ job.edit.next =< v.next /\ Now.next =< job.edit.next
       /\ \A d \in Dirs : job.num \in d.tables

\* What the manifest says of the version and the log in use.
Installed ==
  Open_ =>
    /\ ~v.bgError /\ job.stage \in {"", "build", "append", "clean"} =>
         v.live = Now.live /\ v.logNo = Now.log /\ Settled(manc[dir.current])
    /\ job.stage \in {"sync", "install"} =>
         Now.live = (v.live \ job.edit.del) \cup job.edit.add /\ Now.log = job.edit.log
    /\ job.stage = "install" => Settled(manc[dir.current])

FilesInv ==
  /\ Types /\ ~overwritten
  /\ DirsRecoverable /\ NothingYet /\ AtRest
  /\ OpenNumbers /\ ReadManifest /\ WroteManifest /\ NotCurrentYet
  /\ RunNumbers /\ JobNumbers /\ Installed

-----------------------------------------------------------------------------
(* The inductive invariant: contents                                       *)

InTable(x, t) == \E b \in tabc[t] : b.id = x
InTables(x, T) == \E t \in T : InTable(x, t)
InLog(x, n) == \E i \in 1..Len(logc[n].recs) : logc[n].recs[i].id = x
InSynced(x, n) == \E i \in 1..logc[n].synced : logc[n].recs[i].id = x
InSet(x, S) == \E b \in S : b.id = x
LogSet(n) == Range(logc[n].recs)

KeptAcked ==
  /\ must \subseteq acked
  /\ dir.current = None => acked = {}
  /\ dir.current # None => \A x \in acked :
       InTables(x, Now.live) \/ \E n \in dir.logs : n >= Now.log /\ InLog(x, n)

KeptMust ==
  MachineCrashes =>
    \A d \in Dirs : \A k \in Ends(manc[d.current]) : \A x \in must :
      LET st == UpTo(manc[d.current], k) IN
      InTables(x, st.live) \/ \E n \in d.logs : n >= st.log /\ InSynced(x, n)

\* A log that a crash may bring back is still there, or was not needed any more.
LogsAreKnown ==
  /\ \A d \in Dirs : d.current # None => \A n \in d.logs : n \in dir.logs \/ n < Now.log
  /\ phase \in Opening \ {"install"} /\ ~v.descriptor => Now.log = v.logNo

Recovered ==
  phase \in Opening \cup {"clean"} => \A x \in acked :
    InTables(x, v.live \cup v.edit) \/ InSet(x, v.mem) \/ \E n \in v.todo : InLog(x, n)

MemIsLog ==
  phase \in Opening \cup {"clean", "run"} =>
    /\ v.mem = IF v.logfile = None THEN {} ELSE LogSet(v.logfile)
    /\ MachineCrashes /\ phase # "run" => v.mem = {}

OldLogs ==
  phase \in Opening =>
    /\ \A n \in dir.logs \ v.todo, m \in v.todo : n < m
    /\ v.logfile # None => \A n \in dir.logs : n =< v.logfile
    /\ ~v.save => \A n \in dir.logs : n >= v.logNo => n \in v.todo \/ n = v.logfile \/ LogSet(n) = {}

RunContents ==
  Open_ =>
    /\ \A n \in dir.logs : n =< v.logfile
    /\ \A n \in dir.logs : n >= v.logNo /\ n # v.logfile => LogSet(n) \subseteq v.imm
    /\ ~v.hasImm => v.imm = {}
    /\ ~v.bgError => \A k \in Ends(manc[dir.current]) : UpTo(manc[dir.current], k).log =< v.logfile
    /\ \A x \in acked : InSet(x, v.mem) \/ InSet(x, v.imm) \/ InTables(x, v.live)

JobContents ==
  /\ job.stage = "build" => Now.next =< job.num
  /\ job.stage \in Active =>
       /\ job.kind = "mem" => v.hasImm /\ job.ents = v.imm /\ job.edit.del = {}
       /\ job.kind = "comp" => \A t \in job.edit.del : tabc[t] \subseteq job.ents
  /\ job.stage \in {"append", "sync", "install"} =>
       /\ tabc[job.num] = job.ents
       /\ job.edit.log = IF job.kind = "mem" THEN v.logfile ELSE v.logNo

ContentsInv ==
  /\ KeptAcked /\ KeptMust /\ LogsAreKnown /\ Recovered /\ MemIsLog /\ OldLogs /\ RunContents /\ JobContents

-----------------------------------------------------------------------------
(* The inductive invariant: sequence numbers                               *)

UpToSeq(S, s) == \A b \in S : b.seq =< s

\* Sequence numbers grow along a log.
LogsSorted ==
  \A n \in Numbers : \A i, j \in 1..Len(logc[n].recs) :
    i < j => logc[n].recs[i].seq =< logc[n].recs[j].seq

\* A manifest, wherever a crash cuts it, knows a number that no batch in its tables
\* is above.
VersionsNumbered ==
  \A d \in Dirs : d.current # None => \A k \in Ends(manc[d.current]) :
    LET st == UpTo(manc[d.current], k) IN \A t \in st.live : UpToSeq(tabc[t], st.seq)

MemNumbered ==
  phase \in Opening \cup {"clean", "run"} =>
    /\ UpToSeq(v.mem, v.seq) /\ UpToSeq(v.imm, v.seq)
    /\ \A t \in v.live \cup v.edit : UpToSeq(tabc[t], v.seq)

JobNumbered ==
  /\ job.stage \in Active => UpToSeq(job.ents, v.seq)
  /\ job.stage \in {"append", "sync", "install"} =>
       /\ UpToSeq(job.ents, job.edit.seq) /\ job.edit.seq =< v.seq
       /\ \A t \in v.live : UpToSeq(tabc[t], job.edit.seq)

SeqInv == LogsSorted /\ VersionsNumbered /\ MemNumbered /\ JobNumbered

-----------------------------------------------------------------------------
(* Lemmas: files and what is replayed                                      *)

\* A whole file is its own beginning.
LEMMA WholeFile ==
  ASSUME NEW R, NEW s \in Seq(R)
  PROVE  SubSeq(s, 1, Len(s)) = s
<1>1. SubSeq(s, 1, Len(s)) \in Seq(R) /\ Len(SubSeq(s, 1, Len(s))) = Len(s)
  BY LenProperties
<1>2. \A i \in 1..Len(s) : SubSeq(s, 1, Len(s))[i] = s[i]
  BY LenProperties
<1> QED
  BY <1>1, <1>2, SeqEqual

\* What is appended changes no beginning.
LEMMA BeginningStays ==
  ASSUME NEW R, NEW s \in Seq(R), NEW e \in R, NEW k \in 0..Len(s)
  PROVE  SubSeq(Append(s, e), 1, k) = SubSeq(s, 1, k)
<1> DEFINE a == SubSeq(Append(s, e), 1, k)
           b == SubSeq(s, 1, k)
<1>1. Append(s, e) \in Seq(R) /\ Len(Append(s, e)) = Len(s) + 1 /\ Len(s) \in Nat
  BY LenProperties, AppendProperties
<1>2. a \in Seq(R) /\ b \in Seq(R) /\ Len(a) = k /\ Len(b) = k
  BY <1>1
<1>3. \A i \in 1..k : a[i] = b[i]
  BY <1>1, AppendProperties
<1> QED
  BY <1>2, <1>3, SeqEqual

\* An edit in full, appended: it deletes, adds, and sets every field.
LEMMA ReplayAppend ==
  ASSUME NEW r \in Seq(EditType), NEW e \in EditType, e.full
  PROVE  Replay(Append(r, e)) =
           [live |-> (Replay(r).live \ e.del) \cup e.add, log |-> e.log, next |-> e.next,
            seq |-> e.seq, any |-> TRUE]
<1> DEFINE a == Append(r, e)
           full == {i \in DOMAIN a : a[i].full}
           n == Len(r) + 1
<1>1. /\ Len(r) \in Nat /\ DOMAIN r = 1..Len(r) /\ DOMAIN a = 1..n
      /\ a[n] = e /\ \A i \in 1..Len(r) : a[i] = r[i]
  BY LenProperties, AppendProperties
<1>2. (CHOOSE i \in full : \A j \in full : j =< i) = n
  <2>1. n \in full /\ \A j \in full : j =< n
    BY <1>1
  <2>2. \A i \in full : (\A j \in full : j =< i) => i = n
    BY <2>1, <1>1
  <2> HIDE DEF full
  <2> QED
    BY <2>1, <2>2
<1>3. full # {}
  BY <1>1
<1>4. ASSUME NEW t \in Numbers
      PROVE  (\E i \in DOMAIN a : t \in a[i].add /\ \A j \in DOMAIN a : j > i => t \notin a[j].del)
             <=> \/ t \in e.add
                 \/ /\ t \notin e.del
                    /\ \E i \in DOMAIN r : t \in r[i].add /\ \A j \in DOMAIN r : j > i => t \notin r[j].del
  <2> HIDE DEF a
  <2>1. CASE t \in e.add
    BY <2>1, <1>1
  <2>2. CASE t \notin e.add
    BY <2>2, <1>1
  <2> QED
    BY <2>1, <2>2
<1>5. e.add \subseteq Numbers
  BY DEF EditType
<1>6. Replay(a).live = (Replay(r).live \ e.del) \cup e.add
  BY <1>4, <1>5 DEF Replay
<1>7. Replay(a) = [live |-> Replay(a).live, log |-> e.log, next |-> e.next, seq |-> e.seq, any |-> TRUE]
  BY <1>1, <1>2, <1>3 DEF Replay
<1> QED
  BY <1>6, <1>7

\* What is replayed from edits names files by their numbers.
LEMMA ReplayLive ==
  ASSUME NEW r
  PROVE  Replay(r).live \subseteq Numbers
BY DEF Replay

\* File numbers are positive.
LEMMA NumbersAre ==
  ASSUME NEW n \in Numbers
  PROVE  n \in Nat /\ n > 0
BY DEF Numbers

\* CURRENT names a number, or is not there.
LEMMA CurrentNumber ==
  ASSUME NEW d \in DirType
  PROVE  d.current \in Nat
<1>1. d.current \in Numbers \cup {None}
  BY DEF DirType
<1>2. CASE d.current \in Numbers
  BY <1>2, NumbersAre
<1>3. CASE d.current = 0
  BY <1>3
<1> QED
  BY <1>1, <1>2, <1>3 DEF None

\* A manifest that begins with a snapshot says what the edit after it does.
LEMMA ReplaySnapshot ==
  ASSUME NEW live \in SUBSET Numbers
  PROVE  /\ Snapshot(live) \in EditType
         /\ Replay(<<Snapshot(live)>>).live = live
<1> DEFINE e == Snapshot(live)
<1>1. e = [add |-> live, del |-> {}, log |-> 0, next |-> 0, seq |-> 0, full |-> FALSE]
  BY DEF Snapshot, None
<1> QED
  BY <1>1 DEF Replay, EditType

\* A crash may leave all of a file, and never more.
LEMMA EndsAtAll ==
  ASSUME NEW R, NEW f \in FileOf(R)
  PROVE  Len(f.recs) \in Ends(f) /\ Ends(f) \subseteq 0..Len(f.recs)
BY LenProperties DEF FileOf, Ends, Cuts

\* A record is appended behind what was synced.
LEMMA AppendedFile ==
  ASSUME NEW R, NEW f \in FileOf(R), NEW r \in R
  PROVE  /\ Appended(f, r) \in FileOf(R)
         /\ Appended(f, r).recs = Append(f.recs, r) /\ Appended(f, r).synced = f.synced
         /\ Len(Appended(f, r).recs) = Len(f.recs) + 1
BY LenProperties, AppendProperties DEF FileOf, Appended

\* A file that is synced keeps all of it.
LEMMA SyncedFileIs ==
  ASSUME NEW R, NEW f \in FileOf(R)
  PROVE  /\ SyncedFile(f) \in FileOf(R) /\ SyncedFile(f).recs = f.recs
         /\ SyncedFile(f).synced = Len(f.recs) /\ Settled(SyncedFile(f))
BY LenProperties DEF FileOf, SyncedFile, Settled, Ends, Cuts

\* A file that was just created.
LEMMA EmptyFile ==
  ASSUME NEW R
  PROVE  Empty \in FileOf(R) /\ Empty.recs = <<>> /\ Len(Empty.recs) = 0 /\ Empty.synced = 0
BY EmptySeq DEF FileOf, Empty

\* A file that settled is read to its end.
LEMMA UpToAll ==
  ASSUME NEW f \in FileOf(EditType)
  PROVE  UpTo(f, Len(f.recs)) = Replay(f.recs)
BY WholeFile DEF UpTo, FileOf

\* A manifest with one edit more: a crash leaves the edit, or what it might have left
\* before.
LEMMA EndsOfAppended ==
  ASSUME NEW f \in FileOf(EditType), NEW e \in EditType, NEW k \in Ends(Appended(f, e))
  PROVE  \/ k \in Ends(f) /\ UpTo(Appended(f, e), k) = UpTo(f, k)
         \/ k = Len(f.recs) + 1 /\ UpTo(Appended(f, e), k) = Replay(Append(f.recs, e))
<1> DEFINE g == Appended(f, e)
<1>1. /\ g \in FileOf(EditType) /\ g.recs = Append(f.recs, e) /\ g.synced = f.synced
      /\ Len(g.recs) = Len(f.recs) + 1
  BY AppendedFile
<1>2. f.recs \in Seq(EditType) /\ f.synced \in Nat /\ Len(f.recs) \in Nat
  BY LenProperties DEF FileOf
<1>3. CASE k = Len(f.recs) + 1
  <2>1. UpTo(g, Len(g.recs)) = Replay(g.recs)
    BY <1>1, UpToAll
  <2> QED
    BY <1>1, <1>3, <2>1
<1>4. CASE k # Len(f.recs) + 1
  <2>1. k \in Ends(f) /\ k \in 0..Len(f.recs)
    BY <1>1, <1>2, <1>4 DEF Ends, Cuts
  <2>2. SubSeq(Append(f.recs, e), 1, k) = SubSeq(f.recs, 1, k)
    BY <1>2, <2>1, BeginningStays
  <2> QED
    BY <2>1, <2>2, <1>1 DEF UpTo
<1> QED
  BY <1>3, <1>4

\* A directory stays recoverable when its files stay, and counters grow.
LEMMA RecoverableStays ==
  ASSUME NEW d, NEW e, NEW f, NEW low \in Nat, NEW low2 \in Nat, NEW logs, NEW logs2,
         Recoverable(d, f, low, logs), f \in FileOf(EditType),
         e.current = d.current, d.current \in e.manifests, low =< low2,
         \A k \in Ends(f) : UpTo(f, k).live \subseteq e.tables,
         \A n \in e.logs : n \in logs2 \/ n < low2
  PROVE  Recoverable(e, f, low2, logs2)
<1>1. UpTo(f, Len(f.recs)).next \in Nat
  BY EndsAtAll DEF Recoverable, Sound
<1> QED
  BY <1>1 DEF Recoverable, Sound

\* And when an edit is appended that names files it has.
LEMMA RecoverableAppend ==
  ASSUME NEW d \in DirType, NEW f \in FileOf(EditType), NEW e \in EditType, e.full,
         NEW low \in Nat, NEW low2 \in Nat, NEW logs,
         Recoverable(d, f, low, logs), low =< low2,
         e.add \subseteq d.tables, \A t \in e.add : t < e.next,
         UpTo(f, Len(f.recs)).next =< e.next, e.log < e.next, e.next =< low2
  PROVE  Recoverable(d, Appended(f, e), low2, logs)
<1> DEFINE g == Appended(f, e)
           all == UpTo(f, Len(f.recs))
           st == Replay(Append(f.recs, e))
<1>1. g \in FileOf(EditType) /\ Len(g.recs) = Len(f.recs) + 1 /\ g.recs = Append(f.recs, e)
  BY AppendedFile
<1>2. f.recs \in Seq(EditType)
  BY DEF FileOf
<1>3. UpTo(g, Len(g.recs)) = st
  BY <1>1, UpToAll
<1>4. all = Replay(f.recs)
  BY UpToAll
<1>5. st = [live |-> (all.live \ e.del) \cup e.add, log |-> e.log, next |-> e.next,
            seq |-> e.seq, any |-> TRUE]
  BY <1>2, <1>4, ReplayAppend
<1>6. /\ Sound(d, all, all.next) /\ e.log \in Nat /\ e.next \in Nat /\ e.seq \in Nat
      /\ e.add \subseteq Numbers /\ all.next =< low
  BY EndsAtAll DEF Recoverable, EditType
<1>7. /\ d.current \in Nat /\ all.live \subseteq Numbers
  <2>1. d.current \in Nat
    BY CurrentNumber
  <2>2. all.live \subseteq Numbers
    BY <1>4, ReplayLive
  <2> QED
    BY <2>1, <2>2
<1>8. Sound(d, st, st.next)
  BY <1>5, <1>6, <1>7 DEF Sound, Numbers
<1>9. \A k \in Ends(g) : Sound(d, UpTo(g, k), st.next)
  <2> SUFFICES ASSUME NEW k \in Ends(g) PROVE Sound(d, UpTo(g, k), st.next)
    OBVIOUS
  <2>1. CASE k \in Ends(f) /\ UpTo(g, k) = UpTo(f, k)
    <3>1. Sound(d, UpTo(f, k), all.next)
      BY <2>1 DEF Recoverable
    <3>2. Sound(d, UpTo(f, k), e.next)
      BY <3>1, <1>6 DEF Sound
    <3> QED
      BY <3>2, <2>1, <1>5
  <2>2. CASE UpTo(g, k) = st
    BY <2>2, <1>8
  <2> QED
    BY <2>1, <2>2, EndsOfAppended
<1>10. \A n \in d.logs : n \in logs \/ n < low2
  BY DEF Recoverable, DirType, Numbers
<1> QED
  BY <1>3, <1>5, <1>9, <1>10 DEF Recoverable

-----------------------------------------------------------------------------
(* Lemmas: the directory                                                   *)

\* A process that has just started.
LEMMA FreshIs ==
  /\ Fresh \in VType
  /\ NoJob \in JobType /\ NoJob.stage = "" /\ NoJob.kind = "none"
<1>1. Fresh \in VType
  BY EmptySeq DEF Fresh, VType, None
<1>2. NoJob \in JobType /\ NoJob.stage = "" /\ NoJob.kind = "none"
  BY DEF NoJob, JobType, Stages, None, NewDBEdit, Edit, EditType
<1> QED
  BY <1>1, <1>2

\* A state in which no database is open needs only a sound disk.
LEMMA ClosedIsSound ==
  ASSUME Types', ~overwritten', phase' \in Creating \cup {"down", "recover"}, v' = Fresh,
         job' = NoJob, DirsRecoverable', NothingYet'
  PROVE  FilesInv'
<1>1. phase' \notin Opening /\ phase' \notin {"clean", "run"} /\ phase' # "logs"
  BY DEF Creating, Opening
<1>2. job'.stage = ""
  BY FreshIs
<1>3. AtRest' /\ OpenNumbers' /\ ReadManifest' /\ WroteManifest' /\ NotCurrentYet'
  BY <1>1 DEF AtRest, OpenNumbers, ReadManifest, WroteManifest, NotCurrentYet, Opening
<1>4. RunNumbers' /\ JobNumbers' /\ Installed'
  BY <1>1, <1>2 DEF RunNumbers, JobNumbers, Installed, Open_, Active
<1> QED
  BY <1>3, <1>4 DEF FilesInv

\* What is known of the manifest that CURRENT names.
LEMMA CurrentIs ==
  ASSUME FilesInv, dir.current # None
  PROVE  /\ dir \in Dirs /\ dir.current \in dir.manifests /\ dir.current \in Numbers
         /\ manc[dir.current] \in FileOf(EditType)
         /\ Len(manc[dir.current].recs) \in Ends(manc[dir.current])
         /\ UpTo(manc[dir.current], Len(manc[dir.current].recs)) = Now
         /\ Sound(dir, Now, Now.next)
         /\ Now.next \in Nat /\ Now.log \in Nat /\ Now.seq \in Nat /\ Now.live \subseteq Numbers
         /\ Recoverable(dir, manc[dir.current], Now.next, dir.logs)
<1>1. dir \in Dirs /\ dir \in DirType
  BY DEF Dirs, FilesInv, Types, DiskTypes
<1>2. Recoverable(dir, manc[dir.current], Now.next, dir.logs)
  BY <1>1 DEF FilesInv, DirsRecoverable
<1>3. dir.current \in dir.manifests /\ dir.current \in Numbers
  BY <1>1, <1>2 DEF Recoverable, DirType
<1>4. manc[dir.current] \in FileOf(EditType)
  BY <1>3 DEF FilesInv, Types, DiskTypes
<1>5. Len(manc[dir.current].recs) \in Ends(manc[dir.current])
  BY <1>4, EndsAtAll
<1>6. UpTo(manc[dir.current], Len(manc[dir.current].recs)) = Now
  BY <1>4, UpToAll DEF Now
<1>7. Sound(dir, Now, Now.next)
  BY <1>2, <1>5, <1>6 DEF Recoverable
<1>8. Now.next \in Nat /\ Now.log \in Nat /\ Now.seq \in Nat /\ Now.live \subseteq Numbers
  BY <1>7, ReplayLive DEF Sound, Now
<1> QED
  BY <1>1, <1>2, <1>3, <1>4, <1>5, <1>6, <1>7, <1>8

\* Directories that a crash may leave have a manifest, and it is of the right type.
LEMMA DirsAre ==
  ASSUME FilesInv, NEW d \in Dirs, d.current # None
  PROVE  /\ d \in DirType /\ d.current \in Numbers /\ manc[d.current] \in FileOf(EditType)
         /\ Recoverable(d, manc[d.current], Now.next, dir.logs)
         /\ d = dir \/ (MachineCrashes /\ d \in lost)
<1>1. d \in DirType /\ (d = dir \/ (MachineCrashes /\ d \in lost))
  BY DEF Dirs, FilesInv, Types, DiskTypes
<1>2. Recoverable(d, manc[d.current], Now.next, dir.logs)
  BY DEF FilesInv, DirsRecoverable
<1>3. d.current \in Numbers
  BY <1>1, <1>2 DEF Recoverable, DirType
<1> QED
  BY <1>1, <1>2, <1>3 DEF FilesInv, Types, DiskTypes

\* Files are added to the directory, or others than the manifest and tables go.
LEMMA DirChanges ==
  ASSUME FilesInv, dir.current # None, dir' \in DirType,
         \A d \in Dirs : manc'[d.current] = manc[d.current],
         dir'.current = dir.current, dir.current \in dir'.manifests,
         dir.tables \subseteq dir'.tables, dir.logs \subseteq dir'.logs,
         lost' \subseteq lost \cup {dir}
  PROVE  /\ DirsRecoverable' /\ Now' = Now
         /\ \A d \in Dirs' : d.current # None /\ (d \in Dirs \/ d = dir')
<1>1. Now' = Now
  BY DEF Now, Dirs
<1>2. \A d \in Dirs' : d.current # None /\ (d \in Dirs \/ d = dir')
  BY DEF Dirs, FilesInv, NothingYet
<1>3. ASSUME NEW d \in Dirs, d.current # None
      PROVE  Recoverable(d, manc[d.current], Now.next, dir'.logs)
  <2>1. Recoverable(d, manc[d.current], Now.next, dir.logs)
    BY <1>3, DirsAre
  <2> QED
    BY <2>1 DEF Recoverable
<1>4. Recoverable(dir', manc[dir.current], Now.next, dir'.logs)
  <2>1. /\ Recoverable(dir, manc[dir.current], Now.next, dir.logs) /\ Now.next \in Nat
        /\ manc[dir.current] \in FileOf(EditType)
    BY CurrentIs
  <2>2. \A k \in Ends(manc[dir.current]) : UpTo(manc[dir.current], k).live \subseteq dir'.tables
    BY <2>1 DEF Recoverable, Sound
  <2> QED
    BY <2>1, <2>2, RecoverableStays
<1>5. ASSUME NEW d \in Dirs' PROVE Recoverable(d, manc'[d.current], Now.next, dir'.logs)
  <2>1. CASE d \in Dirs
    BY <2>1, <1>2, <1>3
  <2>2. CASE d = dir'
    BY <2>2, <1>4 DEF Dirs
  <2> QED
    BY <2>1, <2>2, <1>2
<1> QED
  BY <1>1, <1>2, <1>5 DEF DirsRecoverable

\* Nothing on disk changes.
LEMMA DiskStays ==
  ASSUME FilesInv, UNCHANGED disk
  PROVE  /\ DirsRecoverable' /\ Now' = Now /\ Dirs' = Dirs /\ DiskTypes'
         /\ dir' = dir /\ lost' = lost /\ logc' = logc /\ manc' = manc /\ tabc' = tabc
BY DEF FilesInv, Types, DiskTypes, DirsRecoverable, Now, Dirs, disk

-----------------------------------------------------------------------------
(* DB::Open keeps the files                                                *)

\* OpenStart keeps the files recoverable (FilesInv).
LEMMA OpenStartFiles ==
  ASSUME FilesInv, OpenStart
  PROVE  FilesInv'
<1>1. DirsRecoverable' /\ DiskTypes' /\ dir' = dir /\ Dirs' = Dirs
  BY DiskStays DEF OpenStart
<1>2. /\ phase = "down" /\ v' = Fresh /\ phase' = (IF dir.current = None THEN "newdb" ELSE "recover")
      /\ UNCHANGED <<acked, must, overwritten, writes, crashes, compactions, job>>
  BY DEF OpenStart, Quiet, ghost, count
<1>3. job' = NoJob
  BY <1>2 DEF FilesInv, AtRest
<1>4. Types'
  <2>1. phase' \in Phases
    BY <1>2 DEF Phases
  <2> QED
    BY <2>1, <1>1, <1>2, FreshIs DEF FilesInv, Types
<1>5. NothingYet'
  BY <1>1, <1>2 DEF FilesInv, NothingYet, Creating
<1>6. ~overwritten' /\ phase' \in Creating \cup {"down", "recover"}
  BY <1>2 DEF FilesInv, Creating
<1> QED
  BY <1>1, <1>2, <1>3, <1>4, <1>5, <1>6, ClosedIsSound

\* ProcessCrash keeps the files recoverable (FilesInv).
LEMMA ProcessCrashFiles ==
  ASSUME FilesInv, ProcessCrash
  PROVE  FilesInv'
<1>1. DirsRecoverable' /\ DiskTypes' /\ dir' = dir /\ Dirs' = Dirs
  BY DiskStays DEF ProcessCrash
<1>2. /\ v' = Fresh /\ phase' = "down" /\ job' = NoJob /\ crashes' = crashes + 1
      /\ UNCHANGED <<acked, must, overwritten, writes, compactions>>
  BY DEF ProcessCrash, ghost
<1>3. Types'
  <2>1. phase' \in Phases /\ crashes' \in Nat
    BY <1>2 DEF FilesInv, Types, Phases
  <2> QED
    BY <2>1, <1>1, <1>2, FreshIs DEF FilesInv, Types
<1>4. NothingYet'
  BY <1>1, <1>2 DEF FilesInv, NothingYet, Creating
<1>5. ~overwritten'
  BY <1>2 DEF FilesInv
<1> QED
  BY <1>1, <1>2, <1>3, <1>4, <1>5, ClosedIsSound

\* NewDB is for processes that are killed only.
LEMMA NewDBManifestFiles ==
  ASSUME DurabilityAssumption, FilesInv, NewDBManifest
  PROVE  FilesInv'
<1>1. /\ phase = "newdb" /\ dir' = [dir EXCEPT !.manifests = @ \cup {1}] /\ lost' = lost \cup {dir}
      /\ manc' = [manc EXCEPT ![1] = Appended(Empty, NewDBEdit)] /\ phase' = "newdbtemp"
      /\ UNCHANGED <<logc, tabc, v, acked, must, overwritten, writes, crashes, compactions, job>>
  BY DEF NewDBManifest, ChangeDir, Quiet, ghost, count
<1>2. dir.current = None /\ v' = Fresh /\ job' = NoJob
  BY <1>1 DEF FilesInv, NothingYet, AtRest, Creating
<1>3. 1 \in Numbers /\ NewDBEdit \in EditType
  BY DEF DurabilityAssumption, Numbers, NewDBEdit, Edit, EditType
<1>4. dir' \in DirType /\ dir'.current = None /\ 1 \in dir'.manifests
      /\ dir'.logs = dir.logs /\ dir'.tables = dir.tables
  BY <1>1, <1>2, <1>3 DEF FilesInv, Types, DiskTypes, DirType
<1>5. Appended(Empty, NewDBEdit) \in FileOf(EditType)
  BY <1>3, EmptyFile, AppendedFile
<1>6. Types'
  BY <1>1, <1>4, <1>5 DEF FilesInv, Types, DiskTypes, Phases
<1>7. ~MachineCrashes
  BY <1>2 DEF FilesInv, NothingYet, Dirs
<1>8. Dirs' = {dir'}
  BY <1>7 DEF Dirs
<1>9. NothingYet'
  BY <1>1, <1>2, <1>3, <1>4, <1>7 DEF FilesInv, Types, DiskTypes, NothingYet, Creating
<1>10. DirsRecoverable'
  BY <1>8, <1>4 DEF DirsRecoverable
<1>11. ~overwritten' /\ phase' \in Creating \cup {"down", "recover"}
  BY <1>1 DEF FilesInv, Creating
<1> QED
  BY <1>2, <1>6, <1>9, <1>10, <1>11, ClosedIsSound

\* NewDBTemp keeps the files recoverable (FilesInv).
LEMMA NewDBTempFiles ==
  ASSUME DurabilityAssumption, FilesInv, NewDBTemp
  PROVE  FilesInv'
<1>1. /\ phase = "newdbtemp" /\ dir' = [dir EXCEPT !.temps = @ \cup {1}] /\ lost' = {}
      /\ phase' = "newdbname"
      /\ UNCHANGED <<manc, logc, tabc, v, acked, must, overwritten, writes, crashes, compactions, job>>
  BY DEF NewDBTemp, WriteTemp, CommitDir, Quiet, ghost, count
<1>2. dir.current = None /\ v' = Fresh /\ job' = NoJob
  BY <1>1 DEF FilesInv, NothingYet, AtRest, Creating
<1>3. 1 \in Numbers
  BY DEF DurabilityAssumption, Numbers
<1>4. dir' \in DirType /\ dir'.current = None /\ dir'.manifests = dir.manifests
      /\ dir'.logs = dir.logs /\ dir'.tables = dir.tables
  BY <1>1, <1>2, <1>3 DEF FilesInv, Types, DiskTypes, DirType
<1>6. Types'
  BY <1>1, <1>4 DEF FilesInv, Types, DiskTypes, Phases
<1>7. ~MachineCrashes
  BY <1>2 DEF FilesInv, NothingYet, Dirs
<1>8. Dirs' = {dir'}
  BY <1>7 DEF Dirs
<1>9. NothingYet'
  BY <1>1, <1>2, <1>4, <1>7 DEF FilesInv, NothingYet, Creating
<1>10. DirsRecoverable'
  BY <1>8, <1>4 DEF DirsRecoverable
<1>11. ~overwritten' /\ phase' \in Creating \cup {"down", "recover"}
  BY <1>1 DEF FilesInv, Creating
<1> QED
  BY <1>2, <1>6, <1>9, <1>10, <1>11, ClosedIsSound

\* NewDBRename keeps the files recoverable (FilesInv).
LEMMA NewDBRenameFiles ==
  ASSUME DurabilityAssumption, FilesInv, NewDBRename
  PROVE  FilesInv'
<1>1. /\ phase = "newdbname" /\ dir' = [dir EXCEPT !.temps = @ \ {1}, !.current = 1]
      /\ lost' = lost \cup {dir} /\ phase' = "recover"
      /\ UNCHANGED <<manc, logc, tabc, v, acked, must, overwritten, writes, crashes, compactions, job>>
  BY DEF NewDBRename, RenameTemp, ChangeDir, Quiet, ghost, count
<1>2. /\ dir.current = None /\ v' = Fresh /\ job' = NoJob /\ 1 \in dir.manifests
      /\ dir.logs = {} /\ dir.tables = {} /\ manc[1] = Appended(Empty, NewDBEdit)
  BY <1>1 DEF FilesInv, NothingYet, AtRest, Creating
<1>3. 1 \in Numbers /\ NewDBEdit \in EditType /\ NewDBEdit.full
  BY DEF DurabilityAssumption, Numbers, NewDBEdit, Edit, EditType
<1>4. dir' \in DirType /\ dir'.current = 1 /\ 1 \in dir'.manifests
      /\ dir'.logs = {} /\ dir'.tables = {}
  BY <1>1, <1>2, <1>3 DEF FilesInv, Types, DiskTypes, DirType
<1>6. Types'
  BY <1>1, <1>4 DEF FilesInv, Types, DiskTypes, Phases
<1>7. ~MachineCrashes
  BY <1>2 DEF FilesInv, NothingYet, Dirs
<1>8. Dirs' = {dir'}
  BY <1>7 DEF Dirs
<1>9. NothingYet'
  BY <1>1, <1>4, <1>7 DEF NothingYet, Creating, None
<1>10. DirsRecoverable'
  <2> DEFINE f == manc[1]
  <2>1. f \in FileOf(EditType) /\ f.recs = Append(<<>>, NewDBEdit)
    <3>1. Empty \in FileOf(EditType) /\ Empty.recs = <<>>
      BY EmptyFile
    <3>2. /\ Appended(Empty, NewDBEdit) \in FileOf(EditType)
          /\ Appended(Empty, NewDBEdit).recs = Append(Empty.recs, NewDBEdit)
      BY <3>1, <1>3, AppendedFile
    <3> QED
      BY <3>1, <3>2, <1>2
  <2>2. Replay(f.recs).live = {} /\ Replay(f.recs).log = 0 /\ Replay(f.recs).next = 2
        /\ Replay(f.recs).seq = 0 /\ Replay(f.recs).any
    <3>1. Replay(<<>>).live = {}
      BY DEF Replay
    <3>2. <<>> \in Seq(EditType)
      BY EmptySeq
    <3>3. NewDBEdit = [add |-> {}, del |-> {}, log |-> 0, next |-> 2, seq |-> 0, full |-> TRUE]
      BY DEF NewDBEdit, Edit
    <3>4. Replay(Append(<<>>, NewDBEdit)) =
            [live |-> (Replay(<<>>).live \ NewDBEdit.del) \cup NewDBEdit.add, log |-> NewDBEdit.log,
             next |-> NewDBEdit.next, seq |-> NewDBEdit.seq, any |-> TRUE]
      BY <3>2, <1>3, ReplayAppend
    <3> QED
      BY <2>1, <3>1, <3>3, <3>4
  <2>3. Ends(f) = {Len(f.recs)} /\ UpTo(f, Len(f.recs)) = Replay(f.recs)
    BY <1>7, <2>1, UpToAll DEF Ends
  <2>4. Recoverable(dir', f, 2, {})
    BY <2>2, <2>3, <1>4 DEF Recoverable, Sound
  <2>5. Now'.next = 2
    BY <2>2, <1>1, <1>4 DEF Now
  <2> QED
    BY <2>4, <2>5, <1>1, <1>4, <1>8 DEF DirsRecoverable
<1>11. ~overwritten' /\ phase' \in Creating \cup {"down", "recover"}
  BY <1>1 DEF FilesInv, Creating
<1> QED
  BY <1>2, <1>6, <1>9, <1>10, <1>11, ClosedIsSound

\* RecoverVersions keeps the files recoverable (FilesInv).
LEMMA RecoverVersionsFiles ==
  ASSUME DurabilityAssumption, FilesInv, RecoverVersions
  PROVE  FilesInv'
<1>1. DirsRecoverable' /\ DiskTypes' /\ dir' = dir /\ Dirs' = Dirs /\ Now' = Now
  BY DiskStays DEF RecoverVersions
<1>2. /\ phase = "recover"
      /\ UNCHANGED <<acked, must, overwritten, writes, crashes, compactions, job>>
  BY DEF RecoverVersions, Quiet, ghost, count
<1>3. dir.current # None /\ v = Fresh /\ job' = NoJob /\ v \in VType
  BY <1>2 DEF FilesInv, Types, NothingYet, AtRest, Creating
<1>4. /\ dir.current \in dir.manifests /\ dir.current \in Numbers /\ Sound(dir, Now, Now.next)
      /\ Now.next \in Nat /\ Now.log \in Nat /\ Now.seq \in Nat /\ Now.live \subseteq Numbers
      /\ dir \in DirType
  BY <1>3, CurrentIs DEF FilesInv, Types, DiskTypes
<1>5. Now.any /\ Now.live \subseteq Listed
  BY <1>4 DEF Sound, Listed
<1>6. /\ phase' = "logs"
      /\ v' = [v EXCEPT !.live = Now.live, !.logNo = Now.log, !.seq = Now.seq,
                        !.manifest = IF ReuseLogs THEN dir.current ELSE Now.next,
                        !.descriptor = ReuseLogs, !.save = ~ReuseLogs,
                        !.next = Now.next + 1,
                        !.todo = {n \in dir.logs : n >= Now.log}]
  BY <1>4, <1>5 DEF RecoverVersions, Now, ReuseManifest, LogsToRecover
<1>7. /\ v.pins = <<>> /\ v.pending = {} /\ v.bgError = FALSE /\ v.hasImm = FALSE /\ v.imm = {}
      /\ v.edit = {} /\ v.logfile = None
  BY <1>3 DEF Fresh
<1>8. /\ v'.live = Now.live /\ v'.logNo = Now.log
      /\ v'.manifest = (IF ReuseLogs THEN dir.current ELSE Now.next)
      /\ v'.descriptor = ReuseLogs /\ v'.save = ~ReuseLogs /\ v'.next = Now.next + 1
      /\ v'.todo = {n \in dir.logs : n >= Now.log}
      /\ v'.pins = <<>> /\ v'.pending = {} /\ ~v'.bgError /\ ~v'.hasImm /\ v'.imm = {}
      /\ v'.edit = {} /\ v'.logfile = None
  BY <1>3, <1>6, <1>7 DEF VType
<1>9. dir.current \in Nat /\ dir.current > 0 /\ \A n \in dir.logs : n \in Nat
  BY <1>4, NumbersAre DEF DirType
<1>10. v' \in VType
  <2>1. {n \in dir.logs : n >= Now.log} \subseteq Numbers
    BY <1>4 DEF DirType
  <2>2. (IF ReuseLogs THEN dir.current ELSE Now.next) \in Nat /\ ReuseLogs \in BOOLEAN
    BY <1>4, <1>9 DEF DurabilityAssumption
  <2> DEFINE m == IF ReuseLogs THEN dir.current ELSE Now.next
             td == {n \in dir.logs : n >= Now.log}
             sv == ~ReuseLogs
             ds == ReuseLogs
             lv == Now.live
             lg == Now.log
             sq == Now.seq
             nx == Now.next + 1
  <2>3. /\ m \in Nat /\ td \in SUBSET Numbers /\ sv \in BOOLEAN /\ ds \in BOOLEAN
        /\ lv \in SUBSET Numbers /\ lg \in Nat /\ sq \in Nat /\ nx \in Nat
    BY <2>1, <2>2, <1>4
  <2>4. v' = [v EXCEPT !.live = lv, !.logNo = lg, !.seq = sq, !.manifest = m,
                       !.descriptor = ds, !.save = sv, !.next = nx, !.todo = td]
    BY <1>6
  <2>5. v \in VType
    BY <1>3
  <2> HIDE DEF m, td, sv, ds, lv, lg, sq, nx
  <2> QED
    BY <2>3, <2>4, <2>5 DEF VType
<1>11. Types'
  <2>1. phase' \in Phases
    BY <1>6 DEF Phases
  <2> QED
    BY <2>1, <1>1, <1>2, <1>10 DEF FilesInv, Types
<1>12. OpenNumbers'
  <2>1. \A t \in Now.live : t < Now.next /\ t \in dir.tables /\ t \in Nat
    BY <1>4, NumbersAre DEF Sound
  <2>2. dir.current < Now.next /\ Now.log < Now.next
    BY <1>4 DEF Sound
  <2>3. v'.todo \subseteq dir'.logs /\ \A n \in dir'.logs : n < v'.next \/ n \in v'.todo
    BY <2>2, <1>1, <1>4, <1>8, <1>9
  <2>4. v'.live \subseteq dir'.tables /\ \A t \in v'.live \cup v'.edit : t < v'.next
    BY <2>1, <1>1, <1>4, <1>8
  <2>5. v'.logNo < v'.next /\ 0 < v'.manifest /\ v'.manifest < v'.next
    BY <2>2, <1>4, <1>8, <1>9
  <2>6. /\ (\A d \in Dirs' : v'.edit \subseteq d.tables) /\ (v'.logfile # None => FALSE)
        /\ \A n \in v'.todo : v'.logNo =< n
    BY <1>8, <1>4, <1>9
  <2>7. v'.descriptor = ReuseLogs /\ (~v'.save => ReuseLogs)
    BY <1>8
  <2> QED
    BY <2>3, <2>4, <2>5, <2>6, <2>7, <1>8 DEF OpenNumbers
<1>13. ReadManifest'
  BY <1>1, <1>4, <1>8 DEF ReadManifest
<1>14. NothingYet' /\ AtRest'
  BY <1>1, <1>3, <1>6 DEF FilesInv, NothingYet, AtRest, Creating
<1>15. WroteManifest' /\ NotCurrentYet' /\ RunNumbers' /\ JobNumbers' /\ Installed'
  BY <1>3, <1>6, FreshIs DEF WroteManifest, NotCurrentYet, RunNumbers, JobNumbers, Installed, Open_, Active
<1> QED
  BY <1>1, <1>2, <1>11, <1>12, <1>13, <1>14, <1>15 DEF FilesInv

\* The memtables that are made of a log hold all of it.
LEMMA ChunksHoldAll ==
  ASSUME DurabilityAssumption, NEW r \in Seq(Batch)
  PROVE  /\ Chunks(r).full \in Seq(SUBSET Batch) /\ Chunks(r).rest \subseteq Range(r)
         /\ Range(r) \subseteq Batch
         /\ \A i \in DOMAIN Chunks(r).full : Chunks(r).full[i] \subseteq Range(r)
         /\ \A b \in Range(r) :
              b \in Chunks(r).rest \/ \E i \in DOMAIN Chunks(r).full : b \in Chunks(r).full[i]
<1> DEFINE B == BufferSize + 1
           Nth(i) == (i - 1) \div B
           k == Len(r) \div B
<1>1. B \in Nat /\ B > 0 /\ Len(r) \in Nat /\ DOMAIN r = 1..Len(r)
  BY LenProperties DEF DurabilityAssumption
<1>2. k \in Nat
  <2> HIDE DEF B
  <2> QED
    BY <1>1
<1>3. \A i \in DOMAIN r : Nth(i) \in Nat
  <2> HIDE DEF B
  <2> QED
    BY <1>1
<1>4. \A i \in DOMAIN r : r[i] \in Batch /\ r[i] \in Range(r)
  BY <1>1, ElementOfSeq DEF Range
<1>5. Range(r) \subseteq Batch /\ \A b \in Range(r) : \E i \in DOMAIN r : b = r[i]
  BY <1>4 DEF Range
<1> DEFINE full == [m \in 1..k |-> {r[i] : i \in {j \in DOMAIN r : Nth(j) = m - 1}}]
           rest == {r[i] : i \in {j \in DOMAIN r : Nth(j) >= k}}
<1>6. Chunks(r).full = full /\ Chunks(r).rest = rest
  BY DEF Chunks
<1> HIDE DEF Nth, k
<1>7. \A m \in 1..k : full[m] \subseteq Range(r)
  BY <1>4
<1>8. full \in Seq(SUBSET Batch) /\ DOMAIN full = 1..k
  BY <1>2, <1>5, <1>7, IsASeq
<1>9. rest \subseteq Range(r)
  BY <1>4
<1>10. ASSUME NEW b \in Range(r) PROVE b \in rest \/ \E i \in 1..k : b \in full[i]
  <2>1. PICK i \in DOMAIN r : b = r[i]
    BY <1>5
  <2>2. CASE Nth(i) >= k
    BY <2>1, <2>2
  <2>3. CASE ~(Nth(i) >= k)
    <3>1. Nth(i) + 1 \in 1..k /\ Nth(i) = (Nth(i) + 1) - 1
      BY <2>3, <1>2, <1>3
    <3>2. b \in full[Nth(i) + 1]
      BY <3>1, <2>1
    <3> QED
      BY <3>1, <3>2
  <2> QED
    BY <2>2, <2>3
<1> QED
  BY <1>5, <1>6, <1>7, <1>8, <1>9, <1>10

\* RecoverLogFile: tables with the next numbers, together all that the log holds, or the
\* log is reused.
LEMMA RecoverLogFileDoes ==
  ASSUME DurabilityAssumption, FilesInv, NEW n \in v.todo, RecoverLogFile(n)
  PROVE  \E tabs \in Seq(SUBSET Batch), reuse \in BOOLEAN :
           LET nums == v.next..(v.next + Len(tabs) - 1) IN
           /\ nums \subseteq Numbers /\ n \in Numbers
           /\ reuse => ReuseLogs /\ v.todo = {n} /\ tabs = <<>>
           /\ \A i \in DOMAIN tabs : tabs[i] \subseteq Range(logc[n].recs)
           /\ ~reuse => \A b \in Range(logc[n].recs) : \E i \in DOMAIN tabs : b \in tabs[i]
           /\ overwritten' = FALSE
           /\ tabs = <<>> => dir' = dir /\ lost' = lost
           /\ tabs # <<>> => dir' = [dir EXCEPT !.tables = @ \cup nums] /\ lost' = {}
           /\ tabc' \in [Numbers -> SUBSET Batch]
           /\ \A i \in DOMAIN tabs : tabc'[v.next + i - 1] = tabs[i]
           /\ \A m \in Numbers \ nums : tabc'[m] = tabc[m]
           /\ v' \in VType
           /\ v' = [v EXCEPT !.todo = v.todo \ {n}, !.edit = v.edit \cup nums,
                             !.save = (v.save \/ tabs # <<>>), !.seq = MaxSequence(logc[n].recs),
                             !.next = MarkFileNumberUsed(v.next + Len(tabs), n),
                             !.logfile = IF reuse THEN n ELSE None,
                             !.mem = IF reuse THEN Range(logc[n].recs) ELSE {}]
           /\ UNCHANGED <<logc, manc, phase, job, acked, must, writes, crashes, compactions>>
           /\ phase = "logs" /\ \A m \in v.todo : n =< m
<1> DEFINE r == logc[n].recs
           ch == Chunks(r)
           reuse == ReuseLogs /\ v.todo = {n} /\ ch.full = <<>>
           tabs == IF reuse \/ ch.rest = {} THEN ch.full ELSE Append(ch.full, ch.rest)
           nums == v.next..(v.next + Len(tabs) - 1)
           nums0 == {v.next + i - 1 : i \in DOMAIN tabs}
<1>1. v \in VType /\ n \in Numbers /\ logc[n] \in FileOf(Batch) /\ r \in Seq(Batch)
  BY DEF FilesInv, Types, DiskTypes, VType, FileOf
<1>2. /\ ch.full \in Seq(SUBSET Batch) /\ ch.rest \subseteq Range(r) /\ Range(r) \subseteq Batch
      /\ \A i \in DOMAIN ch.full : ch.full[i] \subseteq Range(r)
      /\ \A b \in Range(r) : b \in ch.rest \/ \E i \in DOMAIN ch.full : b \in ch.full[i]
  BY <1>1, ChunksHoldAll
<1>3. /\ phase = "logs" /\ \A m \in v.todo : n =< m
      /\ v.next + Len(tabs) =< MaxFiles
      /\ overwritten' = (overwritten \/ \E m \in nums0 : Clobbers("table", m))
      /\ IF tabs = <<>> THEN UNCHANGED <<dir, lost, tabc>>
         ELSE /\ dir' = [dir EXCEPT !.tables = @ \cup nums0] /\ lost' = {}
              /\ tabc' = [m \in Numbers |-> IF m \in nums0 THEN tabs[m - v.next + 1] ELSE tabc[m]]
      /\ v' = [v EXCEPT !.todo = v.todo \ {n}, !.edit = v.edit \cup nums0,
                        !.save = (v.save \/ tabs # <<>>), !.seq = MaxSequence(r),
                        !.next = MarkFileNumberUsed(v.next + Len(tabs), n),
                        !.logfile = IF reuse THEN n ELSE None,
                        !.mem = IF reuse THEN ch.rest ELSE {}]
      /\ UNCHANGED <<logc, manc, phase, job, acked, must, writes, crashes, compactions>>
  BY DEF RecoverLogFile, CommitDir, count
<1>4. reuse => tabs = <<>> /\ ch.rest = Range(r)
  <2> SUFFICES ASSUME reuse PROVE tabs = <<>> /\ ch.rest = Range(r)
    OBVIOUS
  <2>1. ch.full = <<>> /\ tabs = ch.full
    OBVIOUS
  <2> HIDE DEF ch, r
  <2>2. DOMAIN ch.full = {}
    BY <2>1
  <2>3. Range(r) \subseteq ch.rest
    BY <2>2, <1>2
  <2> QED
    BY <2>1, <2>3, <1>2
<1>5. tabs \in Seq(SUBSET Batch) /\ Len(tabs) \in Nat /\ DOMAIN tabs = 1..Len(tabs)
  <2>1. Append(ch.full, ch.rest) \in Seq(SUBSET Batch)
    BY <1>2, AppendProperties
  <2>2. tabs \in Seq(SUBSET Batch)
    BY <2>1, <1>2
  <2> HIDE DEF tabs
  <2> QED
    BY <2>2, LenProperties
<1>6. (\A i \in DOMAIN tabs : tabs[i] \subseteq Range(r))
      /\ (~reuse => \A b \in Range(r) : \E i \in DOMAIN tabs : b \in tabs[i])
  <2>1. CASE reuse \/ ch.rest = {}
    BY <2>1, <1>2
  <2>2. CASE ~(reuse \/ ch.rest = {})
    <3>1. tabs = Append(ch.full, ch.rest)
      BY <2>2
    <3>2. /\ DOMAIN tabs = 1..(Len(ch.full) + 1) /\ DOMAIN ch.full = 1..Len(ch.full)
          /\ Len(ch.full) \in Nat /\ tabs[Len(ch.full) + 1] = ch.rest
          /\ \A i \in 1..Len(ch.full) : tabs[i] = ch.full[i]
      BY <3>1, <1>2, AppendProperties, LenProperties
    <3> HIDE DEF tabs, ch
    <3>3. \A i \in DOMAIN tabs : tabs[i] \subseteq Range(r)
      BY <3>2, <1>2
    <3>4. ASSUME NEW b \in Range(r) PROVE \E i \in DOMAIN tabs : b \in tabs[i]
      <4>1. CASE b \in ch.rest
        BY <4>1, <3>2
      <4>2. CASE \E i \in DOMAIN ch.full : b \in ch.full[i]
        BY <4>2, <3>2
      <4> QED
        BY <4>1, <4>2, <1>2
    <3> QED
      BY <3>3, <3>4
  <2> QED
    BY <2>1, <2>2
<1> HIDE DEF tabs, reuse
<1>7. v.next \in Nat /\ n \in Nat /\ n > 0
  BY <1>1, NumbersAre DEF VType
<1>8. nums0 = nums
  <2>1. \A m \in nums0 : m \in nums
    BY <1>5, <1>7
  <2>2. ASSUME NEW m \in nums PROVE m \in nums0
    <3>1. m - v.next + 1 \in DOMAIN tabs /\ m = v.next + (m - v.next + 1) - 1
      BY <1>5, <1>7
    <3> QED
      BY <3>1
  <2> QED
    BY <2>1, <2>2
<1>9. v.pins = <<>> /\ v.pending = {} /\ (\A t \in v.live : t < v.next /\ t \in Nat)
      /\ v.manifest < v.next /\ 0 < v.manifest /\ v.manifest \in Nat
  BY <1>1, <1>3, NumbersAre DEF FilesInv, OpenNumbers, Opening, VType
<1>10. nums \subseteq Numbers
  <2> SUFFICES ASSUME NEW m \in nums PROVE m \in 1..MaxFiles
    BY DEF Numbers
  <2>1. MaxFiles \in Nat
    BY DEF DurabilityAssumption
  <2> QED
    BY <2>1, <1>3, <1>5, <1>7, <1>9
<1>11. overwritten' = FALSE
  <2>1. \A m \in nums : ~Clobbers("table", m)
    BY <1>5, <1>7, <1>9, EmptySeq DEF Clobbers, LiveFiles, Range
  <2>2. overwritten = FALSE
    BY DEF FilesInv, Types
  <2> QED
    BY <2>1, <2>2, <1>3, <1>8
<1>12. /\ tabc' \in [Numbers -> SUBSET Batch]
       /\ \A i \in DOMAIN tabs : tabc'[v.next + i - 1] = tabs[i]
       /\ \A m \in Numbers \ nums : tabc'[m] = tabc[m]
  <2>1. tabc \in [Numbers -> SUBSET Batch]
    BY DEF FilesInv, Types, DiskTypes
  <2>2. CASE tabs = <<>>
    BY <2>1, <2>2, <1>3
  <2>3. CASE tabs # <<>>
    <3>1. tabc' = [m \in Numbers |-> IF m \in nums THEN tabs[m - v.next + 1] ELSE tabc[m]]
      BY <2>3, <1>3, <1>8
    <3>2. \A m \in nums : m - v.next + 1 \in DOMAIN tabs /\ tabs[m - v.next + 1] \subseteq Batch
      BY <1>2, <1>5, <1>6, <1>7
    <3>3. \A i \in DOMAIN tabs : v.next + i - 1 \in nums /\ (v.next + i - 1) - v.next + 1 = i
      BY <1>5, <1>7
    <3>4. tabc' \in [Numbers -> SUBSET Batch]
      BY <3>1, <3>2, <2>1
    <3>5. \A i \in DOMAIN tabs : tabc'[v.next + i - 1] = tabs[i]
      BY <3>1, <3>3, <1>10
    <3>6. \A m \in Numbers \ nums : tabc'[m] = tabc[m]
      BY <3>1
    <3> QED
      BY <3>4, <3>5, <3>6
  <2> QED
    BY <2>2, <2>3
<1>13. v' = [v EXCEPT !.todo = v.todo \ {n}, !.edit = v.edit \cup nums,
                      !.save = (v.save \/ tabs # <<>>), !.seq = MaxSequence(r),
                      !.next = MarkFileNumberUsed(v.next + Len(tabs), n),
                      !.logfile = IF reuse THEN n ELSE None,
                      !.mem = IF reuse THEN Range(r) ELSE {}]
  BY <1>3, <1>4, <1>8
<1>14. v' \in VType
  <2> DEFINE td == v.todo \ {n}
             ed == v.edit \cup nums
             sv == v.save \/ tabs # <<>>
             sq == MaxSequence(r)
             nx == MarkFileNumberUsed(v.next + Len(tabs), n)
             lf == IF reuse THEN n ELSE None
             mm == IF reuse THEN Range(r) ELSE {}
  <2>1. td \in SUBSET Numbers /\ ed \in SUBSET Numbers /\ sv \in BOOLEAN
    BY <1>1, <1>10 DEF VType
  <2>2. sq \in Nat
    <3>1. CASE r = <<>>
      BY <3>1, <1>1 DEF MaxSequence, VType
    <3>2. CASE r # <<>>
      <4>1. Len(r) \in DOMAIN r /\ r[Len(r)] \in Batch
        BY <3>2, <1>1, LenProperties, EmptySeq, ElementOfSeq
      <4>2. Last(r).seq \in Nat
        BY <4>1 DEF Last, Batch
      <4> QED
        BY <4>2, <1>1 DEF MaxSequence, VType
    <3> QED
      BY <3>1, <3>2
  <2>3. nx \in Nat /\ lf \in Nat
    BY <1>5, <1>7 DEF MarkFileNumberUsed, None
  <2>4. mm \in SUBSET Batch
    BY <1>2
  <2>5. v' = [v EXCEPT !.todo = td, !.edit = ed, !.save = sv, !.seq = sq, !.next = nx,
                       !.logfile = lf, !.mem = mm]
    BY <1>13
  <2> HIDE DEF td, ed, sv, sq, nx, lf, mm
  <2> QED
    BY <2>1, <2>2, <2>3, <2>4, <2>5, <1>1 DEF VType
<1>15. reuse \in BOOLEAN /\ (reuse => ReuseLogs /\ v.todo = {n} /\ tabs = <<>>)
  BY <1>4 DEF reuse
<1>16. /\ tabs = <<>> => dir' = dir /\ lost' = lost
       /\ tabs # <<>> => dir' = [dir EXCEPT !.tables = @ \cup nums] /\ lost' = {}
  BY <1>3, <1>8
<1> HIDE DEF r, nums0
<1> USE <1>5, <1>15
<1> WITNESS tabs \in Seq(SUBSET Batch), reuse \in BOOLEAN
<1> QED
  BY <1>1, <1>3, <1>5, <1>6, <1>10, <1>11, <1>12, <1>13, <1>14, <1>15, <1>16 DEF r

\* A synced manifest is read to its end.
LEMMA RecoverableSync ==
  ASSUME NEW d, NEW f \in FileOf(EditType), NEW low, NEW logs, Recoverable(d, f, low, logs)
  PROVE  Recoverable(d, SyncedFile(f), low, logs)
<1> DEFINE g == SyncedFile(f)
<1>1. g \in FileOf(EditType) /\ g.recs = f.recs /\ Ends(g) = {Len(g.recs)}
  BY SyncedFileIs DEF Settled
<1>2. UpTo(g, Len(g.recs)) = UpTo(f, Len(f.recs))
  BY <1>1, UpToAll
<1>3. Len(f.recs) \in Ends(f)
  BY EndsAtAll
<1>4. Sound(d, UpTo(f, Len(f.recs)), UpTo(f, Len(f.recs)).next)
  BY <1>3 DEF Recoverable
<1>5. \A k \in Ends(g) : Sound(d, UpTo(g, k), UpTo(g, Len(g.recs)).next)
  BY <1>1, <1>2, <1>4
<1> QED
  BY <1>2, <1>5 DEF Recoverable

\* The parts of the invariant that matter while the database is being opened.
LEMMA OpeningIsSound ==
  ASSUME Types', ~overwritten', phase' \in Opening, dir'.current # None, job' = NoJob,
         DirsRecoverable', \A d \in Dirs' : d.current # None,
         OpenNumbers', ReadManifest', WroteManifest', NotCurrentYet'
  PROVE  FilesInv'
<1>1. phase' \notin Creating \cup {"down", "recover", "clean", "run"}
  BY DEF Creating, Opening
<1>2. job'.stage = ""
  BY FreshIs
<1>3. AtRest' /\ NothingYet'
  BY <1>1 DEF AtRest, NothingYet, Creating
<1>4. RunNumbers' /\ JobNumbers' /\ Installed'
  BY <1>1, <1>2 DEF RunNumbers, JobNumbers, Installed, Open_, Active
<1> QED
  BY <1>3, <1>4 DEF FilesInv

\* What every step of DB::Open can rely on.
LEMMA OpeningHas ==
  ASSUME FilesInv, phase \in Opening
  PROVE  /\ dir.current # None /\ job = NoJob /\ v \in VType /\ dir \in DirType
         /\ \A d \in Dirs : d.current # None
         /\ v.next \in Nat /\ v.next > 0 /\ v.next > 1 /\ v.manifest \in Nat /\ v.logfile \in Nat
         /\ v.edit \subseteq dir.tables
         /\ v.logfile # None => v.logfile < v.next
         /\ \A n \in dir.logs : n \in Nat
         /\ \A t \in dir.tables : t \in Nat
<1>1. phase \notin Creating \cup {"down"} /\ phase # "run"
  BY DEF Opening, Creating
<1>2. dir.current # None /\ job = NoJob
  BY <1>1 DEF FilesInv, NothingYet, AtRest
<1>3. v \in VType /\ dir \in DirType
  BY DEF FilesInv, Types, DiskTypes
<1>4. \A d \in Dirs : d.current # None
  BY <1>2 DEF Dirs, FilesInv, NothingYet
<1>5. v.next \in Nat /\ v.manifest \in Nat /\ v.logfile \in Nat
  BY <1>3 DEF VType
<1>6. v.next > 0 /\ v.next > 1
  BY <1>5 DEF FilesInv, OpenNumbers
<1>7. v.edit \subseteq dir.tables /\ (v.logfile # None => v.logfile < v.next)
  BY DEF FilesInv, OpenNumbers, Dirs
<1>8. (\A n \in dir.logs : n \in Nat) /\ (\A t \in dir.tables : t \in Nat)
  BY <1>3, NumbersAre DEF DirType
<1> QED
  BY <1>2, <1>3, <1>4, <1>5, <1>6, <1>7, <1>8

\* RecoverLogFile keeps the files recoverable (FilesInv).
LEMMA RecoverLogFileFiles ==
  ASSUME DurabilityAssumption, FilesInv, NEW n \in v.todo, RecoverLogFile(n)
  PROVE  FilesInv'
<1>1. PICK tabs \in Seq(SUBSET Batch), reuse \in BOOLEAN :
           LET nums == v.next..(v.next + Len(tabs) - 1) IN
           /\ nums \subseteq Numbers /\ n \in Numbers
           /\ reuse => ReuseLogs /\ v.todo = {n} /\ tabs = <<>>
           /\ overwritten' = FALSE
           /\ tabs = <<>> => dir' = dir /\ lost' = lost
           /\ tabs # <<>> => dir' = [dir EXCEPT !.tables = @ \cup nums] /\ lost' = {}
           /\ tabc' \in [Numbers -> SUBSET Batch]
           /\ v' \in VType
           /\ v' = [v EXCEPT !.todo = v.todo \ {n}, !.edit = v.edit \cup nums,
                             !.save = (v.save \/ tabs # <<>>), !.seq = MaxSequence(logc[n].recs),
                             !.next = MarkFileNumberUsed(v.next + Len(tabs), n),
                             !.logfile = IF reuse THEN n ELSE None,
                             !.mem = IF reuse THEN Range(logc[n].recs) ELSE {}]
           /\ UNCHANGED <<logc, manc, phase, job, acked, must, writes, crashes, compactions>>
           /\ phase = "logs" /\ \A m \in v.todo : n =< m
  BY RecoverLogFileDoes
<1> DEFINE nums == v.next..(v.next + Len(tabs) - 1)
<1>2. phase \in Opening /\ phase' = "logs" /\ phase' \in Opening /\ phase = "logs"
  BY <1>1 DEF Opening
<1>3. /\ dir.current # None /\ job = NoJob /\ v \in VType /\ dir \in DirType
      /\ (\A d \in Dirs : d.current # None)
      /\ v.next \in Nat /\ v.next > 1 /\ v.edit \subseteq dir.tables
      /\ (\A m \in dir.logs : m \in Nat) /\ (\A t \in dir.tables : t \in Nat)
  BY <1>2, OpeningHas
<1>4. OpenNumbers /\ ReadManifest
  BY DEF FilesInv
<1>5. n \in Nat /\ Len(tabs) \in Nat /\ (tabs = <<>> => Len(tabs) = 0)
  BY <1>1, <1>3, NumbersAre, LenProperties, EmptySeq DEF VType
<1>6. /\ v'.todo = v.todo \ {n} /\ v'.edit = v.edit \cup nums
      /\ v'.save = (v.save \/ tabs # <<>>)
      /\ v'.next = MarkFileNumberUsed(v.next + Len(tabs), n)
      /\ v'.logfile = (IF reuse THEN n ELSE None)
      /\ v'.live = v.live /\ v'.logNo = v.logNo /\ v'.manifest = v.manifest
      /\ v'.descriptor = v.descriptor /\ v'.pins = v.pins /\ v'.pending = v.pending
      /\ v'.bgError = v.bgError /\ v'.hasImm = v.hasImm /\ v'.imm = v.imm
  BY <1>1, <1>3 DEF VType
<1>7. v'.next \in Nat /\ v'.next >= v.next + Len(tabs) /\ v'.next > n
  BY <1>3, <1>5, <1>6 DEF MarkFileNumberUsed
<1>8. dir' \in DirType /\ dir'.current = dir.current /\ dir'.manifests = dir.manifests
      /\ dir.tables \subseteq dir'.tables /\ dir'.logs = dir.logs
      /\ lost' \subseteq lost \cup {dir} /\ v'.edit \subseteq dir'.tables
  <2>1. CASE tabs = <<>>
    <3>1. nums = {}
      BY <2>1, <1>3, <1>5
    <3> HIDE DEF nums
    <3> QED
      BY <3>1, <2>1, <1>1, <1>3, <1>6
  <2>2. CASE tabs # <<>>
    <3>1. dir' = [dir EXCEPT !.tables = @ \cup nums] /\ lost' = {} /\ nums \subseteq Numbers
      BY <2>2, <1>1
    <3> HIDE DEF nums
    <3> QED
      BY <3>1, <1>3, <1>6 DEF DirType
  <2> QED
    BY <2>1, <2>2
<1>9. dir.current \in dir.manifests /\ \A d \in Dirs : manc'[d.current] = manc[d.current]
  BY <1>1, <1>3, CurrentIs
<1>10. DirsRecoverable' /\ Now' = Now /\ \A d \in Dirs' : d.current # None /\ (d \in Dirs \/ d = dir')
  BY <1>3, <1>8, <1>9, DirChanges
<1>11. Types' /\ ~overwritten'
  BY <1>1, <1>2, <1>8 DEF FilesInv, Types, DiskTypes
<1>12. OpenNumbers'
  <2>1. v'.todo \subseteq dir'.logs /\ \A m \in dir'.logs : m < v'.next \/ m \in v'.todo
    BY <1>2, <1>3, <1>4, <1>5, <1>6, <1>7, <1>8 DEF OpenNumbers
  <2>2. v'.live \subseteq dir'.tables
    BY <1>2, <1>4, <1>6, <1>8 DEF OpenNumbers
  <2>3. \A t \in v'.live \cup v'.edit : t < v'.next
    <3>1. \A t \in v.live \cup v.edit : t < v.next /\ t \in Nat
      BY <1>2, <1>3, <1>4 DEF OpenNumbers
    <3>2. \A t \in nums : t < v.next + Len(tabs) /\ t \in Nat
      BY <1>3, <1>5
    <3> HIDE DEF nums
    <3> QED
      BY <3>1, <3>2, <1>3, <1>5, <1>6, <1>7
  <2>4. \A d \in Dirs' : v'.edit \subseteq d.tables
    <3>1. CASE tabs = <<>>
      <4>1. nums = {}
        BY <3>1, <1>3, <1>5
      <4> HIDE DEF nums
      <4>2. Dirs' = Dirs /\ v'.edit = v.edit
        BY <3>1, <4>1, <1>1, <1>6 DEF Dirs
      <4> QED
        BY <4>2, <1>2, <1>4 DEF OpenNumbers
    <3>2. CASE tabs # <<>>
      <4>1. Dirs' = {dir'}
        BY <3>2, <1>1 DEF Dirs
      <4> QED
        BY <4>1, <1>8
    <3> QED
      BY <3>1, <3>2
  <2>5. v'.logNo < v'.next /\ (\A m \in v'.todo : v'.logNo =< m)
        /\ 0 < v'.manifest /\ v'.manifest < v'.next
    BY <1>2, <1>3, <1>4, <1>5, <1>6, <1>7 DEF OpenNumbers, VType
  <2>6. v'.logfile # None => v'.todo = {} /\ v'.logfile \in dir'.logs /\ v'.logNo =< v'.logfile
    BY <1>1, <1>2, <1>4, <1>6, <1>8 DEF OpenNumbers
  <2>7. ~v'.save => v'.edit = {} /\ ReuseLogs
    <3> SUFFICES ASSUME ~v'.save PROVE v'.edit = {} /\ ReuseLogs
      OBVIOUS
    <3>1. ~v.save /\ tabs = <<>>
      BY <1>6
    <3>2. nums = {}
      BY <3>1, <1>3, <1>5
    <3> HIDE DEF nums
    <3> QED
      BY <3>1, <3>2, <1>2, <1>4, <1>6 DEF OpenNumbers
  <2> QED
    BY <2>1, <2>2, <2>3, <2>4, <2>5, <2>6, <2>7, <1>2, <1>4, <1>6 DEF OpenNumbers
<1>13. ReadManifest'
  <2>1. v'.live = Now'.live /\ v'.logNo = Now'.log /\ Now'.next < v'.next
    BY <1>2, <1>3, <1>4, <1>5, <1>6, <1>7, <1>10, CurrentIs DEF ReadManifest
  <2>2. v'.manifest = IF ReuseLogs THEN dir'.current ELSE Now'.next
    BY <1>2, <1>4, <1>6, <1>8, <1>10 DEF ReadManifest
  <2> QED
    BY <2>1, <2>2 DEF ReadManifest
<1>14. WroteManifest' /\ NotCurrentYet'
  BY <1>2 DEF WroteManifest, NotCurrentYet
<1> QED
  BY <1>1, <1>2, <1>3, <1>8, <1>10, <1>11, <1>12, <1>13, <1>14, OpeningIsSound

\* NewLog keeps the files recoverable (FilesInv).
LEMMA NewLogFiles ==
  ASSUME DurabilityAssumption, FilesInv, NewLog
  PROVE  FilesInv'
<1>1. /\ phase = "logs" /\ v.todo = {} /\ v.logfile = None /\ v.next =< MaxFiles
      /\ dir' = [dir EXCEPT !.logs = @ \cup {v.next}] /\ lost' = lost \cup {dir}
      /\ logc' = [logc EXCEPT ![v.next] = Empty]
      /\ overwritten' = (overwritten \/ Clobbers("log", v.next))
      /\ v' = [v EXCEPT !.logfile = v.next, !.next = v.next + 1]
      /\ UNCHANGED <<manc, tabc, phase, job, acked, must, writes, crashes, compactions>>
  BY DEF NewLog, ChangeDir, Bumped, count
<1>2. phase \in Opening /\ phase' = "logs" /\ phase' \in Opening
  BY <1>1 DEF Opening
<1>3. /\ dir.current # None /\ job = NoJob /\ v \in VType /\ dir \in DirType
      /\ (\A d \in Dirs : d.current # None)
      /\ v.next \in Nat /\ v.next > 1 /\ v.edit \subseteq dir.tables
      /\ (\A m \in dir.logs : m \in Nat) /\ (\A t \in dir.tables : t \in Nat)
  BY <1>2, OpeningHas
<1>4. OpenNumbers /\ ReadManifest
  BY DEF FilesInv
<1>5. v.next \in Numbers
  BY <1>1, <1>3 DEF Numbers, DurabilityAssumption
<1>6. /\ v' \in VType /\ v'.logfile = v.next /\ v'.next = v.next + 1
      /\ v'.live = v.live /\ v'.logNo = v.logNo /\ v'.manifest = v.manifest
      /\ v'.descriptor = v.descriptor /\ v'.pins = v.pins /\ v'.pending = v.pending
      /\ v'.bgError = v.bgError /\ v'.hasImm = v.hasImm /\ v'.imm = v.imm
      /\ v'.edit = v.edit /\ v'.save = v.save /\ v'.todo = v.todo
  <2>1. v \in VType /\ v.next \in Nat /\ v.next + 1 \in Nat
    BY <1>3
  <2>2. v' = [v EXCEPT !.logfile = v.next, !.next = v.next + 1]
    BY <1>1
  <2>3. v' \in VType
    BY <2>1, <2>2 DEF VType
  <2> QED
    BY <2>1, <2>2, <2>3 DEF VType
<1>7. dir' \in DirType /\ dir'.current = dir.current /\ dir'.manifests = dir.manifests
      /\ dir'.tables = dir.tables /\ dir'.logs = dir.logs \cup {v.next}
  BY <1>1, <1>3, <1>5 DEF DirType
<1>8. dir.current \in dir.manifests /\ \A d \in Dirs : manc'[d.current] = manc[d.current]
  BY <1>1, <1>3, CurrentIs
<1>9. DirsRecoverable' /\ Now' = Now /\ \A d \in Dirs' : d.current # None /\ (d \in Dirs \/ d = dir')
  BY <1>1, <1>3, <1>7, <1>8, DirChanges
<1>10. \A n \in dir.logs : n < v.next
  BY <1>1, <1>2, <1>4 DEF OpenNumbers
<1>11. overwritten' = FALSE
  BY <1>1, <1>3, <1>10 DEF FilesInv, Types, Clobbers
<1>12. Types'
  <2>1. logc' \in [Numbers -> FileOf(Batch)]
    BY <1>1, <1>5, EmptyFile DEF FilesInv, Types, DiskTypes
  <2>2. lost' \subseteq DirType
    BY <1>1, <1>3 DEF FilesInv, Types, DiskTypes
  <2> QED
    BY <2>1, <2>2, <1>1, <1>6, <1>7, <1>11 DEF FilesInv, Types, DiskTypes
<1>13. OpenNumbers'
  <2>1. v'.todo \subseteq dir'.logs /\ (\A n \in dir'.logs : n < v'.next \/ n \in v'.todo)
        /\ v'.live \subseteq dir'.tables /\ (\A n \in v'.todo : v'.logNo =< n)
    BY <1>1, <1>2, <1>3, <1>4, <1>6, <1>7, <1>10 DEF OpenNumbers
  <2>2. (\A t \in v'.live \cup v'.edit : t < v'.next) /\ v'.logNo < v'.next
        /\ 0 < v'.manifest /\ v'.manifest < v'.next
    <3>1. \A t \in v.live \cup v.edit : t < v.next /\ t \in Nat
      BY <1>2, <1>3, <1>4 DEF OpenNumbers
    <3>2. v.logNo \in Nat /\ v.manifest \in Nat
      BY <1>3 DEF VType
    <3> QED
      BY <3>1, <3>2, <1>2, <1>3, <1>4, <1>6 DEF OpenNumbers
  <2>3. \A d \in Dirs' : v'.edit \subseteq d.tables
    BY <1>2, <1>3, <1>4, <1>6, <1>7, <1>9 DEF OpenNumbers
  <2>4. v'.todo = {} /\ v'.logfile \in dir'.logs /\ v'.logNo =< v'.logfile
    <3>1. v.logNo \in Nat /\ v.logNo < v.next
      BY <1>2, <1>3, <1>4 DEF VType, OpenNumbers
    <3> QED
      BY <3>1, <1>1, <1>3, <1>6, <1>7
  <2> QED
    BY <2>1, <2>2, <2>3, <2>4, <1>2, <1>4, <1>6 DEF OpenNumbers
<1>14. ReadManifest'
  <2>1. Now'.next < v'.next
    BY <1>1, <1>3, <1>4, <1>6, <1>9, CurrentIs DEF ReadManifest
  <2> QED
    BY <2>1, <1>1, <1>4, <1>6, <1>7, <1>9 DEF ReadManifest
<1>15. WroteManifest' /\ NotCurrentYet'
  BY <1>2 DEF WroteManifest, NotCurrentYet
<1> QED
  BY <1>1, <1>2, <1>3, <1>7, <1>9, <1>11, <1>12, <1>13, <1>14, <1>15, OpeningIsSound

\* The edit that ends recovery, in a manifest of its own or in the one there is.
LEMMA OpenEditIs ==
  ASSUME FilesInv, phase = "logs", v.logfile # None
  PROVE  /\ OpenEdit \in EditType /\ OpenEdit.full /\ OpenEdit.add = v.edit /\ OpenEdit.del = {}
         /\ OpenEdit.log = v.logfile /\ OpenEdit.next = v.next /\ OpenEdit.seq = v.seq
         /\ OpenEdit.add \subseteq dir.tables /\ (\A t \in OpenEdit.add : t < OpenEdit.next)
         /\ OpenEdit.log < OpenEdit.next
         /\ Replay(Append(<<Snapshot(v.live)>>, OpenEdit)) =
              [live |-> v.live \cup v.edit, log |-> v.logfile, next |-> v.next, seq |-> v.seq,
               any |-> TRUE]
         /\ Replay(Append(manc[dir.current].recs, OpenEdit)) =
              [live |-> v.live \cup v.edit, log |-> v.logfile, next |-> v.next, seq |-> v.seq,
               any |-> TRUE]
<1>1. phase \in Opening
  BY DEF Opening
<1>2. v \in VType /\ v.edit \subseteq dir.tables /\ v.logfile < v.next /\ dir.current # None
  BY <1>1, OpeningHas
<1>3. OpenEdit = [add |-> v.edit, del |-> {}, log |-> v.logfile, next |-> v.next, seq |-> v.seq, full |-> TRUE]
  BY DEF OpenEdit, Edit
<1>4. v.edit \subseteq Numbers /\ v.live \subseteq Numbers /\ v.logfile \in Nat /\ v.next \in Nat /\ v.seq \in Nat
  BY <1>2 DEF VType
<1>5. OpenEdit \in EditType
  BY <1>3, <1>4 DEF EditType
<1>6. \A t \in v.edit : t < v.next
  BY <1>1 DEF FilesInv, OpenNumbers
<1>7. /\ OpenEdit.full /\ OpenEdit.add = v.edit /\ OpenEdit.del = {} /\ OpenEdit.log = v.logfile
      /\ OpenEdit.next = v.next /\ OpenEdit.seq = v.seq
  BY <1>3
<1>8. Replay(Append(<<Snapshot(v.live)>>, OpenEdit)) =
        [live |-> v.live \cup v.edit, log |-> v.logfile, next |-> v.next, seq |-> v.seq, any |-> TRUE]
  <2>1. Snapshot(v.live) \in EditType /\ Replay(<<Snapshot(v.live)>>).live = v.live
    BY <1>4, ReplaySnapshot
  <2>2. <<Snapshot(v.live)>> \in Seq(EditType)
    BY <2>1
  <2>3. Replay(Append(<<Snapshot(v.live)>>, OpenEdit)) =
           [live |-> (Replay(<<Snapshot(v.live)>>).live \ OpenEdit.del) \cup OpenEdit.add,
            log |-> OpenEdit.log, next |-> OpenEdit.next, seq |-> OpenEdit.seq, any |-> TRUE]
    BY <2>2, <1>5, <1>7, ReplayAppend
  <2>4. (v.live \ {}) \cup v.edit = v.live \cup v.edit
    OBVIOUS
  <2> QED
    BY <2>1, <2>3, <2>4, <1>7
<1>9. Replay(Append(manc[dir.current].recs, OpenEdit)) =
        [live |-> v.live \cup v.edit, log |-> v.logfile, next |-> v.next, seq |-> v.seq, any |-> TRUE]
  <2>1. manc[dir.current].recs \in Seq(EditType) /\ Replay(manc[dir.current].recs).live = v.live
    BY <1>2, CurrentIs DEF FileOf, FilesInv, ReadManifest, Now
  <2>3. Replay(Append(manc[dir.current].recs, OpenEdit)) =
           [live |-> (Replay(manc[dir.current].recs).live \ OpenEdit.del) \cup OpenEdit.add,
            log |-> OpenEdit.log, next |-> OpenEdit.next, seq |-> OpenEdit.seq, any |-> TRUE]
    BY <2>1, <1>5, <1>7, ReplayAppend
  <2>4. (v.live \ {}) \cup v.edit = v.live \cup v.edit
    OBVIOUS
  <2> QED
    BY <2>1, <2>3, <2>4, <1>7
<1> QED
  BY <1>2, <1>5, <1>6, <1>7, <1>8, <1>9

\* Opening leaves the version set alone from here on.
LEMMA NumbersStay ==
  ASSUME FilesInv, phase \in Opening, phase' \in Opening, UNCHANGED <<v>>,
         dir.logs = dir'.logs, dir.tables \subseteq dir'.tables, dir' \in DirType,
         \A d \in Dirs' : v.edit \subseteq d.tables
  PROVE  OpenNumbers'
BY DEF FilesInv, OpenNumbers

\* OpenManifest keeps the files recoverable (FilesInv).
LEMMA OpenManifestFiles ==
  ASSUME DurabilityAssumption, Survivable, FilesInv, OpenManifest
  PROVE  FilesInv'
<1> DEFINE m == v.manifest
           f == manc[m]
           new == Appended(Appended(Empty, Snapshot(v.live)), OpenEdit)
<1>1. /\ phase = "logs" /\ v.logfile # None /\ v.save /\ v.manifest =< MaxFiles /\ phase' = "opensync"
      /\ UNCHANGED <<logc, tabc, v, acked, must, overwritten, writes, crashes, compactions, job>>
  BY DEF OpenManifest, Quiet, ghost, count
<1>2. phase \in Opening /\ phase' \in Opening /\ phase' \in Opening \ {"logs"}
  BY <1>1 DEF Opening
<1>3. /\ dir.current # None /\ job = NoJob /\ v \in VType /\ dir \in DirType
      /\ (\A d \in Dirs : d.current # None)
      /\ v.next \in Nat /\ v.next > 1 /\ v.manifest \in Nat /\ v.edit \subseteq dir.tables
  BY <1>2, OpeningHas
<1>4. OpenNumbers /\ ReadManifest
  BY DEF FilesInv
<1>5. m \in Numbers
  BY <1>1, <1>2, <1>3, <1>4 DEF Numbers, OpenNumbers, DurabilityAssumption
<1>6. /\ OpenEdit \in EditType /\ OpenEdit.full /\ OpenEdit.add = v.edit /\ OpenEdit.del = {}
      /\ OpenEdit.log = v.logfile /\ OpenEdit.next = v.next /\ OpenEdit.seq = v.seq
      /\ OpenEdit.add \subseteq dir.tables /\ (\A t \in OpenEdit.add : t < OpenEdit.next)
      /\ OpenEdit.log < OpenEdit.next
  BY <1>1, OpenEditIs
<1>7. /\ dir.current \in dir.manifests /\ dir.current \in Numbers
      /\ manc[dir.current] \in FileOf(EditType) /\ Now.next \in Nat
      /\ Recoverable(dir, manc[dir.current], Now.next, dir.logs)
      /\ UpTo(manc[dir.current], Len(manc[dir.current].recs)) = Now
      /\ Now.next < v.next
  BY <1>1, <1>3, <1>4, CurrentIs DEF ReadManifest
<1>8. manc \in [Numbers -> FileOf(EditType)]
  BY DEF FilesInv, Types, DiskTypes
<1>9. CASE v.descriptor /\ manc' = [manc EXCEPT ![m] = Appended(f, OpenEdit)] /\ UNCHANGED <<dir, lost>>
  <2>1. ReuseLogs /\ ~MachineCrashes /\ m = dir.current
    BY <1>1, <1>2, <1>4, <1>9 DEF OpenNumbers, ReadManifest, Survivable
  <2>2. Dirs = {dir} /\ Dirs' = {dir}
    BY <2>1, <1>9 DEF Dirs
  <2>3. /\ Appended(f, OpenEdit) \in FileOf(EditType)
        /\ Appended(f, OpenEdit).recs = Append(f.recs, OpenEdit)
    BY <1>6, <1>7, <2>1, AppendedFile
  <2>4. manc' \in [Numbers -> FileOf(EditType)] /\ manc'[m] = Appended(f, OpenEdit)
    BY <1>5, <1>8, <1>9, <2>3
  <2>5. Recoverable(dir, Appended(f, OpenEdit), v.next, dir.logs)
    BY <1>3, <1>6, <1>7, <2>1, RecoverableAppend
  <2>6. Now' = [live |-> v.live \cup v.edit, log |-> v.logfile, next |-> v.next, seq |-> v.seq, any |-> TRUE]
    BY <1>1, <1>9, <2>1, <2>3, <2>4, OpenEditIs DEF Now
  <2>7. Now'.next = v.next
    BY <2>6
  <2>8. DirsRecoverable' /\ dir'.current # None /\ \A d \in Dirs' : d.current # None
    BY <1>3, <1>9, <2>1, <2>2, <2>4, <2>5, <2>7 DEF DirsRecoverable
  <2>9. Types' /\ ~overwritten'
    <3>1. phase' \in Phases
      BY <1>1 DEF Phases
    <3> QED
      BY <3>1, <1>1, <1>9, <2>4 DEF FilesInv, Types, DiskTypes
  <2>10. OpenNumbers'
    BY <1>1, <1>2, <1>3, <1>9, <2>2, NumbersStay
  <2>11. WroteManifest'
    <3>1. Mine' = Now'
      BY <1>1, <1>9, <2>1 DEF Mine, Now
    <3>2. v'.logfile # None /\ v'.manifest \in dir'.manifests
      BY <1>1, <1>7, <1>9, <2>1
    <3> QED
      BY <3>1, <3>2, <2>6, <1>1 DEF WroteManifest
  <2>12. NotCurrentYet' /\ ReadManifest'
    BY <1>1, <1>9, <2>1 DEF NotCurrentYet, ReadManifest
  <2> QED
    BY <1>1, <1>2, <1>3, <2>8, <2>9, <2>10, <2>11, <2>12, OpeningIsSound
<1>10. CASE /\ ~v.descriptor /\ dir' = [dir EXCEPT !.manifests = @ \cup {m}] /\ lost' = lost \cup {dir}
            /\ manc' = [manc EXCEPT ![m] = new]
  <2>1. ~ReuseLogs /\ m = Now.next
    BY <1>1, <1>2, <1>4, <1>10 DEF OpenNumbers, ReadManifest
  <2>2. Snapshot(v.live) \in EditType
    BY <1>3, ReplaySnapshot DEF VType
  <2>3. new \in FileOf(EditType) /\ new.recs = Append(<<Snapshot(v.live)>>, OpenEdit)
    <3>1. Empty \in FileOf(EditType) /\ Empty.recs = <<>>
      BY EmptyFile
    <3>2. /\ Appended(Empty, Snapshot(v.live)) \in FileOf(EditType)
          /\ Appended(Empty, Snapshot(v.live)).recs = Append(Empty.recs, Snapshot(v.live))
      BY <3>1, <2>2, AppendedFile
    <3>3. Append(<<>>, Snapshot(v.live)) = <<Snapshot(v.live)>>
      OBVIOUS
    <3>4. /\ new \in FileOf(EditType)
          /\ new.recs = Append(Appended(Empty, Snapshot(v.live)).recs, OpenEdit)
      BY <3>2, <1>6, AppendedFile
    <3> QED
      BY <3>1, <3>2, <3>3, <3>4
  <2> HIDE DEF new
  <2>4. manc' \in [Numbers -> FileOf(EditType)] /\ manc'[m] = new
    BY <1>5, <1>8, <1>10, <2>3
  <2>5. \A d \in Dirs : d.current # m /\ manc'[d.current] = manc[d.current]
    <3> SUFFICES ASSUME NEW d \in Dirs PROVE d.current # m /\ manc'[d.current] = manc[d.current]
      OBVIOUS
    <3>1. d \in DirType /\ d.current \in Numbers /\ Recoverable(d, manc[d.current], Now.next, dir.logs)
          /\ manc[d.current] \in FileOf(EditType)
      BY <1>3, DirsAre
    <3>2. d.current < Now.next
      <4>1. Sound(d, UpTo(manc[d.current], Len(manc[d.current].recs)),
                  UpTo(manc[d.current], Len(manc[d.current].recs)).next)
        BY <3>1, EndsAtAll DEF Recoverable
      <4>2. d.current \in Nat
        BY <3>1, NumbersAre
      <4> QED
        BY <4>1, <4>2, <3>1, <1>7 DEF Sound, Recoverable
    <3>3. d.current \in Nat
      BY <3>1, NumbersAre
    <3> QED
      BY <3>1, <3>2, <3>3, <2>1, <1>7, <1>8, <1>10
  <2>6. dir' \in DirType /\ dir'.current = dir.current /\ dir'.manifests = dir.manifests \cup {m}
        /\ dir'.tables = dir.tables /\ dir'.logs = dir.logs
    BY <1>3, <1>5, <1>10 DEF DirType
  <2>7. DirsRecoverable' /\ Now' = Now /\ \A d \in Dirs' : d.current # None /\ (d \in Dirs \/ d = dir')
    BY <1>3, <1>7, <1>10, <2>5, <2>6, DirChanges
  <2>8. Types' /\ ~overwritten'
    <3>1. phase' \in Phases /\ lost' \subseteq DirType
      BY <1>1, <1>3, <1>10 DEF Phases, FilesInv, Types, DiskTypes
    <3> QED
      BY <3>1, <1>1, <2>4, <2>6 DEF FilesInv, Types, DiskTypes
  <2>9. \A d \in Dirs' : v.edit \subseteq d.tables
    BY <1>2, <1>3, <1>4, <2>6, <2>7 DEF OpenNumbers
  <2>10. OpenNumbers'
    BY <1>1, <1>2, <2>6, <2>9, NumbersStay
  <2>11. WroteManifest'
    <3>1. Mine' = [live |-> v.live \cup v.edit, log |-> v.logfile, next |-> v.next, seq |-> v.seq, any |-> TRUE]
      BY <1>1, <2>3, <2>4, OpenEditIs DEF Mine
    <3>2. v'.logfile # None /\ v'.manifest \in dir'.manifests
      BY <1>1, <2>6
    <3> QED
      BY <3>1, <3>2, <1>1 DEF WroteManifest
  <2>12. NotCurrentYet' /\ ReadManifest'
    BY <1>1, <1>7, <1>10, <2>1, <2>7 DEF NotCurrentYet, ReadManifest
  <2> QED
    BY <1>1, <1>2, <1>3, <2>6, <2>7, <2>8, <2>10, <2>11, <2>12, OpeningIsSound
<1> QED
  BY <1>9, <1>10 DEF OpenManifest, ChangeDir

\* What holds once the manifest of recovery is written.
LEMMA WrittenHas ==
  ASSUME FilesInv, phase \in Opening \ {"logs"}
  PROVE  /\ phase \in Opening /\ v.manifest \in Numbers /\ manc[v.manifest] \in FileOf(EditType)
         /\ Mine = Replay(manc[v.manifest].recs) /\ Mine.any /\ Mine.live = v.live \cup v.edit
         /\ Mine.log = v.logfile /\ Mine.next = v.next /\ Mine.seq = v.seq
         /\ v.manifest \in dir.manifests /\ v.logfile # None /\ v.todo = {}
         /\ v.logfile \in dir.logs /\ v.logfile < v.next
BY OpeningHas DEF FilesInv, WroteManifest, OpenNumbers, Types, DiskTypes, DirType, Mine

\* OpenSync keeps the files recoverable (FilesInv).
LEMMA OpenSyncFiles ==
  ASSUME DurabilityAssumption, Survivable, FilesInv, OpenSync
  PROVE  FilesInv'
<1> DEFINE m == v.manifest
           f == manc[m]
<1>1. /\ phase = "opensync" /\ dir' = dir /\ lost' = {}
      /\ manc' = [manc EXCEPT ![m] = SyncedFile(f)]
      /\ phase' = (IF v.descriptor THEN "install" ELSE "opentemp")
      /\ UNCHANGED <<logc, tabc, v, acked, must, overwritten, writes, crashes, compactions, job>>
  BY DEF OpenSync, CommitDir, SyncsManifest, Quiet, ghost, count
<1>2. phase \in Opening /\ phase' \in Opening /\ phase \in Opening \ {"logs"} /\ phase' # "logs"
  BY <1>1 DEF Opening
<1>3. /\ dir.current # None /\ job = NoJob /\ v \in VType /\ dir \in DirType
      /\ (\A d \in Dirs : d.current # None) /\ v.edit \subseteq dir.tables
  BY <1>2, OpeningHas
<1>4. /\ m \in Numbers /\ f \in FileOf(EditType) /\ Mine = Replay(f.recs)
      /\ v.manifest \in dir.manifests
  BY <1>2, WrittenHas
<1>5. /\ SyncedFile(f) \in FileOf(EditType) /\ SyncedFile(f).recs = f.recs /\ Settled(SyncedFile(f))
  BY <1>4, SyncedFileIs
<1>6. manc' \in [Numbers -> FileOf(EditType)] /\ manc'[m] = SyncedFile(f)
      /\ \A n \in Numbers \ {m} : manc'[n] = manc[n]
  BY <1>1, <1>4, <1>5 DEF FilesInv, Types, DiskTypes
<1>7. /\ dir.current \in Numbers /\ manc[dir.current] \in FileOf(EditType)
      /\ Recoverable(dir, manc[dir.current], Now.next, dir.logs)
  BY <1>3, CurrentIs
<1>8. Dirs' = {dir}
  BY <1>1 DEF Dirs
<1>9. manc'[dir.current].recs = manc[dir.current].recs /\ Now' = Now /\ Mine' = Mine
  BY <1>1, <1>5, <1>6, <1>7 DEF Now, Mine
<1>10. Recoverable(dir, manc'[dir.current], Now.next, dir.logs)
  BY <1>6, <1>7, RecoverableSync
<1>11. DirsRecoverable' /\ dir'.current # None /\ \A d \in Dirs' : d.current # None
  BY <1>1, <1>3, <1>8, <1>9, <1>10 DEF DirsRecoverable
<1>12. Types' /\ ~overwritten'
  <2>1. phase' \in Phases
    BY <1>1 DEF Phases
  <2> QED
    BY <2>1, <1>1, <1>6 DEF FilesInv, Types, DiskTypes
<1>13. OpenNumbers'
  BY <1>1, <1>2, <1>3, <1>8, NumbersStay
<1>14. WroteManifest'
  BY <1>1, <1>2, <1>9 DEF FilesInv, WroteManifest
<1>15. NotCurrentYet' /\ ReadManifest'
  BY <1>1, <1>2, <1>5, <1>6, <1>9 DEF FilesInv, NotCurrentYet, ReadManifest
<1> QED
  BY <1>1, <1>2, <1>3, <1>11, <1>12, <1>13, <1>14, <1>15, OpeningIsSound

\* OpenTemp keeps the files recoverable (FilesInv).
LEMMA OpenTempFiles ==
  ASSUME FilesInv, OpenTemp
  PROVE  FilesInv'
<1>1. /\ phase = "opentemp" /\ dir' = [dir EXCEPT !.temps = @ \cup {v.manifest}] /\ lost' = {}
      /\ phase' = "openname"
      /\ UNCHANGED <<manc, logc, tabc, v, acked, must, overwritten, writes, crashes, compactions, job>>
  BY DEF OpenTemp, WriteTemp, CommitDir, Quiet, ghost, count
<1>2. phase \in Opening /\ phase' \in Opening /\ phase \in Opening \ {"logs"} /\ phase' # "logs"
  BY <1>1 DEF Opening
<1>3. /\ dir.current # None /\ job = NoJob /\ v \in VType /\ dir \in DirType
      /\ (\A d \in Dirs : d.current # None) /\ v.edit \subseteq dir.tables
  BY <1>2, OpeningHas
<1>4. v.manifest \in Numbers
  BY <1>2, WrittenHas
<1>5. dir' \in DirType /\ dir'.current = dir.current /\ dir'.manifests = dir.manifests
      /\ dir'.tables = dir.tables /\ dir'.logs = dir.logs
  BY <1>1, <1>3, <1>4 DEF DirType
<1>6. dir.current \in dir.manifests /\ \A d \in Dirs : manc'[d.current] = manc[d.current]
  BY <1>1, <1>3, CurrentIs
<1>7. DirsRecoverable' /\ Now' = Now /\ \A d \in Dirs' : d.current # None /\ (d \in Dirs \/ d = dir')
  BY <1>1, <1>3, <1>5, <1>6, DirChanges
<1>8. Types' /\ ~overwritten'
  <2>1. phase' \in Phases /\ lost' \subseteq DirType
    BY <1>1 DEF Phases
  <2> QED
    BY <2>1, <1>1, <1>5 DEF FilesInv, Types, DiskTypes
<1>9. OpenNumbers'
  <2>1. Dirs' = {dir'}
    BY <1>1 DEF Dirs
  <2> QED
    BY <2>1, <1>1, <1>2, <1>3, <1>5, NumbersStay
<1>10. Mine' = Mine
  BY <1>1 DEF Mine
<1>11. WroteManifest'
  BY <1>1, <1>2, <1>5, <1>10 DEF FilesInv, WroteManifest
<1>12. NotCurrentYet' /\ ReadManifest'
  BY <1>1, <1>2, <1>7 DEF FilesInv, NotCurrentYet, ReadManifest
<1> QED
  BY <1>1, <1>2, <1>3, <1>5, <1>7, <1>8, <1>9, <1>11, <1>12, OpeningIsSound

\* OpenRename keeps the files recoverable (FilesInv).
LEMMA OpenRenameFiles ==
  ASSUME FilesInv, OpenRename
  PROVE  FilesInv'
<1> DEFINE m == v.manifest
           f == manc[m]
<1>1. /\ phase = "openname" /\ dir' = [dir EXCEPT !.temps = @ \ {m}, !.current = m]
      /\ lost' = lost \cup {dir} /\ phase' = "install"
      /\ UNCHANGED <<manc, logc, tabc, v, acked, must, overwritten, writes, crashes, compactions, job>>
  BY DEF OpenRename, RenameTemp, ChangeDir, Quiet, ghost, count
<1>2. phase \in Opening /\ phase' \in Opening /\ phase \in Opening \ {"logs"} /\ phase' # "logs"
  BY <1>1 DEF Opening
<1>3. /\ dir.current # None /\ job = NoJob /\ v \in VType /\ dir \in DirType
      /\ (\A d \in Dirs : d.current # None) /\ v.edit \subseteq dir.tables
      /\ v.next \in Nat /\ m \in Nat /\ v.logfile \in Nat
      /\ (\A n \in dir.logs : n \in Nat) /\ (\A t \in dir.tables : t \in Nat)
  BY <1>2, OpeningHas
<1>4. /\ m \in Numbers /\ f \in FileOf(EditType) /\ Mine = Replay(f.recs) /\ Mine.any
      /\ Mine.live = v.live \cup v.edit /\ Mine.log = v.logfile /\ Mine.next = v.next /\ Mine.seq = v.seq
      /\ m \in dir.manifests /\ v.todo = {} /\ v.logfile < v.next
  BY <1>2, WrittenHas
<1>5. /\ dir' \in DirType /\ dir'.current = m /\ dir'.manifests = dir.manifests
      /\ dir'.tables = dir.tables /\ dir'.logs = dir.logs /\ m # None
  <2>1. m # None /\ m \in Numbers
    BY <1>4, NumbersAre DEF None
  <2> HIDE DEF m
  <2>2. dir' \in DirType
    BY <2>1, <1>1, <1>3 DEF DirType
  <2>3. /\ dir'.current = m /\ dir'.manifests = dir.manifests
        /\ dir'.tables = dir.tables /\ dir'.logs = dir.logs
    BY <1>1, <1>3 DEF DirType
  <2> QED
    BY <2>1, <2>2, <2>3
<1>6. Now' = Mine /\ Mine' = Mine
  BY <1>1, <1>5 DEF Now, Mine
<1>7. OpenNumbers /\ NotCurrentYet
  BY DEF FilesInv
<1>8. Now.next =< v.next /\ Now.next \in Nat
  <2>1. Now.next \in Nat
    BY <1>3, CurrentIs
  <2>2. Now.next =< m /\ m < v.next
    BY <1>1, <1>2, <1>7 DEF NotCurrentYet, OpenNumbers
  <2> QED
    BY <2>1, <2>2, <1>3
<1>9. Ends(f) = {Len(f.recs)} /\ UpTo(f, Len(f.recs)) = Mine
  BY <1>1, <1>4, <1>7, UpToAll DEF NotCurrentYet, Settled
<1>10. Recoverable(dir', f, v.next, dir'.logs)
  <2>1. Mine.live \subseteq dir'.tables /\ \A t \in Mine.live : t < v.next
    BY <1>2, <1>3, <1>4, <1>5, <1>7 DEF OpenNumbers
  <2>2. m < v.next
    BY <1>2, <1>7 DEF OpenNumbers
  <2>3. v.seq \in Nat
    BY <1>3 DEF VType
  <2>4. Sound(dir', Mine, Mine.next)
    BY <2>1, <2>2, <2>3, <1>3, <1>4, <1>5 DEF Sound
  <2> QED
    BY <2>4, <1>3, <1>4, <1>5, <1>9 DEF Recoverable
<1>11. ASSUME NEW d \in Dirs PROVE Recoverable(d, manc[d.current], v.next, dir'.logs)
  <2>1. /\ d \in DirType /\ Recoverable(d, manc[d.current], Now.next, dir.logs)
        /\ manc[d.current] \in FileOf(EditType)
    BY <1>3, DirsAre
  <2>2. \A n \in d.logs : n \in Nat
    BY <2>1, NumbersAre DEF DirType
  <2>3. /\ d.current \in d.manifests
        /\ \A k \in Ends(manc[d.current]) : UpTo(manc[d.current], k).live \subseteq d.tables
        /\ \A n \in d.logs : n \in dir'.logs \/ n < v.next
    BY <2>1, <2>2, <1>3, <1>5, <1>8 DEF Recoverable, Sound
  <2> QED
    BY <2>1, <2>3, <1>3, <1>8, RecoverableStays
<1>12. \A d \in Dirs' : d.current # None /\ (d \in Dirs \/ d = dir')
  BY <1>1, <1>3, <1>5 DEF Dirs
<1>13. DirsRecoverable'
  <2> SUFFICES ASSUME NEW d \in Dirs' PROVE Recoverable(d, manc'[d.current], Now'.next, dir'.logs)
    BY DEF DirsRecoverable
  <2>1. Now'.next = v.next /\ manc' = manc
    BY <1>1, <1>4, <1>6
  <2>2. CASE d \in Dirs
    BY <2>1, <2>2, <1>11
  <2>3. CASE d = dir'
    BY <2>1, <2>3, <1>5, <1>10
  <2> QED
    BY <2>2, <2>3, <1>12
<1>14. Types' /\ ~overwritten'
  <2>1. phase' \in Phases /\ lost' \subseteq DirType
    BY <1>1, <1>3 DEF Phases, FilesInv, Types, DiskTypes
  <2> QED
    BY <2>1, <1>1, <1>5 DEF FilesInv, Types, DiskTypes
<1>15. OpenNumbers'
  <2>1. \A d \in Dirs' : v.edit \subseteq d.tables
    BY <1>2, <1>3, <1>5, <1>7, <1>12 DEF OpenNumbers
  <2> QED
    BY <2>1, <1>1, <1>2, <1>5, NumbersStay
<1>16. WroteManifest'
  BY <1>1, <1>2, <1>5, <1>6 DEF FilesInv, WroteManifest
<1>17. NotCurrentYet' /\ ReadManifest'
  BY <1>1, <1>5, <1>7 DEF NotCurrentYet, ReadManifest
<1> QED
  BY <1>1, <1>2, <1>3, <1>5, <1>12, <1>13, <1>14, <1>15, <1>16, <1>17, OpeningIsSound

\* No file goes on being needed that recovery did not see.
LEMMA OpenFailsFiles ==
  ASSUME FilesInv, OpenFails
  PROVE  FilesInv'
<1> DEFINE m == v.manifest
<1>1. /\ phase \in {"opensync", "opentemp", "openname"} /\ ~v.descriptor /\ crashes' = crashes + 1
      /\ dir' = [dir EXCEPT !.manifests = @ \ {m}, !.temps = @ \ {m}] /\ lost' = lost \cup {dir}
      /\ v' = Fresh /\ phase' = "down"
      /\ UNCHANGED <<manc, logc, tabc, acked, must, overwritten, writes, compactions, job>>
  BY DEF OpenFails, ChangeDir, ghost
<1>2. phase \in Opening
  BY <1>1 DEF Opening
<1>3. /\ dir.current # None /\ job = NoJob /\ v \in VType /\ dir \in DirType
      /\ (\A d \in Dirs : d.current # None) /\ m \in Nat
  BY <1>2, OpeningHas
<1>4. dir.current # m
  <2>1. Now.next =< m
    BY <1>1 DEF FilesInv, NotCurrentYet
  <2>2. dir.current < Now.next /\ Now.next \in Nat /\ dir.current \in Nat
    BY <1>3, CurrentIs, NumbersAre DEF Sound
  <2> QED
    BY <2>1, <2>2, <1>3
<1>5. /\ dir' \in DirType /\ dir'.current = dir.current /\ dir'.manifests = dir.manifests \ {m}
      /\ dir'.tables = dir.tables /\ dir'.logs = dir.logs
  BY <1>1, <1>3 DEF DirType
<1>6. dir.current \in dir.manifests /\ \A d \in Dirs : manc'[d.current] = manc[d.current]
  BY <1>1, <1>3, CurrentIs
<1>7. DirsRecoverable' /\ Now' = Now /\ \A d \in Dirs' : d.current # None /\ (d \in Dirs \/ d = dir')
  BY <1>1, <1>3, <1>4, <1>5, <1>6, DirChanges
<1>8. Types' /\ ~overwritten'
  <2>1. phase' \in Phases /\ lost' \subseteq DirType /\ crashes' \in Nat
    BY <1>1, <1>3 DEF Phases, FilesInv, Types, DiskTypes
  <2> QED
    BY <2>1, <1>1, <1>5, FreshIs DEF FilesInv, Types, DiskTypes
<1>9. NothingYet'
  BY <1>1, <1>3, <1>5, <1>7 DEF NothingYet, Creating
<1>10. phase' \in Creating \cup {"down", "recover"} /\ job' = NoJob
  BY <1>1, <1>3
<1> QED
  BY <1>1, <1>7, <1>8, <1>9, <1>10, ClosedIsSound

\* The parts of the invariant that matter when the database is open.
LEMMA OpenIsSound ==
  ASSUME Types', ~overwritten', phase' \in {"clean", "run"}, dir'.current # None,
         phase' # "run" => job' = NoJob,
         DirsRecoverable', \A d \in Dirs' : d.current # None,
         RunNumbers', JobNumbers', Installed'
  PROVE  FilesInv'
<1>1. phase' \notin Creating \cup {"down", "recover"} /\ phase' \notin Opening
  BY DEF Creating, Opening
<1>2. AtRest' /\ NothingYet'
  BY <1>1 DEF AtRest, NothingYet, Creating
<1>3. OpenNumbers' /\ ReadManifest' /\ WroteManifest' /\ NotCurrentYet'
  BY <1>1 DEF OpenNumbers, ReadManifest, WroteManifest, NotCurrentYet, Opening
<1> QED
  BY <1>2, <1>3 DEF FilesInv

\* No iterator: the live files are those of the current version.
LEMMA NoPins ==
  ASSUME v.pins = <<>>
  PROVE  LiveFiles = v.live
BY DEF LiveFiles, Range

\* OpenInstall keeps the files recoverable (FilesInv).
LEMMA OpenInstallFiles ==
  ASSUME FilesInv, OpenInstall
  PROVE  FilesInv'
<1>1. /\ phase = "install" /\ phase' = "clean"
      /\ v' = [v EXCEPT !.live = v.live \cup v.edit, !.edit = {}, !.logNo = v.logfile, !.descriptor = TRUE]
      /\ UNCHANGED <<acked, must, overwritten, writes, crashes, compactions, job>>
      /\ UNCHANGED disk
  BY DEF OpenInstall, Quiet, ghost, count
<1>2. phase \in Opening /\ phase \in Opening \ {"logs"}
  BY <1>1 DEF Opening
<1>3. /\ dir.current # None /\ job = NoJob /\ v \in VType /\ dir \in DirType
      /\ (\A d \in Dirs : d.current # None) /\ v.edit \subseteq dir.tables
      /\ v.next \in Nat /\ v.logfile \in Nat
      /\ (\A n \in dir.logs : n \in Nat) /\ (\A t \in dir.tables : t \in Nat)
  BY <1>2, OpeningHas
<1>4. /\ Mine.live = v.live \cup v.edit /\ Mine.log = v.logfile /\ Mine.next = v.next
      /\ v.todo = {} /\ v.logfile \in dir.logs /\ Mine = Replay(manc[v.manifest].recs)
  BY <1>2, WrittenHas
<1>5. /\ DirsRecoverable' /\ Now' = Now /\ Dirs' = Dirs /\ DiskTypes'
      /\ dir' = dir /\ lost' = lost /\ logc' = logc /\ manc' = manc /\ tabc' = tabc
  BY <1>1, DiskStays
<1>6. /\ v' \in VType /\ v'.live = v.live \cup v.edit /\ v'.edit = {} /\ v'.logNo = v.logfile
      /\ v'.todo = v.todo /\ v'.manifest = v.manifest /\ v'.logfile = v.logfile /\ v'.next = v.next
      /\ v'.pins = v.pins /\ v'.pending = v.pending /\ v'.bgError = v.bgError
      /\ v'.hasImm = v.hasImm /\ v'.imm = v.imm
  <2> DEFINE lv == v.live \cup v.edit
             lg == v.logfile
  <2>1. lv \in SUBSET Numbers /\ lg \in Nat /\ v \in VType
    BY <1>3 DEF VType
  <2>2. v' = [v EXCEPT !.live = lv, !.edit = {}, !.logNo = lg, !.descriptor = TRUE]
    BY <1>1
  <2> HIDE DEF lv, lg
  <2>3. v' \in VType
    BY <2>1, <2>2 DEF VType
  <2>4. /\ v'.live = lv /\ v'.edit = {} /\ v'.logNo = lg
      /\ v'.todo = v.todo /\ v'.manifest = v.manifest /\ v'.logfile = v.logfile /\ v'.next = v.next
      /\ v'.pins = v.pins /\ v'.pending = v.pending /\ v'.bgError = v.bgError
      /\ v'.hasImm = v.hasImm /\ v'.imm = v.imm
    BY <2>1, <2>2 DEF VType
  <2> QED
    BY <2>3, <2>4 DEF lv, lg
<1>7. OpenNumbers /\ NotCurrentYet
  BY DEF FilesInv
<1>8. Now = Mine /\ dir.current = v.manifest /\ Settled(manc[dir.current])
  BY <1>1, <1>7 DEF NotCurrentYet, Now, Mine
<1>9. Types' /\ ~overwritten'
  <2>1. phase' \in Phases
    BY <1>1 DEF Phases
  <2> QED
    BY <2>1, <1>1, <1>5, <1>6 DEF FilesInv, Types
<1>10. LiveFiles' = v'.live
  BY <1>2, <1>6, <1>7, NoPins DEF OpenNumbers, LiveFiles, Range
<1>11. RunNumbers'
  <2>1. /\ v'.edit = {} /\ v'.todo = {} /\ dir'.current = v'.manifest
        /\ v'.logfile \in dir'.logs /\ v'.logNo =< v'.logfile
    BY <1>3, <1>4, <1>5, <1>6, <1>8
  <2>2. \A n \in dir'.logs : n < v'.next
    BY <1>2, <1>4, <1>5, <1>6, <1>7 DEF OpenNumbers
  <2>3. /\ LiveFiles' \subseteq dir'.tables /\ v'.pins = <<>> /\ v'.pending = {} /\ ~v'.bgError
        /\ ~v'.hasImm /\ v'.imm = {}
    BY <1>2, <1>3, <1>5, <1>6, <1>7, <1>10 DEF OpenNumbers
  <2>4. \A t \in LiveFiles' \cup v'.pending : t < v'.next
    BY <2>3, <1>2, <1>6, <1>7, <1>10 DEF OpenNumbers
  <2>5. Now'.next =< v'.next
    BY <1>3, <1>4, <1>5, <1>6, <1>8
  <2> QED
    BY <2>1, <2>2, <2>3, <2>4, <2>5 DEF RunNumbers
<1>12. JobNumbers' /\ Installed'
  <2>1. job'.stage = ""
    BY <1>1, <1>3, FreshIs
  <2> QED
    BY <2>1, <1>4, <1>5, <1>6, <1>8 DEF JobNumbers, Installed, Active
<1> QED
  BY <1>1, <1>3, <1>5, <1>9, <1>11, <1>12, OpenIsSound

\* OpenReused keeps the files recoverable (FilesInv).
LEMMA OpenReusedFiles ==
  ASSUME Survivable, FilesInv, OpenReused
  PROVE  FilesInv'
<1>1. /\ phase = "logs" /\ phase' = "clean" /\ v.logfile # None /\ ~v.save
      /\ UNCHANGED <<acked, must, overwritten, writes, crashes, compactions, job, v>>
      /\ UNCHANGED disk
  BY DEF OpenReused, Quiet, ghost, count, disk
<1>2. phase \in Opening
  BY <1>1 DEF Opening
<1>3. /\ dir.current # None /\ job = NoJob /\ v \in VType /\ dir \in DirType
      /\ (\A d \in Dirs : d.current # None) /\ v.next \in Nat
  BY <1>2, OpeningHas
<1>4. /\ DirsRecoverable' /\ Now' = Now /\ Dirs' = Dirs /\ DiskTypes'
      /\ dir' = dir /\ lost' = lost /\ logc' = logc /\ manc' = manc /\ tabc' = tabc
  BY <1>1, DiskStays
<1>5. OpenNumbers /\ ReadManifest
  BY DEF FilesInv
<1>6. ReuseLogs /\ v.edit = {} /\ ~MachineCrashes /\ v.manifest = dir.current
  BY <1>1, <1>2, <1>5 DEF OpenNumbers, ReadManifest, Survivable
<1>7. Settled(manc[dir.current])
  BY <1>6 DEF Settled, Ends
<1>8. Types' /\ ~overwritten'
  <2>1. phase' \in Phases
    BY <1>1 DEF Phases
  <2> QED
    BY <2>1, <1>1, <1>4 DEF FilesInv, Types
<1>9. LiveFiles' = v.live
  BY <1>1, <1>2, <1>5, NoPins DEF OpenNumbers, LiveFiles, Range
<1>10. RunNumbers'
  <2>1. /\ v.todo = {} /\ v.logfile \in dir.logs /\ v.logNo =< v.logfile
        /\ v.pins = <<>> /\ v.pending = {} /\ ~v.bgError /\ ~v.hasImm /\ v.imm = {}
        /\ v.live \subseteq dir.tables /\ \A t \in v.live : t < v.next
    BY <1>1, <1>2, <1>5 DEF OpenNumbers
  <2>2. \A n \in dir.logs : n < v.next
    BY <2>1, <1>2, <1>5 DEF OpenNumbers
  <2>3. Now.next =< v.next
    BY <1>1, <1>3, <1>5, CurrentIs DEF ReadManifest
  <2> QED
    BY <2>1, <2>2, <2>3, <1>1, <1>4, <1>6, <1>9 DEF RunNumbers
<1>11. JobNumbers' /\ Installed'
  <2>1. job'.stage = ""
    BY <1>1, <1>3, FreshIs
  <2> QED
    BY <2>1, <1>1, <1>4, <1>5, <1>7 DEF JobNumbers, Installed, Active, ReadManifest
<1> QED
  BY <1>1, <1>3, <1>4, <1>8, <1>10, <1>11, OpenIsSound

\* What every step of an open database can rely on.
LEMMA OpenHas ==
  ASSUME FilesInv, phase \in {"clean", "run"}
  PROVE  /\ dir.current # None /\ v \in VType /\ dir \in DirType /\ job \in JobType
         /\ (\A d \in Dirs : d.current # None) /\ Open_
         /\ dir.current = v.manifest /\ dir.current \in Numbers /\ v.logfile \in Numbers
         /\ v.next \in Nat /\ v.logNo \in Nat /\ v.seq \in Nat /\ v.manifest \in Nat /\ v.logfile \in Nat
         /\ v.next > 0 /\ v.logfile < v.next
         /\ (\A n \in dir.logs : n \in Nat) /\ (\A t \in dir.tables : t \in Nat)
         /\ lost \subseteq DirType
<1>1. dir.current # None
  BY DEF FilesInv, NothingYet, Creating
<1>2. v \in VType /\ dir \in DirType /\ job \in JobType /\ lost \subseteq DirType
  BY DEF FilesInv, Types, DiskTypes
<1>3. Open_
  BY DEF Open_
<1>4. \A d \in Dirs : d.current # None
  BY <1>1 DEF FilesInv, NothingYet, Dirs
<1>5. dir.current = v.manifest /\ v.logfile \in dir.logs /\ \A n \in dir.logs : n < v.next
  BY <1>3 DEF FilesInv, RunNumbers
<1>6. dir.current \in Numbers
  BY <1>1, CurrentIs
<1>7. v.logfile \in Numbers /\ v.next \in Nat /\ v.logNo \in Nat /\ v.seq \in Nat
  BY <1>2, <1>5 DEF VType, DirType
<1>8. /\ (\A n \in dir.logs : n \in Nat) /\ (\A t \in dir.tables : t \in Nat)
  BY <1>2, NumbersAre DEF DirType
<1>9. v.manifest \in Nat /\ v.logfile \in Nat /\ v.logfile > 0
  BY <1>5, <1>6, <1>7, NumbersAre
<1>10. v.next > 0 /\ v.logfile < v.next
  BY <1>5, <1>7, <1>9
<1> QED
  BY <1>1, <1>2, <1>3, <1>4, <1>5, <1>6, <1>7, <1>8, <1>9, <1>10

\* What may be left of the directory while obsolete files are removed.
Cleaned(d) ==
  /\ d \in DirType /\ d.current = dir.current
  /\ d.logs \subseteq dir.logs /\ \A n \in dir.logs : n >= v.logNo => n \in d.logs
  /\ d.tables \subseteq dir.tables
  /\ \A t \in dir.tables : t \in LiveFiles \cup v.pending => t \in d.tables
  /\ \A n \in dir.manifests : n >= v.manifest => n \in d.manifests

\* DeleteObsoleteFiles leaves a directory that still has what is in use, and so does each
\* state on the way.
LEMMA DeletesObsolete ==
  ASSUME FilesInv, phase \in {"clean", "run"}, DeleteObsoleteFiles
  PROVE  /\ Cleaned(dir') /\ dir'.logs = {n \in dir.logs : n >= v.logNo}
         /\ lost' \subseteq DirType
         /\ \A d \in Dirs' : d \in Dirs \/ Cleaned(d)
<1> DEFINE Some == [logs : SUBSET Obsolete.logs, tables : SUBSET Obsolete.tables,
                    manifests : SUBSET Obsolete.manifests, temps : SUBSET Obsolete.temps]
<1>1. dir' = Without(Obsolete) /\ lost' = lost \cup {Without(gone) : gone \in Some}
  BY DEF DeleteObsoleteFiles
<1>2. dir \in DirType /\ lost \subseteq DirType
  BY OpenHas
<1>3. /\ Obsolete \in Some /\ Obsolete.logs = {n \in dir.logs : ~(n >= v.logNo)}
      /\ \A n \in Obsolete.tables : n \notin LiveFiles \cup v.pending
      /\ \A n \in Obsolete.manifests : ~(n >= v.manifest)
  BY DEF Obsolete, KeepsLog, KeepsTable, KeepsManifest
<1>4. ASSUME NEW g \in Some
      PROVE  Cleaned(Without(g)) /\ Without(g).logs = dir.logs \ g.logs
  <2> DEFINE d == Without(g)
  <2>1. /\ \A n \in g.logs : ~(n >= v.logNo)
        /\ \A n \in g.tables : n \notin LiveFiles \cup v.pending
        /\ \A n \in g.manifests : ~(n >= v.manifest)
    BY <1>3
  <2>2. /\ d.logs = dir.logs \ g.logs /\ d.tables = dir.tables \ g.tables
        /\ d.manifests = dir.manifests \ g.manifests /\ d.current = dir.current
    BY <1>2 DEF DirType, Without
  <2>3. d \in DirType
    BY <1>2 DEF DirType, Without
  <2> HIDE DEF d
  <2>4. Cleaned(d)
    BY <2>1, <2>2, <2>3 DEF Cleaned
  <2> QED
    BY <2>2, <2>4 DEF d
<1> HIDE DEF Some
<1>6. Cleaned(dir') /\ dir'.logs = dir.logs \ Obsolete.logs
  BY <1>1, <1>3, <1>4
<1>7. \A d \in lost' : d \in lost \/ Cleaned(d)
  BY <1>1, <1>4
<1>8. lost' \subseteq DirType
  BY <1>2, <1>7 DEF Cleaned
<1>9. \A d \in Dirs' : d \in Dirs \/ Cleaned(d)
  BY <1>6, <1>7 DEF Dirs
<1>10. dir'.logs = {n \in dir.logs : n >= v.logNo}
  BY <1>3, <1>6
<1> QED
  BY <1>6, <1>8, <1>9, <1>10

\* Nothing is removed that the manifest, or any manifest a crash may bring back, needs.
LEMMA DeletesSafely ==
  ASSUME FilesInv, phase \in {"clean", "run"}, DeleteObsoleteFiles, manc' = manc,
         v.live = Now.live, v.logNo = Now.log, Settled(manc[dir.current])
  PROVE  /\ DirsRecoverable' /\ Now' = Now /\ \A d \in Dirs' : d.current # None
         /\ dir' \in DirType /\ dir'.current = dir.current /\ LiveFiles \subseteq dir'.tables
         /\ v.logfile \in dir'.logs /\ dir'.logs \subseteq dir.logs
<1>1. /\ dir.current # None /\ v \in VType /\ dir \in DirType /\ Open_
      /\ (\A d \in Dirs : d.current # None) /\ dir.current = v.manifest /\ v.manifest \in Nat
      /\ v.logNo \in Nat /\ (\A n \in dir.logs : n \in Nat) /\ v.logfile \in Nat
  BY OpenHas
<1>2. /\ Cleaned(dir') /\ dir'.logs = {n \in dir.logs : n >= v.logNo}
      /\ \A d \in Dirs' : d \in Dirs \/ Cleaned(d)
  BY DeletesObsolete
<1>3. dir' \in DirType /\ dir'.current = dir.current /\ dir'.logs \subseteq dir.logs
  BY <1>2 DEF Cleaned
<1>4. /\ dir.current \in dir.manifests /\ manc[dir.current] \in FileOf(EditType)
      /\ Sound(dir, Now, Now.next) /\ Now.next \in Nat /\ Now.log \in Nat /\ Now.log < Now.next
      /\ UpTo(manc[dir.current], Len(manc[dir.current].recs)) = Now
      /\ Recoverable(dir, manc[dir.current], Now.next, dir.logs)
  BY <1>1, CurrentIs DEF Sound
<1>5. LiveFiles \subseteq dir.tables /\ v.live \subseteq LiveFiles
      /\ v.logfile \in dir.logs /\ v.logNo =< v.logfile
  BY <1>1 DEF FilesInv, RunNumbers, LiveFiles
<1>6. Now' = Now
  BY <1>3 DEF Now
<1>7. \A d \in Dirs' : d.current # None
  BY <1>1, <1>2 DEF Cleaned
<1>8. LiveFiles \subseteq dir'.tables /\ v.logfile \in dir'.logs
  BY <1>1, <1>2, <1>5 DEF Cleaned
<1>9. ASSUME NEW n, n \in dir.logs \/ n < Now.next, n \in Nat PROVE n \in dir'.logs \/ n < Now.next
  BY <1>1, <1>2, <1>4, <1>9
<1>10. ASSUME NEW d \in Dirs, d \in DirType
       PROVE  Recoverable(d, manc[d.current], Now.next, dir'.logs)
  <2>1. /\ Recoverable(d, manc[d.current], Now.next, dir.logs) /\ manc[d.current] \in FileOf(EditType)
    BY <1>1, DirsAre
  <2>2. /\ d.current \in d.manifests /\ (\A n \in d.logs : n \in dir.logs \/ n < Now.next)
        /\ \A k \in Ends(manc[d.current]) : UpTo(manc[d.current], k).live \subseteq d.tables
    BY <2>1 DEF Recoverable, Sound
  <2>3. \A n \in d.logs : n \in dir'.logs \/ n < Now.next
    BY <2>2, <1>9, <1>10, NumbersAre DEF DirType
  <2> QED
    BY <2>1, <2>2, <2>3, <1>4, RecoverableStays
<1>11. ASSUME NEW d, Cleaned(d)
       PROVE  Recoverable(d, manc[d.current], Now.next, dir'.logs)
  <2>1. d.current = dir.current /\ dir.current \in d.manifests
    BY <1>1, <1>4, <1>11 DEF Cleaned
  <2>2. Now.live \subseteq d.tables
    BY <1>5, <1>11 DEF Cleaned
  <2>3. \A k \in Ends(manc[dir.current]) : UpTo(manc[dir.current], k).live \subseteq d.tables
    BY <2>2, <1>4 DEF Settled
  <2>4. \A n \in d.logs : n \in dir'.logs \/ n < Now.next
    BY <1>1, <1>9, <1>11 DEF Cleaned
  <2> QED
    BY <2>1, <2>3, <2>4, <1>4, RecoverableStays
<1>12. DirsRecoverable'
  <2> SUFFICES ASSUME NEW d \in Dirs' PROVE Recoverable(d, manc'[d.current], Now'.next, dir'.logs)
    BY DEF DirsRecoverable
  <2>1. CASE d \in Dirs
    <3>1. d \in DirType
      BY <2>1, <1>1, DirsAre
    <3> QED
      BY <2>1, <3>1, <1>6, <1>10
  <2>2. CASE Cleaned(d)
    BY <2>2, <1>6, <1>11
  <2> QED
    BY <2>1, <2>2, <1>2
<1> QED
  BY <1>3, <1>6, <1>7, <1>8, <1>12

\* OpenClean keeps the files recoverable (FilesInv).
LEMMA OpenCleanFiles ==
  ASSUME FilesInv, OpenClean
  PROVE  FilesInv'
<1>1. /\ phase = "clean" /\ phase' = "run" /\ DeleteObsoleteFiles
      /\ UNCHANGED <<manc, logc, tabc, v, acked, must, overwritten, writes, crashes, compactions, job>>
  BY DEF OpenClean, Quiet, ghost, count
<1>2. /\ Open_ /\ dir.current # None /\ v.next \in Nat /\ dir.current = v.manifest
  BY <1>1, OpenHas
<1>3. job = NoJob /\ job.stage = "" /\ ~v.bgError /\ v.edit = {} /\ v.todo = {}
  <2>1. job = NoJob
    BY <1>1 DEF FilesInv, AtRest
  <2> QED
    BY <2>1, <1>1, <1>2, FreshIs DEF FilesInv, RunNumbers
<1>4. v.live = Now.live /\ v.logNo = Now.log /\ Settled(manc[dir.current])
  BY <1>2, <1>3 DEF FilesInv, Installed
<1>5. /\ DirsRecoverable' /\ Now' = Now /\ (\A d \in Dirs' : d.current # None)
      /\ dir' \in DirType /\ dir'.current = dir.current /\ LiveFiles \subseteq dir'.tables
      /\ v.logfile \in dir'.logs /\ dir'.logs \subseteq dir.logs
  BY <1>1, <1>4, DeletesSafely
<1>6. lost' \subseteq DirType
  BY <1>1, DeletesObsolete
<1>7. Types' /\ ~overwritten'
  <2>1. phase' \in Phases
    BY <1>1 DEF Phases
  <2> QED
    BY <2>1, <1>1, <1>5, <1>6 DEF FilesInv, Types, DiskTypes
<1>8. LiveFiles' = LiveFiles
  BY <1>1 DEF LiveFiles
<1>9. RunNumbers'
  BY <1>1, <1>2, <1>3, <1>5, <1>8 DEF FilesInv, RunNumbers
<1>10. JobNumbers' /\ Installed'
  BY <1>1, <1>3, <1>4, <1>5 DEF JobNumbers, Installed, Active
<1> QED
  BY <1>1, <1>2, <1>5, <1>7, <1>9, <1>10, OpenIsSound

\* Clean keeps the files recoverable (FilesInv).
LEMMA CleanFiles ==
  ASSUME FilesInv, Clean
  PROVE  FilesInv'
<1>1. /\ job.stage = "clean" /\ job' = NoJob
      /\ (v.bgError /\ UNCHANGED <<dir, lost>>) \/ (~v.bgError /\ DeleteObsoleteFiles)
      /\ UNCHANGED <<manc, logc, tabc, v, phase, acked, must, overwritten, writes, crashes, compactions>>
  BY DEF Clean, MayCollect, ghost, count
<1>2. phase = "run"
  BY <1>1, FreshIs DEF FilesInv, AtRest
<1>3. /\ Open_ /\ dir.current # None /\ v.next \in Nat /\ dir.current = v.manifest
      /\ lost \subseteq DirType /\ dir \in DirType /\ \A d \in Dirs : d.current # None
  BY <1>2, OpenHas
<1>4. /\ LiveFiles \subseteq dir.tables /\ v.logfile \in dir.logs
  BY <1>3 DEF FilesInv, RunNumbers
<1>5. ~v.bgError => v.live = Now.live /\ v.logNo = Now.log /\ Settled(manc[dir.current])
  BY <1>1, <1>3 DEF FilesInv, Installed
<1>6. /\ DirsRecoverable' /\ Now' = Now /\ (\A d \in Dirs' : d.current # None)
      /\ dir' \in DirType /\ dir'.current = dir.current /\ LiveFiles \subseteq dir'.tables
      /\ v.logfile \in dir'.logs /\ dir'.logs \subseteq dir.logs
  <2>1. CASE v.bgError /\ UNCHANGED <<dir, lost>>
    <3>1. UNCHANGED disk
      BY <2>1, <1>1 DEF disk
    <3>2. DirsRecoverable' /\ Now' = Now /\ Dirs' = Dirs
      BY <3>1, DiskStays
    <3> QED
      BY <3>2, <2>1, <1>3, <1>4
  <2>2. CASE ~v.bgError /\ DeleteObsoleteFiles
    BY <2>2, <1>1, <1>2, <1>5, DeletesSafely
  <2> QED
    BY <2>1, <2>2, <1>1
<1>7. lost' \subseteq DirType
  BY <1>1, <1>2, <1>3, DeletesObsolete
<1>8. Types' /\ ~overwritten'
  BY <1>1, <1>6, <1>7, FreshIs DEF FilesInv, Types, DiskTypes
<1>9. LiveFiles' = LiveFiles
  BY <1>1 DEF LiveFiles
<1>10. RunNumbers'
  <2>1. job'.stage = ""
    BY <1>1, FreshIs
  <2> QED
    BY <2>1, <1>1, <1>2, <1>3, <1>6, <1>9 DEF FilesInv, RunNumbers
<1>11. JobNumbers' /\ Installed'
  <2>1. job'.stage = ""
    BY <1>1, FreshIs
  <2> QED
    BY <2>1, <1>1, <1>5, <1>6 DEF JobNumbers, Installed, Active
<1> QED
  BY <1>1, <1>2, <1>3, <1>6, <1>8, <1>10, <1>11, OpenIsSound


\* A step of a database that is open, which adds files or commits the directory.
RunGrows ==
  /\ phase = "run" /\ phase' = "run" /\ manc' = manc
  /\ dir' \in DirType /\ dir'.current = dir.current /\ dir'.manifests = dir.manifests
  /\ dir.tables \subseteq dir'.tables /\ dir.logs \subseteq dir'.logs /\ lost' \subseteq lost \cup {dir}
  /\ v'.edit = v.edit /\ v'.todo = v.todo /\ v'.manifest = v.manifest /\ v'.live = v.live
  /\ v'.logNo = v.logNo /\ v'.bgError = v.bgError /\ LiveFiles' = LiveFiles
  /\ v'.next \in Nat /\ v.next =< v'.next /\ v'.logfile \in dir'.logs /\ v.logfile =< v'.logfile
  /\ \A n \in dir'.logs : n \in dir.logs \/ n < v'.next
  /\ \A t \in v'.pending : t \in v.pending \/ t < v'.next
  /\ v.bgError => job'.stage \in {"", "clean"}

\* Adding files to an open database keeps its directories recoverable.
LEMMA RunStays ==
  ASSUME FilesInv, RunGrows
  PROVE  /\ DirsRecoverable' /\ Now' = Now /\ RunNumbers' /\ lost' \subseteq DirType
         /\ \A d \in Dirs' : d.current # None /\ (d \in Dirs \/ d = dir')
<1>1. /\ dir.current # None /\ v \in VType /\ dir \in DirType /\ Open_ /\ lost \subseteq DirType
      /\ (\A d \in Dirs : d.current # None) /\ dir.current = v.manifest
      /\ v.logNo \in Nat /\ v.logfile \in Nat /\ v.next \in Nat
      /\ (\A n \in dir.logs : n \in Nat) /\ (\A n \in dir.tables : n \in Nat)
  BY OpenHas DEF RunGrows
<1>2. dir.current \in dir'.manifests /\ \A d \in Dirs : manc'[d.current] = manc[d.current]
  BY <1>1, CurrentIs DEF RunGrows
<1>3. DirsRecoverable' /\ Now' = Now /\ \A d \in Dirs' : d.current # None /\ (d \in Dirs \/ d = dir')
  BY <1>1, <1>2, DirChanges DEF RunGrows
<1>4. lost' \subseteq DirType
  BY <1>1 DEF RunGrows
<1>5. /\ v.edit = {} /\ v.todo = {} /\ v.logNo =< v.logfile /\ (\A n \in dir.logs : n < v.next)
      /\ LiveFiles \subseteq dir.tables /\ (\A t \in LiveFiles \cup v.pending : t < v.next)
      /\ Now.next =< v.next
  BY <1>1 DEF FilesInv, RunNumbers
<1>6. Now.next \in Nat
  BY <1>1, CurrentIs
<1> DEFINE nx == v'.next
<1>13. /\ nx \in Nat /\ v.next =< nx /\ LiveFiles' = LiveFiles
       /\ (\A n \in dir'.logs : n \in dir.logs \/ n < nx)
       /\ (\A t \in v'.pending : t \in v.pending \/ t < nx)
       /\ v'.logNo = v.logNo /\ v.logfile =< v'.logfile
  BY DEF RunGrows
<1> HIDE DEF nx
<1>7. \A n \in dir'.logs : n < nx
  BY <1>1, <1>5, <1>13
<1>8. \A t \in v.pending : t \in Nat
  BY <1>1, NumbersAre DEF VType
<1>9. \A t \in LiveFiles' \cup v'.pending : t < nx
  <2>1. \A t \in LiveFiles \cup v.pending : t \in Nat /\ t < v.next
    BY <1>1, <1>5, <1>8
  <2> QED
    BY <2>1, <1>1, <1>13
<1>10. v'.logfile \in Nat
  BY NumbersAre DEF RunGrows, DirType
<1>11. Now'.next =< nx /\ v'.logNo =< v'.logfile /\ phase' # "clean"
  <2>1. Now.next =< nx
    BY <1>1, <1>5, <1>6, <1>13
  <2>2. v'.logNo =< v'.logfile
    BY <1>1, <1>5, <1>10, <1>13
  <2> QED
    BY <2>1, <2>2, <1>3 DEF RunGrows
<1>12. RunNumbers'
  BY <1>1, <1>5, <1>7, <1>9, <1>11 DEF RunGrows, RunNumbers, nx
<1> QED
  BY <1>3, <1>4, <1>12

\* The background job goes on as before.
LEMMA JobStays ==
  ASSUME FilesInv, RunGrows, job' = job
  PROVE  JobNumbers' /\ Installed'
<1>1. /\ v \in VType /\ dir \in DirType /\ Open_ /\ v.logfile \in Nat /\ v.next \in Nat /\ job \in JobType
  BY OpenHas DEF RunGrows
<1>2. DirsRecoverable' /\ Now' = Now /\ \A d \in Dirs' : d \in Dirs \/ d = dir'
  BY RunStays
<1>3. v'.logfile \in Nat
  BY NumbersAre DEF RunGrows, DirType
<1>4. /\ job.num \in Nat /\ job.edit.next \in Nat /\ job.edit.log \in Nat
  BY <1>1 DEF JobType, EditType
<1>5. JobNumbers /\ Installed
  BY DEF FilesInv
<1> DEFINE nx == v'.next
           num == job.num
           en == job.edit.next
           el == job.edit.log
<1>8. /\ nx \in Nat /\ v.next =< nx /\ dir.tables \subseteq dir'.tables
      /\ v.logfile =< v'.logfile /\ v'.live = v.live
  BY DEF RunGrows
<1>6. JobNumbers'
  <2>1. ASSUME job.stage \in Active
        PROVE /\ job.kind # "none" /\ job.num \in dir'.tables /\ job.num < v'.next
              /\ job.edit.full /\ job.edit.add = {job.num} /\ job.edit.del \subseteq v'.live
    <3>1. /\ job.kind # "none" /\ num \in dir.tables /\ num < v.next
          /\ job.edit.full /\ job.edit.add = {num} /\ job.edit.del \subseteq v.live
      BY <2>1, <1>5 DEF JobNumbers
    <3>2. num \in Nat
      BY <1>4
    <3> HIDE DEF nx, num
    <3>3. num < nx
      BY <3>1, <3>2, <1>1, <1>8
    <3> QED
      BY <3>1, <3>3, <1>8 DEF nx, num
  <2>2. ASSUME job.stage \in {"append", "sync", "install"}
        PROVE /\ job.num < job.edit.next /\ job.edit.log < job.edit.next
              /\ job.edit.log =< v'.logfile
              /\ job.edit.next =< v'.next /\ Now'.next =< job.edit.next
              /\ \A d \in Dirs' : job.num \in d.tables
    <3>1. job.edit.log =< v'.logfile /\ job.edit.next =< v'.next
      <4>1. el =< v.logfile /\ en =< v.next /\ el \in Nat /\ en \in Nat
        BY <2>2, <1>4, <1>5 DEF JobNumbers
      <4> HIDE DEF nx, el, en
      <4>2. el =< v'.logfile /\ en =< nx
        BY <4>1, <1>1, <1>3, <1>8
      <4> QED
        BY <4>2 DEF nx, el, en
    <3>2. job.num \in dir'.tables
      BY <2>1, <2>2 DEF Active
    <3> QED
      BY <3>1, <3>2, <2>2, <1>2, <1>5 DEF JobNumbers
  <2> QED
    BY <2>1, <2>2 DEF JobNumbers
<1>7. Installed'
  BY <1>1, <1>2, <1>5 DEF Installed, RunGrows
<1> QED
  BY <1>6, <1>7

\* Write keeps the files recoverable (FilesInv).
LEMMA WriteFiles ==
  ASSUME FilesInv, NEW sync \in BOOLEAN, Write(sync)
  PROVE  FilesInv'
<1> DEFINE b == [id |-> writes + 1, seq |-> v.seq + 1]
           lf == v.logfile
           f == Appended(logc[lf], b)
           g == IF sync THEN SyncedFile(f) ELSE f
           mem == v.mem \cup {b}
           sq == v.seq + 1
           ids == IF sync THEN must \cup {b.id} ELSE must
<1>1. /\ phase = "run" /\ phase' = "run" /\ dir' = dir /\ lost' \in {lost, {}} /\ manc' = manc /\ tabc' = tabc
      /\ logc' = [logc EXCEPT ![lf] = g]
      /\ v' = [v EXCEPT !.mem = mem, !.seq = sq] /\ job' = job
      /\ acked' = acked \cup {b.id} /\ must' = ids /\ overwritten' = overwritten
      /\ writes' = writes + 1 /\ crashes' = crashes /\ compactions' = compactions
  BY DEF Write, CommitDir
<1>2. /\ dir.current # None /\ v \in VType /\ dir \in DirType /\ lost \subseteq DirType
      /\ lf \in Numbers /\ v.seq \in Nat /\ v.next \in Nat /\ lf \in Nat
  BY <1>1, OpenHas
<1>3. writes \in Nat /\ logc \in [Numbers -> FileOf(Batch)] /\ v.mem \subseteq Batch
      /\ acked \subseteq Nat /\ must \subseteq Nat
  BY <1>2 DEF FilesInv, Types, DiskTypes, VType
<1>4. b \in Batch /\ b.id \in Nat /\ sq \in Nat
  BY <1>2, <1>3 DEF Batch
<1> HIDE DEF b
<1>5. g \in FileOf(Batch)
  <2>1. logc[lf] \in FileOf(Batch)
    BY <1>2, <1>3
  <2>2. f \in FileOf(Batch)
    BY <2>1, <1>4, AppendedFile
  <2> HIDE DEF f
  <2>3. SyncedFile(f) \in FileOf(Batch)
    BY <2>2, SyncedFileIs
  <2> QED
    BY <2>2, <2>3
<1>6. mem \in SUBSET Batch
  BY <1>3, <1>4
<1> HIDE DEF mem, sq, g, lf
<1>7. /\ v' \in VType
      /\ v'.edit = v.edit /\ v'.todo = v.todo /\ v'.manifest = v.manifest /\ v'.live = v.live
      /\ v'.logNo = v.logNo /\ v'.bgError = v.bgError /\ v'.pins = v.pins /\ v'.pending = v.pending
      /\ v'.next = v.next /\ v'.logfile = v.logfile
  BY <1>1, <1>2, <1>4, <1>6 DEF VType
<1>8. LiveFiles' = LiveFiles
  BY <1>7 DEF LiveFiles
<1>9. v.logfile \in dir.logs /\ (v.bgError => job.stage \in {"", "clean"})
  BY <1>1, OpenHas DEF FilesInv, RunNumbers
<1>10. RunGrows
  <2>1. /\ v'.next \in Nat /\ v.next =< v'.next /\ v'.logfile \in dir'.logs /\ v.logfile =< v'.logfile
    <3>1. v'.next = v.next /\ v'.logfile = v.logfile /\ dir' = dir /\ v.next \in Nat /\ v.logfile \in Nat
      BY <1>1, <1>2, <1>7 DEF lf
    <3>2. v'.next \in Nat /\ v.next =< v'.next
      BY <3>1
    <3>3. v.logfile =< v'.logfile
      BY <3>1
    <3>4. v'.logfile \in dir'.logs
      BY <3>1, <1>9
    <3> QED
      BY <3>2, <3>3, <3>4
  <2>2. lost' \subseteq lost \cup {dir}
    BY <1>1
  <2> QED
    BY <2>1, <2>2, <1>1, <1>2, <1>7, <1>8, <1>9 DEF RunGrows
<1>11. ids \subseteq Nat /\ acked' \subseteq Nat
  BY <1>1, <1>3, <1>4
<1>12. logc' \in [Numbers -> FileOf(Batch)]
  BY <1>1, <1>3, <1>5
<1> HIDE DEF ids
<1>13. Types' /\ ~overwritten'
  <2>1. writes' \in Nat /\ lost' \subseteq DirType
    BY <1>1, <1>2, <1>3
  <2> QED
    BY <2>1, <1>1, <1>7, <1>11, <1>12 DEF FilesInv, Types, DiskTypes
<1>14. JobNumbers' /\ Installed'
  BY <1>1, <1>10, JobStays
<1>15. DirsRecoverable' /\ RunNumbers' /\ \A d \in Dirs' : d.current # None
  BY <1>10, RunStays
<1> QED
  BY <1>1, <1>2, <1>13, <1>14, <1>15, OpenIsSound

\* SwitchMemTable keeps the files recoverable (FilesInv).
LEMMA SwitchMemTableFiles ==
  ASSUME FilesInv, SwitchMemTable
  PROVE  FilesInv'
<1> DEFINE n == v.next
           mem == v.mem
           n1 == v.next + 1
<1>1. /\ phase = "run" /\ phase' = "run" /\ n =< MaxFiles /\ manc' = manc /\ tabc' = tabc /\ ~v.bgError
      /\ dir' = [dir EXCEPT !.logs = @ \cup {n}] /\ lost' = lost \cup {dir}
      /\ logc' = [logc EXCEPT ![n] = Empty] /\ overwritten' = (overwritten \/ Clobbers("log", n))
      /\ v' = [v EXCEPT !.logfile = n, !.next = n1, !.imm = mem, !.mem = {}, !.hasImm = TRUE]
      /\ UNCHANGED <<job, acked, must, writes, crashes, compactions>>
  BY DEF SwitchMemTable, ChangeDir, Bumped, count
<1>2. /\ dir.current # None /\ v \in VType /\ dir \in DirType /\ lost \subseteq DirType /\ Open_
      /\ v.next \in Nat /\ v.next > 0 /\ v.logfile < v.next /\ v.logfile \in Nat
      /\ (\A m \in dir.logs : m \in Nat)
  BY <1>1, OpenHas
<1>3. n \in Numbers
  <2>1. MaxFiles \in Nat \/ MaxFiles \notin Nat
    OBVIOUS
  <2> QED
    BY <1>1, <1>2 DEF Numbers
<1>4. \A m \in dir.logs : m < n
  BY <1>2 DEF FilesInv, RunNumbers
<1>5. ~overwritten'
  <2>1. n \notin dir.logs
    BY <1>2, <1>4
  <2> QED
    BY <2>1, <1>1 DEF Clobbers, FilesInv
<1>6. /\ dir' \in DirType /\ dir'.current = dir.current /\ dir'.manifests = dir.manifests
      /\ dir'.tables = dir.tables /\ dir'.logs = dir.logs \cup {n}
  <2> HIDE DEF n
  <2> QED
    BY <1>1, <1>2, <1>3 DEF DirType
<1>7. /\ v' \in VType
      /\ v'.edit = v.edit /\ v'.todo = v.todo /\ v'.manifest = v.manifest /\ v'.live = v.live
      /\ v'.logNo = v.logNo /\ v'.bgError = v.bgError /\ v'.pins = v.pins /\ v'.pending = v.pending
      /\ v'.next = v.next + 1 /\ v'.logfile = v.next
  <2>1. mem \in SUBSET Batch /\ n \in Nat /\ n1 \in Nat
    BY <1>2 DEF VType
  <2> HIDE DEF mem, n, n1
  <2>2. v' \in VType
    BY <2>1, <1>1, <1>2 DEF VType
  <2>3. /\ v'.edit = v.edit /\ v'.todo = v.todo /\ v'.manifest = v.manifest /\ v'.live = v.live
      /\ v'.logNo = v.logNo /\ v'.bgError = v.bgError /\ v'.pins = v.pins /\ v'.pending = v.pending
      /\ v'.next = n1 /\ v'.logfile = n
    BY <1>1, <1>2 DEF VType
  <2> QED
    BY <2>2, <2>3 DEF n, n1
<1>8. LiveFiles' = LiveFiles
  BY <1>7 DEF LiveFiles
<1>9. RunGrows
  <2>1. /\ v'.next \in Nat /\ v.next =< v'.next /\ v'.logfile \in dir'.logs /\ v.logfile =< v'.logfile
        /\ n < v'.next
    BY <1>1, <1>2, <1>6, <1>7
  <2> QED
    BY <2>1, <1>1, <1>2, <1>6, <1>7, <1>8 DEF RunGrows
<1>10. Types'
  <2>1. logc' \in [Numbers -> FileOf(Batch)]
    BY <1>1, EmptyFile DEF FilesInv, Types, DiskTypes
  <2>2. lost' \subseteq DirType
    BY <1>1, <1>2
  <2>3. overwritten' \in BOOLEAN
    BY <1>1 DEF FilesInv, Types, Clobbers
  <2> QED
    BY <2>1, <2>2, <2>3, <1>1, <1>6, <1>7 DEF FilesInv, Types, DiskTypes
<1>11. JobNumbers' /\ Installed'
  BY <1>1, <1>9, JobStays
<1>12. DirsRecoverable' /\ RunNumbers' /\ \A d \in Dirs' : d.current # None
  BY <1>9, RunStays
<1> QED
  BY <1>1, <1>2, <1>5, <1>6, <1>10, <1>11, <1>12, OpenIsSound


\* StartTable keeps the files recoverable (FilesInv).
LEMMA StartTableFiles ==
  ASSUME FilesInv, NEW kind \in {"mem", "comp"}, NEW ents \in SUBSET Batch, NEW del \in SUBSET v.live,
         StartTable(kind, ents, del), compactions' \in Nat
  PROVE  FilesInv'
<1> DEFINE n == v.next
           n1 == v.next + 1
           pn == v.pending \cup {n}
           ed == Edit({n}, del, None, None, 0)
<1>1. /\ phase = "run" /\ phase' = "run" /\ job = NoJob /\ ~v.bgError /\ n =< MaxFiles
      /\ dir' = [dir EXCEPT !.tables = @ \cup {n}] /\ lost' = lost \cup {dir}
      /\ tabc' = [tabc EXCEPT ![n] = {}] /\ overwritten' = (overwritten \/ Clobbers("table", n))
      /\ v' = [v EXCEPT !.next = n1, !.pending = pn]
      /\ job' = [kind |-> kind, stage |-> "build", num |-> n, ents |-> ents, edit |-> ed]
      /\ UNCHANGED <<logc, manc, acked, must, writes, crashes>>
  BY DEF StartTable, ChangeDir, Bumped
<1>2. /\ dir.current # None /\ v \in VType /\ dir \in DirType /\ lost \subseteq DirType /\ Open_
      /\ v.next \in Nat /\ v.next > 0 /\ v.logfile \in Nat
      /\ (\A t \in dir.tables : t \in Nat)
  BY <1>1, OpenHas
<1>3. n \in Numbers
  BY <1>1, <1>2 DEF Numbers
<1>4. /\ (\A t \in LiveFiles \cup v.pending : t < n) /\ v.logfile \in dir.logs
      /\ v.live \subseteq Numbers /\ v.pending \subseteq Numbers
  BY <1>2 DEF FilesInv, RunNumbers, VType
<1>5. ~overwritten'
  <2>1. n \notin LiveFiles \cup v.pending
    BY <1>2, <1>4
  <2> QED
    BY <2>1, <1>1 DEF Clobbers, FilesInv
<1>6. /\ dir' \in DirType /\ dir'.current = dir.current /\ dir'.manifests = dir.manifests
      /\ dir'.tables = dir.tables \cup {n} /\ dir'.logs = dir.logs
  <2> HIDE DEF n
  <2> QED
    BY <1>1, <1>2, <1>3 DEF DirType
<1>7. /\ v' \in VType
      /\ v'.edit = v.edit /\ v'.todo = v.todo /\ v'.manifest = v.manifest /\ v'.live = v.live
      /\ v'.logNo = v.logNo /\ v'.bgError = v.bgError /\ v'.pins = v.pins
      /\ v'.pending = v.pending \cup {v.next} /\ v'.next = v.next + 1 /\ v'.logfile = v.logfile
  <2>1. pn \in SUBSET Numbers /\ n1 \in Nat
    BY <1>2, <1>3, <1>4
  <2> HIDE DEF pn, n, n1
  <2>2. v' \in VType
    BY <2>1, <1>1, <1>2 DEF VType
  <2>3. /\ v'.edit = v.edit /\ v'.todo = v.todo /\ v'.manifest = v.manifest /\ v'.live = v.live
      /\ v'.logNo = v.logNo /\ v'.bgError = v.bgError /\ v'.pins = v.pins
      /\ v'.pending = pn /\ v'.next = n1 /\ v'.logfile = v.logfile
    BY <1>1, <1>2 DEF VType
  <2> QED
    BY <2>2, <2>3 DEF n, n1, pn
<1>8. LiveFiles' = LiveFiles
  BY <1>7 DEF LiveFiles
<1>9. RunGrows
  <2>1. v'.next \in Nat /\ v.next =< v'.next /\ n < v'.next
    BY <1>2, <1>7
  <2>2. v'.logfile \in dir'.logs /\ v.logfile =< v'.logfile
    BY <1>2, <1>4, <1>6, <1>7
  <2>3. lost' \subseteq lost \cup {dir} /\ manc' = manc /\ phase = "run" /\ phase' = "run" /\ ~v.bgError
    BY <1>1
  <2>4. \A t \in v'.pending : t \in v.pending \/ t < v'.next
    BY <2>1, <1>7
  <2> QED
    BY <2>1, <2>2, <2>3, <2>4, <1>6, <1>7, <1>8 DEF RunGrows
<1>10. /\ ed \in EditType /\ ed.full /\ ed.add = {n} /\ ed.del = del
  <2> HIDE DEF n
  <2> QED
    BY <1>3, <1>4 DEF EditType, Edit, None
<1> HIDE DEF ed
<1>11. job' \in JobType /\ job'.stage = "build"
  <2>1. n \in Nat
    BY <1>2
  <2> HIDE DEF n
  <2> QED
    BY <2>1, <1>1, <1>10 DEF JobType, Stages
<1>12. Types'
  <2>1. tabc' \in [Numbers -> SUBSET Batch]
    BY <1>1 DEF FilesInv, Types, DiskTypes
  <2>2. lost' \subseteq DirType
    BY <1>1, <1>2
  <2>3. overwritten' \in BOOLEAN
    BY <1>1 DEF FilesInv, Types, Clobbers
  <2> QED
    BY <2>1, <2>2, <2>3, <1>1, <1>6, <1>7, <1>11 DEF FilesInv, Types, DiskTypes
<1>13. DirsRecoverable' /\ Now' = Now /\ RunNumbers' /\ \A d \in Dirs' : d.current # None
  BY <1>9, RunStays
<1>14. JobNumbers'
  <2>1. v.next < v.next + 1
    BY <1>2
  <2> QED
    BY <2>1, <1>1, <1>6, <1>7, <1>10, <1>11 DEF JobNumbers, Active
<1>15. Installed'
  <2>1. job.stage = ""
    BY <1>1, FreshIs
  <2> QED
    BY <2>1, <1>1, <1>2, <1>6, <1>7, <1>11, <1>13 DEF FilesInv, Installed
<1> QED
  BY <1>1, <1>2, <1>5, <1>6, <1>12, <1>13, <1>14, <1>15, OpenIsSound

\* CompactMemTable keeps the files recoverable (FilesInv).
LEMMA CompactMemTableFiles ==
  ASSUME FilesInv, CompactMemTable
  PROVE  FilesInv'
<1>1. v.imm \in SUBSET Batch /\ compactions \in Nat
  BY DEF FilesInv, Types, VType
<1> QED
  BY <1>1, StartTableFiles DEF CompactMemTable

\* DoCompactionWork keeps the files recoverable (FilesInv).
LEMMA DoCompactionWorkFiles ==
  ASSUME FilesInv, DoCompactionWork
  PROVE  FilesInv'
<1>1. compactions' \in Nat
  BY DEF FilesInv, Types, DoCompactionWork
<1>2. PICK T \in SUBSET v.live \ {{}} : StartTable("comp", UNION {tabc[t] : t \in T}, T)
  BY DEF DoCompactionWork
<1>3. UNION {tabc[t] : t \in T} \in SUBSET Batch
  BY DEF FilesInv, Types, DiskTypes, VType
<1> QED
  BY <1>1, <1>2, <1>3, StartTableFiles

\* The background thread works while the database is open, and no error stopped it.
LEMMA JobRuns ==
  ASSUME FilesInv, job.stage \in Active \cup {"clean"}
  PROVE  phase = "run" /\ (job.stage \in Active => ~v.bgError)
<1>1. phase = "run"
  BY FreshIs DEF FilesInv, AtRest, Active
<1>2. Open_
  BY <1>1 DEF Open_
<1> QED
  BY <1>1, <1>2 DEF FilesInv, RunNumbers, Active

\* FinishTable keeps the files recoverable (FilesInv).
LEMMA FinishTableFiles ==
  ASSUME FilesInv, FinishTable
  PROVE  FilesInv'
<1> DEFINE lg == IF job.kind = "mem" THEN v.logfile ELSE v.logNo
           pn == IF job.kind = "mem" THEN v.pending \ {job.num} ELSE v.pending
           nx == v.next
           sq == v.seq
           ed == [job.edit EXCEPT !.log = lg, !.next = nx, !.seq = sq]
<1>1. /\ job.stage = "build" /\ tabc' = [tabc EXCEPT ![job.num] = job.ents] /\ dir' = dir /\ lost' = {}
      /\ v' = [v EXCEPT !.pending = pn] /\ job' = [job EXCEPT !.stage = "append", !.edit = ed]
      /\ UNCHANGED <<logc, manc, phase, acked, must, overwritten, writes, crashes, compactions>>
  BY DEF FinishTable, CommitDir, ghost, count
<1>2. phase = "run" /\ ~v.bgError
  BY <1>1, JobRuns DEF Active
<1>3. /\ dir.current # None /\ v \in VType /\ dir \in DirType /\ job \in JobType /\ Open_
      /\ v.next \in Nat /\ v.logfile \in Nat /\ v.logNo \in Nat /\ v.seq \in Nat /\ v.logfile < v.next
  BY <1>2, OpenHas
<1>4. /\ job.kind # "none" /\ job.num \in dir.tables /\ job.num < v.next
      /\ job.edit.full /\ job.edit.add = {job.num} /\ job.edit.del \subseteq v.live
  BY <1>1 DEF FilesInv, JobNumbers, Active
<1>5. job.edit \in EditType /\ job.ents \in SUBSET Batch /\ job.num \in Nat
  BY <1>3 DEF JobType
<1>6. v.logfile \in dir.logs /\ v.logNo =< v.logfile /\ Now.next =< v.next
  BY <1>3 DEF FilesInv, RunNumbers
<1>7. lg \in Nat /\ pn \in SUBSET Numbers /\ lg =< v.logfile /\ lg < v.next
  BY <1>3, <1>6 DEF VType
<1>8. /\ v' \in VType
      /\ v'.edit = v.edit /\ v'.todo = v.todo /\ v'.manifest = v.manifest /\ v'.live = v.live
      /\ v'.logNo = v.logNo /\ v'.bgError = v.bgError /\ v'.pins = v.pins
      /\ v'.next = v.next /\ v'.logfile = v.logfile /\ v'.pending = pn /\ pn \subseteq v.pending
  <2>1. pn \subseteq v.pending
    OBVIOUS
  <2> HIDE DEF pn
  <2> QED
    BY <2>1, <1>1, <1>3, <1>7 DEF VType
<1>9. /\ ed \in EditType /\ ed.full /\ ed.add = {job.num} /\ ed.del = job.edit.del
      /\ ed.log = lg /\ ed.next = nx
  <2>1. nx \in Nat /\ sq \in Nat
    BY <1>3
  <2> HIDE DEF lg, nx, sq
  <2> QED
    BY <2>1, <1>4, <1>5, <1>7 DEF EditType
<1> HIDE DEF ed, lg
<1>10. /\ job' \in JobType /\ job'.stage = "append" /\ job'.edit = ed /\ job'.num = job.num
       /\ job'.kind = job.kind
  BY <1>1, <1>3, <1>9 DEF JobType, Stages
<1>11. LiveFiles' = LiveFiles
  BY <1>8 DEF LiveFiles
<1>12. RunGrows
  <2>1. v'.next \in Nat /\ v.next =< v'.next
    BY <1>3, <1>8
  <2>2. v.logfile =< v'.logfile
    BY <1>3, <1>8
  <2>3. v'.logfile \in dir'.logs
    BY <1>1, <1>6, <1>8
  <2>4. lost' \subseteq lost \cup {dir} /\ manc' = manc /\ phase' = "run"
    BY <1>1, <1>2
  <2> HIDE DEF pn
  <2> QED
    BY <2>1, <2>2, <2>3, <2>4, <1>1, <1>2, <1>3, <1>8, <1>11 DEF RunGrows
<1>13. DirsRecoverable' /\ Now' = Now /\ RunNumbers' /\ \A d \in Dirs' : d.current # None
  BY <1>12, RunStays
<1>14. Dirs' = {dir}
  BY <1>1 DEF Dirs
<1>15. JobNumbers'
  BY <1>1, <1>3, <1>4, <1>6, <1>7, <1>8, <1>9, <1>10, <1>13, <1>14 DEF JobNumbers, Active
<1>16. Installed'
  BY <1>1, <1>2, <1>3, <1>8, <1>10, <1>13 DEF FilesInv, Installed
<1>17. Types' /\ ~overwritten'
  <2>1. tabc' \in [Numbers -> SUBSET Batch]
    BY <1>1, <1>5 DEF FilesInv, Types, DiskTypes
  <2> QED
    BY <2>1, <1>1, <1>3, <1>8, <1>10 DEF FilesInv, Types, DiskTypes
<1> QED
  BY <1>1, <1>2, <1>3, <1>13, <1>15, <1>16, <1>17, OpenIsSound

\* A sequence with one more element.
LEMMA RangeOfAppend ==
  ASSUME NEW S, NEW s \in Seq(S), NEW x \in S
  PROVE  Range(Append(s, x)) = Range(s) \cup {x}
<1> DEFINE t == Append(s, x)
           n == Len(s)
<1>1. /\ DOMAIN t = 1..(n + 1) /\ DOMAIN s = 1..n /\ n \in Nat
      /\ (\A i \in 1..n : t[i] = s[i]) /\ t[n + 1] = x
  OBVIOUS
<1> HIDE DEF t, n
<1>2. Range(t) \subseteq Range(s) \cup {x}
  <2> SUFFICES ASSUME NEW i \in 1..(n + 1) PROVE t[i] \in Range(s) \cup {x}
    BY <1>1 DEF Range
  <2>1. i \in 1..n \/ i = n + 1
    BY <1>1
  <2> QED
    BY <2>1, <1>1 DEF Range
<1>3. Range(s) \subseteq Range(t)
  <2> SUFFICES ASSUME NEW i \in 1..n PROVE s[i] \in Range(t)
    BY <1>1 DEF Range
  <2>1. i \in 1..(n + 1) /\ t[i] = s[i]
    BY <1>1
  <2> QED
    BY <2>1, <1>1 DEF Range
<1>4. x \in Range(t)
  <2>1. n + 1 \in 1..(n + 1)
    BY <1>1
  <2> QED
    BY <2>1, <1>1 DEF Range
<1> QED
  BY <1>2, <1>3, <1>4 DEF t

\* NewIterator keeps the files recoverable (FilesInv).
LEMMA NewIteratorFiles ==
  ASSUME FilesInv, NewIterator
  PROVE  FilesInv'
<1> DEFINE pins == Append(v.pins, v.live)
<1>1. /\ phase = "run" /\ phase' = "run" /\ v' = [v EXCEPT !.pins = pins]
      /\ UNCHANGED <<dir, lost, logc, manc, tabc, acked, must, overwritten, writes, crashes, compactions, job>>
  BY DEF NewIterator, disk, Quiet, ghost, count
<1>2. /\ dir.current # None /\ v \in VType /\ dir \in DirType /\ lost \subseteq DirType /\ Open_
      /\ v.next \in Nat /\ v.logfile \in Nat
  BY <1>1, OpenHas
<1>3. v.pins \in Seq(SUBSET Numbers) /\ v.live \in SUBSET Numbers
  BY <1>2 DEF VType
<1>4. pins \in Seq(SUBSET Numbers) /\ Range(pins) = Range(v.pins) \cup {v.live}
  BY <1>3, RangeOfAppend
<1> HIDE DEF pins
<1>5. /\ v' \in VType
      /\ v'.edit = v.edit /\ v'.todo = v.todo /\ v'.manifest = v.manifest /\ v'.live = v.live
      /\ v'.logNo = v.logNo /\ v'.bgError = v.bgError /\ v'.pins = pins /\ v'.pending = v.pending
      /\ v'.next = v.next /\ v'.logfile = v.logfile
  BY <1>1, <1>2, <1>4 DEF VType
<1>6. LiveFiles' = LiveFiles
  BY <1>4, <1>5 DEF LiveFiles
<1>7. v.logfile \in dir.logs /\ (v.bgError => job.stage \in {"", "clean"})
  BY <1>2 DEF FilesInv, RunNumbers
<1>8. RunGrows
  <2>1. v'.next \in Nat /\ v.next =< v'.next
    BY <1>2, <1>5
  <2>2. v.logfile =< v'.logfile
    BY <1>2, <1>5
  <2>3. v'.logfile \in dir'.logs
    BY <1>1, <1>5, <1>7
  <2> QED
    BY <2>1, <2>2, <2>3, <1>1, <1>2, <1>5, <1>6, <1>7 DEF RunGrows
<1>9. Types' /\ ~overwritten'
  BY <1>1, <1>5 DEF FilesInv, Types, DiskTypes
<1> QED
  BY <1>1, <1>2, <1>8, <1>9, RunStays, JobStays, OpenIsSound


\* What is known of the job that is about to change the manifest.
LEMMA EditIs ==
  ASSUME FilesInv, job.stage \in {"append", "sync", "install"}
  PROVE  /\ phase = "run" /\ ~v.bgError /\ job \in JobType /\ job.edit \in EditType /\ job.edit.full
         /\ job.num \in Nat /\ job.num \in dir.tables /\ job.num < v.next
         /\ job.edit.add = {job.num} /\ job.edit.del \subseteq v.live
         /\ job.edit.log \in Nat /\ job.edit.next \in Nat /\ job.edit.seq \in Nat
         /\ job.num < job.edit.next /\ job.edit.log < job.edit.next /\ job.edit.log =< v.logfile
         /\ job.edit.next =< v.next /\ Now.next =< job.edit.next
         /\ \A d \in Dirs : job.num \in d.tables
<1>1. phase = "run" /\ ~v.bgError
  BY JobRuns DEF Active
<1>2. job \in JobType
  BY DEF FilesInv, Types
<1>3. job.edit \in EditType /\ job.num \in Nat
  BY <1>2 DEF JobType
<1>4. job.edit.log \in Nat /\ job.edit.next \in Nat /\ job.edit.seq \in Nat
  BY <1>3 DEF EditType
<1> QED
  BY <1>1, <1>2, <1>3, <1>4 DEF FilesInv, JobNumbers, Active

\* The edit of a job is appended to the manifest: the state after it can be recovered as
\* well.
LEMMA AppendsEdit ==
  ASSUME FilesInv, job.stage = "append", UNCHANGED <<dir, lost>>,
         manc' = [manc EXCEPT ![v.manifest] = Appended(@, job.edit)]
  PROVE  /\ DirsRecoverable' /\ manc' \in [Numbers -> FileOf(EditType)] /\ Dirs' = Dirs
         /\ Now'.live = (v.live \ job.edit.del) \cup job.edit.add /\ Now'.log = job.edit.log
         /\ Now'.next = job.edit.next /\ Now'.seq = job.edit.seq
         /\ \A n \in Numbers \ {v.manifest} : manc'[n] = manc[n]
         /\ manc'[v.manifest] = Appended(manc[v.manifest], job.edit)
<1> DEFINE m == v.manifest
           f == manc[m]
           e == job.edit
<1>1. /\ phase = "run" /\ ~v.bgError /\ e \in EditType /\ e.full
      /\ e.add = {job.num} /\ e.log \in Nat /\ e.next \in Nat
      /\ job.num < e.next /\ e.log < e.next /\ Now.next =< e.next
      /\ \A d \in Dirs : job.num \in d.tables
  BY EditIs
<1>2. /\ dir.current # None /\ Open_ /\ dir.current = m /\ m \in Numbers
      /\ (\A d \in Dirs : d.current # None)
  BY <1>1, OpenHas
<1>3. v.live = Now.live
  BY <1>1, <1>2 DEF FilesInv, Installed
<1>4. manc \in [Numbers -> FileOf(EditType)] /\ f \in FileOf(EditType)
  BY <1>2 DEF FilesInv, Types, DiskTypes
<1>5. Appended(f, e) \in FileOf(EditType) /\ Appended(f, e).recs = Append(f.recs, e)
  BY <1>1, <1>4, AppendedFile
<1>6. /\ manc' \in [Numbers -> FileOf(EditType)] /\ manc'[m] = Appended(f, e)
      /\ \A n \in Numbers \ {m} : manc'[n] = manc[n]
  BY <1>2, <1>4, <1>5
<1>7. f.recs \in Seq(EditType)
  BY <1>4 DEF FileOf
<1>8. Now' = [live |-> (Now.live \ e.del) \cup e.add, log |-> e.log, next |-> e.next,
              seq |-> e.seq, any |-> TRUE]
  <2>1. Now = Replay(f.recs) /\ Now' = Replay(Append(f.recs, e))
    BY <1>2, <1>5, <1>6 DEF Now
  <2> HIDE DEF f, e, m
  <2> QED
    BY <2>1, <1>1, <1>7, ReplayAppend
<1>9. Dirs' = Dirs
  BY DEF Dirs
<1>10. Now.next \in Nat /\ UpTo(f, Len(f.recs)) = Now
  BY <1>2, CurrentIs
<1>11. DirsRecoverable'
  <2> SUFFICES ASSUME NEW d \in Dirs PROVE Recoverable(d, manc'[d.current], e.next, dir.logs)
    BY <1>8, <1>9 DEF DirsRecoverable
  <2>1. /\ d \in DirType /\ d.current \in Numbers /\ manc[d.current] \in FileOf(EditType)
        /\ Recoverable(d, manc[d.current], Now.next, dir.logs)
    BY <1>2, DirsAre
  <2>2. CASE d.current = m
    <3>1. e.add \subseteq d.tables /\ \A t \in e.add : t < e.next
      BY <1>1
    <3>2. Recoverable(d, f, Now.next, dir.logs) /\ UpTo(f, Len(f.recs)).next =< e.next
      BY <2>1, <2>2, <1>1, <1>10
    <3>3. e.next =< e.next
      BY <1>1
    <3> HIDE DEF f, e
    <3>4. Recoverable(d, Appended(f, e), e.next, dir.logs)
      BY <3>1, <3>2, <3>3, <2>1, <1>1, <1>4, <1>10, RecoverableAppend
    <3> QED
      BY <3>4, <2>2, <1>6
  <2>3. CASE d.current # m
    <3>1. manc'[d.current] = manc[d.current]
      BY <2>1, <2>3, <1>6
    <3>2. /\ d.current \in d.manifests /\ (\A n \in d.logs : n \in dir.logs \/ n < Now.next)
          /\ \A k \in Ends(manc[d.current]) : UpTo(manc[d.current], k).live \subseteq d.tables
      BY <2>1 DEF Recoverable, Sound
    <3>3. \A n \in d.logs : n \in dir.logs \/ n < e.next
      <4>1. \A n \in d.logs : n \in Nat
        BY <2>1, NumbersAre DEF DirType
      <4> QED
        BY <4>1, <3>2, <1>1, <1>10
    <3> HIDE DEF e
    <3> QED
      BY <3>1, <3>2, <3>3, <2>1, <1>1, <1>10, RecoverableStays
  <2> QED
    BY <2>2, <2>3
<1> QED
  BY <1>3, <1>6, <1>8, <1>9, <1>11

\* AppendEdit keeps the files recoverable (FilesInv).
LEMMA AppendEditFiles ==
  ASSUME FilesInv, AppendEdit
  PROVE  FilesInv'
<1>1. /\ job.stage = "append" /\ manc' = [manc EXCEPT ![v.manifest] = Appended(@, job.edit)]
      /\ job' = [job EXCEPT !.stage = "sync"]
      /\ UNCHANGED <<dir, lost, logc, tabc, phase, v, acked, must, overwritten, writes, crashes, compactions>>
  BY DEF AppendEdit, ghost, count
<1>2. /\ DirsRecoverable' /\ manc' \in [Numbers -> FileOf(EditType)] /\ Dirs' = Dirs
      /\ Now'.live = (v.live \ job.edit.del) \cup job.edit.add /\ Now'.log = job.edit.log
      /\ Now'.next = job.edit.next
  BY <1>1, AppendsEdit
<1>3. /\ phase = "run" /\ ~v.bgError /\ job \in JobType /\ job.edit.next =< v.next /\ job.edit.next \in Nat
  BY <1>1, EditIs
<1>4. dir.current # None /\ Open_ /\ v.next \in Nat /\ \A d \in Dirs : d.current # None
  BY <1>3, OpenHas
<1>5. /\ job' \in JobType /\ job'.stage = "sync" /\ job'.edit = job.edit /\ job'.num = job.num
      /\ job'.kind = job.kind
  BY <1>1, <1>3 DEF JobType, Stages
<1>6. LiveFiles' = LiveFiles
  BY <1>1 DEF LiveFiles
<1>7. RunNumbers'
  BY <1>1, <1>2, <1>3, <1>4, <1>6 DEF FilesInv, RunNumbers
<1>8. JobNumbers'
  <2>1. job.edit.next =< job.edit.next
    BY <1>3
  <2> QED
    BY <2>1, <1>1, <1>2, <1>5 DEF FilesInv, JobNumbers, Active
<1>9. Installed'
  BY <1>1, <1>2, <1>5 DEF Installed
<1>10. Types' /\ ~overwritten'
  BY <1>1, <1>2, <1>5 DEF FilesInv, Types, DiskTypes
<1> QED
  BY <1>1, <1>2, <1>3, <1>4, <1>7, <1>8, <1>9, <1>10, OpenIsSound

\* SyncEdit keeps the files recoverable (FilesInv).
LEMMA SyncEditFiles ==
  ASSUME FilesInv, SyncEdit
  PROVE  FilesInv'
<1> DEFINE m == v.manifest
           f == manc[m]
<1>1. /\ job.stage = "sync" /\ manc' = [manc EXCEPT ![m] = SyncedFile(f)]
      /\ job' = [job EXCEPT !.stage = "install"] /\ dir' = dir /\ lost' = {}
      /\ UNCHANGED <<logc, tabc, phase, v, acked, must, overwritten, writes, crashes, compactions>>
  BY DEF SyncEdit, SyncsManifest, CommitDir, ghost, count
<1>2. /\ phase = "run" /\ ~v.bgError /\ job \in JobType
  BY <1>1, EditIs
<1>3. dir.current # None /\ Open_ /\ v.next \in Nat /\ dir.current = m /\ m \in Numbers /\ dir \in DirType
  BY <1>2, OpenHas
<1>4. manc \in [Numbers -> FileOf(EditType)] /\ f \in FileOf(EditType)
  BY <1>3 DEF FilesInv, Types, DiskTypes
<1>5. SyncedFile(f) \in FileOf(EditType) /\ SyncedFile(f).recs = f.recs /\ Settled(SyncedFile(f))
  BY <1>4, SyncedFileIs
<1>6. manc' \in [Numbers -> FileOf(EditType)] /\ manc'[m] = SyncedFile(f)
  BY <1>1, <1>3, <1>4, <1>5
<1>7. Now' = Now
  BY <1>1, <1>3, <1>5, <1>6 DEF Now
<1>8. Dirs' = {dir}
  BY <1>1 DEF Dirs
<1>9. DirsRecoverable'
  <2>1. Recoverable(dir, f, Now.next, dir.logs)
    BY <1>3, CurrentIs
  <2>2. Recoverable(dir, SyncedFile(f), Now.next, dir.logs)
    BY <2>1, <1>4, RecoverableSync
  <2> QED
    BY <2>2, <1>1, <1>3, <1>6, <1>7, <1>8 DEF DirsRecoverable
<1>10. /\ job' \in JobType /\ job'.stage = "install" /\ job'.edit = job.edit /\ job'.num = job.num
      /\ job'.kind = job.kind
  BY <1>1, <1>2 DEF JobType, Stages
<1>11. LiveFiles' = LiveFiles
  BY <1>1 DEF LiveFiles
<1>12. RunNumbers'
  BY <1>1, <1>2, <1>3, <1>7, <1>11 DEF FilesInv, RunNumbers
<1>13. JobNumbers'
  <2>1. dir \in Dirs
    BY <1>3, CurrentIs
  <2> QED
    BY <2>1, <1>1, <1>7, <1>8, <1>10 DEF FilesInv, JobNumbers, Active
<1>14. Installed'
  BY <1>1, <1>3, <1>5, <1>6, <1>7, <1>10 DEF FilesInv, Installed
<1>15. Types' /\ ~overwritten'
  BY <1>1, <1>3, <1>6, <1>10 DEF FilesInv, Types, DiskTypes
<1> QED
  BY <1>1, <1>2, <1>3, <1>8, <1>9, <1>12, <1>13, <1>14, <1>15, OpenIsSound

\* Install keeps the files recoverable (FilesInv).
LEMMA InstallFiles ==
  ASSUME FilesInv, Install
  PROVE  FilesInv'
<1> DEFINE lv == (v.live \ job.edit.del) \cup job.edit.add
           lg == job.edit.log
           pn == v.pending \ {job.num}
           im == IF job.kind = "mem" THEN {} ELSE v.imm
           hi == IF job.kind = "mem" THEN FALSE ELSE v.hasImm
<1>1. /\ job.stage = "install"
      /\ v' = [v EXCEPT !.live = lv, !.logNo = lg, !.pending = pn, !.imm = im, !.hasImm = hi]
      /\ job' = [NoJob EXCEPT !.stage = "clean"] /\ UNCHANGED disk
      /\ UNCHANGED <<phase, acked, must, overwritten, writes, crashes, compactions>>
  BY DEF Install, MayInstall, ghost, count
<1>2. /\ phase = "run" /\ ~v.bgError /\ job.num \in dir.tables /\ job.num < v.next
      /\ job.edit.add = {job.num} /\ job.edit.log \in Nat /\ job.edit.log =< v.logfile
  BY <1>1, EditIs
<1>3. /\ dir.current # None /\ v \in VType /\ dir \in DirType /\ Open_ /\ v.next \in Nat /\ v.logfile \in Nat
      /\ (\A d \in Dirs : d.current # None)
  BY <1>2, OpenHas
<1>4. /\ DirsRecoverable' /\ Now' = Now /\ Dirs' = Dirs /\ DiskTypes'
      /\ dir' = dir /\ lost' = lost /\ logc' = logc /\ manc' = manc /\ tabc' = tabc
  BY <1>1, DiskStays
<1>5. /\ lv \in SUBSET Numbers /\ lg \in Nat /\ pn \in SUBSET Numbers /\ im \in SUBSET Batch
      /\ hi \in BOOLEAN
  BY <1>2, <1>3 DEF VType, DirType
<1>6. /\ Now.live = lv /\ Now.log = lg /\ Settled(manc[dir.current])
  BY <1>1, <1>3 DEF FilesInv, Installed
<1>7. lv \subseteq v.live \cup {job.num} /\ pn \subseteq v.pending
  BY <1>2
<1>8. /\ v' \in VType
      /\ v'.edit = v.edit /\ v'.todo = v.todo /\ v'.manifest = v.manifest /\ v'.live = lv
      /\ v'.logNo = lg /\ v'.bgError = v.bgError /\ v'.pins = v.pins /\ v'.pending = pn
      /\ v'.next = v.next /\ v'.logfile = v.logfile
  <2> HIDE DEF lv, lg, pn, im, hi
  <2>1. v' \in VType
    BY <1>1, <1>3, <1>5 DEF VType
  <2> QED
    BY <2>1, <1>1, <1>3 DEF VType
<1>9. LiveFiles' \subseteq LiveFiles \cup {job.num}
  BY <1>7, <1>8 DEF LiveFiles
<1>10. job' \in JobType /\ job'.stage = "clean"
  BY <1>1, FreshIs DEF JobType, Stages
<1> HIDE DEF lv, lg, pn, im, hi
<1>11. RunNumbers'
  <2>1. /\ v.edit = {} /\ v.todo = {} /\ dir.current = v.manifest /\ v.logfile \in dir.logs
        /\ (\A n \in dir.logs : n < v.next) /\ LiveFiles \subseteq dir.tables
        /\ (\A t \in LiveFiles \cup v.pending : t < v.next) /\ Now.next =< v.next
    BY <1>3 DEF FilesInv, RunNumbers
  <2>2. LiveFiles' \subseteq dir.tables /\ \A t \in LiveFiles' \cup pn : t < v.next
    BY <2>1, <1>2, <1>7, <1>9
  <2>3. lg =< v.logfile
    BY <1>2 DEF lg
  <2> QED
    BY <2>1, <2>2, <2>3, <1>1, <1>2, <1>4, <1>8 DEF RunNumbers
<1>12. JobNumbers' /\ Installed'
  BY <1>4, <1>6, <1>8, <1>10 DEF JobNumbers, Installed, Active
<1>13. Types' /\ ~overwritten'
  BY <1>1, <1>4, <1>8, <1>10 DEF FilesInv, Types
<1> QED
  BY <1>1, <1>2, <1>3, <1>4, <1>11, <1>12, <1>13, OpenIsSound

\* EditFails keeps the files recoverable (FilesInv).
LEMMA EditFailsFiles ==
  ASSUME FilesInv, EditFails
  PROVE  FilesInv'
<1> DEFINE pn == v.pending \ {job.num}
           added == [manc EXCEPT ![v.manifest] = Appended(@, job.edit)]
<1>1. /\ job.stage \in {"append", "sync"}
      /\ manc' = manc \/ (job.stage = "append" /\ manc' = added)
      /\ v' = [v EXCEPT !.bgError = TRUE, !.pending = pn]
      /\ job' \in {NoJob, [NoJob EXCEPT !.stage = "clean"]}
      /\ UNCHANGED <<dir, lost, logc, tabc, phase, acked, must, overwritten, writes, crashes, compactions>>
  <2>1. /\ job.stage \in {"append", "sync"}
        /\ v' = [v EXCEPT !.bgError = TRUE, !.pending = pn]
        /\ job' \in {NoJob, [NoJob EXCEPT !.stage = "clean"]}
        /\ UNCHANGED <<dir, lost, logc, tabc, phase, acked, must, overwritten, writes, crashes, compactions>>
    BY DEF EditFails, ghost, count
  <2>2. manc' = manc \/ (job.stage = "append" /\ manc' = added)
    <3>1. CASE job.stage = "append"
      BY <3>1 DEF EditFails
    <3>2. CASE job.stage # "append"
      <4>1. manc \in [Numbers -> FileOf(EditType)]
        BY DEF FilesInv, Types, DiskTypes
      <4> QED
        BY <4>1, <3>2 DEF EditFails
    <3> QED
      BY <3>1, <3>2
  <2> QED
    BY <2>1, <2>2
<1>2. /\ phase = "run" /\ job.edit.next =< v.next /\ job.edit.next \in Nat
  BY <1>1, EditIs
<1>3. /\ dir.current # None /\ v \in VType /\ Open_ /\ v.next \in Nat
      /\ (\A d \in Dirs : d.current # None)
  BY <1>2, OpenHas
<1>4. Now.next =< v.next /\ manc \in [Numbers -> FileOf(EditType)]
  BY <1>3 DEF FilesInv, RunNumbers, Types, DiskTypes
<1>5. /\ DirsRecoverable' /\ manc' \in [Numbers -> FileOf(EditType)] /\ Dirs' = Dirs
      /\ Now'.next =< v.next
  <2>1. CASE manc' = manc
    <3>1. UNCHANGED disk
      BY <2>1, <1>1 DEF disk
    <3> QED
      BY <3>1, <2>1, <1>4, DiskStays
  <2>2. CASE job.stage = "append" /\ manc' = added
    BY <2>2, <1>1, <1>2, AppendsEdit
  <2> QED
    BY <2>1, <2>2, <1>1
<1>6. pn \in SUBSET Numbers /\ pn \subseteq v.pending
  BY <1>3 DEF VType
<1> HIDE DEF pn, added
<1>7. /\ v' \in VType
      /\ v'.edit = v.edit /\ v'.todo = v.todo /\ v'.manifest = v.manifest /\ v'.live = v.live
      /\ v'.logNo = v.logNo /\ v'.bgError /\ v'.pins = v.pins /\ v'.pending = pn
      /\ v'.next = v.next /\ v'.logfile = v.logfile
  BY <1>1, <1>3, <1>6 DEF VType
<1>8. job' \in JobType /\ job'.stage \in {"", "clean"}
  BY <1>1, FreshIs DEF JobType, Stages
<1>9. LiveFiles' = LiveFiles
  BY <1>7 DEF LiveFiles
<1>10. RunNumbers'
  BY <1>1, <1>2, <1>3, <1>5, <1>6, <1>7, <1>8, <1>9 DEF FilesInv, RunNumbers
<1>11. JobNumbers' /\ Installed'
  BY <1>7, <1>8 DEF JobNumbers, Installed, Active
<1>12. Types' /\ ~overwritten'
  BY <1>1, <1>5, <1>7, <1>8 DEF FilesInv, Types, DiskTypes
<1> QED
  BY <1>1, <1>2, <1>3, <1>5, <1>10, <1>11, <1>12, OpenIsSound


\* A crash of the machine leaves a beginning of a file, at least what was synced.
LEMMA CrashedFiles ==
  ASSUME NEW R, NEW f \in [Numbers -> FileOf(R)], NEW nums, NEW g \in AfterCrash(f, nums)
  PROVE  /\ g \in [Numbers -> FileOf(R)]
         /\ \A n \in Numbers : n \notin nums => g[n] = f[n]
         /\ \A n \in Numbers : n \in nums =>
              \E k \in Cuts(f[n]) : g[n] = [recs |-> SubSeq(f[n].recs, 1, k), synced |-> k]
         /\ \A n \in Numbers : \E k \in Cuts(f[n]) :
              g[n].recs = SubSeq(f[n].recs, 1, k) /\ f[n].synced =< g[n].synced
<1> DEFINE loose == {n \in nums : f[n].synced < Len(f[n].recs)}
           Cut(n, k) == [recs |-> SubSeq(f[n].recs, 1, k), synced |-> k]
           Keeps == {k \in [loose -> UNION {Cuts(f[n]) : n \in loose}] :
                        \A n \in loose : k[n] \in Cuts(f[n])}
<1>1. PICK keep \in Keeps : g = [n \in Numbers |-> IF n \in loose THEN Cut(n, keep[n]) ELSE f[n]]
  BY DEF AfterCrash
<1>2. \A n \in loose : keep[n] \in Cuts(f[n])
  OBVIOUS
<1>3. ASSUME NEW n \in Numbers
      PROVE  f[n] \in FileOf(R) /\ f[n].recs \in Seq(R) /\ f[n].synced \in Nat
             /\ f[n].synced =< Len(f[n].recs) /\ Len(f[n].recs) \in Nat
             /\ f[n] = [recs |-> f[n].recs, synced |-> f[n].synced]
  BY DEF FileOf
<1>4. ASSUME NEW n \in Numbers, n \in nums
      PROVE  \E k \in Cuts(f[n]) : g[n] = Cut(n, k)
  <2>1. CASE n \in loose
    BY <2>1, <1>1, <1>2
  <2>2. CASE n \notin loose
    <3>1. f[n].synced = Len(f[n].recs) /\ Len(f[n].recs) \in Cuts(f[n])
      BY <2>2, <1>3, <1>4 DEF Cuts
    <3>2. SubSeq(f[n].recs, 1, Len(f[n].recs)) = f[n].recs
      BY <1>3, WholeFile
    <3>3. g[n] = f[n]
      BY <2>2, <1>1
    <3>4. f[n] = Cut(n, Len(f[n].recs))
      BY <3>1, <3>2, <1>3
    <3> QED
      BY <3>1, <3>3, <3>4
  <2> QED
    BY <2>1, <2>2
<1>5. ASSUME NEW n \in Numbers, n \notin nums PROVE g[n] = f[n]
  BY <1>1, <1>5
<1>6. ASSUME NEW n \in Numbers, NEW k \in Cuts(f[n])
      PROVE  /\ Cut(n, k) \in FileOf(R) /\ f[n].synced =< k
             /\ Cut(n, k).recs = SubSeq(f[n].recs, 1, k) /\ Cut(n, k).synced = k
  <2>1. k \in Nat /\ k =< Len(f[n].recs) /\ f[n].synced =< k
    BY <1>3 DEF Cuts
  <2>2. SubSeq(f[n].recs, 1, k) \in Seq(R) /\ Len(SubSeq(f[n].recs, 1, k)) = k
    BY <2>1, <1>3
  <2> QED
    BY <2>1, <2>2 DEF FileOf
<1>7. \A n \in Numbers : g[n] \in FileOf(R)
  BY <1>3, <1>4, <1>5, <1>6
<1>8. g \in [Numbers -> FileOf(R)]
  BY <1>1, <1>7
<1>9. ASSUME NEW n \in Numbers
      PROVE  \E k \in Cuts(f[n]) : g[n].recs = SubSeq(f[n].recs, 1, k) /\ f[n].synced =< g[n].synced
  <2>1. CASE n \in nums
    <3>1. PICK k \in Cuts(f[n]) : g[n] = Cut(n, k)
      BY <2>1, <1>4
    <3>2. g[n].recs = SubSeq(f[n].recs, 1, k) /\ g[n].synced = k /\ f[n].synced =< k
      BY <3>1, <1>6
    <3> QED
      BY <3>2
  <2>2. CASE n \notin nums
    <3>1. Len(f[n].recs) \in Cuts(f[n]) /\ f[n].synced =< f[n].synced
      BY <1>3 DEF Cuts
    <3>2. SubSeq(f[n].recs, 1, Len(f[n].recs)) = f[n].recs
      BY <1>3, WholeFile
    <3> QED
      BY <3>1, <3>2, <2>2, <1>5
  <2> QED
    BY <2>1, <2>2
<1> QED
  BY <1>4, <1>5, <1>8, <1>9

\* A crash of the machine leaves one of the directories, and its manifest cut at one of the
\* ends.
LEMMA MachineCrashDoes ==
  ASSUME FilesInv, MachineCrash
  PROVE  /\ dir' \in Dirs /\ Dirs' = {dir'} /\ dir'.current \in Numbers /\ dir'.current # None
         /\ logc' \in [Numbers -> FileOf(Batch)] /\ manc' \in [Numbers -> FileOf(EditType)]
         /\ \E k \in Ends(manc[dir'.current]) :
              /\ Now' = UpTo(manc[dir'.current], k) /\ Ends(manc'[dir'.current]) = {k}
              /\ UpTo(manc'[dir'.current], k) = UpTo(manc[dir'.current], k)
              /\ Len(manc'[dir'.current].recs) = k
<1>1. /\ MachineCrashes /\ dir' \in lost \cup {dir} /\ lost' = {}
      /\ logc' \in AfterCrash(logc, dir'.logs) /\ manc' \in AfterCrash(manc, dir'.manifests)
      /\ phase' = "down" /\ v' = Fresh /\ job' = NoJob /\ acked' = must /\ crashes' = crashes + 1
      /\ UNCHANGED <<tabc, must, overwritten, writes, compactions>>
  BY DEF MachineCrash
<1> DEFINE d == dir'
           c == d.current
           f == manc[c]
           g == manc'[c]
<1>2. d \in Dirs /\ c # None
  BY <1>1 DEF Dirs, FilesInv, NothingYet
<1>3. /\ d \in DirType /\ c \in Numbers /\ f \in FileOf(EditType)
      /\ Recoverable(d, f, Now.next, dir.logs)
  BY <1>2, DirsAre
<1>4. logc \in [Numbers -> FileOf(Batch)] /\ manc \in [Numbers -> FileOf(EditType)]
  BY DEF FilesInv, Types, DiskTypes
<1>5. logc' \in [Numbers -> FileOf(Batch)]
  BY <1>1, <1>4, CrashedFiles
<1>6. /\ manc' \in [Numbers -> FileOf(EditType)]
      /\ \A n \in Numbers : n \in d.manifests =>
           \E k \in Cuts(manc[n]) : manc'[n] = [recs |-> SubSeq(manc[n].recs, 1, k), synced |-> k]
  BY <1>1, <1>4, CrashedFiles
<1>7. c \in d.manifests
  BY <1>3 DEF Recoverable
<1>8. PICK k \in Cuts(f) : g = [recs |-> SubSeq(f.recs, 1, k), synced |-> k]
  BY <1>3, <1>6, <1>7
<1>9. k \in Ends(f) /\ k \in 0..Len(f.recs)
  BY <1>1, <1>3, <1>8, EndsAtAll DEF Ends
<1>10. g \in FileOf(EditType)
  BY <1>3, <1>6
<1>11. /\ g.recs = SubSeq(f.recs, 1, k) /\ Len(g.recs) = k /\ g.synced = k
  <2>1. f.recs \in Seq(EditType)
    BY <1>3 DEF FileOf
  <2> HIDE DEF f, g
  <2>2. Len(SubSeq(f.recs, 1, k)) = k
    BY <2>1, <1>9
  <2>3. g.recs = SubSeq(f.recs, 1, k) /\ g.synced = k
    BY <1>8
  <2> QED
    BY <2>2, <2>3
<1>12. Ends(g) = {k} /\ UpTo(g, k) = UpTo(f, k) /\ Replay(g.recs) = UpTo(f, k)
  <2>1. Ends(g) = {k}
    BY <1>9, <1>11 DEF Ends, Cuts
  <2>2. UpTo(g, Len(g.recs)) = Replay(g.recs)
    BY <1>10, UpToAll
  <2> QED
    BY <2>1, <2>2, <1>11 DEF UpTo
<1>13. Now' = UpTo(f, k)
  BY <1>12 DEF Now
<1>14. Dirs' = {d}
  BY <1>1 DEF Dirs
<1> QED
  BY <1>2, <1>3, <1>5, <1>6, <1>9, <1>11, <1>12, <1>13, <1>14

\* MachineCrash keeps the files recoverable (FilesInv).
LEMMA MachineCrashFiles ==
  ASSUME FilesInv, MachineCrash
  PROVE  FilesInv'
<1>1. /\ MachineCrashes /\ lost' = {} /\ phase' = "down" /\ v' = Fresh /\ job' = NoJob /\ acked' = must
      /\ crashes' = crashes + 1 /\ UNCHANGED <<tabc, must, overwritten, writes, compactions>>
  BY DEF MachineCrash
<1> DEFINE d == dir'
           f == manc[d.current]
           g == manc'[d.current]
<1>2. /\ d \in Dirs /\ Dirs' = {d} /\ d.current \in Numbers /\ d.current # None
      /\ logc' \in [Numbers -> FileOf(Batch)] /\ manc' \in [Numbers -> FileOf(EditType)]
  BY MachineCrashDoes
<1>3. d \in DirType /\ Recoverable(d, f, Now.next, dir.logs)
  BY <1>2, DirsAre
<1>4. PICK k \in Ends(f) : Now' = UpTo(f, k) /\ Ends(g) = {k} /\ UpTo(g, k) = UpTo(f, k) /\ Len(g.recs) = k
  BY MachineCrashDoes
<1>5. Sound(d, UpTo(f, k), UpTo(f, k).next)
  BY <1>3 DEF Recoverable, Sound
<1>6. Recoverable(d, g, UpTo(f, k).next, d.logs)
  BY <1>3, <1>4, <1>5 DEF Recoverable, Sound
<1>7. DirsRecoverable'
  BY <1>2, <1>4, <1>6 DEF DirsRecoverable
<1>8. NothingYet'
  BY <1>1, <1>2 DEF NothingYet, Creating
<1>9. Types' /\ ~overwritten'
  <2>1. phase' \in Phases /\ crashes' \in Nat
    BY <1>1 DEF Phases, FilesInv, Types
  <2> QED
    BY <2>1, <1>1, <1>2, <1>3, FreshIs DEF FilesInv, Types, DiskTypes
<1>10. phase' \in Creating \cup {"down", "recover"}
  BY <1>1
<1> QED
  BY <1>1, <1>7, <1>8, <1>9, <1>10, ClosedIsSound

\* A new database, or one closed before, has its files in order.
LEMMA InitFiles ==
  ASSUME DurabilityAssumption, Survivable, Init
  PROVE  FilesInv
<1> DEFINE e == Edit({}, {}, 3, 4, 0)
           s == Snapshot({})
           a1 == Appended(Empty, s)
           a2 == Appended(a1, e)
           f == SyncedFile(a2)
<1>1. /\ lost = {} /\ phase = "down" /\ v = Fresh /\ job = NoJob
      /\ logc = [n \in Numbers |-> Empty] /\ tabc = [n \in Numbers |-> {}]
      /\ manc = [n \in Numbers |-> IF Preexisting /\ n = 2 THEN f ELSE Empty]
      /\ acked = {} /\ must = {} /\ overwritten = FALSE /\ writes = 0 /\ crashes = 0 /\ compactions = 0
  BY DEF Init
<1>2. 2 \in Numbers /\ 3 \in Numbers
  BY DEF DurabilityAssumption, Numbers
<1>3. /\ e \in EditType /\ e.full /\ e.log = 3 /\ e.next = 4 /\ e.seq = 0 /\ e.add = {} /\ e.del = {}
  BY DEF EditType, Edit
<1>4. s \in EditType /\ Replay(<<s>>).live = {}
  BY ReplaySnapshot
<1> HIDE DEF e, s
<1>5. Empty \in FileOf(EditType) /\ Empty.recs = <<>> /\ Empty \in FileOf(Batch)
  BY EmptyFile
<1>6. a1 \in FileOf(EditType) /\ a1.recs = Append(<<>>, s)
  BY <1>4, <1>5, AppendedFile
<1> HIDE DEF a1
<1>7. a2 \in FileOf(EditType) /\ a2.recs = Append(a1.recs, e)
  BY <1>3, <1>6, AppendedFile
<1> HIDE DEF a2
<1>8. f \in FileOf(EditType) /\ f.recs = a2.recs /\ Settled(f)
  BY <1>7, SyncedFileIs
<1> HIDE DEF f
<1>9. Replay(f.recs) = [live |-> {}, log |-> 3, next |-> 4, seq |-> 0, any |-> TRUE]
  <2>1. a1.recs = <<s>> /\ a1.recs \in Seq(EditType)
    BY <1>4, <1>6
  <2>2. Replay(Append(a1.recs, e)) =
          [live |-> (Replay(a1.recs).live \ e.del) \cup e.add, log |-> e.log, next |-> e.next,
           seq |-> e.seq, any |-> TRUE]
    BY <2>1, <1>3, ReplayAppend
  <2> QED
    BY <2>1, <2>2, <1>3, <1>4, <1>7, <1>8
<1>10. Types /\ ~overwritten
  <2>1. dir \in DirType
    BY <1>2 DEF Init, NoDir, DirType, None
  <2>2. phase \in Phases /\ lost \subseteq DirType
    BY <1>1 DEF Phases
  <2>3. /\ logc \in [Numbers -> FileOf(Batch)] /\ tabc \in [Numbers -> SUBSET Batch]
        /\ manc \in [Numbers -> FileOf(EditType)]
    BY <1>1, <1>5, <1>8
  <2> QED
    BY <2>1, <2>2, <2>3, <1>1, FreshIs DEF Types, DiskTypes
<1>11. CASE Preexisting
  <2>1. dir.current = 2 /\ dir.manifests = {2} /\ dir.logs = {3} /\ dir.tables = {}
    BY <1>11 DEF Init, NoDir
  <2>2. manc[dir.current] = f /\ Now = Replay(f.recs) /\ Dirs = {dir}
    BY <2>1, <1>1, <1>2, <1>11 DEF Now, Dirs
  <2>3. Ends(f) = {Len(f.recs)} /\ UpTo(f, Len(f.recs)) = Now
    BY <2>2, <1>8, UpToAll DEF Settled
  <2>4. Now.live = {} /\ Now.log = 3 /\ Now.next = 4 /\ Now.seq = 0 /\ Now.any
    BY <2>2, <1>9
  <2>5. Recoverable(dir, f, Now.next, dir.logs)
    <3>1. Sound(dir, Now, 4)
      BY <2>1, <2>4 DEF Sound
    <3> QED
      BY <3>1, <2>1, <2>3, <2>4 DEF Recoverable
  <2>6. DirsRecoverable
    BY <2>2, <2>5 DEF DirsRecoverable
  <2>7. NothingYet
    BY <2>1, <2>2, <1>1 DEF NothingYet, Creating, None
  <2> QED
    BY <2>6, <2>7, <1>1, <1>10, FreshIs DEF FilesInv, AtRest, OpenNumbers, ReadManifest, WroteManifest,
       NotCurrentYet, RunNumbers, JobNumbers, Installed, Opening, Open_, Active
<1>12. CASE ~Preexisting
  <2>1. dir.current = None /\ dir.logs = {} /\ dir.tables = {} /\ ~MachineCrashes
    BY <1>12 DEF Init, NoDir, Survivable
  <2>2. Dirs = {dir}
    BY <2>1 DEF Dirs
  <2>3. DirsRecoverable /\ NothingYet
    BY <2>1, <2>2, <1>1 DEF DirsRecoverable, NothingYet, Creating
  <2> QED
    BY <2>3, <1>1, <1>10, FreshIs DEF FilesInv, AtRest, OpenNumbers, ReadManifest, WroteManifest,
       NotCurrentYet, RunNumbers, JobNumbers, Installed, Opening, Open_, Active
<1> QED
  BY <1>11, <1>12


\* A step that changes nothing keeps FilesInv.
LEMMA StutterFiles ==
  ASSUME FilesInv, UNCHANGED vars
  PROVE  FilesInv'
<1>1. UNCHANGED disk /\ phase' = phase /\ v' = v /\ job' = job /\ UNCHANGED ghost /\ UNCHANGED count
  BY DEF vars
<1>2. /\ DirsRecoverable' /\ Now' = Now /\ Dirs' = Dirs /\ DiskTypes'
      /\ dir' = dir /\ lost' = lost /\ logc' = logc /\ manc' = manc /\ tabc' = tabc
  BY <1>1, DiskStays
<1>3. Types' /\ ~overwritten'
  BY <1>1, <1>2 DEF FilesInv, Types, ghost, count
<1>4. NothingYet' /\ AtRest' /\ OpenNumbers' /\ ReadManifest' /\ NotCurrentYet'
  BY <1>1, <1>2 DEF FilesInv, NothingYet, AtRest, OpenNumbers, ReadManifest, NotCurrentYet
<1>5. Mine' = Mine /\ LiveFiles' = LiveFiles
  BY <1>1, <1>2 DEF Mine, LiveFiles
<1>6. WroteManifest' /\ RunNumbers' /\ JobNumbers' /\ Installed'
  BY <1>1, <1>2, <1>5 DEF FilesInv, WroteManifest, RunNumbers, JobNumbers, Installed, Open_
<1> QED
  BY <1>2, <1>3, <1>4, <1>6 DEF FilesInv

\* Every step keeps FilesInv.
LEMMA NextFiles ==
  ASSUME DurabilityAssumption, Survivable, FilesInv, [Next]_vars
  PROVE  FilesInv'
<1>1. CASE Open
  BY <1>1, OpenStartFiles, NewDBManifestFiles, NewDBTempFiles, NewDBRenameFiles, RecoverVersionsFiles,
     RecoverLogFileFiles, NewLogFiles, OpenManifestFiles, OpenSyncFiles, OpenTempFiles, OpenRenameFiles,
     OpenInstallFiles, OpenReusedFiles, OpenFailsFiles, OpenCleanFiles DEF Open
<1>2. CASE Run
  BY <1>2, WriteFiles, SwitchMemTableFiles, CompactMemTableFiles, DoCompactionWorkFiles, FinishTableFiles,
     AppendEditFiles, SyncEditFiles, InstallFiles, CleanFiles, EditFailsFiles, NewIteratorFiles DEF Run
<1>3. CASE ProcessCrash
  BY <1>3, ProcessCrashFiles
<1>4. CASE MachineCrash
  BY <1>4, MachineCrashFiles
<1>5. CASE UNCHANGED vars
  BY <1>5, StutterFiles
<1> QED
  BY <1>1, <1>2, <1>3, <1>4, <1>5 DEF Next

\* The files on disk: whatever crashes, the directory and the manifest left can be read
\* back to a version whose tables exist, and no number in use is given out again.
THEOREM FilesSound == ASSUME DurabilityAssumption, Survivable PROVE Spec => []FilesInv
<1>1. Init => FilesInv
  BY InitFiles
<1>2. FilesInv /\ [Next]_vars => FilesInv'
  BY NextFiles
<1> QED
  BY <1>1, <1>2, PTL DEF Spec


-----------------------------------------------------------------------------
(* Steps and contents                                                      *)

\* The manifest of a directory that a crash may leave: versions are of older numbers.
LEMMA VersionsAre ==
  ASSUME FilesInv, NEW d \in Dirs, d.current # None, NEW k \in Ends(manc[d.current])
  PROVE  /\ UpTo(manc[d.current], k).live \subseteq Numbers
         /\ UpTo(manc[d.current], k).live \subseteq d.tables
         /\ UpTo(manc[d.current], k).log \in Nat /\ UpTo(manc[d.current], k).next \in Nat
         /\ UpTo(manc[d.current], k).seq \in Nat
         /\ UpTo(manc[d.current], k).next =< Now.next /\ Now.next \in Nat
         /\ (\A t \in UpTo(manc[d.current], k).live : t < Now.next)
         /\ (\A n \in d.logs : n \in Numbers /\ (n \in dir.logs \/ n < Now.next))
<1> DEFINE f == manc[d.current]
           st == UpTo(f, k)
<1>1. d \in DirType /\ f \in FileOf(EditType) /\ Recoverable(d, f, Now.next, dir.logs)
  BY DirsAre
<1>2. dir.current # None
  <2>1. dir.current = None => phase \in Creating \cup {"down"}
    BY DEF FilesInv, NothingYet
  <2>2. d = dir \/ MachineCrashes
    BY DirsAre
  <2>3. dir \in Dirs
    BY DEF Dirs
  <2> QED
    BY <2>2, <2>3 DEF FilesInv, NothingYet
<1>3. Now.next \in Nat
  BY <1>2, CurrentIs
<1>4. /\ Sound(d, st, UpTo(f, Len(f.recs)).next) /\ UpTo(f, Len(f.recs)).next =< Now.next
      /\ \A n \in d.logs : n \in dir.logs \/ n < Now.next
  BY <1>1 DEF Recoverable
<1>5. UpTo(f, Len(f.recs)).next \in Nat
  <2>1. Len(f.recs) \in Ends(f)
    BY <1>1, EndsAtAll
  <2> QED
    BY <2>1, <1>1 DEF Recoverable, Sound
<1>6. st.live \subseteq Numbers
  BY ReplayLive DEF UpTo
<1> HIDE DEF st, f
<1>7. /\ st.live \subseteq d.tables /\ st.log \in Nat /\ st.next \in Nat /\ st.seq \in Nat
      /\ st.next =< UpTo(f, Len(f.recs)).next /\ \A t \in st.live : t < st.next
  BY <1>4 DEF Sound
<1>8. st.next =< Now.next
  BY <1>3, <1>4, <1>5, <1>7
<1>9. \A t \in st.live : t < Now.next
  BY <1>3, <1>6, <1>7, <1>8, NumbersAre
<1>10. \A n \in d.logs : n \in Numbers
  BY <1>1 DEF DirType
<1> QED
  BY <1>3, <1>4, <1>6, <1>7, <1>8, <1>9, <1>10 DEF st, f

\* What the manifest in CURRENT says, in the same terms.
LEMMA NowIs ==
  ASSUME FilesInv, dir.current # None
  PROVE  /\ Now.live \subseteq Numbers /\ Now.live \subseteq dir.tables
         /\ (\A t \in Now.live : t < Now.next) /\ Now.next \in Nat /\ Now.log \in Nat
         /\ Now.log < Now.next
         /\ dir \in Dirs /\ Len(manc[dir.current].recs) \in Ends(manc[dir.current])
         /\ UpTo(manc[dir.current], Len(manc[dir.current].recs)) = Now
BY CurrentIs DEF Sound

\* What had to survive is where it was.
LEMMA KeptStays ==
  ASSUME FilesInv, KeptAcked, KeptMust, acked' = acked, must' = must,
         dir.current # None, dir'.current = dir.current, dir.logs \subseteq dir'.logs,
         \A d \in Dirs : d.current # None,
         \A d \in Dirs : manc'[d.current] = manc[d.current],
         \A d \in Dirs' : d \in Dirs \/ (d.current = dir.current /\ dir.logs \subseteq d.logs),
         \A t \in Numbers : t < Now.next => tabc'[t] = tabc[t],
         \A n \in Numbers : n \in dir.logs \/ n < Now.next => logc'[n] = logc[n]
  PROVE  KeptAcked' /\ KeptMust'
<1>1. /\ Now.live \subseteq Numbers /\ (\A t \in Now.live : t < Now.next) /\ dir \in Dirs
  BY NowIs
<1>2. Now' = Now
  BY <1>1 DEF Now
<1>3. \A n \in dir.logs : n \in Numbers
  BY DEF FilesInv, Types, DiskTypes, DirType
<1>4. KeptAcked'
  <2>1. ASSUME NEW x \in acked
        PROVE  \/ \E t \in Now.live : \E b \in tabc'[t] : b.id = x
               \/ \E n \in dir'.logs : n >= Now.log /\ \E i \in 1..Len(logc'[n].recs) : logc'[n].recs[i].id = x
    <3>1. InTables(x, Now.live) \/ \E n \in dir.logs : n >= Now.log /\ InLog(x, n)
      BY DEF KeptAcked
    <3>2. CASE InTables(x, Now.live)
      BY <3>2, <1>1 DEF InTables, InTable
    <3>3. CASE \E n \in dir.logs : n >= Now.log /\ InLog(x, n)
      <4>1. PICK n \in dir.logs : n >= Now.log /\ InLog(x, n)
        BY <3>3
      <4>2. n \in dir'.logs /\ logc'[n] = logc[n]
        BY <1>3
      <4> QED
        BY <4>1, <4>2 DEF InLog
    <3> QED
      BY <3>1, <3>2, <3>3
  <2> QED
    BY <2>1, <1>2 DEF KeptAcked, InTables, InTable, InLog
<1>5. KeptMust'
  <2> SUFFICES ASSUME MachineCrashes, NEW d \in Dirs', NEW k \in Ends(manc'[d.current]), NEW x \in must
               PROVE  LET st == UpTo(manc'[d.current], k) IN
                      \/ \E t \in st.live : \E b \in tabc'[t] : b.id = x
                      \/ \E n \in d.logs : n >= st.log /\ \E i \in 1..logc'[n].synced : logc'[n].recs[i].id = x
    BY DEF KeptMust, InTables, InTable, InSynced
  <2>1. PICK e \in Dirs : e.current = d.current /\ e.logs \subseteq d.logs
    BY <1>1
  <2> DEFINE st == UpTo(manc[e.current], k)
  <2>2. manc'[d.current] = manc[e.current] /\ k \in Ends(manc[e.current])
    BY <2>1
  <2>3. InTables(x, st.live) \/ \E n \in e.logs : n >= st.log /\ InSynced(x, n)
    BY <2>2 DEF KeptMust
  <2>4. /\ st.live \subseteq Numbers /\ (\A t \in st.live : t < Now.next)
        /\ \A n \in e.logs : n \in Numbers /\ (n \in dir.logs \/ n < Now.next)
    BY <2>2, VersionsAre
  <2> HIDE DEF st
  <2>5. CASE InTables(x, st.live)
    <3>1. \E t \in st.live : \E b \in tabc'[t] : b.id = x
      BY <2>4, <2>5 DEF InTables, InTable
    <3> QED
      BY <3>1, <2>2 DEF st
  <2>6. CASE \E n \in e.logs : n >= st.log /\ InSynced(x, n)
    <3>1. PICK n \in e.logs : n >= st.log /\ InSynced(x, n)
      BY <2>6
    <3>2. n \in d.logs /\ logc'[n] = logc[n]
      BY <2>1, <2>4
    <3>3. \E i \in 1..logc'[n].synced : logc'[n].recs[i].id = x
      BY <3>1, <3>2 DEF InSynced
    <3> QED
      BY <3>1, <3>2, <3>3, <2>2 DEF st
  <2> QED
    BY <2>3, <2>5, <2>6
<1> QED
  BY <1>4, <1>5

\* Before there is a database nothing was acknowledged.
LEMMA KeptNothing ==
  ASSUME acked' = {}, must' = {}
  PROVE  KeptAcked' /\ KeptMust'
BY DEF KeptAcked, KeptMust

\* Logs that a crash may bring back are known, when the manifest names a later log.
LEMMA KnownStays ==
  ASSUME LogsAreKnown, dir.current # None, Now.log \in Nat, Now'.log \in Nat, Now.log =< Now'.log,
         \A d \in Dirs : d.current # None /\ \A n \in d.logs : n \in Nat,
         \A d \in Dirs' : d \in Dirs \/ d.logs \subseteq dir.logs \/ d = dir',
         \A n \in dir.logs : n \in Nat /\ (n \in dir'.logs \/ n < Now'.log),
         phase' \in Opening \ {"install"} /\ ~v'.descriptor => Now'.log = v'.logNo
  PROVE  LogsAreKnown'
<1> SUFFICES ASSUME NEW d \in Dirs', NEW n \in d.logs PROVE n \in dir'.logs \/ n < Now'.log
  BY DEF LogsAreKnown
<1>1. CASE d \in Dirs
  <2>1. n \in Nat /\ (n \in dir.logs \/ n < Now.log)
    BY <1>1 DEF LogsAreKnown
  <2> QED
    BY <2>1
<1>2. CASE d.logs \subseteq dir.logs \/ d = dir'
  BY <1>2
<1> QED
  BY <1>1, <1>2

\* The parts of the invariant that matter while the database is not open.
LEMMA ClosedContents ==
  ASSUME phase' \in Creating \cup {"down", "recover"}, job' = NoJob, KeptAcked', KeptMust', LogsAreKnown'
  PROVE  ContentsInv'
<1>1. phase' \notin Opening /\ phase' \notin {"clean", "run"} /\ job'.stage = "" /\ ~Open_'
  BY FreshIs DEF Opening, Creating, Open_
<1> QED
  BY <1>1 DEF ContentsInv, Recovered, MemIsLog, OldLogs, RunContents, JobContents, Active


\* While there is no CURRENT the machine cannot crash, and nothing was acknowledged.
LEMMA NoneYet ==
  ASSUME FilesInv, KeptAcked, dir.current = None
  PROVE  acked = {} /\ must = {} /\ ~MachineCrashes
<1>1. dir \in Dirs
  BY DEF Dirs
<1> QED
  BY <1>1 DEF KeptAcked, FilesInv, NothingYet

\* Nothing on disk changes: what had to survive is where it was.
LEMMA DiskStaysKept ==
  ASSUME FilesInv, ContentsInv, UNCHANGED disk, acked' = acked, must' = must
  PROVE  KeptAcked' /\ KeptMust' /\ Now' = Now
<1>1. /\ Now' = Now /\ Dirs' = Dirs /\ dir' = dir /\ logc' = logc /\ manc' = manc /\ tabc' = tabc
  BY DiskStays
<1>2. KeptAcked'
  BY <1>1 DEF ContentsInv, KeptAcked, InTables, InTable, InLog
<1>3. KeptMust'
  BY <1>1 DEF ContentsInv, KeptMust, InTables, InTable, InSynced
<1> QED
  BY <1>1, <1>2, <1>3

\* Nothing on disk changes: the logs are known as before.
LEMMA DiskStaysKnown ==
  ASSUME FilesInv, ContentsInv, UNCHANGED disk,
         phase' \in Opening \ {"install"} /\ ~v'.descriptor => Now'.log = v'.logNo
  PROVE  LogsAreKnown'
<1>1. /\ Now' = Now /\ Dirs' = Dirs /\ dir' = dir
  BY DiskStays
<1> QED
  BY <1>1 DEF ContentsInv, LogsAreKnown

\* OpenStart keeps what had to survive (ContentsInv).
LEMMA OpenStartContents ==
  ASSUME FilesInv, ContentsInv, OpenStart
  PROVE  ContentsInv'
<1>1. /\ UNCHANGED disk /\ acked' = acked /\ must' = must /\ job' = job /\ phase = "down"
      /\ phase' \in {"newdb", "recover"}
  BY DEF OpenStart, Quiet, ghost
<1>2. job = NoJob
  BY <1>1 DEF FilesInv, AtRest
<1>3. phase' \in Creating \cup {"down", "recover"} /\ phase' \notin Opening
  BY <1>1 DEF Creating, Opening
<1> QED
  BY <1>1, <1>2, <1>3, DiskStaysKept, DiskStaysKnown, ClosedContents

\* ProcessCrash keeps what had to survive (ContentsInv).
LEMMA ProcessCrashContents ==
  ASSUME FilesInv, ContentsInv, ProcessCrash
  PROVE  ContentsInv'
<1>1. /\ UNCHANGED disk /\ acked' = acked /\ must' = must /\ job' = NoJob /\ phase' = "down"
  BY DEF ProcessCrash, ghost
<1>2. phase' \in Creating \cup {"down", "recover"} /\ phase' \notin Opening
  BY <1>1 DEF Creating, Opening
<1> QED
  BY <1>1, <1>2, DiskStaysKept, DiskStaysKnown, ClosedContents

\* NewDB, in each of its steps, keeps what had to survive (ContentsInv).
LEMMA CreatingContents ==
  ASSUME FilesInv, ContentsInv, NewDBManifest \/ NewDBTemp \/ NewDBRename
  PROVE  ContentsInv'
<1>1. /\ phase \in Creating /\ phase' \in {"newdbtemp", "newdbname", "recover"} /\ job' = job
      /\ acked' = acked /\ must' = must
  BY DEF NewDBManifest, NewDBTemp, NewDBRename, WriteTemp, RenameTemp, Quiet, ghost, Creating
<1>2. dir.current = None
  BY <1>1 DEF FilesInv, NothingYet
<1>3. acked = {} /\ must = {} /\ ~MachineCrashes
  BY <1>2, NoneYet DEF ContentsInv
<1>4. phase' \in Creating \cup {"down", "recover"} /\ phase' \notin Opening
  BY <1>1 DEF Creating, Opening
<1>5. LogsAreKnown'
  <2>1. Dirs' = {dir'}
    BY <1>3 DEF Dirs
  <2> QED
    BY <2>1, <1>4 DEF LogsAreKnown
<1>6. job' = NoJob
  <2>1. phase # "run"
    BY <1>1 DEF Creating
  <2> QED
    BY <2>1, <1>1 DEF FilesInv, AtRest
<1> QED
  BY <1>1, <1>3, <1>4, <1>5, <1>6, KeptNothing, ClosedContents

\* MachineCrash keeps what had to survive (ContentsInv).
LEMMA MachineCrashContents ==
  ASSUME FilesInv, ContentsInv, MachineCrash
  PROVE  ContentsInv'
<1> DEFINE d == dir'
           f == manc[d.current]
           g == manc'[d.current]
<1>1. /\ MachineCrashes /\ phase' = "down" /\ job' = NoJob /\ acked' = must /\ must' = must /\ tabc' = tabc
      /\ logc' \in AfterCrash(logc, dir'.logs)
  BY DEF MachineCrash
<1>2. d \in Dirs /\ Dirs' = {d} /\ d.current # None /\ d.current \in Numbers
  BY MachineCrashDoes
<1>3. PICK k \in Ends(f) : Now' = UpTo(f, k) /\ Ends(g) = {k} /\ UpTo(g, k) = UpTo(f, k)
  BY MachineCrashDoes
<1>4. \A n \in d.logs : n \in Numbers
  BY <1>2, VersionsAre, <1>3
<1>5. ASSUME NEW n \in Numbers
      PROVE  /\ logc[n].synced \in Nat /\ logc'[n].synced \in Nat /\ logc[n].synced =< logc'[n].synced
             /\ logc[n].synced =< Len(logc'[n].recs) /\ Len(logc'[n].recs) \in Nat
             /\ \A i \in 1..logc[n].synced : logc'[n].recs[i] = logc[n].recs[i]
  <2> DEFINE h == logc[n]
             h2 == logc'[n]
  <2>1. logc \in [Numbers -> FileOf(Batch)]
    BY DEF FilesInv, Types, DiskTypes
  <2>2. h \in FileOf(Batch) /\ h2 \in FileOf(Batch)
    BY <2>1, <1>1, CrashedFiles
  <2>3. PICK j \in Cuts(h) : h2.recs = SubSeq(h.recs, 1, j) /\ h.synced =< h2.synced
    BY <2>1, <1>1, CrashedFiles
  <2> HIDE DEF h, h2
  <2>4. h.recs \in Seq(Batch) /\ h.synced \in Nat /\ h2.synced \in Nat /\ h2.recs \in Seq(Batch)
        /\ h.synced =< Len(h.recs)
    BY <2>2 DEF FileOf
  <2>5. j \in Nat /\ h.synced =< j /\ j =< Len(h.recs)
    BY <2>4 DEF Cuts
  <2>6. Len(h2.recs) = j /\ \A i \in 1..j : h2.recs[i] = h.recs[i]
    BY <2>3, <2>4, <2>5
  <2>7. \A i \in 1..h.synced : h2.recs[i] = h.recs[i]
    BY <2>4, <2>5, <2>6
  <2>8. h.synced =< Len(h2.recs) /\ Len(h2.recs) \in Nat
    BY <2>5, <2>6
  <2> QED
    BY <2>3, <2>4, <2>7, <2>8 DEF h, h2
<1> DEFINE st == UpTo(f, k)
<1>6. ASSUME NEW x \in must
      PROVE  \/ \E t \in st.live : \E b \in tabc[t] : b.id = x
             \/ \E n \in d.logs : n >= st.log /\ InSynced(x, n)
  BY <1>1, <1>2, <1>3 DEF ContentsInv, KeptMust, InTables, InTable
<1> HIDE DEF st
<1>7. ASSUME NEW x, NEW n \in d.logs, InSynced(x, n)
      PROVE  /\ \E i \in 1..logc'[n].synced : logc'[n].recs[i].id = x
             /\ \E i \in 1..Len(logc'[n].recs) : logc'[n].recs[i].id = x
  <2>1. PICK i \in 1..logc[n].synced : logc[n].recs[i].id = x
    BY <1>7 DEF InSynced
  <2>2. i \in 1..logc'[n].synced /\ i \in 1..Len(logc'[n].recs) /\ logc'[n].recs[i] = logc[n].recs[i]
    BY <1>4, <1>5
  <2> QED
    BY <2>1, <2>2
<1>8. KeptAcked'
  <2>1. Now' = st
    BY <1>3 DEF st
  <2> QED
    BY <2>1, <1>1, <1>2, <1>6, <1>7 DEF KeptAcked, InTables, InTable, InLog
<1>9. KeptMust'
  <2> SUFFICES ASSUME NEW x \in must
               PROVE  \/ \E t \in st.live : \E b \in tabc'[t] : b.id = x
                      \/ \E n \in d.logs : n >= st.log /\ \E i \in 1..logc'[n].synced : logc'[n].recs[i].id = x
    BY <1>1, <1>2, <1>3 DEF KeptMust, InTables, InTable, InSynced, st
  <2> QED
    BY <1>1, <1>6, <1>7
<1>10. phase' \in Creating \cup {"down", "recover"} /\ phase' \notin Opening
  BY <1>1 DEF Creating, Opening
<1>11. LogsAreKnown'
  BY <1>2, <1>10 DEF LogsAreKnown
<1> QED
  BY <1>1, <1>8, <1>9, <1>10, <1>11, ClosedContents


\* The parts of the invariant on contents that matter while the database is being opened.
LEMMA OpeningContents ==
  ASSUME phase' \in Opening, job' = NoJob, KeptAcked', KeptMust', LogsAreKnown',
         Recovered', MemIsLog', OldLogs'
  PROVE  ContentsInv'
<1>1. ~Open_' /\ job'.stage = ""
  BY FreshIs DEF Opening, Open_
<1> QED
  BY <1>1 DEF ContentsInv, RunContents, JobContents, Active

\* RecoverVersions keeps what had to survive (ContentsInv).
LEMMA RecoverVersionsContents ==
  ASSUME FilesInv, FilesInv', ContentsInv, RecoverVersions
  PROVE  ContentsInv'
<1>1. phase = "recover" /\ UNCHANGED disk /\ acked' = acked /\ must' = must /\ job' = job
  BY DEF RecoverVersions, Quiet, ghost
<1>2. phase' = "logs"
  <2>1. phase' \in {"logs", "corrupt"}
    BY DEF RecoverVersions
  <2> QED
    BY <2>1 DEF FilesInv, Types, Phases
<1>3. v = Fresh /\ job = NoJob /\ dir.current # None
  BY <1>1 DEF FilesInv, AtRest, NothingYet, Creating
<1>4. v' = [Fresh EXCEPT !.live = Now.live, !.logNo = Now.log, !.seq = Now.seq,
                !.manifest = IF ReuseManifest THEN dir.current ELSE Now.next,
                !.descriptor = ReuseManifest, !.save = ~ReuseManifest,
                !.next = Now.next + 1, !.todo = LogsToRecover(Now.log)]
  BY <1>2, <1>3 DEF RecoverVersions, Now
<1>5. /\ v'.live = Now.live /\ v'.logNo = Now.log /\ v'.todo = {n \in dir.logs : n >= Now.log}
      /\ v'.edit = {} /\ v'.mem = {} /\ v'.logfile = None
  BY <1>4 DEF Fresh, LogsToRecover
<1>6. /\ Now' = Now /\ Dirs' = Dirs /\ dir' = dir /\ logc' = logc /\ manc' = manc /\ tabc' = tabc
  BY <1>1, DiskStays
<1>7. /\ KeptAcked' /\ KeptMust'
  BY <1>1, DiskStaysKept
<1>8. LogsAreKnown'
  BY <1>1, <1>5, <1>6, DiskStaysKnown
<1>9. Recovered'
  <2>1. \A x \in acked : InTables(x, Now.live) \/ \E n \in dir.logs : n >= Now.log /\ InLog(x, n)
    BY <1>3 DEF ContentsInv, KeptAcked
  <2> QED
    BY <2>1, <1>1, <1>5, <1>6 DEF Recovered, InTables, InTable, InLog
<1>10. MemIsLog'
  BY <1>5 DEF MemIsLog
<1>11. OldLogs'
  <2>1. Now.log \in Nat /\ \A n \in dir.logs : n \in Nat
    BY <1>3, NowIs, NumbersAre DEF FilesInv, Types, DiskTypes, DirType
  <2>2. \A n \in dir.logs \ v'.todo, m \in v'.todo : n < m
    BY <2>1, <1>5
  <2> QED
    BY <2>2, <1>5, <1>6 DEF OldLogs
<1>12. phase' \in Opening
  BY <1>2 DEF Opening
<1> QED
  BY <1>1, <1>3, <1>7, <1>8, <1>9, <1>10, <1>11, <1>12, OpeningContents

\* Facts about DB::Open at work that the following steps share.
LEMMA OpeningKeeps ==
  ASSUME FilesInv, ContentsInv, phase \in Opening
  PROVE  /\ \A n \in dir.logs : n \in Numbers /\ n \in Nat
         /\ \A x \in acked : \/ \E t \in v.live \cup v.edit : \E b \in tabc[t] : b.id = x
                             \/ \E b \in v.mem : b.id = x
                             \/ \E n \in v.todo : InLog(x, n)
         /\ \A t \in v.live \cup v.edit : t \in Numbers /\ t \in Nat /\ t < v.next
         /\ v.logNo \in Nat /\ Now.log \in Nat /\ Now.next \in Nat
<1>1. dir \in DirType /\ v \in VType /\ dir.current # None
  BY OpeningHas
<1>2. \A n \in dir.logs : n \in Numbers /\ n \in Nat
  BY <1>1, NumbersAre DEF DirType
<1>3. \A t \in v.live \cup v.edit : t \in Numbers /\ t < v.next
  BY <1>1 DEF FilesInv, OpenNumbers, VType
<1>4. \A t \in v.live \cup v.edit : t \in Nat
  BY <1>3, NumbersAre
<1>5. v.logNo \in Nat
  BY <1>1 DEF VType
<1>6. Now.log \in Nat /\ Now.next \in Nat
  BY <1>1, NowIs
<1> QED
  BY <1>2, <1>3, <1>4, <1>5, <1>6 DEF ContentsInv, Recovered, InTables, InTable, InSet

\* RecoverLogFile keeps what had to survive (ContentsInv).
LEMMA RecoverLogFileContents ==
  ASSUME DurabilityAssumption, Survivable, FilesInv, FilesInv', ContentsInv, NEW n \in v.todo, RecoverLogFile(n)
  PROVE  ContentsInv'
<1>1. PICK tabs \in Seq(SUBSET Batch), reuse \in BOOLEAN :
           LET nums == v.next..(v.next + Len(tabs) - 1) IN
           /\ nums \subseteq Numbers /\ n \in Numbers
           /\ reuse => ReuseLogs /\ v.todo = {n} /\ tabs = <<>>
           /\ \A i \in DOMAIN tabs : tabs[i] \subseteq Range(logc[n].recs)
           /\ ~reuse => \A b \in Range(logc[n].recs) : \E i \in DOMAIN tabs : b \in tabs[i]
           /\ overwritten' = FALSE
           /\ tabs = <<>> => dir' = dir /\ lost' = lost
           /\ tabs # <<>> => dir' = [dir EXCEPT !.tables = @ \cup nums] /\ lost' = {}
           /\ tabc' \in [Numbers -> SUBSET Batch]
           /\ \A i \in DOMAIN tabs : tabc'[v.next + i - 1] = tabs[i]
           /\ \A m \in Numbers \ nums : tabc'[m] = tabc[m]
           /\ v' \in VType
           /\ v' = [v EXCEPT !.todo = v.todo \ {n}, !.edit = v.edit \cup nums,
                             !.save = (v.save \/ tabs # <<>>), !.seq = MaxSequence(logc[n].recs),
                             !.next = MarkFileNumberUsed(v.next + Len(tabs), n),
                             !.logfile = IF reuse THEN n ELSE None,
                             !.mem = IF reuse THEN Range(logc[n].recs) ELSE {}]
           /\ UNCHANGED <<logc, manc, phase, job, acked, must, writes, crashes, compactions>>
           /\ phase = "logs" /\ \A m \in v.todo : n =< m
  BY RecoverLogFileDoes
<1> DEFINE nums == v.next..(v.next + Len(tabs) - 1)
<1>2. phase \in Opening /\ phase' \in Opening /\ phase' = "logs" /\ phase = "logs"
  BY <1>1 DEF Opening
<1>3. /\ dir.current # None /\ job = NoJob /\ v \in VType /\ dir \in DirType /\ v.next \in Nat
      /\ \A d \in Dirs : d.current # None
  BY <1>2, OpeningHas
<1>4. /\ v'.todo = v.todo \ {n} /\ v'.edit = v.edit \cup nums /\ v'.live = v.live /\ v'.logNo = v.logNo
      /\ v'.logfile = (IF reuse THEN n ELSE None) /\ v'.mem = (IF reuse THEN Range(logc[n].recs) ELSE {})
      /\ v'.save = (v.save \/ tabs # <<>>) /\ v'.descriptor = v.descriptor
  BY <1>1, <1>3 DEF VType
<1>5. dir'.logs = dir.logs /\ dir'.current = dir.current
  BY <1>1, <1>3 DEF DirType
<1>6. \A d \in Dirs' : d \in Dirs \/ d = dir'
  BY <1>1 DEF Dirs
<1>7. OpenNumbers /\ ReadManifest /\ MemIsLog /\ OldLogs /\ Recovered
  BY DEF FilesInv, ContentsInv
<1>8. Now.next < v.next /\ v.todo \subseteq dir.logs /\ v.logfile = None
  BY <1>2, <1>7 DEF OpenNumbers, ReadManifest
<1>9. ASSUME NEW t \in Numbers, t < v.next PROVE tabc'[t] = tabc[t]
  <2>1. t \notin nums
    BY <1>3, <1>9, NumbersAre
  <2> QED
    BY <2>1, <1>1
<1>10. (\A m \in dir.logs : m \in Numbers /\ m \in Nat) /\ Now.log \in Nat /\ Now.next \in Nat
  BY <1>2, OpeningKeeps
<1>11. KeptAcked' /\ KeptMust'
  <2>1. \A t \in Numbers : t < Now.next => tabc'[t] = tabc[t]
    BY <1>3, <1>8, <1>9, <1>10, NumbersAre
  <2> QED
    BY <2>1, <1>1, <1>3, <1>5, <1>6, KeptStays DEF ContentsInv
<1>12. Now' = Now
  BY <1>1, <1>5 DEF Now
<1>13. LogsAreKnown'
  <2>1. \A d \in Dirs : d.current # None /\ \A m \in d.logs : m \in Nat
    BY <1>3, DirsAre, NumbersAre DEF DirType
  <2> QED
    BY <2>1, <1>2, <1>3, <1>4, <1>5, <1>6, <1>10, <1>12, KnownStays DEF ContentsInv, LogsAreKnown
<1>14. MemIsLog'
  <2>1. CASE reuse
    <3>1. v'.logfile = n /\ v'.mem = Range(logc[n].recs) /\ n # None /\ ~MachineCrashes
      BY <2>1, <1>1, <1>4, NumbersAre DEF Survivable, None
    <3>2. logc' = logc
      BY <1>1
    <3> QED
      BY <3>1, <3>2 DEF MemIsLog, LogSet
  <2>2. CASE ~reuse
    <3>1. v'.logfile = None /\ v'.mem = {}
      BY <2>2, <1>4
    <3> QED
      BY <3>1 DEF MemIsLog
  <2> QED
    BY <2>1, <2>2
<1>15. Recovered'
  <2> SUFFICES ASSUME NEW x \in acked
               PROVE  \/ \E t \in v'.live \cup v'.edit : \E b \in tabc'[t] : b.id = x
                      \/ \E b \in v'.mem : b.id = x
                      \/ \E m \in v'.todo : InLog(x, m)
    BY <1>1 DEF Recovered, InTables, InTable, InSet, InLog
  <2>1. /\ \/ \E t \in v.live \cup v.edit : \E b \in tabc[t] : b.id = x
           \/ \E b \in v.mem : b.id = x
           \/ \E m \in v.todo : InLog(x, m)
        /\ \A t \in v.live \cup v.edit : t \in Numbers /\ t < v.next
    BY <1>2, OpeningKeeps
  <2>2. v.mem = {}
    BY <1>2, <1>7, <1>8 DEF MemIsLog
  <2>3. CASE \E t \in v.live \cup v.edit : \E b \in tabc[t] : b.id = x
    BY <2>1, <2>3, <1>4, <1>9
  <2>4. CASE \E m \in v.todo : InLog(x, m)
    <3>1. PICK m \in v.todo : InLog(x, m)
      BY <2>4
    <3>2. CASE m # n
      BY <3>1, <3>2, <1>4
    <3>3. CASE m = n
      <4>1. \E b \in Range(logc[n].recs) : b.id = x
        <5>1. DOMAIN logc[n].recs = 1..Len(logc[n].recs)
          <6>1. logc[n] \in FileOf(Batch)
            BY <1>1 DEF FilesInv, Types, DiskTypes
          <6> QED
            BY <6>1 DEF FileOf
        <5> QED
          BY <5>1, <3>1, <3>3 DEF InLog, Range
      <4>2. CASE reuse
        BY <4>1, <4>2, <1>4
      <4>3. CASE ~reuse
        <5>1. PICK b \in Range(logc[n].recs), i \in DOMAIN tabs : b.id = x /\ b \in tabs[i]
          BY <4>1, <4>3, <1>1
        <5>2. v.next + i - 1 \in nums
          BY <1>3, <1>1
        <5>3. b \in tabc'[v.next + i - 1]
          BY <5>1, <1>1
        <5> QED
          BY <5>1, <5>2, <5>3, <1>4
      <4> QED
        BY <4>2, <4>3
    <3> QED
      BY <3>2, <3>3
  <2> QED
    BY <2>1, <2>2, <2>3, <2>4
<1>16. OldLogs'
  <2>1. ASSUME NEW a \in dir.logs \ v'.todo, NEW m \in v'.todo PROVE a < m
    <3>1. CASE a = n
      BY <3>1, <1>1, <1>4, <1>8, <1>10
    <3>2. CASE a # n
      BY <3>2, <1>2, <1>4, <1>7 DEF OldLogs
    <3> QED
      BY <3>1, <3>2
  <2>2. ASSUME v'.logfile # None, NEW a \in dir.logs PROVE a =< v'.logfile
    <3>1. reuse /\ v'.logfile = n /\ v.todo = {n}
      BY <2>2, <1>1, <1>4
    <3>2. a = n \/ a < n
      BY <3>1, <1>2, <1>7 DEF OldLogs
    <3> QED
      BY <3>1, <3>2, <1>8, <1>10
  <2>3. ASSUME ~v'.save, NEW a \in dir.logs, a >= v'.logNo
        PROVE  a \in v'.todo \/ a = v'.logfile \/ LogSet(a) = {}
    <3>1. ~v.save /\ tabs = <<>>
      BY <2>3, <1>4
    <3>2. a \in v.todo \/ a = v.logfile \/ LogSet(a) = {}
      BY <2>3, <3>1, <1>2, <1>4, <1>7 DEF OldLogs
    <3>3. a # v.logfile
      BY <1>8, <1>10, NumbersAre DEF None
    <3>4. CASE a = n /\ ~reuse
      BY <3>1, <3>4, <1>1 DEF LogSet
    <3>5. CASE a = n /\ reuse
      BY <3>5, <1>4
    <3> QED
      BY <3>2, <3>3, <3>4, <3>5, <1>4
  <2> QED
    BY <2>1, <2>2, <2>3, <1>1, <1>5 DEF OldLogs, LogSet
<1> QED
  BY <1>1, <1>2, <1>3, <1>11, <1>13, <1>14, <1>15, <1>16, OpeningContents


\* The manifest a directory names is older than the counter for files.
LEMMA OlderManifest ==
  ASSUME FilesInv, NEW d \in Dirs, d.current # None
  PROVE  d.current \in Nat /\ d.current < Now.next /\ Now.next \in Nat
<1>1. d.current \in Numbers /\ manc[d.current] \in FileOf(EditType)
      /\ Recoverable(d, manc[d.current], Now.next, dir.logs)
  BY DirsAre
<1> DEFINE k == Len(manc[d.current].recs)
<1>2. k \in Ends(manc[d.current])
  BY <1>1, EndsAtAll
<1>3. Sound(d, UpTo(manc[d.current], k), UpTo(manc[d.current], k).next)
  BY <1>1, <1>2 DEF Recoverable
<1>4. UpTo(manc[d.current], k).next \in Nat /\ UpTo(manc[d.current], k).next =< Now.next /\ Now.next \in Nat
  BY <1>2, VersionsAre
<1>5. d.current \in Nat
  BY <1>1, NumbersAre
<1> QED
  BY <1>3, <1>4, <1>5 DEF Sound

\* Steps of DB::Open that leave the version set and the files of contents alone.
LEMMA OpeningStays ==
  ASSUME ContentsInv, phase \in Opening, phase' \in Opening, v' = v, dir'.logs = dir.logs,
         logc' = logc, tabc' = tabc, acked' = acked
  PROVE  Recovered' /\ MemIsLog' /\ OldLogs'
<1>1. phase # "run" /\ phase' # "run"
  BY DEF Opening
<1>2. Recovered'
  BY DEF ContentsInv, Recovered, InTables, InTable, InSet, InLog
<1>3. MemIsLog'
  BY <1>1 DEF ContentsInv, MemIsLog, LogSet
<1>4. OldLogs'
  BY DEF ContentsInv, OldLogs, LogSet
<1> QED
  BY <1>2, <1>3, <1>4

\* The directories of steps that only add names to it.
LEMMA KnownDirs ==
  ASSUME FilesInv, ContentsInv, dir.current # None, \A d \in Dirs : d.current # None, Now' = Now,
         dir.logs \subseteq dir'.logs, \A d \in Dirs' : d \in Dirs \/ d = dir',
         phase' \in Opening \ {"install"} /\ ~v'.descriptor => Now.log = v'.logNo
  PROVE  LogsAreKnown'
<1>1. Now.log \in Nat
  BY NowIs
<1>2. \A d \in Dirs : d.current # None /\ \A n \in d.logs : n \in Nat
  BY DirsAre, NumbersAre DEF DirType
<1>3. dir \in Dirs
  BY DEF Dirs
<1> QED
  BY <1>1, <1>2, <1>3, KnownStays DEF ContentsInv

\* NewLog keeps what had to survive (ContentsInv).
LEMMA NewLogContents ==
  ASSUME DurabilityAssumption, FilesInv, FilesInv', ContentsInv, NewLog
  PROVE  ContentsInv'
<1>1. /\ phase = "logs" /\ v.todo = {} /\ v.logfile = None /\ v.next =< MaxFiles
      /\ dir' = [dir EXCEPT !.logs = @ \cup {v.next}] /\ lost' = lost \cup {dir}
      /\ logc' = [logc EXCEPT ![v.next] = Empty]
      /\ v' = [v EXCEPT !.logfile = v.next, !.next = v.next + 1]
      /\ UNCHANGED <<manc, tabc, phase, job, acked, must>>
  BY DEF NewLog, ChangeDir, Bumped, count
<1>2. phase \in Opening /\ phase' \in Opening /\ phase' # "run"
  BY <1>1 DEF Opening
<1>3. /\ dir.current # None /\ job = NoJob /\ v \in VType /\ dir \in DirType /\ v.next \in Nat /\ v.next > 1
      /\ \A d \in Dirs : d.current # None
  BY <1>2, OpeningHas
<1>4. /\ v'.todo = {} /\ v'.edit = v.edit /\ v'.live = v.live /\ v'.logNo = v.logNo
      /\ v'.logfile = v.next /\ v'.mem = v.mem /\ v'.save = v.save /\ v'.descriptor = v.descriptor
  BY <1>1, <1>3 DEF VType
<1>5. dir'.logs = dir.logs \cup {v.next} /\ dir'.current = dir.current
  BY <1>1, <1>3 DEF DirType
<1>6. \A d \in Dirs' : d \in Dirs \/ d = dir'
  BY <1>1 DEF Dirs
<1>7. v.next \in Numbers
  BY <1>1, <1>3 DEF Numbers, DurabilityAssumption
<1>8. (\A n \in dir.logs : n \in Numbers /\ n \in Nat) /\ Now.log \in Nat /\ Now.next \in Nat
  BY <1>2, OpeningKeeps
<1>9. Now.next < v.next /\ (\A n \in dir.logs : n < v.next) /\ Now.log = v.logNo
  BY <1>1, <1>2 DEF FilesInv, OpenNumbers, ReadManifest
<1>10. logc \in [Numbers -> FileOf(Batch)]
  BY DEF FilesInv, Types, DiskTypes
<1>11. logc'[v.next] = Empty /\ \A n \in Numbers : n # v.next => logc'[n] = logc[n]
  BY <1>1, <1>7, <1>10
<1>12. \A n \in dir.logs : logc'[n] = logc[n]
  BY <1>3, <1>8, <1>9, <1>11
<1>13. Now' = Now
  BY <1>1, <1>5 DEF Now
<1>14. KeptAcked' /\ KeptMust'
  <2>1. \A n \in Numbers : n \in dir.logs \/ n < Now.next => logc'[n] = logc[n]
    BY <1>3, <1>8, <1>9, <1>11, <1>12, NumbersAre
  <2> QED
    BY <2>1, <1>1, <1>3, <1>5, <1>6, KeptStays DEF ContentsInv
<1>15. LogsAreKnown'
  BY <1>3, <1>4, <1>5, <1>6, <1>9, <1>13, KnownDirs
<1>16. v.mem = {}
  BY <1>1, <1>2 DEF ContentsInv, MemIsLog
<1>17. MemIsLog'
  <2>1. logc'[v.next].recs = <<>>
    BY <1>11, EmptyFile
  <2>2. Range(logc'[v'.logfile].recs) = {}
    BY <2>1, <1>4 DEF Range
  <2>3. v'.logfile # None
    BY <1>3, <1>4 DEF None
  <2> QED
    BY <2>2, <2>3, <1>4, <1>16 DEF MemIsLog, LogSet
<1>18. Recovered'
  <2>1. \A x \in acked : \/ \E t \in v.live \cup v.edit : \E b \in tabc[t] : b.id = x
                         \/ \E b \in v.mem : b.id = x
                         \/ \E n \in v.todo : InLog(x, n)
    BY <1>2, OpeningKeeps
  <2> QED
    BY <2>1, <1>1, <1>4 DEF Recovered, InTables, InTable, InSet
<1>19. OldLogs'
  <2>1. \A n \in dir'.logs : n =< v'.logfile
    BY <1>3, <1>4, <1>5, <1>8, <1>9
  <2>2. ASSUME ~v'.save, NEW n \in dir'.logs, n >= v'.logNo
        PROVE  n = v'.logfile \/ LogSet(n)' = {}
    <3>1. CASE n = v.next
      BY <3>1, <1>4
    <3>2. CASE n # v.next
      <4>1. n \in dir.logs /\ LogSet(n) = {}
        <5>1. n \in dir.logs /\ n # None
          BY <3>2, <1>5, <1>8, NumbersAre DEF None
        <5> QED
          BY <5>1, <2>2, <1>1, <1>2, <1>4 DEF ContentsInv, OldLogs
      <4>2. logc'[n] = logc[n]
        BY <4>1, <1>12
      <4> QED
        BY <4>1, <4>2 DEF LogSet
    <3> QED
      BY <3>1, <3>2
  <2> QED
    BY <2>1, <2>2, <1>4 DEF OldLogs
<1> QED
  BY <1>1, <1>2, <1>3, <1>14, <1>15, <1>17, <1>18, <1>19, OpeningContents

\* Once there is a log for new batches, all that was acknowledged is in it or in
\* a table of the recovered version.
LEMMA RecoveredAll ==
  ASSUME FilesInv, ContentsInv, phase \in Opening, v.logfile # None
  PROVE  /\ \A x \in acked : InTables(x, v.live \cup v.edit) \/ InLog(x, v.logfile)
         /\ MachineCrashes => \A x \in acked : InTables(x, v.live \cup v.edit)
         /\ v.logfile \in dir.logs /\ v.logfile \in Nat /\ v.logNo =< v.logfile /\ v.todo = {}
<1>1. v.todo = {} /\ v.logfile \in dir.logs /\ v.logNo =< v.logfile
  BY DEF FilesInv, OpenNumbers
<1>2. v.logfile \in Numbers /\ v.logfile \in Nat
  BY <1>1, OpeningKeeps
<1>3. phase # "run"
  BY DEF Opening
<1>4. v.mem = LogSet(v.logfile) /\ (MachineCrashes => v.mem = {})
  BY <1>3 DEF ContentsInv, MemIsLog
<1>5. \A b \in LogSet(v.logfile) : \E i \in 1..Len(logc[v.logfile].recs) : logc[v.logfile].recs[i] = b
  <2>1. logc[v.logfile] \in FileOf(Batch)
    BY <1>2 DEF FilesInv, Types, DiskTypes
  <2>2. DOMAIN logc[v.logfile].recs = 1..Len(logc[v.logfile].recs)
    BY <2>1 DEF FileOf
  <2> QED
    BY <2>2 DEF LogSet, Range
<1>6. \A x \in acked : InTables(x, v.live \cup v.edit) \/ InSet(x, v.mem)
  BY <1>1 DEF ContentsInv, Recovered
<1>7. ASSUME NEW x, InSet(x, v.mem) PROVE InLog(x, v.logfile) /\ ~MachineCrashes
  <2>1. PICK b \in v.mem : b.id = x
    BY <1>7 DEF InSet
  <2> QED
    BY <2>1, <1>4, <1>5 DEF InLog
<1> QED
  BY <1>1, <1>2, <1>6, <1>7

\* CURRENT now names what was recovered.
LEMMA RecoveredKept ==
  ASSUME FilesInv, ContentsInv, phase \in Opening, v.logfile # None, dir'.logs = dir.logs,
         Now'.live = v.live \cup v.edit, Now'.log = v.logfile, dir'.current # None,
         logc' = logc, tabc' = tabc, acked' = acked, must' = must
  PROVE  KeptAcked'
<1>1. /\ \A x \in acked : InTables(x, v.live \cup v.edit) \/ InLog(x, v.logfile)
      /\ v.logfile \in dir.logs /\ v.logfile \in Nat
  BY RecoveredAll
<1>2. must \subseteq acked
  BY DEF ContentsInv, KeptAcked
<1>3. ASSUME NEW x \in acked
      PROVE  InTables(x, Now'.live) \/ \E n \in dir'.logs : n >= Now'.log /\ InLog(x, n)
  BY <1>1
<1> QED
  BY <1>2, <1>3 DEF KeptAcked, InTables, InTable, InLog

\* OpenManifest keeps what had to survive (ContentsInv).
LEMMA OpenManifestContents ==
  ASSUME DurabilityAssumption, Survivable, FilesInv, FilesInv', ContentsInv, OpenManifest
  PROVE  ContentsInv'
<1> DEFINE m == v.manifest
           f == manc[m]
           new == Appended(Appended(Empty, Snapshot(v.live)), OpenEdit)
<1>1. /\ phase = "logs" /\ v.logfile # None /\ v.save /\ phase' = "opensync"
      /\ v' = v /\ logc' = logc /\ tabc' = tabc /\ acked' = acked /\ must' = must /\ job' = job
  BY DEF OpenManifest, Quiet, ghost
<1>2. phase \in Opening /\ phase' \in Opening
  BY <1>1 DEF Opening
<1>3. /\ dir.current # None /\ job = NoJob /\ v \in VType /\ dir \in DirType
      /\ \A d \in Dirs : d.current # None
  BY <1>2, OpeningHas
<1>4. dir.current \in Numbers /\ manc[dir.current] \in FileOf(EditType)
  BY <1>3, CurrentIs
<1>5. manc \in [Numbers -> FileOf(EditType)]
  BY DEF FilesInv, Types, DiskTypes
<1>6. OpenNumbers /\ ReadManifest /\ LogsAreKnown
  BY DEF FilesInv, ContentsInv
<1>7. CASE v.descriptor /\ manc' = [manc EXCEPT ![m] = Appended(f, OpenEdit)] /\ UNCHANGED <<dir, lost>>
  <2>1. ReuseLogs /\ ~MachineCrashes /\ m = dir.current
    BY <1>1, <1>2, <1>6, <1>7 DEF OpenNumbers, ReadManifest, Survivable
  <2>2. /\ OpenEdit \in EditType
        /\ Replay(Append(manc[dir.current].recs, OpenEdit)) =
              [live |-> v.live \cup v.edit, log |-> v.logfile, next |-> v.next, seq |-> v.seq,
               any |-> TRUE]
    BY <1>1, OpenEditIs
  <2>3. manc'[dir.current].recs = Append(manc[dir.current].recs, OpenEdit)
    BY <2>1, <2>2, <1>4, <1>5, <1>7, AppendedFile
  <2>4. Now' = [live |-> v.live \cup v.edit, log |-> v.logfile, next |-> v.next, seq |-> v.seq, any |-> TRUE]
    BY <2>2, <2>3, <1>7 DEF Now
  <2>5. Now'.live = v.live \cup v.edit /\ Now'.log = v.logfile
    BY <2>4
  <2>6. KeptAcked'
    BY <2>5, <1>1, <1>2, <1>3, <1>7, RecoveredKept
  <2>7. KeptMust'
    BY <2>1 DEF KeptMust
  <2>8. LogsAreKnown'
    <3>1. Dirs' = {dir'}
      BY <2>1 DEF Dirs
    <3> QED
      BY <3>1, <1>1, <1>7 DEF LogsAreKnown
  <2> QED
    BY <2>6, <2>7, <2>8, <1>1, <1>2, <1>3, <1>7, OpeningStays, OpeningContents
<1>8. CASE /\ ~v.descriptor /\ dir' = [dir EXCEPT !.manifests = @ \cup {m}] /\ lost' = lost \cup {dir}
           /\ manc' = [manc EXCEPT ![m] = new]
  <2>1. m = Now.next
    BY <1>1, <1>2, <1>6, <1>8 DEF OpenNumbers, ReadManifest
  <2> HIDE DEF new
  <2>2. ASSUME NEW d \in Dirs PROVE manc'[d.current] = manc[d.current]
    <3>1. d.current \in Numbers /\ d.current # m
      BY <2>1, <1>3, DirsAre, OlderManifest
    <3> QED
      BY <3>1, <1>5, <1>8
  <2>3. dir'.current = dir.current /\ dir'.logs = dir.logs
    BY <1>3, <1>8 DEF DirType
  <2>4. \A d \in Dirs' : d \in Dirs \/ d = dir'
    BY <1>8 DEF Dirs
  <2>5. KeptAcked' /\ KeptMust'
    BY <2>2, <2>3, <2>4, <1>1, <1>3, KeptStays DEF ContentsInv
  <2>6. Now' = Now
    BY <2>2, <2>3, <1>3 DEF Now, Dirs
  <2>7. Now.log = v.logNo
    BY <1>1, <1>6 DEF ReadManifest
  <2>8. LogsAreKnown'
    BY <2>3, <2>4, <2>6, <2>7, <1>1, <1>3, KnownDirs
  <2> QED
    BY <2>3, <2>5, <2>8, <1>1, <1>2, <1>3, OpeningStays, OpeningContents
<1> QED
  BY <1>7, <1>8 DEF OpenManifest, ChangeDir

\* OpenSync keeps what had to survive (ContentsInv).
LEMMA OpenSyncContents ==
  ASSUME DurabilityAssumption, Survivable, FilesInv, FilesInv', ContentsInv, OpenSync
  PROVE  ContentsInv'
<1> DEFINE m == v.manifest
           f == manc[m]
<1>1. /\ phase = "opensync" /\ dir' = dir /\ lost' = {}
      /\ manc' = [manc EXCEPT ![m] = SyncedFile(f)]
      /\ phase' = (IF v.descriptor THEN "install" ELSE "opentemp")
      /\ v' = v /\ logc' = logc /\ tabc' = tabc /\ acked' = acked /\ must' = must /\ job' = job
  BY DEF OpenSync, CommitDir, SyncsManifest, Quiet, ghost
<1>2. phase \in Opening /\ phase' \in Opening /\ phase \in Opening \ {"logs"} /\ phase \in Opening \ {"install"}
  BY <1>1 DEF Opening
<1>3. /\ dir.current # None /\ job = NoJob /\ v \in VType /\ dir \in DirType
      /\ \A d \in Dirs : d.current # None
  BY <1>2, OpeningHas
<1>4. m \in Numbers /\ f \in FileOf(EditType) /\ m \in Nat
  BY <1>2, WrittenHas, NumbersAre
<1>5. dir.current \in Numbers /\ manc[dir.current] \in FileOf(EditType)
  BY <1>3, CurrentIs
<1>6. manc \in [Numbers -> FileOf(EditType)]
  BY DEF FilesInv, Types, DiskTypes
<1>7. manc'[m] = SyncedFile(f) /\ (\A n \in Numbers : n # m => manc'[n] = manc[n])
  BY <1>1, <1>4, <1>6
<1>8. SyncedFile(f).recs = f.recs
  BY <1>4, SyncedFileIs
<1>9. Now' = Now
  BY <1>1, <1>5, <1>7, <1>8 DEF Now
<1>10. \A d \in Dirs' : d \in Dirs \/ d = dir'
  BY <1>1 DEF Dirs
<1>11. LogsAreKnown'
  <2>1. ~v.descriptor => Now.log = v.logNo
    BY <1>2 DEF ContentsInv, LogsAreKnown
  <2> QED
    BY <2>1, <1>1, <1>3, <1>9, <1>10, KnownDirs
<1>12. KeptAcked'
  BY <1>1, <1>9 DEF ContentsInv, KeptAcked, InTables, InTable, InLog
<1>13. KeptMust'
  <2>1. CASE ~MachineCrashes
    BY <2>1 DEF KeptMust
  <2>2. CASE MachineCrashes
    <3>1. ~v.descriptor
      BY <2>2, <1>2 DEF Survivable, FilesInv, OpenNumbers
    <3>2. Now.next =< m
      BY <3>1, <1>1 DEF FilesInv, NotCurrentYet
    <3>3. ASSUME NEW d \in Dirs PROVE manc'[d.current] = manc[d.current]
      <4>1. d.current \in Numbers /\ d.current # m
        BY <3>2, <1>3, <1>4, DirsAre, OlderManifest
      <4> QED
        BY <4>1, <1>7
    <3> QED
      BY <3>3, <1>1, <1>3, <1>10, KeptStays DEF ContentsInv
  <2> QED
    BY <2>1, <2>2
<1> QED
  BY <1>1, <1>2, <1>3, <1>11, <1>12, <1>13, OpeningStays, OpeningContents

\* OpenTemp keeps what had to survive (ContentsInv).
LEMMA OpenTempContents ==
  ASSUME FilesInv, FilesInv', ContentsInv, OpenTemp
  PROVE  ContentsInv'
<1>1. /\ phase = "opentemp" /\ dir' = [dir EXCEPT !.temps = @ \cup {v.manifest}] /\ lost' = {}
      /\ phase' = "openname" /\ manc' = manc
      /\ v' = v /\ logc' = logc /\ tabc' = tabc /\ acked' = acked /\ must' = must /\ job' = job
  BY DEF OpenTemp, WriteTemp, CommitDir, Quiet, ghost
<1>2. phase \in Opening /\ phase' \in Opening /\ phase \in Opening \ {"install"}
  BY <1>1 DEF Opening
<1>3. /\ dir.current # None /\ job = NoJob /\ v \in VType /\ dir \in DirType
      /\ \A d \in Dirs : d.current # None
  BY <1>2, OpeningHas
<1>4. dir'.current = dir.current /\ dir'.logs = dir.logs
  BY <1>1, <1>3 DEF DirType
<1>5. \A d \in Dirs' : d \in Dirs \/ d = dir'
  BY <1>1 DEF Dirs
<1>6. KeptAcked' /\ KeptMust'
  BY <1>1, <1>3, <1>4, <1>5, KeptStays DEF ContentsInv
<1>7. Now' = Now
  BY <1>1, <1>4 DEF Now
<1>8. ~v.descriptor => Now.log = v.logNo
  BY <1>2 DEF ContentsInv, LogsAreKnown
<1>9. LogsAreKnown'
  BY <1>1, <1>3, <1>4, <1>5, <1>7, <1>8, KnownDirs
<1> QED
  BY <1>1, <1>2, <1>3, <1>4, <1>6, <1>9, OpeningStays, OpeningContents

\* OpenFails keeps what had to survive (ContentsInv).
LEMMA OpenFailsContents ==
  ASSUME FilesInv, FilesInv', ContentsInv, OpenFails
  PROVE  ContentsInv'
<1>1. /\ phase \in {"opensync", "opentemp", "openname"} /\ phase' = "down" /\ manc' = manc
      /\ dir' = [dir EXCEPT !.manifests = @ \ {v.manifest}, !.temps = @ \ {v.manifest}]
      /\ lost' = lost \cup {dir}
      /\ logc' = logc /\ tabc' = tabc /\ acked' = acked /\ must' = must /\ job' = job
  BY DEF OpenFails, ChangeDir, ghost
<1>2. phase \in Opening /\ phase' \notin Opening /\ phase' \in Creating \cup {"down", "recover"}
  BY <1>1 DEF Opening, Creating
<1>3. /\ dir.current # None /\ job = NoJob /\ v \in VType /\ dir \in DirType
      /\ \A d \in Dirs : d.current # None
  BY <1>2, OpeningHas
<1>4. dir'.current = dir.current /\ dir'.logs = dir.logs
  BY <1>1, <1>3 DEF DirType
<1>5. \A d \in Dirs' : d \in Dirs \/ d = dir'
  BY <1>1 DEF Dirs
<1>6. KeptAcked' /\ KeptMust'
  BY <1>1, <1>3, <1>4, <1>5, KeptStays DEF ContentsInv
<1>7. Now' = Now
  BY <1>1, <1>4 DEF Now
<1>9. LogsAreKnown'
  BY <1>2, <1>3, <1>4, <1>5, <1>7, KnownDirs
<1> QED
  BY <1>1, <1>2, <1>3, <1>6, <1>9, ClosedContents

\* OpenRename keeps what had to survive (ContentsInv).
LEMMA OpenRenameContents ==
  ASSUME DurabilityAssumption, Survivable, FilesInv, FilesInv', ContentsInv, OpenRename
  PROVE  ContentsInv'
<1> DEFINE m == v.manifest
           f == manc[m]
<1>1. /\ phase = "openname" /\ dir' = [dir EXCEPT !.temps = @ \ {m}, !.current = m]
      /\ lost' = lost \cup {dir} /\ phase' = "install" /\ manc' = manc
      /\ v' = v /\ logc' = logc /\ tabc' = tabc /\ acked' = acked /\ must' = must /\ job' = job
  BY DEF OpenRename, RenameTemp, ChangeDir, Quiet, ghost
<1>2. phase \in Opening /\ phase' \in Opening /\ phase \in Opening \ {"logs"} /\ phase \in Opening \ {"install"}
  BY <1>1 DEF Opening
<1>3. /\ dir.current # None /\ job = NoJob /\ v \in VType /\ dir \in DirType
      /\ \A d \in Dirs : d.current # None
  BY <1>2, OpeningHas
<1>4. /\ m \in Numbers /\ f \in FileOf(EditType) /\ m # None
      /\ Mine = Replay(f.recs) /\ Mine.live = v.live \cup v.edit /\ Mine.log = v.logfile /\ v.logfile # None
  BY <1>2, WrittenHas, NumbersAre DEF None
<1>5. dir'.current = m /\ dir'.logs = dir.logs
  BY <1>1, <1>3 DEF DirType
<1>6. \A d \in Dirs' : d \in Dirs \/ d = dir'
  BY <1>1 DEF Dirs
<1>7. Now' = Mine
  BY <1>1, <1>5 DEF Now, Mine
<1>8. KeptAcked'
  BY <1>1, <1>2, <1>4, <1>5, <1>7, RecoveredKept
<1>9. KeptMust'
  <2> SUFFICES ASSUME MachineCrashes, NEW d \in Dirs', NEW k \in Ends(manc[d.current]), NEW x \in must
               PROVE  LET st == UpTo(manc[d.current], k) IN
                      InTables(x, st.live) \/ \E n \in d.logs : n >= st.log /\ InSynced(x, n)
    BY <1>1 DEF KeptMust, InTables, InTable, InSynced
  <2>1. CASE d \in Dirs
    BY <2>1 DEF ContentsInv, KeptMust
  <2>2. CASE d = dir'
    <3>1. Settled(f)
      BY <1>1 DEF FilesInv, NotCurrentYet
    <3>2. k = Len(f.recs)
      BY <2>2, <3>1, <1>5 DEF Settled
    <3>3. UpTo(manc[d.current], k) = Mine
      BY <2>2, <3>2, <1>4, <1>5, UpToAll
    <3>4. x \in acked
      BY DEF ContentsInv, KeptAcked
    <3>5. InTables(x, v.live \cup v.edit)
      BY <3>4, <1>2, <1>4, RecoveredAll
    <3> QED
      BY <3>3, <3>5, <1>4
  <2> QED
    BY <2>1, <2>2, <1>6
<1>10. LogsAreKnown'
  <2>1. Now.log \in Nat
    BY <1>3, NowIs
  <2>2. \A d \in Dirs : d.current # None /\ \A n \in d.logs : n \in Nat
    BY <1>3, DirsAre, NumbersAre DEF DirType
  <2>3. dir \in Dirs
    BY DEF Dirs
  <2>4. ~v.descriptor
    BY <1>1 DEF FilesInv, NotCurrentYet
  <2>5. Now.log = v.logNo
    BY <2>4, <1>2 DEF ContentsInv, LogsAreKnown
  <2>6. v.logNo =< v.logfile /\ v.logfile \in Nat
    BY <1>2, <1>4, RecoveredAll
  <2>7. Now'.log = v.logfile
    BY <1>4, <1>7
  <2>8. phase' \notin Opening \ {"install"}
    BY <1>1
  <2> QED
    BY <2>1, <2>2, <2>3, <2>5, <2>6, <2>7, <2>8, <1>3, <1>5, <1>6, KnownStays DEF ContentsInv
<1> QED
  BY <1>1, <1>2, <1>3, <1>5, <1>8, <1>9, <1>10, OpeningStays, OpeningContents

\* The parts of the invariant on contents that matter when the database is open.
LEMMA OpenContents ==
  ASSUME phase' \in {"clean", "run"}, KeptAcked', KeptMust', LogsAreKnown', MemIsLog',
         phase' = "clean" => Recovered', RunContents', JobContents'
  PROVE  ContentsInv'
<1>1. phase' \notin Opening
  BY DEF Opening
<1>2. OldLogs' /\ Recovered'
  BY <1>1 DEF OldLogs, Recovered
<1> QED
  BY <1>2 DEF ContentsInv

\* What the manifest says when nothing is being added to it.
LEMMA SettledIsNow ==
  ASSUME FilesInv, dir.current # None, Settled(manc[dir.current]), NEW k \in Ends(manc[dir.current])
  PROVE  UpTo(manc[dir.current], k) = Now
BY CurrentIs DEF Settled

\* OpenInstall keeps what had to survive (ContentsInv).
LEMMA OpenInstallContents ==
  ASSUME FilesInv, FilesInv', ContentsInv, OpenInstall
  PROVE  ContentsInv'
<1>1. /\ phase = "install" /\ phase' = "clean"
      /\ v' = [v EXCEPT !.live = v.live \cup v.edit, !.edit = {}, !.logNo = v.logfile, !.descriptor = TRUE]
      /\ acked' = acked /\ must' = must /\ job' = job /\ UNCHANGED disk
  BY DEF OpenInstall, Quiet, ghost
<1>2. phase \in Opening /\ phase \in Opening \ {"logs"} /\ phase' \notin Opening
  BY <1>1 DEF Opening
<1>3. dir.current # None /\ job = NoJob /\ v \in VType
  BY <1>2, OpeningHas
<1>4. /\ v'.live = v.live \cup v.edit /\ v'.edit = {} /\ v'.logNo = v.logfile /\ v'.todo = v.todo
      /\ v'.logfile = v.logfile /\ v'.mem = v.mem /\ v'.imm = v.imm /\ v'.hasImm = v.hasImm
  BY <1>1, <1>3 DEF VType
<1>5. /\ Now' = Now /\ Dirs' = Dirs /\ dir' = dir /\ logc' = logc /\ manc' = manc /\ tabc' = tabc
  BY <1>1, DiskStays
<1>6. KeptAcked' /\ KeptMust' /\ LogsAreKnown'
  BY <1>1, <1>2, DiskStaysKept, DiskStaysKnown
<1>7. v.logfile # None /\ Mine.log = v.logfile /\ v.todo = {}
  BY <1>2, WrittenHas
<1>8. v.logfile \in Nat /\ \A n \in dir.logs : n \in Nat
  BY <1>2, <1>7, RecoveredAll, OpeningKeeps
<1>9. MemIsLog'
  BY <1>1, <1>2, <1>4, <1>5 DEF ContentsInv, MemIsLog, LogSet
<1>10. \A x \in acked : InSet(x, v.mem) \/ InTables(x, v.live \cup v.edit)
  BY <1>2, <1>7 DEF ContentsInv, Recovered
<1>11. Recovered'
  <2>1. v'.live \cup v'.edit = v.live \cup v.edit
    BY <1>4
  <2> QED
    BY <2>1, <1>1, <1>4, <1>5, <1>10 DEF Recovered, InTables, InTable, InSet
<1>12. RunContents'
  <2>1. \A n \in dir.logs : n =< v.logfile
    BY <1>2, <1>7 DEF ContentsInv, OldLogs
  <2>2. \A n \in dir.logs : ~(n >= v.logfile /\ n # v.logfile)
    BY <2>1, <1>8
  <2>3. v.imm = {}
    BY <1>2 DEF FilesInv, OpenNumbers
  <2>4. Settled(manc[dir.current]) /\ Now.log = v.logfile
    <3>1. dir.current = v.manifest /\ Settled(manc[v.manifest])
      BY <1>1 DEF FilesInv, NotCurrentYet
    <3> QED
      BY <3>1, <1>7 DEF Now, Mine
  <2>5. \A k \in Ends(manc[dir.current]) : UpTo(manc[dir.current], k).log =< v.logfile
    <3>1. \A k \in Ends(manc[dir.current]) : UpTo(manc[dir.current], k) = Now
      BY <2>4, <1>3, SettledIsNow
    <3> QED
      BY <3>1, <2>4, <1>8
  <2> QED
    BY <2>1, <2>2, <2>3, <2>5, <1>1, <1>4, <1>5, <1>10 DEF RunContents, InTables, InTable, InSet
<1>13. JobContents'
  <2>1. job'.stage = ""
    BY <1>1, <1>3, FreshIs
  <2> QED
    BY <2>1 DEF JobContents, Active
<1> QED
  BY <1>1, <1>6, <1>9, <1>11, <1>12, <1>13, OpenContents

\* OpenReused keeps what had to survive (ContentsInv).
LEMMA OpenReusedContents ==
  ASSUME Survivable, FilesInv, FilesInv', ContentsInv, OpenReused
  PROVE  ContentsInv'
<1>1. /\ phase = "logs" /\ phase' = "clean" /\ v.logfile # None /\ ~v.save /\ v' = v
      /\ acked' = acked /\ must' = must /\ job' = job /\ UNCHANGED disk
  BY DEF OpenReused, Quiet, ghost, disk
<1>2. phase \in Opening /\ phase' \notin Opening
  BY <1>1 DEF Opening
<1>3. dir.current # None /\ job = NoJob /\ v \in VType
  BY <1>2, OpeningHas
<1>4. /\ Now' = Now /\ Dirs' = Dirs /\ dir' = dir /\ logc' = logc /\ manc' = manc /\ tabc' = tabc
  BY <1>1, DiskStays
<1>5. KeptAcked' /\ KeptMust' /\ LogsAreKnown'
  BY <1>1, <1>2, DiskStaysKept, DiskStaysKnown
<1>6. v.logfile \in Nat /\ v.todo = {} /\ v.logNo =< v.logfile
  BY <1>1, <1>2, RecoveredAll
<1>7. MemIsLog'
  BY <1>1, <1>2, <1>4 DEF ContentsInv, MemIsLog, LogSet
<1>8. \A x \in acked : InSet(x, v.mem) \/ InTables(x, v.live)
  <2>1. v.edit = {}
    BY <1>1, <1>2 DEF FilesInv, OpenNumbers
  <2>2. v.live \cup v.edit = v.live
    BY <2>1
  <2> QED
    BY <2>2, <1>2, <1>6 DEF ContentsInv, Recovered
<1>9. Recovered'
  BY <1>1, <1>2, <1>4 DEF ContentsInv, Recovered, InTables, InTable, InSet, InLog
<1>10. RunContents'
  <2>1. \A n \in dir.logs : n =< v.logfile
    BY <1>1, <1>2 DEF ContentsInv, OldLogs
  <2>2. \A n \in dir.logs : n >= v.logNo /\ n # v.logfile => LogSet(n) = {}
    BY <1>1, <1>2, <1>6 DEF ContentsInv, OldLogs
  <2>3. v.imm = {}
    BY <1>2 DEF FilesInv, OpenNumbers
  <2>4. ~MachineCrashes
    BY <1>1, <1>2 DEF Survivable, FilesInv, OpenNumbers
  <2>5. Settled(manc[dir.current]) /\ Now.log = v.logNo
    BY <2>4, <1>1 DEF Settled, Ends, FilesInv, ReadManifest
  <2>6. \A k \in Ends(manc[dir.current]) : UpTo(manc[dir.current], k).log =< v.logfile
    <3>1. \A k \in Ends(manc[dir.current]) : UpTo(manc[dir.current], k) = Now
      BY <2>5, <1>3, SettledIsNow
    <3> QED
      BY <3>1, <2>5, <1>6
  <2> QED
    BY <2>1, <2>2, <2>3, <2>6, <1>1, <1>4, <1>8 DEF RunContents, InTables, InTable, InSet, LogSet
<1>11. JobContents'
  <2>1. job'.stage = ""
    BY <1>1, <1>3, FreshIs
  <2> QED
    BY <2>1 DEF JobContents, Active
<1> QED
  BY <1>1, <1>5, <1>7, <1>9, <1>10, <1>11, OpenContents

\* What is removed held nothing that is not in tables.
LEMMA DeletesKeep ==
  ASSUME FilesInv, ContentsInv, phase \in {"clean", "run"}, DeleteObsoleteFiles, phase' = "run",
         manc' = manc, logc' = logc, tabc' = tabc, acked' = acked, must' = must,
         v.live = Now.live, v.logNo = Now.log, Settled(manc[dir.current])
  PROVE  KeptAcked' /\ KeptMust' /\ LogsAreKnown' /\ dir'.logs \subseteq dir.logs /\ dir'.current = dir.current
<1>1. /\ dir.current # None /\ v.logNo \in Nat /\ (\A n \in dir.logs : n \in Nat)
      /\ \A d \in Dirs : d.current # None
  BY OpenHas
<1>2. /\ Cleaned(dir') /\ dir'.logs = {n \in dir.logs : n >= v.logNo}
      /\ \A d \in Dirs' : d \in Dirs \/ Cleaned(d)
  BY DeletesObsolete
<1>3. dir'.current = dir.current /\ dir'.logs \subseteq dir.logs
  BY <1>2 DEF Cleaned
<1>4. Now' = Now
  BY <1>3 DEF Now
<1>5. KeptAcked'
  <2>1. \A n \in dir.logs : n >= Now.log => n \in dir'.logs
    BY <1>2
  <2> QED
    BY <2>1, <1>1, <1>3, <1>4 DEF ContentsInv, KeptAcked, InTables, InTable, InLog
<1>6. KeptMust'
  <2> SUFFICES ASSUME MachineCrashes, NEW d \in Dirs', NEW k \in Ends(manc[d.current]), NEW x \in must
               PROVE  LET st == UpTo(manc[d.current], k) IN
                      InTables(x, st.live) \/ \E n \in d.logs : n >= st.log /\ InSynced(x, n)
    BY DEF KeptMust, InTables, InTable, InSynced
  <2>1. CASE d \in Dirs
    BY <2>1 DEF ContentsInv, KeptMust
  <2>2. CASE Cleaned(d)
    <3>1. d.current = dir.current /\ \A n \in dir.logs : n >= v.logNo => n \in d.logs
      BY <2>2 DEF Cleaned
    <3>2. UpTo(manc[dir.current], k) = Now
      BY <3>1, <1>1, SettledIsNow
    <3>3. dir \in Dirs
      BY DEF Dirs
    <3>4. InTables(x, Now.live) \/ \E n \in dir.logs : n >= Now.log /\ InSynced(x, n)
      BY <3>1, <3>2, <3>3 DEF ContentsInv, KeptMust
    <3> QED
      BY <3>1, <3>2, <3>4
  <2> QED
    BY <2>1, <2>2, <1>2
<1>7. LogsAreKnown'
  <2>1. Now.log \in Nat
    BY <1>1
  <2>2. \A d \in Dirs : d.current # None /\ \A n \in d.logs : n \in Nat
    BY <1>1, DirsAre, NumbersAre DEF DirType
  <2>3. \A d \in Dirs' : d \in Dirs \/ d.logs \subseteq dir.logs
    BY <1>2 DEF Cleaned
  <2>4. \A n \in dir.logs : n \in Nat /\ (n \in dir'.logs \/ n < Now'.log)
    BY <1>1, <1>2, <1>4
  <2>5. phase' \notin Opening
    BY DEF Opening
  <2> QED
    BY <2>1, <2>2, <2>3, <2>4, <2>5, <1>1, <1>4, KnownStays DEF ContentsInv
<1> QED
  BY <1>3, <1>5, <1>6, <1>7

\* An open database whose versions and contents stay, while logs may go.
LEMMA RunContentsStays ==
  ASSUME FilesInv, ContentsInv, phase \in {"clean", "run"}, phase' \in {"clean", "run"}, v' = v,
         manc' = manc, logc' = logc, tabc' = tabc, acked' = acked,
         dir'.current = dir.current, dir'.logs \subseteq dir.logs
  PROVE  RunContents' /\ (phase' = "run" => MemIsLog')
<1>1. RunContents'
  BY DEF ContentsInv, RunContents, Open_, LogSet, InSet, InTables, InTable
<1>2. phase' = "run" => MemIsLog'
  BY DEF ContentsInv, MemIsLog, LogSet
<1> QED
  BY <1>1, <1>2

\* OpenClean keeps what had to survive (ContentsInv).
LEMMA OpenCleanContents ==
  ASSUME FilesInv, FilesInv', ContentsInv, OpenClean
  PROVE  ContentsInv'
<1>1. /\ phase = "clean" /\ phase' = "run" /\ DeleteObsoleteFiles
      /\ manc' = manc /\ logc' = logc /\ tabc' = tabc /\ v' = v /\ acked' = acked /\ must' = must /\ job' = job
  BY DEF OpenClean, Quiet, ghost
<1>2. Open_
  BY <1>1 DEF Open_
<1>3. job = NoJob /\ job.stage = "" /\ ~v.bgError
  BY <1>1, <1>2, FreshIs DEF FilesInv, AtRest, RunNumbers
<1>4. v.live = Now.live /\ v.logNo = Now.log /\ Settled(manc[dir.current])
  BY <1>2, <1>3 DEF FilesInv, Installed
<1>5. KeptAcked' /\ KeptMust' /\ LogsAreKnown' /\ dir'.logs \subseteq dir.logs /\ dir'.current = dir.current
  BY <1>1, <1>4, DeletesKeep
<1>6. RunContents' /\ MemIsLog'
  BY <1>1, <1>5, RunContentsStays
<1>7. JobContents'
  BY <1>1, <1>3 DEF JobContents, Active
<1> QED
  BY <1>1, <1>5, <1>6, <1>7, OpenContents

\* Clean keeps what had to survive (ContentsInv).
LEMMA CleanContents ==
  ASSUME FilesInv, FilesInv', ContentsInv, Clean
  PROVE  ContentsInv'
<1>1. /\ job.stage = "clean" /\ job' = NoJob
      /\ (v.bgError /\ UNCHANGED <<dir, lost>>) \/ (~v.bgError /\ DeleteObsoleteFiles)
      /\ manc' = manc /\ logc' = logc /\ tabc' = tabc /\ v' = v /\ phase' = phase
      /\ acked' = acked /\ must' = must
  BY DEF Clean, MayCollect, ghost
<1>2. phase = "run" /\ phase' = "run"
  BY <1>1, FreshIs DEF FilesInv, AtRest
<1>3. Open_
  BY <1>2 DEF Open_
<1>4. KeptAcked' /\ KeptMust' /\ LogsAreKnown' /\ dir'.logs \subseteq dir.logs /\ dir'.current = dir.current
  <2>1. CASE v.bgError /\ UNCHANGED <<dir, lost>>
    <3>1. UNCHANGED disk
      BY <2>1, <1>1 DEF disk
    <3>2. phase' \notin Opening
      BY <1>2 DEF Opening
    <3> QED
      BY <2>1, <3>1, <3>2, <1>1, DiskStaysKept, DiskStaysKnown
  <2>2. CASE ~v.bgError /\ DeleteObsoleteFiles
    <3>1. v.live = Now.live /\ v.logNo = Now.log /\ Settled(manc[dir.current])
      BY <2>2, <1>1, <1>3 DEF FilesInv, Installed
    <3> QED
      BY <2>2, <3>1, <1>1, <1>2, DeletesKeep
  <2> QED
    BY <2>1, <2>2, <1>1
<1>5. RunContents' /\ MemIsLog'
  BY <1>1, <1>2, <1>4, RunContentsStays
<1>6. JobContents'
  <2>1. job'.stage = ""
    BY <1>1, FreshIs
  <2> QED
    BY <2>1 DEF JobContents, Active
<1> QED
  BY <1>2, <1>4, <1>5, <1>6, OpenContents

\* The log in use may hold what a version needs, whatever a crash leaves of the manifest.
LEMMA LogIsNewest ==
  ASSUME FilesInv, ContentsInv, phase = "run", ~v.bgError
  PROVE  /\ \A k \in Ends(manc[dir.current]) :
              UpTo(manc[dir.current], k).log \in Nat /\ UpTo(manc[dir.current], k).log =< v.logfile
         /\ Now.log =< v.logfile /\ v.logfile \in dir.logs /\ v.logfile \in Nat /\ v.logfile \in Numbers
<1>1. Open_ /\ dir.current # None /\ v.logfile \in Nat /\ v.logfile \in Numbers
  BY OpenHas
<1>2. dir \in Dirs
  BY DEF Dirs
<1>3. \A k \in Ends(manc[dir.current]) :
        UpTo(manc[dir.current], k).log \in Nat /\ UpTo(manc[dir.current], k).log =< v.logfile
  BY <1>1, <1>2, VersionsAre DEF ContentsInv, RunContents
<1>4. Now.log =< v.logfile
  BY <1>1, <1>3, NowIs
<1> QED
  BY <1>1, <1>3, <1>4 DEF FilesInv, RunNumbers

\* Write keeps what had to survive (ContentsInv).
LEMMA WriteContents ==
  ASSUME FilesInv, FilesInv', ContentsInv, NEW sync \in BOOLEAN, Write(sync)
  PROVE  ContentsInv'
<1> DEFINE b == [id |-> writes + 1, seq |-> v.seq + 1]
           lf == v.logfile
           f == Appended(logc[lf], b)
           g == IF sync THEN SyncedFile(f) ELSE f
           mem == v.mem \cup {b}
           sq == v.seq + 1
           ids == IF sync THEN must \cup {b.id} ELSE must
<1>1. /\ phase = "run" /\ phase' = "run" /\ dir' = dir /\ lost' \in {lost, {}} /\ manc' = manc /\ tabc' = tabc
      /\ logc' = [logc EXCEPT ![lf] = g] /\ ~v.bgError
      /\ v' = [v EXCEPT !.mem = mem, !.seq = sq] /\ job' = job
      /\ acked' = acked \cup {b.id} /\ must' = ids
      /\ sync => lost' = {}
  BY DEF Write, CommitDir
<1>2. /\ dir.current # None /\ v \in VType /\ dir \in DirType /\ v.seq \in Nat /\ Open_
      /\ \A d \in Dirs : d.current # None
  BY <1>1, OpenHas
<1>3. writes \in Nat /\ logc \in [Numbers -> FileOf(Batch)] /\ v.mem \subseteq Batch
  BY <1>2 DEF FilesInv, Types, DiskTypes, VType
<1>4. b \in Batch
  BY <1>2, <1>3 DEF Batch
<1>5. /\ \A k \in Ends(manc[dir.current]) :
           UpTo(manc[dir.current], k).log \in Nat /\ UpTo(manc[dir.current], k).log =< lf
      /\ Now.log =< lf /\ lf \in dir.logs /\ lf \in Nat /\ lf \in Numbers
  BY <1>1, LogIsNewest
<1>6. Now.log \in Nat
  BY <1>2, NowIs
<1> HIDE DEF b
<1>7. /\ v'.mem = mem /\ v'.logfile = lf /\ v'.live = v.live /\ v'.logNo = v.logNo /\ v'.imm = v.imm
      /\ v'.hasImm = v.hasImm /\ v'.bgError = v.bgError
  <2> HIDE DEF mem, sq
  <2> QED
    BY <1>1, <1>2 DEF VType
<1> DEFINE old == logc[lf]
<1>8. /\ g.recs = Append(old.recs, b) /\ old.recs \in Seq(Batch) /\ old.synced \in Nat
      /\ old.synced =< Len(old.recs) /\ Len(old.recs) \in Nat
      /\ sync => g.synced = Len(old.recs) + 1
      /\ ~sync => g.synced = old.synced
  <2>1. old \in FileOf(Batch)
    BY <1>3, <1>5
  <2>2. /\ f \in FileOf(Batch) /\ f.recs = Append(old.recs, b) /\ f.synced = old.synced
        /\ Len(f.recs) = Len(old.recs) + 1
    BY <2>1, <1>4, AppendedFile
  <2> HIDE DEF f, old
  <2>3. SyncedFile(f).recs = f.recs /\ SyncedFile(f).synced = Len(f.recs)
    BY <2>2, SyncedFileIs
  <2>4. old.recs \in Seq(Batch) /\ old.synced \in Nat /\ old.synced =< Len(old.recs) /\ Len(old.recs) \in Nat
    BY <2>1, LenProperties DEF FileOf
  <2> QED
    BY <2>2, <2>3, <2>4
<1>9. logc'[lf] = g /\ \A n \in Numbers : n # lf => logc'[n] = logc[n]
  BY <1>1, <1>3, <1>5
<1> HIDE DEF g, old, mem, sq, ids
<1>10. /\ Len(g.recs) = Len(old.recs) + 1 /\ g.recs[Len(old.recs) + 1] = b
       /\ (\A i \in 1..Len(old.recs) : g.recs[i] = old.recs[i])
  BY <1>4, <1>8, AppendProperties
<1>11. ASSUME NEW n \in Numbers, NEW x
       PROVE  /\ InLog(x, n) => \E i \in 1..Len(logc'[n].recs) : logc'[n].recs[i].id = x
              /\ InSynced(x, n) => \E i \in 1..logc'[n].synced : logc'[n].recs[i].id = x
  <2>1. CASE n # lf
    BY <2>1, <1>9 DEF InLog, InSynced
  <2>2. CASE n = lf
    <3>1. logc'[n] = g /\ logc[n] = old
      BY <2>2, <1>9 DEF old
    <3>2. \A i \in 1..Len(old.recs) : i \in 1..Len(g.recs)
      BY <1>8, <1>10
    <3>3. \A i \in 1..old.synced : i \in 1..g.synced /\ i \in 1..Len(old.recs)
      BY <1>8
    <3> QED
      BY <3>1, <3>2, <3>3, <1>10 DEF InLog, InSynced
  <2> QED
    BY <2>1, <2>2
<1>12. \E i \in 1..Len(logc'[lf].recs) : logc'[lf].recs[i].id = b.id
  BY <1>8, <1>9, <1>10
<1>13. sync => \E i \in 1..logc'[lf].synced : logc'[lf].recs[i].id = b.id
  BY <1>8, <1>9, <1>10
<1>14. Now' = Now
  BY <1>1 DEF Now
<1>15. \A d \in Dirs' : d \in Dirs /\ (sync => d = dir)
  BY <1>1 DEF Dirs
<1>16. \A n \in dir.logs : n \in Numbers
  BY <1>2 DEF DirType
<1>17. KeptAcked'
  <2>1. must' \subseteq acked'
    BY <1>1 DEF ids, ContentsInv, KeptAcked
  <2>2. ASSUME NEW x \in acked'
        PROVE  \/ \E t \in Now.live : \E c \in tabc[t] : c.id = x
               \/ \E n \in dir.logs : n >= Now.log /\ \E i \in 1..Len(logc'[n].recs) : logc'[n].recs[i].id = x
    <3>1. CASE x = b.id
      BY <3>1, <1>5, <1>6, <1>12
    <3>2. CASE x \in acked
      <4>1. InTables(x, Now.live) \/ \E n \in dir.logs : n >= Now.log /\ InLog(x, n)
        BY <3>2, <1>2 DEF ContentsInv, KeptAcked
      <4> QED
        BY <4>1, <1>11, <1>16 DEF InTables, InTable
    <3> QED
      BY <3>1, <3>2, <1>1
  <2> QED
    BY <2>1, <2>2, <1>1, <1>2, <1>14 DEF KeptAcked, InTables, InTable, InLog
<1>18. KeptMust'
  <2> SUFFICES ASSUME MachineCrashes, NEW d \in Dirs', NEW k \in Ends(manc[d.current]), NEW x \in must'
               PROVE  LET st == UpTo(manc[d.current], k) IN
                      \/ \E t \in st.live : \E c \in tabc[t] : c.id = x
                      \/ \E n \in d.logs : n >= st.log /\ \E i \in 1..logc'[n].synced : logc'[n].recs[i].id = x
    BY <1>1 DEF KeptMust, InTables, InTable, InSynced
  <2>1. CASE sync /\ x = b.id
    <3>1. d = dir
      BY <2>1, <1>15
    <3> QED
      BY <3>1, <2>1, <1>5, <1>13
  <2>2. CASE x \in must
    <3> DEFINE st == UpTo(manc[d.current], k)
    <3>1. InTables(x, st.live) \/ \E n \in d.logs : n >= st.log /\ InSynced(x, n)
      BY <2>2, <1>15 DEF ContentsInv, KeptMust
    <3>2. \A n \in d.logs : n \in Numbers
      BY <1>2, <1>15, VersionsAre
    <3> QED
      BY <3>1, <3>2, <1>11 DEF InTables, InTable
  <2> QED
    BY <2>1, <2>2, <1>1 DEF ids
<1>19. LogsAreKnown'
  <2>1. phase' \notin Opening
    BY <1>1 DEF Opening
  <2> QED
    BY <2>1, <1>1, <1>2, <1>14, <1>15, KnownDirs
<1>20. MemIsLog'
  <2>1. lf # None
    BY <1>5, NumbersAre DEF None
  <2>2. v.mem = Range(old.recs)
    BY <2>1, <1>1 DEF ContentsInv, MemIsLog, LogSet, old
  <2>3. Range(g.recs) = Range(old.recs) \cup {b}
    BY <1>4, <1>8, RangeOfAppend
  <2>4. v'.mem = Range(logc'[v'.logfile].recs)
    BY <2>2, <2>3, <1>7, <1>9 DEF mem
  <2> QED
    BY <2>1, <2>4, <1>1, <1>7 DEF MemIsLog, LogSet
<1>21. RunContents'
  <2>1. RunContents
    BY DEF ContentsInv
  <2>2. \A n \in dir.logs : n >= v.logNo /\ n # lf => Range(logc'[n].recs) \subseteq v.imm
    BY <2>1, <1>2, <1>9, <1>16 DEF RunContents, LogSet
  <2>3. ASSUME NEW x \in acked' PROVE InSet(x, v'.mem) \/ InSet(x, v.imm) \/ InTables(x, v.live)
    <3>1. CASE x = b.id
      BY <3>1, <1>7 DEF InSet, mem
    <3>2. CASE x \in acked
      BY <2>1, <3>2, <1>2, <1>7 DEF RunContents, InSet, mem
    <3> QED
      BY <3>1, <3>2, <1>1
  <2>4. /\ \A n \in dir.logs : n =< lf
        /\ ~v.hasImm => v.imm = {}
        /\ \A k \in Ends(manc[dir.current]) : UpTo(manc[dir.current], k).log =< lf
    BY <2>1, <1>2, <1>5 DEF RunContents
  <2> QED
    BY <2>2, <2>3, <2>4, <1>1, <1>7 DEF RunContents, LogSet, InSet, InTables, InTable
<1>22. JobContents'
  BY <1>1, <1>7, <1>14 DEF ContentsInv, JobContents
<1> QED
  BY <1>1, <1>17, <1>18, <1>19, <1>20, <1>21, <1>22, OpenContents

\* NewIterator keeps what had to survive (ContentsInv).
LEMMA NewIteratorContents ==
  ASSUME FilesInv, FilesInv', ContentsInv, NewIterator
  PROVE  ContentsInv'
<1> DEFINE pins == Append(v.pins, v.live)
<1>1. /\ phase = "run" /\ phase' = "run" /\ v' = [v EXCEPT !.pins = pins] /\ UNCHANGED disk
      /\ acked' = acked /\ must' = must /\ job' = job
  BY DEF NewIterator, Quiet, ghost
<1>2. /\ v \in VType /\ Open_ /\ phase' \notin Opening
  BY <1>1, OpenHas DEF Opening
<1> HIDE DEF pins
<1>3. /\ v'.mem = v.mem /\ v'.logfile = v.logfile /\ v'.live = v.live /\ v'.logNo = v.logNo /\ v'.imm = v.imm
      /\ v'.hasImm = v.hasImm /\ v'.bgError = v.bgError
  BY <1>1, <1>2 DEF VType
<1>4. /\ Now' = Now /\ Dirs' = Dirs /\ dir' = dir /\ logc' = logc /\ manc' = manc /\ tabc' = tabc
  BY <1>1, DiskStays
<1>5. KeptAcked' /\ KeptMust' /\ LogsAreKnown'
  BY <1>1, <1>2, DiskStaysKept, DiskStaysKnown
<1>6. MemIsLog'
  BY <1>1, <1>3, <1>4 DEF ContentsInv, MemIsLog, LogSet
<1>7. RunContents'
  BY <1>1, <1>2, <1>3, <1>4 DEF ContentsInv, RunContents, LogSet, InSet, InTables, InTable
<1>8. JobContents'
  BY <1>1, <1>3, <1>4 DEF ContentsInv, JobContents
<1> QED
  BY <1>1, <1>5, <1>6, <1>7, <1>8, OpenContents

\* SwitchMemTable keeps what had to survive (ContentsInv).
LEMMA SwitchMemTableContents ==
  ASSUME FilesInv, FilesInv', ContentsInv, SwitchMemTable
  PROVE  ContentsInv'
<1> DEFINE n == v.next
           mem == v.mem
           n1 == v.next + 1
<1>1. /\ phase = "run" /\ phase' = "run" /\ n =< MaxFiles /\ manc' = manc /\ tabc' = tabc /\ ~v.bgError
      /\ ~v.hasImm
      /\ dir' = [dir EXCEPT !.logs = @ \cup {n}] /\ lost' = lost \cup {dir}
      /\ logc' = [logc EXCEPT ![n] = Empty]
      /\ v' = [v EXCEPT !.logfile = n, !.next = n1, !.imm = mem, !.mem = {}, !.hasImm = TRUE]
      /\ acked' = acked /\ must' = must /\ job' = job
  BY DEF SwitchMemTable, ChangeDir, Bumped
<1>2. /\ dir.current # None /\ v \in VType /\ dir \in DirType /\ Open_ /\ phase' \notin Opening
      /\ v.next \in Nat /\ v.next > 0 /\ v.logfile < v.next /\ v.logfile \in Nat /\ v.logfile \in Numbers
      /\ (\A m \in dir.logs : m \in Nat) /\ (\A d \in Dirs : d.current # None)
  BY <1>1, OpenHas DEF Opening
<1>3. n \in Numbers
  BY <1>1, <1>2 DEF Numbers
<1>4. (\A m \in dir.logs : m < n) /\ Now.next =< n
  BY <1>2 DEF FilesInv, RunNumbers
<1>5. dir'.logs = dir.logs \cup {n} /\ dir'.current = dir.current
  <2> HIDE DEF n
  <2> QED
    BY <1>1, <1>2 DEF DirType
<1>6. /\ v'.mem = {} /\ v'.logfile = n /\ v'.live = v.live /\ v'.logNo = v.logNo /\ v'.imm = mem
      /\ v'.hasImm /\ v'.bgError = v.bgError
  <2> HIDE DEF n, mem, n1
  <2> QED
    BY <1>1, <1>2 DEF VType
<1>7. \A d \in Dirs' : d \in Dirs \/ d = dir'
  BY <1>1 DEF Dirs
<1>8. logc \in [Numbers -> FileOf(Batch)]
  BY DEF FilesInv, Types, DiskTypes
<1>9. logc'[n] = Empty /\ \A m \in Numbers : m # n => logc'[m] = logc[m]
  BY <1>1, <1>3, <1>8
<1>10. \A m \in dir.logs : m \in Numbers /\ m # n /\ logc'[m] = logc[m]
  BY <1>2, <1>4, <1>9 DEF DirType
<1>11. Now' = Now
  BY <1>1, <1>5 DEF Now
<1>12. KeptAcked' /\ KeptMust'
  <2>1. Now.next \in Nat
    BY <1>2, NowIs
  <2>2. \A m \in Numbers : m \in dir.logs \/ m < Now.next => logc'[m] = logc[m]
    BY <2>1, <1>2, <1>4, <1>9, <1>10, NumbersAre
  <2> QED
    BY <2>2, <1>1, <1>2, <1>5, <1>7, KeptStays DEF ContentsInv
<1>13. LogsAreKnown'
  BY <1>2, <1>5, <1>7, <1>11, KnownDirs
<1>14. MemIsLog'
  <2>1. logc'[n].recs = <<>>
    BY <1>9, EmptyFile
  <2>2. Range(logc'[v'.logfile].recs) = {}
    BY <2>1, <1>6 DEF Range
  <2>3. v'.logfile # None
    BY <1>2, <1>6 DEF None
  <2> QED
    BY <2>2, <2>3, <1>6 DEF MemIsLog, LogSet
<1>15. RunContents'
  <2>1. RunContents
    BY DEF ContentsInv
  <2>2. v.imm = {}
    BY <2>1, <1>1, <1>2 DEF RunContents
  <2>3. v.mem = LogSet(v.logfile)
    BY <1>1, <1>2, NumbersAre DEF ContentsInv, MemIsLog, None
  <2>4. \A m \in dir'.logs : m =< n
    BY <1>2, <1>4, <1>5
  <2>5. \A m \in dir'.logs : m >= v.logNo /\ m # n => Range(logc'[m].recs) \subseteq mem
    <3> SUFFICES ASSUME NEW m \in dir'.logs, m >= v.logNo, m # n PROVE Range(logc'[m].recs) \subseteq mem
      OBVIOUS
    <3>1. m \in dir.logs /\ logc'[m] = logc[m]
      BY <1>5, <1>10
    <3>2. CASE m = v.logfile
      BY <3>1, <3>2, <2>3 DEF LogSet
    <3>3. CASE m # v.logfile
      BY <3>1, <3>3, <2>1, <2>2, <1>2 DEF RunContents, LogSet
    <3> QED
      BY <3>2, <3>3
  <2>6. \A k \in Ends(manc[dir.current]) : UpTo(manc[dir.current], k).log =< n
    <3>1. \A k \in Ends(manc[dir.current]) :
            UpTo(manc[dir.current], k).log \in Nat /\ UpTo(manc[dir.current], k).log =< v.logfile
      BY <1>1, LogIsNewest
    <3> QED
      BY <3>1, <1>2
  <2>7. \A x \in acked : InSet(x, mem) \/ InTables(x, v.live)
    BY <2>1, <2>2, <1>2 DEF RunContents, InSet
  <2> HIDE DEF n, mem
  <2> QED
    BY <2>4, <2>5, <2>6, <2>7, <1>1, <1>5, <1>6 DEF RunContents, LogSet, InSet, InTables, InTable
<1>16. JobContents'
  <2>1. job.stage \in Active => job.kind # "mem"
    BY <1>1 DEF ContentsInv, JobContents
  <2>2. job.stage \in {"append", "sync", "install"} => job.stage \in Active
    BY DEF Active
  <2> QED
    BY <2>1, <2>2, <1>1, <1>6, <1>11 DEF ContentsInv, JobContents
<1> QED
  BY <1>1, <1>12, <1>13, <1>14, <1>15, <1>16, OpenContents

\* StartTable keeps what had to survive (ContentsInv).
LEMMA StartTableContents ==
  ASSUME FilesInv, FilesInv', ContentsInv, NEW kind \in {"mem", "comp"}, NEW ents \in SUBSET Batch,
         NEW del \in SUBSET v.live, StartTable(kind, ents, del),
         kind = "mem" => v.hasImm /\ ents = v.imm /\ del = {},
         kind = "comp" => \A t \in del : tabc[t] \subseteq ents
  PROVE  ContentsInv'
<1> DEFINE n == v.next
           n1 == v.next + 1
           pn == v.pending \cup {n}
           ed == Edit({n}, del, None, None, 0)
<1>1. /\ phase = "run" /\ phase' = "run" /\ ~v.bgError /\ n =< MaxFiles
      /\ dir' = [dir EXCEPT !.tables = @ \cup {n}] /\ lost' = lost \cup {dir}
      /\ tabc' = [tabc EXCEPT ![n] = {}]
      /\ v' = [v EXCEPT !.next = n1, !.pending = pn]
      /\ job' = [kind |-> kind, stage |-> "build", num |-> n, ents |-> ents, edit |-> ed]
      /\ logc' = logc /\ manc' = manc /\ acked' = acked /\ must' = must
  BY DEF StartTable, ChangeDir, Bumped
<1>2. /\ dir.current # None /\ v \in VType /\ dir \in DirType /\ Open_ /\ phase' \notin Opening
      /\ v.next \in Nat /\ v.next > 0 /\ (\A d \in Dirs : d.current # None)
  BY <1>1, OpenHas DEF Opening
<1>3. (\A t \in v.live : t < n /\ t \in Numbers) /\ Now.next =< n
  BY <1>2 DEF FilesInv, RunNumbers, LiveFiles, VType
<1>4. dir'.logs = dir.logs /\ dir'.current = dir.current
  <2> HIDE DEF n
  <2> QED
    BY <1>1, <1>2 DEF DirType
<1>5. /\ v'.mem = v.mem /\ v'.logfile = v.logfile /\ v'.live = v.live /\ v'.logNo = v.logNo /\ v'.imm = v.imm
      /\ v'.hasImm = v.hasImm /\ v'.bgError = v.bgError
  <2> HIDE DEF n, n1, pn
  <2> QED
    BY <1>1, <1>2 DEF VType
<1>6. \A d \in Dirs' : d \in Dirs \/ d = dir'
  BY <1>1 DEF Dirs
<1>7. \A t \in Numbers : t < n => tabc'[t] = tabc[t]
  <2>1. tabc \in [Numbers -> SUBSET Batch]
    BY DEF FilesInv, Types, DiskTypes
  <2> QED
    BY <2>1, <1>1, <1>2, NumbersAre
<1>8. Now.next \in Nat
  BY <1>2, NowIs
<1>9. KeptAcked' /\ KeptMust'
  <2>1. \A t \in Numbers : t < Now.next => tabc'[t] = tabc[t]
    BY <1>2, <1>3, <1>7, <1>8, NumbersAre
  <2> QED
    BY <2>1, <1>1, <1>2, <1>4, <1>6, KeptStays DEF ContentsInv
<1>10. Now' = Now
  BY <1>1, <1>4 DEF Now
<1>11. LogsAreKnown'
  BY <1>2, <1>4, <1>6, <1>10, KnownDirs
<1>12. MemIsLog'
  BY <1>1, <1>5 DEF ContentsInv, MemIsLog, LogSet
<1>13. \A t \in v.live : tabc'[t] = tabc[t]
  BY <1>3, <1>7
<1>14. RunContents'
  BY <1>1, <1>2, <1>4, <1>5, <1>13 DEF ContentsInv, RunContents, LogSet, InSet, InTables, InTable
<1>15. JobContents'
  <2>1. ed.del = del
    BY DEF Edit
  <2> HIDE DEF ed, n
  <2>2. job'.stage = "build" /\ job'.kind = kind /\ job'.num = n /\ job'.ents = ents /\ job'.edit = ed
    BY <1>1
  <2> QED
    BY <2>1, <2>2, <1>3, <1>5, <1>10, <1>13 DEF JobContents
<1> QED
  BY <1>1, <1>9, <1>11, <1>12, <1>14, <1>15, OpenContents

\* CompactMemTable keeps what had to survive (ContentsInv).
LEMMA CompactMemTableContents ==
  ASSUME FilesInv, FilesInv', ContentsInv, CompactMemTable
  PROVE  ContentsInv'
<1>1. v.imm \in SUBSET Batch
  BY DEF FilesInv, Types, VType
<1> QED
  BY <1>1, StartTableContents DEF CompactMemTable

\* DoCompactionWork keeps what had to survive (ContentsInv).
LEMMA DoCompactionWorkContents ==
  ASSUME FilesInv, FilesInv', ContentsInv, DoCompactionWork
  PROVE  ContentsInv'
<1>1. PICK T \in SUBSET v.live \ {{}} : StartTable("comp", UNION {tabc[t] : t \in T}, T)
  BY DEF DoCompactionWork
<1>2. UNION {tabc[t] : t \in T} \in SUBSET Batch /\ \A t \in T : tabc[t] \subseteq UNION {tabc[s] : s \in T}
  BY DEF FilesInv, Types, DiskTypes, VType
<1> QED
  BY <1>1, <1>2, StartTableContents

\* FinishTable keeps what had to survive (ContentsInv).
LEMMA FinishTableContents ==
  ASSUME FilesInv, FilesInv', ContentsInv, FinishTable
  PROVE  ContentsInv'
<1> DEFINE lg == IF job.kind = "mem" THEN v.logfile ELSE v.logNo
           pn == IF job.kind = "mem" THEN v.pending \ {job.num} ELSE v.pending
           nx == v.next
           sq == v.seq
           ed == [job.edit EXCEPT !.log = lg, !.next = nx, !.seq = sq]
<1>1. /\ job.stage = "build" /\ tabc' = [tabc EXCEPT ![job.num] = job.ents] /\ dir' = dir /\ lost' = {}
      /\ v' = [v EXCEPT !.pending = pn] /\ job' = [job EXCEPT !.stage = "append", !.edit = ed]
      /\ logc' = logc /\ manc' = manc /\ phase' = phase /\ acked' = acked /\ must' = must
  BY DEF FinishTable, CommitDir, ghost
<1>2. phase = "run" /\ ~v.bgError /\ phase' = "run" /\ phase' \notin Opening
  BY <1>1, JobRuns DEF Active, Opening
<1>3. /\ dir.current # None /\ v \in VType /\ dir \in DirType /\ job \in JobType /\ Open_
      /\ (\A d \in Dirs : d.current # None)
  BY <1>2, OpenHas
<1>4. job.num \in dir.tables /\ job.edit.del \subseteq v.live /\ job.edit \in EditType
  BY <1>1, <1>3 DEF FilesInv, JobNumbers, Active, JobType
<1>5. job.num \in Numbers /\ job.num \in Nat
  BY <1>3, <1>4, NumbersAre DEF DirType
<1>6. Now.next =< job.num /\ Now.next \in Nat
  BY <1>1, <1>3, NowIs DEF ContentsInv, JobContents
<1>7. \A t \in Numbers : t < Now.next => tabc'[t] = tabc[t]
  <2>1. tabc \in [Numbers -> SUBSET Batch]
    BY DEF FilesInv, Types, DiskTypes
  <2>2. \A t \in Numbers : t < Now.next => t # job.num
    BY <1>5, <1>6, NumbersAre
  <2> QED
    BY <2>1, <2>2, <1>1
<1>8. \A t \in v.live : tabc'[t] = tabc[t]
  <2>1. v.live = Now.live
    BY <1>1, <1>2, <1>3 DEF FilesInv, Installed
  <2> QED
    BY <2>1, <1>3, <1>7, NowIs
<1>9. tabc'[job.num] = job.ents
  BY <1>1, <1>5 DEF FilesInv, Types, DiskTypes
<1>10. \A d \in Dirs' : d \in Dirs \/ d = dir'
  BY <1>1 DEF Dirs
<1>11. KeptAcked' /\ KeptMust'
  BY <1>1, <1>3, <1>7, <1>10, KeptStays DEF ContentsInv
<1>12. Now' = Now
  BY <1>1 DEF Now
<1>13. LogsAreKnown'
  BY <1>1, <1>2, <1>3, <1>10, <1>12, KnownDirs
<1>14. /\ v'.mem = v.mem /\ v'.logfile = v.logfile /\ v'.live = v.live /\ v'.logNo = v.logNo /\ v'.imm = v.imm
       /\ v'.hasImm = v.hasImm /\ v'.bgError = v.bgError
  <2> HIDE DEF pn
  <2> QED
    BY <1>1, <1>3 DEF VType
<1>15. MemIsLog'
  BY <1>1, <1>2, <1>14 DEF ContentsInv, MemIsLog, LogSet
<1>16. RunContents'
  BY <1>1, <1>2, <1>3, <1>8, <1>14 DEF ContentsInv, RunContents, LogSet, InSet, InTables, InTable
<1>17. ed.del = job.edit.del /\ ed.log = lg
  <2> HIDE DEF lg, nx, sq
  <2> QED
    BY <1>4 DEF EditType
<1> HIDE DEF ed
<1>18. /\ job'.stage = "append" /\ job'.edit = ed /\ job'.num = job.num /\ job'.kind = job.kind
       /\ job'.ents = job.ents
  BY <1>1, <1>3 DEF JobType
<1>19. JobContents'
  <2>1. job.stage \in Active
    BY <1>1 DEF Active
  <2>2. /\ job.kind = "mem" => v.hasImm /\ job.ents = v.imm /\ job.edit.del = {}
        /\ job.kind = "comp" => \A t \in job.edit.del : tabc[t] \subseteq job.ents
    BY <2>1 DEF ContentsInv, JobContents
  <2>3. job.kind = "comp" => \A t \in job.edit.del : tabc'[t] \subseteq job.ents
    BY <2>2, <1>4, <1>8
  <2> QED
    BY <2>2, <2>3, <1>9, <1>14, <1>17, <1>18 DEF JobContents
<1> QED
  BY <1>2, <1>11, <1>13, <1>15, <1>16, <1>19, OpenContents

\* A batch that is in a log is one of its records.
LEMMA InLogSet ==
  ASSUME FilesInv, NEW n \in Numbers, NEW x
  PROVE  /\ InLog(x, n) => \E b \in LogSet(n) : b.id = x
         /\ InSynced(x, n) => InLog(x, n)
<1>1. logc[n] \in FileOf(Batch)
  BY DEF FilesInv, Types, DiskTypes
<1>2. /\ DOMAIN logc[n].recs = 1..Len(logc[n].recs) /\ Len(logc[n].recs) \in Nat
      /\ logc[n].synced \in Nat /\ logc[n].synced =< Len(logc[n].recs)
  BY <1>1 DEF FileOf
<1>3. \A i \in 1..logc[n].synced : i \in 1..Len(logc[n].recs)
  BY <1>2
<1> QED
  BY <1>2, <1>3 DEF InLog, InSynced, LogSet, Range

\* What a job's table makes obsolete is in it, or in what the next version keeps.
LEMMA EditKeeps ==
  ASSUME FilesInv, ContentsInv, job.stage \in {"append", "sync", "install"}
  PROVE  LET live == (v.live \ job.edit.del) \cup job.edit.add IN
         /\ job.kind \in {"mem", "comp"} /\ job.edit.log = (IF job.kind = "mem" THEN v.logfile ELSE v.logNo)
         /\ v.logNo =< job.edit.log /\ job.edit.log \in Nat
         /\ \A x : InTables(x, v.live) => InTables(x, live)
         /\ job.kind = "mem" => \A x : (\E b \in v.imm : b.id = x) => InTables(x, live)
         /\ \A n \in dir.logs : \A x : n >= v.logNo /\ InLog(x, n) => n >= job.edit.log \/ InTables(x, live)
<1> DEFINE live == (v.live \ job.edit.del) \cup job.edit.add
<1>1. /\ phase = "run" /\ ~v.bgError /\ job \in JobType /\ job.edit.add = {job.num} /\ job.edit.log \in Nat
      /\ job.stage \in Active
  BY EditIs DEF Active
<1>2. /\ v \in VType /\ Open_ /\ v.logNo \in Nat /\ v.logfile \in Nat /\ (\A n \in dir.logs : n \in Nat)
      /\ dir \in DirType
  BY <1>1, OpenHas
<1>3. /\ tabc[job.num] = job.ents /\ job.edit.log = (IF job.kind = "mem" THEN v.logfile ELSE v.logNo)
      /\ job.kind = "mem" => job.ents = v.imm /\ job.edit.del = {}
      /\ job.kind = "comp" => \A t \in job.edit.del : tabc[t] \subseteq job.ents
  BY <1>1 DEF ContentsInv, JobContents
<1>4. job.kind \in {"mem", "comp"}
  BY <1>1 DEF FilesInv, JobNumbers, JobType
<1>5. v.logNo =< v.logfile
  BY <1>2 DEF FilesInv, RunNumbers
<1>6. v.logNo =< job.edit.log
  BY <1>2, <1>3, <1>5
<1>7. job.num \in live
  BY <1>1
<1>8. ASSUME NEW x, InTables(x, v.live) PROVE InTables(x, live)
  <2>1. PICK t \in v.live : \E b \in tabc[t] : b.id = x
    BY <1>8 DEF InTables, InTable
  <2>2. CASE t \in job.edit.del
    BY <2>1, <2>2, <1>3, <1>4, <1>7 DEF InTables, InTable
  <2>3. CASE t \notin job.edit.del
    BY <2>1, <2>3 DEF InTables, InTable
  <2> QED
    BY <2>2, <2>3
<1>9. ASSUME job.kind = "mem", NEW x, \E b \in v.imm : b.id = x PROVE InTables(x, live)
  BY <1>3, <1>7, <1>9 DEF InTables, InTable
<1>10. ASSUME NEW n \in dir.logs, NEW x, n >= v.logNo, InLog(x, n)
       PROVE  n >= job.edit.log \/ InTables(x, live)
  <2>1. CASE job.kind = "comp"
    BY <2>1, <1>3, <1>10
  <2>2. CASE job.kind = "mem" /\ n = v.logfile
    BY <2>2, <1>2, <1>3
  <2>3. CASE job.kind = "mem" /\ n # v.logfile
    <3>1. LogSet(n) \subseteq v.imm
      BY <2>3, <1>2, <1>10 DEF ContentsInv, RunContents
    <3>2. n \in Numbers
      BY <1>2 DEF DirType
    <3>3. \E b \in v.imm : b.id = x
      BY <3>1, <3>2, <1>10, InLogSet
    <3> QED
      BY <2>3, <3>3, <1>9
  <2> QED
    BY <2>1, <2>2, <2>3, <1>4
<1> QED
  BY <1>1, <1>3, <1>4, <1>6, <1>8, <1>9, <1>10

\* An edit is appended: the version it makes holds what the one before it did.
LEMMA AppendKeeps ==
  ASSUME FilesInv, ContentsInv, job.stage = "append", UNCHANGED <<dir, lost>>,
         manc' = [manc EXCEPT ![v.manifest] = Appended(@, job.edit)],
         logc' = logc, tabc' = tabc, acked' = acked, must' = must, phase' = "run"
  PROVE  /\ KeptAcked' /\ KeptMust' /\ LogsAreKnown'
         /\ \A k \in Ends(manc'[dir.current]) : UpTo(manc'[dir.current], k).log =< v.logfile
<1> DEFINE m == v.manifest
           f == manc[m]
           e == job.edit
           live == (v.live \ e.del) \cup e.add
<1>1. /\ Dirs' = Dirs /\ Now'.live = live /\ Now'.log = e.log
      /\ \A n \in Numbers \ {m} : manc'[n] = manc[n]
      /\ manc'[m] = Appended(f, e)
  BY AppendsEdit
<1>2. phase = "run" /\ ~v.bgError /\ e \in EditType /\ e.log =< v.logfile
  BY EditIs
<1>3. /\ dir.current # None /\ dir.current = m /\ m \in Numbers /\ Open_ /\ v.logNo \in Nat
      /\ (\A d \in Dirs : d.current # None) /\ (\A n \in dir.logs : n \in Nat)
  BY <1>2, OpenHas
<1>4. v.live = Now.live /\ v.logNo = Now.log /\ f \in FileOf(EditType)
  BY <1>2, <1>3 DEF FilesInv, Installed, Types, DiskTypes
<1>5. /\ v.logNo =< e.log /\ e.log \in Nat
      /\ \A x : InTables(x, v.live) => InTables(x, live)
      /\ \A n \in dir.logs : \A x : n >= v.logNo /\ InLog(x, n) => n >= e.log \/ InTables(x, live)
  BY EditKeeps
<1>6. Now' = UpTo(Appended(f, e), Len(f.recs) + 1)
  <2>1. Appended(f, e) \in FileOf(EditType) /\ Len(Appended(f, e).recs) = Len(f.recs) + 1
    BY <1>2, <1>4, AppendedFile
  <2>2. Now' = Replay(Appended(f, e).recs)
    BY <1>1, <1>3 DEF Now
  <2> QED
    BY <2>1, <2>2, UpToAll
<1> HIDE DEF live, e
<1>7. KeptAcked'
  <2>1. ASSUME NEW x \in acked
        PROVE  InTables(x, live) \/ \E n \in dir.logs : n >= e.log /\ InLog(x, n)
    BY <1>3, <1>4, <1>5 DEF ContentsInv, KeptAcked
  <2> QED
    BY <2>1, <1>1, <1>3 DEF ContentsInv, KeptAcked, InTables, InTable, InLog
<1> HIDE DEF f
<1>8. ASSUME NEW d \in Dirs, d.current = m, NEW k \in Ends(Appended(f, e))
      PROVE  \/ k \in Ends(f) /\ UpTo(Appended(f, e), k) = UpTo(f, k)
             \/ UpTo(Appended(f, e), k) = Now'
  BY <1>2, <1>4, <1>6, EndsOfAppended DEF e
<1>9. KeptMust'
  <2> SUFFICES ASSUME MachineCrashes, NEW d \in Dirs, NEW k \in Ends(manc'[d.current]), NEW x \in must
               PROVE  LET st == UpTo(manc'[d.current], k) IN
                      InTables(x, st.live) \/ \E n \in d.logs : n >= st.log /\ InSynced(x, n)
    BY <1>1 DEF KeptMust, InTables, InTable, InSynced
  <2>1. d.current \in Numbers /\ manc[d.current] \in FileOf(EditType) /\ d \in DirType
    BY <1>3, DirsAre
  <2>2. CASE d.current # m
    <3>1. manc'[d.current] = manc[d.current]
      BY <2>1, <2>2, <1>1
    <3> QED
      BY <3>1 DEF ContentsInv, KeptMust
  <2>3. CASE d.current = m
    <3>1. manc'[d.current] = Appended(f, e) /\ manc[d.current] = f
      BY <2>3, <1>1 DEF f
    <3>2. CASE k \in Ends(f) /\ UpTo(Appended(f, e), k) = UpTo(f, k)
      BY <3>1, <3>2 DEF ContentsInv, KeptMust
    <3>3. CASE UpTo(Appended(f, e), k) = Now'
      <4>1. Len(f.recs) \in Ends(f) /\ UpTo(f, Len(f.recs)) = Now
        BY <1>3, NowIs DEF f
      <4>2. InTables(x, Now.live) \/ \E n \in d.logs : n >= Now.log /\ InSynced(x, n)
        BY <3>1, <4>1 DEF ContentsInv, KeptMust
      <4>3. CASE InTables(x, Now.live)
        BY <4>3, <3>1, <3>3, <1>1, <1>4, <1>5
      <4>4. CASE \E n \in d.logs : n >= Now.log /\ InSynced(x, n)
        <5>1. PICK n \in d.logs : n >= Now.log /\ InSynced(x, n)
          BY <4>4
        <5>2. n \in Numbers /\ n \in Nat
          BY <2>1, NumbersAre DEF DirType
        <5>3. n \in dir.logs
          <6>1. n \in dir.logs \/ n < Now.log
            BY <1>3 DEF ContentsInv, LogsAreKnown
          <6> QED
            BY <6>1, <5>1, <5>2, <1>3, <1>4
        <5>4. InLog(x, n)
          BY <5>1, <5>2, InLogSet
        <5>5. n >= e.log \/ InTables(x, live)
          BY <5>1, <5>3, <5>4, <1>4, <1>5
        <5> QED
          BY <5>1, <5>5, <3>1, <3>3, <1>1
      <4> QED
        BY <4>2, <4>3, <4>4
    <3> QED
      BY <3>1, <3>2, <3>3, <2>3, <1>8
  <2> QED
    BY <2>2, <2>3
<1>10. LogsAreKnown'
  <2>1. \A d \in Dirs : d.current # None /\ \A n \in d.logs : n \in Nat
    BY <1>3, DirsAre, NumbersAre DEF DirType
  <2>2. phase' \notin Opening
    BY DEF Opening
  <2> QED
    BY <2>1, <2>2, <1>1, <1>3, <1>4, <1>5, KnownStays DEF ContentsInv
<1>11. ASSUME NEW k \in Ends(manc'[dir.current])
       PROVE  UpTo(manc'[dir.current], k).log =< v.logfile
  <2>1. dir \in Dirs /\ manc'[dir.current] = Appended(f, e) /\ manc[dir.current] = f
    BY <1>1, <1>3 DEF Dirs, f
  <2>2. CASE k \in Ends(f) /\ UpTo(Appended(f, e), k) = UpTo(f, k)
    BY <2>1, <2>2, <1>2, LogIsNewest
  <2>3. CASE UpTo(Appended(f, e), k) = Now'
    BY <2>1, <2>3, <1>1, <1>2 DEF e
  <2> QED
    BY <2>1, <2>2, <2>3, <1>3, <1>8
<1> QED
  BY <1>7, <1>9, <1>10, <1>11

\* AppendEdit keeps what had to survive (ContentsInv).
LEMMA AppendEditContents ==
  ASSUME FilesInv, FilesInv', ContentsInv, AppendEdit
  PROVE  ContentsInv'
<1>1. /\ job.stage = "append" /\ manc' = [manc EXCEPT ![v.manifest] = Appended(@, job.edit)]
      /\ job' = [job EXCEPT !.stage = "sync"] /\ UNCHANGED <<dir, lost>>
      /\ logc' = logc /\ tabc' = tabc /\ phase' = phase /\ v' = v /\ acked' = acked /\ must' = must
  BY DEF AppendEdit, ghost
<1>2. phase = "run" /\ phase' = "run" /\ ~v.bgError /\ job \in JobType
  BY <1>1, EditIs
<1>3. /\ KeptAcked' /\ KeptMust' /\ LogsAreKnown'
      /\ \A k \in Ends(manc'[dir.current]) : UpTo(manc'[dir.current], k).log =< v.logfile
  BY <1>1, <1>2, AppendKeeps
<1>4. MemIsLog'
  BY <1>1, <1>2 DEF ContentsInv, MemIsLog, LogSet
<1>5. RunContents'
  BY <1>1, <1>2, <1>3 DEF ContentsInv, RunContents, Open_, LogSet, InSet, InTables, InTable
<1>6. /\ job'.stage = "sync" /\ job'.edit = job.edit /\ job'.num = job.num /\ job'.kind = job.kind
      /\ job'.ents = job.ents
  BY <1>1, <1>2 DEF JobType
<1>7. JobContents'
  BY <1>1, <1>6 DEF ContentsInv, JobContents, Active
<1> QED
  BY <1>2, <1>3, <1>4, <1>5, <1>7, OpenContents

\* EditFails keeps what had to survive (ContentsInv).
LEMMA EditFailsContents ==
  ASSUME FilesInv, FilesInv', ContentsInv, EditFails
  PROVE  ContentsInv'
<1> DEFINE pn == v.pending \ {job.num}
           added == [manc EXCEPT ![v.manifest] = Appended(@, job.edit)]
<1>1. /\ job.stage \in {"append", "sync"}
      /\ v' = [v EXCEPT !.bgError = TRUE, !.pending = pn]
      /\ job' \in {NoJob, [NoJob EXCEPT !.stage = "clean"]} /\ UNCHANGED <<dir, lost>>
      /\ logc' = logc /\ tabc' = tabc /\ phase' = phase /\ acked' = acked /\ must' = must
  BY DEF EditFails, ghost
<1>2. manc' = manc \/ (job.stage = "append" /\ manc' = added)
  <2>1. CASE job.stage = "append"
    BY <2>1 DEF EditFails
  <2>2. CASE job.stage # "append"
    <3>1. manc \in [Numbers -> FileOf(EditType)]
      BY DEF FilesInv, Types, DiskTypes
    <3> QED
      BY <3>1, <2>2 DEF EditFails
  <2> QED
    BY <2>1, <2>2
<1>3. phase = "run" /\ phase' = "run" /\ phase' \notin Opening
  BY <1>1, EditIs DEF Opening
<1>4. v \in VType /\ Open_
  BY <1>3, OpenHas
<1>5. KeptAcked' /\ KeptMust' /\ LogsAreKnown'
  <2>1. CASE manc' = manc
    <3>1. UNCHANGED disk
      BY <2>1, <1>1 DEF disk
    <3> QED
      BY <3>1, <1>1, <1>3, DiskStaysKept, DiskStaysKnown
  <2>2. CASE job.stage = "append" /\ manc' = added
    BY <2>2, <1>1, <1>3, AppendKeeps
  <2> QED
    BY <2>1, <2>2, <1>2
<1> HIDE DEF pn, added
<1>6. /\ v'.mem = v.mem /\ v'.logfile = v.logfile /\ v'.live = v.live /\ v'.logNo = v.logNo /\ v'.imm = v.imm
      /\ v'.hasImm = v.hasImm /\ v'.bgError
  BY <1>1, <1>4 DEF VType
<1>7. MemIsLog'
  BY <1>1, <1>3, <1>6 DEF ContentsInv, MemIsLog, LogSet
<1>8. RunContents'
  BY <1>1, <1>3, <1>4, <1>6 DEF ContentsInv, RunContents, LogSet, InSet, InTables, InTable
<1>9. JobContents'
  <2>1. job'.stage \in {"", "clean"}
    BY <1>1, FreshIs DEF JobType
  <2> QED
    BY <2>1 DEF JobContents, Active
<1> QED
  BY <1>3, <1>5, <1>7, <1>8, <1>9, OpenContents

\* SyncEdit keeps what had to survive (ContentsInv).
LEMMA SyncEditContents ==
  ASSUME FilesInv, FilesInv', ContentsInv, SyncEdit
  PROVE  ContentsInv'
<1> DEFINE m == v.manifest
           f == manc[m]
<1>1. /\ job.stage = "sync" /\ manc' = [manc EXCEPT ![m] = SyncedFile(f)]
      /\ job' = [job EXCEPT !.stage = "install"] /\ dir' = dir /\ lost' = {}
      /\ logc' = logc /\ tabc' = tabc /\ phase' = phase /\ v' = v /\ acked' = acked /\ must' = must
  BY DEF SyncEdit, SyncsManifest, CommitDir, ghost
<1>2. phase = "run" /\ phase' = "run" /\ ~v.bgError /\ job \in JobType
  BY <1>1, EditIs
<1>3. /\ dir.current # None /\ Open_ /\ dir.current = m /\ m \in Numbers
      /\ \A d \in Dirs : d.current # None
  BY <1>2, OpenHas
<1>4. manc \in [Numbers -> FileOf(EditType)] /\ f \in FileOf(EditType)
  BY <1>3 DEF FilesInv, Types, DiskTypes
<1>5. SyncedFile(f) \in FileOf(EditType) /\ SyncedFile(f).recs = f.recs /\ Settled(SyncedFile(f))
  BY <1>4, SyncedFileIs
<1>6. manc'[m] = SyncedFile(f)
  BY <1>1, <1>3, <1>4, <1>5
<1>7. Now' = Now
  BY <1>1, <1>3, <1>5, <1>6 DEF Now
<1>8. Dirs' = {dir} /\ dir \in Dirs
  BY <1>1 DEF Dirs
<1>9. ASSUME NEW k \in Ends(manc'[dir.current])
      PROVE  k \in Ends(manc[dir.current]) /\ UpTo(manc'[dir.current], k) = UpTo(manc[dir.current], k)
  <2>1. k = Len(f.recs)
    BY <1>3, <1>5, <1>6, <1>9 DEF Settled
  <2>2. k \in Ends(f)
    BY <2>1, <1>4, EndsAtAll
  <2>3. UpTo(SyncedFile(f), k) = UpTo(f, k)
    BY <1>5 DEF UpTo
  <2> QED
    BY <2>2, <2>3, <1>3, <1>6
<1>10. KeptAcked'
  BY <1>1, <1>7 DEF ContentsInv, KeptAcked, InTables, InTable, InLog
<1>11. KeptMust'
  <2> SUFFICES ASSUME MachineCrashes, NEW k \in Ends(manc'[dir.current]), NEW x \in must
               PROVE  LET st == UpTo(manc'[dir.current], k) IN
                      InTables(x, st.live) \/ \E n \in dir.logs : n >= st.log /\ InSynced(x, n)
    BY <1>1, <1>8 DEF KeptMust, InTables, InTable, InSynced
  <2> QED
    BY <1>8, <1>9 DEF ContentsInv, KeptMust
<1>12. LogsAreKnown'
  <2>1. phase' \notin Opening
    BY <1>2 DEF Opening
  <2> QED
    BY <2>1, <1>1, <1>3, <1>7, <1>8, KnownDirs
<1>13. MemIsLog'
  BY <1>1, <1>2 DEF ContentsInv, MemIsLog, LogSet
<1>14. RunContents'
  <2>1. \A k \in Ends(manc'[dir.current]) : UpTo(manc'[dir.current], k).log =< v.logfile
    BY <1>2, <1>9, LogIsNewest
  <2> QED
    BY <2>1, <1>1, <1>3 DEF ContentsInv, RunContents, LogSet, InSet, InTables, InTable
<1>15. /\ job'.stage = "install" /\ job'.edit = job.edit /\ job'.num = job.num /\ job'.kind = job.kind
       /\ job'.ents = job.ents
  BY <1>1, <1>2 DEF JobType
<1>16. JobContents'
  BY <1>1, <1>15 DEF ContentsInv, JobContents, Active
<1> QED
  BY <1>2, <1>10, <1>11, <1>12, <1>13, <1>14, <1>16, OpenContents

\* Install keeps what had to survive (ContentsInv).
LEMMA InstallContents ==
  ASSUME FilesInv, FilesInv', ContentsInv, Install
  PROVE  ContentsInv'
<1> DEFINE lv == (v.live \ job.edit.del) \cup job.edit.add
           lg == job.edit.log
           pn == v.pending \ {job.num}
           im == IF job.kind = "mem" THEN {} ELSE v.imm
           hi == IF job.kind = "mem" THEN FALSE ELSE v.hasImm
<1>1. /\ job.stage = "install"
      /\ v' = [v EXCEPT !.live = lv, !.logNo = lg, !.pending = pn, !.imm = im, !.hasImm = hi]
      /\ job' = [NoJob EXCEPT !.stage = "clean"] /\ UNCHANGED disk
      /\ phase' = phase /\ acked' = acked /\ must' = must
  BY DEF Install, MayInstall, ghost
<1>2. phase = "run" /\ phase' = "run" /\ phase' \notin Opening /\ ~v.bgError
  BY <1>1, EditIs DEF Opening
<1>3. v \in VType /\ Open_ /\ v.logfile \in Nat /\ \A n \in dir.logs : n \in Nat
  BY <1>2, OpenHas
<1>4. /\ Now' = Now /\ Dirs' = Dirs /\ dir' = dir /\ logc' = logc /\ manc' = manc /\ tabc' = tabc
  BY <1>1, DiskStays
<1>5. KeptAcked' /\ KeptMust' /\ LogsAreKnown'
  BY <1>1, <1>2, DiskStaysKept, DiskStaysKnown
<1>6. /\ job.kind \in {"mem", "comp"} /\ lg = (IF job.kind = "mem" THEN v.logfile ELSE v.logNo)
      /\ \A x : InTables(x, v.live) => InTables(x, lv)
      /\ job.kind = "mem" => \A x : (\E b \in v.imm : b.id = x) => InTables(x, lv)
  BY <1>1, EditKeeps
<1> HIDE DEF lv, lg, pn
<1>7. /\ v'.mem = v.mem /\ v'.logfile = v.logfile /\ v'.live = lv /\ v'.logNo = lg /\ v'.imm = im
      /\ v'.hasImm = hi /\ v'.bgError = v.bgError
  <2> HIDE DEF im, hi
  <2> QED
    BY <1>1, <1>3 DEF VType
<1>8. MemIsLog'
  BY <1>2, <1>4, <1>7 DEF ContentsInv, MemIsLog, LogSet
<1>9. RunContents'
  <2>1. RunContents
    BY DEF ContentsInv
  <2>2. \A n \in dir.logs : n =< v.logfile
    BY <2>1, <1>3 DEF RunContents
  <2>3. ASSUME NEW n \in dir.logs, n >= lg, n # v.logfile PROVE LogSet(n) \subseteq im
    <3>1. job.kind = "comp"
      BY <2>2, <2>3, <1>3, <1>6
    <3> QED
      BY <3>1, <2>1, <2>3, <1>3, <1>6 DEF RunContents
  <2>4. ~hi => im = {}
    BY <2>1, <1>3 DEF RunContents
  <2>5. ASSUME NEW x \in acked PROVE InSet(x, v.mem) \/ InSet(x, im) \/ InTables(x, lv)
    <3>1. InSet(x, v.mem) \/ InSet(x, v.imm) \/ InTables(x, v.live)
      BY <2>1, <1>3 DEF RunContents
    <3>2. CASE InSet(x, v.imm)
      BY <3>2, <1>6 DEF InSet
    <3> QED
      BY <3>1, <3>2, <1>6
  <2>6. \A k \in Ends(manc[dir.current]) : UpTo(manc[dir.current], k).log =< v.logfile
    BY <1>2, LogIsNewest
  <2> HIDE DEF im, hi
  <2> QED
    BY <2>2, <2>3, <2>4, <2>5, <2>6, <1>1, <1>4, <1>7 DEF RunContents, LogSet, InSet, InTables, InTable
<1>10. JobContents'
  <2>1. job'.stage = "clean"
    BY <1>1, FreshIs DEF JobType
  <2> QED
    BY <2>1 DEF JobContents, Active
<1> QED
  BY <1>2, <1>5, <1>8, <1>9, <1>10, OpenContents

\* At the start nothing has been acknowledged.
LEMMA InitContents ==
  ASSUME FilesInv, Init
  PROVE  ContentsInv
<1>1. /\ acked = {} /\ must = {} /\ phase = "down" /\ job = NoJob /\ Dirs = {dir}
  BY DEF Init, Dirs
<1>2. job.stage = "" /\ phase \notin Opening /\ ~Open_
  BY <1>1, FreshIs DEF Opening, Open_
<1>3. KeptAcked /\ KeptMust /\ LogsAreKnown
  BY <1>1, <1>2 DEF KeptAcked, KeptMust, LogsAreKnown
<1> QED
  BY <1>1, <1>2, <1>3 DEF ContentsInv, Recovered, MemIsLog, OldLogs, RunContents, JobContents, Active

\* A step that changes nothing keeps ContentsInv.
LEMMA StutterContents ==
  ASSUME FilesInv, ContentsInv, UNCHANGED vars
  PROVE  ContentsInv'
<1>1. UNCHANGED disk /\ phase' = phase /\ v' = v /\ job' = job /\ acked' = acked /\ must' = must
  BY DEF vars, ghost
<1>2. /\ Now' = Now /\ Dirs' = Dirs /\ dir' = dir /\ logc' = logc /\ manc' = manc /\ tabc' = tabc
  BY <1>1, DiskStays
<1>3. KeptAcked' /\ KeptMust'
  BY <1>1, DiskStaysKept
<1>4. LogsAreKnown'
  BY <1>1, <1>2 DEF ContentsInv, LogsAreKnown
<1>5. Recovered' /\ MemIsLog' /\ OldLogs'
  BY <1>1, <1>2 DEF ContentsInv, Recovered, MemIsLog, OldLogs, LogSet, InSet, InTables, InTable, InLog
<1>6. RunContents' /\ JobContents'
  BY <1>1, <1>2 DEF ContentsInv, RunContents, JobContents, Open_, LogSet, InSet, InTables, InTable
<1> QED
  BY <1>3, <1>4, <1>5, <1>6 DEF ContentsInv

\* Every step keeps ContentsInv.
LEMMA NextContents ==
  ASSUME DurabilityAssumption, Survivable, FilesInv, FilesInv', ContentsInv, [Next]_vars
  PROVE  ContentsInv'
<1>1. CASE Open
  BY <1>1, OpenStartContents, CreatingContents, RecoverVersionsContents, RecoverLogFileContents,
     NewLogContents, OpenManifestContents, OpenSyncContents, OpenTempContents, OpenRenameContents,
     OpenInstallContents, OpenReusedContents, OpenFailsContents, OpenCleanContents DEF Open
<1>2. CASE Run
  BY <1>2, WriteContents, SwitchMemTableContents, CompactMemTableContents, DoCompactionWorkContents,
     FinishTableContents, AppendEditContents, SyncEditContents, InstallContents, CleanContents,
     EditFailsContents, NewIteratorContents DEF Run
<1>3. CASE ProcessCrash
  BY <1>3, ProcessCrashContents
<1>4. CASE MachineCrash
  BY <1>4, MachineCrashContents
<1>5. CASE UNCHANGED vars
  BY <1>5, StutterContents
<1> QED
  BY <1>1, <1>2, <1>3, <1>4, <1>5 DEF Next

\* All that was acknowledged, or with sync, is in a table of the version CURRENT leads to
\* or in a log that recovery reads, whatever a crash leaves of the files.
THEOREM ContentsSound == ASSUME DurabilityAssumption, Survivable PROVE Spec => []ContentsInv
<1>1. Init => FilesInv /\ ContentsInv
  BY InitFiles, InitContents
<1>2. FilesInv /\ ContentsInv /\ [Next]_vars => FilesInv' /\ ContentsInv'
  BY NextFiles, NextContents
<1> QED
  BY <1>1, <1>2, PTL DEF Spec

\* NothingLost for every bound: an open database has every batch that had to survive,
\* whatever processes or the machine crashed between which file operations, in
\* DB::Open, Write, CompactMemTable, LogAndApply or DeleteObsoleteFiles.
THEOREM NothingIsLost == ASSUME DurabilityAssumption, Survivable PROVE Spec => []NothingLost
<1>1. ContentsInv => NothingLost
  <2> SUFFICES ASSUME ContentsInv, phase = "run", NEW x \in acked
               PROVE  \E b \in Contents : b.id = x
    BY DEF NothingLost
  <2>1. InSet(x, v.mem) \/ InSet(x, v.imm) \/ InTables(x, v.live)
    BY DEF ContentsInv, RunContents, Open_
  <2>2. CASE InSet(x, v.mem) \/ InSet(x, v.imm)
    BY <2>2 DEF InSet, Contents
  <2>3. CASE InTables(x, v.live)
    BY <2>3 DEF InTables, InTable, Contents
  <2> QED
    BY <2>1, <2>2, <2>3
<1> QED
  BY <1>1, ContentsSound, PTL

\* LiveFilesExist for every bound: DeleteObsoleteFiles removes no table of a version that
\* the database or an iterator uses, and NewFileNumber never gives out its number again.
THEOREM LiveFilesStay == ASSUME DurabilityAssumption, Survivable PROVE Spec => []LiveFilesExist
<1>1. FilesInv => LiveFilesExist
  BY DEF FilesInv, RunNumbers, Open_, LiveFilesExist
<1> QED
  BY <1>1, FilesSound, PTL

\* CanBeOpened for every bound: VersionSet::Recover never finds CURRENT, the manifest
\* or a table missing, nor a manifest without a complete edit.
THEOREM AlwaysOpens == ASSUME DurabilityAssumption, Survivable PROVE Spec => []CanBeOpened
<1>1. FilesInv => CanBeOpened
  BY DEF FilesInv, Types, Phases, CanBeOpened
<1> QED
  BY <1>1, FilesSound, PTL

-----------------------------------------------------------------------------
(* Steps and sequence numbers                                              *)

\* The versions that a crash may bring back are numbered if each was one before the
\* step or is numbered by itself.
LEMMA NumberedStays ==
  ASSUME FilesInv, VersionsNumbered,
         \A t \in Numbers : t < Now.next => tabc'[t] = tabc[t],
         \A d \in Dirs' : d.current # None => \A k \in Ends(manc'[d.current]) :
           \/ \E e \in Dirs : e.current # None /\ \E j \in Ends(manc[e.current]) :
                UpTo(manc[e.current], j) = UpTo(manc'[d.current], k)
           \/ \A t \in UpTo(manc'[d.current], k).live :
                \A b \in tabc'[t] : b.seq =< UpTo(manc'[d.current], k).seq
  PROVE  VersionsNumbered'
<1> SUFFICES ASSUME NEW d \in Dirs', d.current # None, NEW k \in Ends(manc'[d.current]),
                    NEW t \in UpTo(manc'[d.current], k).live, NEW b \in tabc'[t]
             PROVE  b.seq =< UpTo(manc'[d.current], k).seq
  BY DEF VersionsNumbered, UpToSeq
<1> DEFINE st == UpTo(manc'[d.current], k)
<1>1. CASE \A u \in st.live : \A c \in tabc'[u] : c.seq =< st.seq
  BY <1>1
<1>2. CASE \E e \in Dirs : e.current # None /\ \E j \in Ends(manc[e.current]) : UpTo(manc[e.current], j) = st
  <2>1. PICK e \in Dirs : e.current # None /\ \E j \in Ends(manc[e.current]) : UpTo(manc[e.current], j) = st
    BY <1>2
  <2>2. PICK j \in Ends(manc[e.current]) : UpTo(manc[e.current], j) = st
    BY <2>1
  <2>3. t \in Numbers /\ t < Now.next
    BY <2>1, <2>2, VersionsAre
  <2>4. tabc'[t] = tabc[t]
    BY <2>3
  <2>5. UpToSeq(tabc[t], st.seq)
    BY <2>1, <2>2 DEF VersionsNumbered
  <2> QED
    BY <2>4, <2>5 DEF UpToSeq
<1> QED
  BY <1>1, <1>2

\* Steps that leave the manifests alone.
LEMMA NumberedAsBefore ==
  ASSUME FilesInv, VersionsNumbered,
         \A t \in Numbers : t < Now.next => tabc'[t] = tabc[t],
         \A d \in Dirs' : d.current # None => \E e \in Dirs : e.current = d.current,
         \A d \in Dirs : d.current # None => manc'[d.current] = manc[d.current]
  PROVE  VersionsNumbered'
<1>1. ASSUME NEW d \in Dirs', d.current # None, NEW k \in Ends(manc'[d.current])
      PROVE  \E e \in Dirs : e.current # None /\ \E j \in Ends(manc[e.current]) :
               UpTo(manc[e.current], j) = UpTo(manc'[d.current], k)
  <2>1. PICK e \in Dirs : e.current = d.current
    BY <1>1
  <2>2. manc'[d.current] = manc[e.current]
    BY <2>1, <1>1
  <2> QED
    BY <2>1, <2>2, <1>1
<1> QED
  BY <1>1, NumberedStays

\* A database that is not open.
LEMMA ClosedSeq ==
  ASSUME phase' \in Creating \cup {"down", "recover"}, job' = NoJob, LogsSorted', VersionsNumbered'
  PROVE  SeqInv'
<1>1. phase' \notin Opening \cup {"clean", "run"} /\ job'.stage = ""
  BY FreshIs DEF Opening, Creating
<1> QED
  BY <1>1 DEF SeqInv, MemNumbered, JobNumbered, Active

\* Nothing on disk changes: it is numbered as before.
LEMMA DiskStaysNumbered ==
  ASSUME FilesInv, SeqInv, UNCHANGED disk
  PROVE  LogsSorted' /\ VersionsNumbered' /\ Now' = Now
<1>1. /\ Now' = Now /\ Dirs' = Dirs /\ logc' = logc /\ manc' = manc /\ tabc' = tabc
  BY DiskStays
<1>2. LogsSorted'
  BY <1>1 DEF SeqInv, LogsSorted
<1>3. VersionsNumbered'
  BY <1>1 DEF SeqInv, VersionsNumbered
<1> QED
  BY <1>1, <1>2, <1>3

\* OpenStart keeps the numbers in order (SeqInv).
LEMMA OpenStartSeq ==
  ASSUME FilesInv, SeqInv, OpenStart
  PROVE  SeqInv'
<1>1. /\ UNCHANGED disk /\ job' = job /\ phase = "down" /\ phase' \in {"newdb", "recover"}
  BY DEF OpenStart, Quiet
<1>2. job = NoJob
  BY <1>1 DEF FilesInv, AtRest
<1>3. phase' \in Creating \cup {"down", "recover"}
  BY <1>1 DEF Creating
<1> QED
  BY <1>1, <1>2, <1>3, DiskStaysNumbered, ClosedSeq

\* ProcessCrash keeps the numbers in order (SeqInv).
LEMMA ProcessCrashSeq ==
  ASSUME FilesInv, SeqInv, ProcessCrash
  PROVE  SeqInv'
<1>1. UNCHANGED disk /\ job' = NoJob /\ phase' = "down"
  BY DEF ProcessCrash
<1> QED
  BY <1>1, DiskStaysNumbered, ClosedSeq

\* NewDB: the first manifest names no table.
LEMMA CreatingSeq ==
  ASSUME FilesInv, ContentsInv, SeqInv, NewDBManifest \/ NewDBTemp \/ NewDBRename
  PROVE  SeqInv'
<1>1. /\ phase \in Creating /\ phase' \in {"newdbtemp", "newdbname", "recover"} /\ job' = job
      /\ logc' = logc
  BY DEF NewDBManifest, NewDBTemp, NewDBRename, WriteTemp, RenameTemp, Quiet, Creating
<1>2. dir.current = None /\ dir \in DirType
  BY <1>1 DEF FilesInv, NothingYet, Types, DiskTypes
<1>3. ~MachineCrashes
  BY <1>2, NoneYet DEF ContentsInv
<1>4. phase' \in Creating \cup {"down", "recover"}
  BY <1>1 DEF Creating
<1>5. job' = NoJob
  <2>1. phase # "run"
    BY <1>1 DEF Creating
  <2> QED
    BY <2>1, <1>1 DEF FilesInv, AtRest
<1>6. LogsSorted'
  BY <1>1 DEF SeqInv, LogsSorted
<1>7. Dirs' = {dir'}
  BY <1>3 DEF Dirs
<1>8. CASE NewDBManifest \/ NewDBTemp
  <2>1. dir'.current = None
    BY <1>2, <1>8 DEF NewDBManifest, NewDBTemp, WriteTemp, ChangeDir, CommitDir, DirType
  <2>2. VersionsNumbered'
    BY <2>1, <1>7 DEF VersionsNumbered
  <2> QED
    BY <2>2, <1>4, <1>5, <1>6, ClosedSeq
<1>9. CASE NewDBRename
  <2>1. dir'.current = 1 /\ manc' = manc /\ phase = "newdbname"
    BY <1>2, <1>9 DEF NewDBRename, RenameTemp, ChangeDir, DirType
  <2>2. manc[1] = Appended(Empty, NewDBEdit)
    BY <2>1 DEF FilesInv, NothingYet
  <2>3. NewDBEdit \in EditType /\ NewDBEdit.add = {}
    BY DEF NewDBEdit, Edit, EditType, None
  <2>4. Empty \in FileOf(EditType) /\ Empty.recs = <<>> /\ Len(Empty.recs) = 0
    BY EmptyFile
  <2>5. manc[1].recs = <<NewDBEdit>> /\ manc[1] \in FileOf(EditType)
    <3>1. Appended(Empty, NewDBEdit) \in FileOf(EditType)
      BY <2>3, <2>4, AppendedFile
    <3>2. Appended(Empty, NewDBEdit).recs = <<NewDBEdit>>
      BY DEF Appended, Empty
    <3> QED
      BY <3>1, <3>2, <2>2
  <2>6. Replay(manc[1].recs).live = {}
    BY <2>3, <2>5 DEF Replay
  <2>7. ASSUME NEW k \in Ends(manc[1]) PROVE UpTo(manc[1], k).live = {}
    <3>1. k = Len(manc[1].recs)
      BY <1>3 DEF Ends
    <3> QED
      BY <3>1, <2>5, <2>6, UpToAll
  <2>8. VersionsNumbered'
    BY <2>1, <2>7, <1>7 DEF VersionsNumbered
  <2> QED
    BY <2>8, <1>4, <1>5, <1>6, ClosedSeq
<1> QED
  BY <1>8, <1>9

\* MachineCrash keeps the numbers in order (SeqInv).
LEMMA MachineCrashSeq ==
  ASSUME FilesInv, SeqInv, MachineCrash
  PROVE  SeqInv'
<1> DEFINE f == manc[dir'.current]
           g == manc'[dir'.current]
<1>1. phase' = "down" /\ job' = NoJob /\ tabc' = tabc /\ logc' \in AfterCrash(logc, dir'.logs)
  BY DEF MachineCrash
<1>2. dir' \in Dirs /\ Dirs' = {dir'} /\ dir'.current # None
  BY MachineCrashDoes
<1>3. PICK k \in Ends(f) : Ends(g) = {k} /\ UpTo(g, k) = UpTo(f, k)
  BY MachineCrashDoes
<1>4. VersionsNumbered'
  BY <1>1, <1>2, <1>3, NumberedStays DEF SeqInv
<1>5. LogsSorted'
  <2> SUFFICES ASSUME NEW n \in Numbers, NEW i \in 1..Len(logc'[n].recs), NEW j \in 1..Len(logc'[n].recs), i < j
               PROVE  logc'[n].recs[i].seq =< logc'[n].recs[j].seq
    BY DEF LogsSorted
  <2>1. logc \in [Numbers -> FileOf(Batch)]
    BY DEF FilesInv, Types, DiskTypes
  <2>2. PICK c \in Cuts(logc[n]) : logc'[n].recs = SubSeq(logc[n].recs, 1, c)
    BY <2>1, <1>1, CrashedFiles
  <2>3. logc[n].recs \in Seq(Batch) /\ logc[n].synced \in Nat /\ logc[n].synced =< Len(logc[n].recs)
    BY <2>1 DEF FileOf
  <2>4. c \in Nat /\ c =< Len(logc[n].recs) /\ Len(logc[n].recs) \in Nat
    BY <2>2, <2>3, LenProperties DEF Cuts
  <2>5. Len(logc'[n].recs) = c /\ \A m \in 1..c : logc'[n].recs[m] = logc[n].recs[m]
    BY <2>2, <2>3, <2>4
  <2>6. i \in 1..Len(logc[n].recs) /\ j \in 1..Len(logc[n].recs)
    BY <2>4, <2>5
  <2>7. logc[n].recs[i].seq =< logc[n].recs[j].seq
    BY <2>6 DEF SeqInv, LogsSorted
  <2> QED
    BY <2>5, <2>7
<1> QED
  BY <1>1, <1>4, <1>5, ClosedSeq

\* OpenFails keeps the numbers in order (SeqInv).
LEMMA OpenFailsSeq ==
  ASSUME FilesInv, SeqInv, OpenFails
  PROVE  SeqInv'
<1>1. /\ phase \in {"opensync", "opentemp", "openname"} /\ phase' = "down" /\ job' = job
      /\ logc' = logc /\ manc' = manc /\ tabc' = tabc /\ lost' = lost \cup {dir}
      /\ dir' = [dir EXCEPT !.manifests = @ \ {v.manifest}, !.temps = @ \ {v.manifest}]
  BY DEF OpenFails, ChangeDir
<1>2. dir \in DirType /\ job = NoJob
  BY <1>1 DEF FilesInv, Types, DiskTypes, AtRest
<1>3. \A d \in Dirs' : \E e \in Dirs : e.current = d.current
  BY <1>1, <1>2 DEF Dirs, DirType
<1>4. LogsSorted'
  BY <1>1 DEF SeqInv, LogsSorted
<1> QED
  BY <1>1, <1>2, <1>3, <1>4, NumberedAsBefore, ClosedSeq DEF SeqInv

\* A database that is being opened, or is open and has no background work.
LEMMA IdleSeq ==
  ASSUME job' = NoJob, LogsSorted', VersionsNumbered', MemNumbered'
  PROVE  SeqInv'
<1>1. job'.stage = ""
  BY FreshIs
<1> QED
  BY <1>1 DEF SeqInv, JobNumbered, Active

\* RecoverVersions keeps the numbers in order (SeqInv).
LEMMA RecoverVersionsSeq ==
  ASSUME FilesInv, FilesInv', SeqInv, RecoverVersions
  PROVE  SeqInv'
<1>1. phase = "recover" /\ UNCHANGED disk /\ job' = job
  BY DEF RecoverVersions, Quiet
<1>2. phase' = "logs"
  <2>1. phase' \in {"logs", "corrupt"}
    BY DEF RecoverVersions
  <2> QED
    BY <2>1 DEF FilesInv, Types, Phases
<1>3. v = Fresh /\ job = NoJob /\ dir.current # None
  BY <1>1 DEF FilesInv, AtRest, NothingYet, Creating
<1>4. /\ v'.live = Now.live /\ v'.seq = Now.seq /\ v'.edit = {} /\ v'.mem = {} /\ v'.imm = {}
  BY <1>2, <1>3 DEF RecoverVersions, Now, Fresh
<1>5. LogsSorted' /\ VersionsNumbered' /\ tabc' = tabc
  BY <1>1, DiskStaysNumbered, DiskStays
<1>6. \A t \in Now.live : UpToSeq(tabc[t], Now.seq)
  <2>1. /\ dir \in Dirs /\ Len(manc[dir.current].recs) \in Ends(manc[dir.current])
        /\ UpTo(manc[dir.current], Len(manc[dir.current].recs)) = Now
    BY <1>3, NowIs
  <2> QED
    BY <2>1, <1>3 DEF SeqInv, VersionsNumbered
<1>7. MemNumbered'
  BY <1>4, <1>5, <1>6 DEF MemNumbered, UpToSeq
<1> QED
  BY <1>1, <1>3, <1>5, <1>7, IdleSeq

\* Recover takes the last number of a log if it is newer.
LEMMA MaxSequenceIs ==
  ASSUME FilesInv, LogsSorted, NEW n \in Numbers
  PROVE  /\ MaxSequence(logc[n].recs) \in Nat /\ v.seq \in Nat /\ v.seq =< MaxSequence(logc[n].recs)
         /\ \A b \in Range(logc[n].recs) : b \in Batch /\ b.seq =< MaxSequence(logc[n].recs)
<1> DEFINE r == logc[n].recs
<1>1. r \in Seq(Batch) /\ v.seq \in Nat
  BY DEF FilesInv, Types, DiskTypes, FileOf, VType
<1>2. \A i, j \in 1..Len(r) : i < j => r[i].seq =< r[j].seq
  BY DEF LogsSorted
<1> HIDE DEF r
<1>3. Len(r) \in Nat /\ DOMAIN r = 1..Len(r) /\ \A i \in 1..Len(r) : r[i] \in Batch /\ r[i].seq \in Nat
  <2>1. Len(r) \in Nat /\ DOMAIN r = 1..Len(r)
    BY <1>1, LenProperties
  <2>2. \A i \in 1..Len(r) : r[i] \in Batch
    BY <1>1, ElementOfSeq
  <2> QED
    BY <2>1, <2>2 DEF Batch
<1>4. CASE r = <<>>
  BY <1>1, <1>3, <1>4 DEF MaxSequence, Range, r
<1>5. CASE r # <<>>
  <2>1. Len(r) \in 1..Len(r)
    BY <1>1, <1>3, <1>5, EmptySeq
  <2>2. \A i \in 1..Len(r) : r[i].seq =< r[Len(r)].seq
    BY <1>2, <1>3, <2>1
  <2>3. Last(r) = r[Len(r)]
    BY DEF Last
  <2>4. MaxSequence(r) = IF r[Len(r)].seq < v.seq THEN v.seq ELSE r[Len(r)].seq
    BY <1>5, <2>3 DEF MaxSequence
  <2>5. MaxSequence(r) \in Nat /\ v.seq =< MaxSequence(r) /\ r[Len(r)].seq =< MaxSequence(r)
    BY <2>4, <2>1, <1>1, <1>3
  <2>6. \A i \in 1..Len(r) : r[i].seq =< MaxSequence(r)
    BY <2>1, <2>2, <2>5, <1>3
  <2> QED
    BY <2>5, <2>6, <1>1, <1>3 DEF Range, r
<1> QED
  BY <1>4, <1>5

\* The numbers of what is in memory stay as they are.
LEMMA MemStaysNumbered ==
  ASSUME SeqInv, phase \in Opening \cup {"clean", "run"}, tabc' = tabc,
         v'.mem = v.mem, v'.imm = v.imm, v'.seq = v.seq, v'.live \cup v'.edit = v.live \cup v.edit
  PROVE  MemNumbered'
BY DEF SeqInv, MemNumbered, UpToSeq

\* The tables that recovery makes hold what the log does.
LEMMA RecoverLogFileSeq ==
  ASSUME DurabilityAssumption, FilesInv, SeqInv, NEW n \in v.todo, RecoverLogFile(n)
  PROVE  SeqInv'
<1>1. PICK tabs \in Seq(SUBSET Batch), reuse \in BOOLEAN :
           LET nums == v.next..(v.next + Len(tabs) - 1) IN
           /\ nums \subseteq Numbers /\ n \in Numbers
           /\ reuse => ReuseLogs /\ v.todo = {n} /\ tabs = <<>>
           /\ \A i \in DOMAIN tabs : tabs[i] \subseteq Range(logc[n].recs)
           /\ ~reuse => \A b \in Range(logc[n].recs) : \E i \in DOMAIN tabs : b \in tabs[i]
           /\ overwritten' = FALSE
           /\ tabs = <<>> => dir' = dir /\ lost' = lost
           /\ tabs # <<>> => dir' = [dir EXCEPT !.tables = @ \cup nums] /\ lost' = {}
           /\ tabc' \in [Numbers -> SUBSET Batch]
           /\ \A i \in DOMAIN tabs : tabc'[v.next + i - 1] = tabs[i]
           /\ \A m \in Numbers \ nums : tabc'[m] = tabc[m]
           /\ v' \in VType
           /\ v' = [v EXCEPT !.todo = v.todo \ {n}, !.edit = v.edit \cup nums,
                             !.save = (v.save \/ tabs # <<>>), !.seq = MaxSequence(logc[n].recs),
                             !.next = MarkFileNumberUsed(v.next + Len(tabs), n),
                             !.logfile = IF reuse THEN n ELSE None,
                             !.mem = IF reuse THEN Range(logc[n].recs) ELSE {}]
           /\ UNCHANGED <<logc, manc, phase, job, acked, must, writes, crashes, compactions>>
           /\ phase = "logs" /\ \A m \in v.todo : n =< m
  BY RecoverLogFileDoes
<1> DEFINE nums == v.next..(v.next + Len(tabs) - 1)
           top == MaxSequence(logc[n].recs)
<1>2. phase \in Opening /\ phase' \in Opening
  BY <1>1 DEF Opening
<1>3. /\ dir.current # None /\ job = NoJob /\ v \in VType /\ dir \in DirType
      /\ v.next \in Nat /\ \A d \in Dirs : d.current # None
  BY <1>2, OpeningHas
<1>4. /\ v'.mem = (IF reuse THEN Range(logc[n].recs) ELSE {}) /\ v'.imm = v.imm /\ v'.live = v.live
      /\ v'.edit = v.edit \cup nums /\ v'.seq = top
  BY <1>1, <1>3 DEF VType
<1>5. /\ top \in Nat /\ v.seq \in Nat /\ v.seq =< top
      /\ \A b \in Range(logc[n].recs) : b \in Batch /\ b.seq =< top
  BY <1>1, MaxSequenceIs DEF SeqInv
<1> HIDE DEF top
<1>6. Len(tabs) \in Nat /\ DOMAIN tabs = 1..Len(tabs)
  BY LenProperties
<1>7. \A t \in nums : UpToSeq(tabc'[t], top)
  <2> SUFFICES ASSUME NEW t \in nums PROVE UpToSeq(tabc'[t], top)
    OBVIOUS
  <2>1. t - v.next + 1 \in DOMAIN tabs /\ v.next + (t - v.next + 1) - 1 = t
    BY <1>3, <1>6
  <2>2. tabc'[t] \subseteq Range(logc[n].recs)
    BY <2>1, <1>1
  <2> QED
    BY <2>2, <1>5 DEF UpToSeq
<1>8. \A t \in Numbers : t < v.next => tabc'[t] = tabc[t]
  BY <1>1, <1>3, NumbersAre
<1>9. \A t \in v.live \cup v.edit : t \in Numbers /\ t < v.next
  BY <1>2, <1>3 DEF FilesInv, OpenNumbers, VType
<1>10. \A t \in v.live \cup v.edit : UpToSeq(tabc'[t], top)
  <2> SUFFICES ASSUME NEW t \in v.live \cup v.edit PROVE UpToSeq(tabc'[t], top)
    OBVIOUS
  <2>1. tabc'[t] = tabc[t] /\ UpToSeq(tabc[t], v.seq)
    BY <1>2, <1>8, <1>9 DEF SeqInv, MemNumbered
  <2>2. \A b \in tabc[t] : b.seq \in Nat
    BY <1>9 DEF FilesInv, Types, DiskTypes, Batch
  <2> QED
    BY <2>1, <2>2, <1>5 DEF UpToSeq
<1>11. UpToSeq(v'.mem, top)
  BY <1>4, <1>5 DEF UpToSeq
<1>12. v.imm = {}
  BY <1>2 DEF FilesInv, OpenNumbers
<1> HIDE DEF nums
<1>13. MemNumbered'
  BY <1>4, <1>7, <1>10, <1>11, <1>12 DEF MemNumbered, UpToSeq
<1>14. LogsSorted'
  BY <1>1 DEF SeqInv, LogsSorted
<1>15. VersionsNumbered'
  <2>1. Now.next < v.next /\ Now.next \in Nat
    BY <1>1, <1>3, NowIs DEF FilesInv, ReadManifest
  <2>2. \A t \in Numbers : t < Now.next => tabc'[t] = tabc[t]
    BY <2>1, <1>3, <1>8, NumbersAre
  <2>3. \A d \in Dirs' : \E e \in Dirs : e.current = d.current
    BY <1>1, <1>3 DEF Dirs, DirType
  <2> QED
    BY <2>2, <2>3, <1>1, NumberedAsBefore DEF SeqInv
<1> QED
  BY <1>1, <1>3, <1>13, <1>14, <1>15, IdleSeq

\* A log that was just made is empty.
LEMMA EmptyLogSorted ==
  ASSUME LogsSorted, NEW n, logc' = [logc EXCEPT ![n] = Empty], logc \in [Numbers -> FileOf(Batch)]
  PROVE  LogsSorted'
<1> SUFFICES ASSUME NEW m \in Numbers, NEW i \in 1..Len(logc'[m].recs), NEW j \in 1..Len(logc'[m].recs), i < j
             PROVE  logc'[m].recs[i].seq =< logc'[m].recs[j].seq
  BY DEF LogsSorted
<1>1. CASE m = n
  <2>1. Len(logc'[m].recs) = 0
    BY <1>1, EmptyFile
  <2> QED
    BY <2>1
<1>2. CASE m # n
  BY <1>2 DEF LogsSorted
<1> QED
  BY <1>1, <1>2

\* NewLog keeps the numbers in order (SeqInv).
LEMMA NewLogSeq ==
  ASSUME FilesInv, SeqInv, NewLog
  PROVE  SeqInv'
<1>1. /\ phase = "logs" /\ phase' = phase /\ manc' = manc /\ tabc' = tabc /\ job' = job
      /\ dir' = [dir EXCEPT !.logs = @ \cup {v.next}] /\ lost' = lost \cup {dir}
      /\ logc' = [logc EXCEPT ![v.next] = Empty]
      /\ v' = [v EXCEPT !.logfile = v.next, !.next = Bumped]
  BY DEF NewLog, ChangeDir
<1>2. phase \in Opening
  BY <1>1 DEF Opening
<1>3. /\ dir.current # None /\ job = NoJob /\ v \in VType /\ dir \in DirType
      /\ v.next \in Nat /\ \A d \in Dirs : d.current # None
  BY <1>2, OpeningHas
<1>4. MemNumbered'
  <2>1. v'.mem = v.mem /\ v'.imm = v.imm /\ v'.seq = v.seq /\ v'.live = v.live /\ v'.edit = v.edit
    BY <1>1, <1>3 DEF VType
  <2> QED
    BY <2>1, <1>1, <1>2, MemStaysNumbered
<1>5. LogsSorted'
  <2>1. logc \in [Numbers -> FileOf(Batch)]
    BY DEF FilesInv, Types, DiskTypes
  <2> QED
    BY <2>1, <1>1, EmptyLogSorted DEF SeqInv
<1>6. \A d \in Dirs' : \E e \in Dirs : e.current = d.current
  BY <1>1, <1>3 DEF Dirs, DirType
<1> QED
  BY <1>1, <1>3, <1>4, <1>5, <1>6, NumberedAsBefore, IdleSeq DEF SeqInv

\* Recovery writes down the number it found.
LEMMA OpenManifestSeq ==
  ASSUME DurabilityAssumption, Survivable, FilesInv, SeqInv, OpenManifest
  PROVE  SeqInv'
<1> DEFINE m == v.manifest
           f == manc[m]
           new == Appended(Appended(Empty, Snapshot(v.live)), OpenEdit)
<1>1. /\ phase = "logs" /\ v.logfile # None /\ phase' = "opensync"
      /\ v' = v /\ logc' = logc /\ tabc' = tabc /\ job' = job
  BY DEF OpenManifest, Quiet
<1>2. phase \in Opening
  BY <1>1 DEF Opening
<1>3. /\ dir.current # None /\ job = NoJob /\ v \in VType /\ dir \in DirType
      /\ \A d \in Dirs : d.current # None
  BY <1>2, OpeningHas
<1>4. MemNumbered' /\ LogsSorted'
  <2>1. LogsSorted'
    BY <1>1 DEF SeqInv, LogsSorted
  <2> QED
    BY <2>1, <1>1, <1>2, MemStaysNumbered
<1>5. dir.current \in Numbers /\ manc[dir.current] \in FileOf(EditType) /\ manc \in [Numbers -> FileOf(EditType)]
  BY <1>3, CurrentIs DEF FilesInv, Types, DiskTypes
<1>6. OpenNumbers /\ ReadManifest
  BY DEF FilesInv
<1>7. CASE v.descriptor /\ manc' = [manc EXCEPT ![m] = Appended(f, OpenEdit)] /\ UNCHANGED <<dir, lost>>
  <2>1. ReuseLogs /\ ~MachineCrashes /\ m = dir.current
    BY <1>1, <1>2, <1>6, <1>7 DEF OpenNumbers, ReadManifest, Survivable
  <2>2. /\ OpenEdit \in EditType
        /\ Replay(Append(f.recs, OpenEdit)) =
              [live |-> v.live \cup v.edit, log |-> v.logfile, next |-> v.next, seq |-> v.seq,
               any |-> TRUE]
    BY <1>1, <2>1, OpenEditIs
  <2>3. manc'[m] = Appended(f, OpenEdit) /\ Dirs = {dir} /\ Dirs' = {dir}
    BY <2>1, <1>5, <1>7 DEF Dirs
  <2>4. ASSUME NEW k \in Ends(manc'[m])
        PROVE  \A t \in UpTo(manc'[m], k).live : UpToSeq(tabc[t], UpTo(manc'[m], k).seq)
    <3>1. CASE k \in Ends(f) /\ UpTo(manc'[m], k) = UpTo(f, k)
      BY <3>1, <2>1, <2>3, <1>3 DEF SeqInv, VersionsNumbered
    <3>2. CASE UpTo(manc'[m], k) = Replay(Append(f.recs, OpenEdit))
      <4>1. UpTo(manc'[m], k).live = v.live \cup v.edit /\ UpTo(manc'[m], k).seq = v.seq
        BY <3>2, <2>2
      <4> QED
        BY <4>1, <1>2 DEF SeqInv, MemNumbered
    <3> QED
      BY <3>1, <3>2, <2>1, <2>2, <2>3, <1>5, EndsOfAppended
  <2>5. VersionsNumbered'
    BY <2>1, <2>3, <2>4, <1>1 DEF VersionsNumbered, UpToSeq
  <2> QED
    BY <2>5, <1>1, <1>3, <1>4, IdleSeq
<1>8. CASE /\ ~v.descriptor /\ dir' = [dir EXCEPT !.manifests = @ \cup {m}] /\ lost' = lost \cup {dir}
           /\ manc' = [manc EXCEPT ![m] = new]
  <2>1. m = Now.next
    BY <1>1, <1>2, <1>6, <1>8 DEF OpenNumbers, ReadManifest
  <2> HIDE DEF new
  <2>2. ASSUME NEW d \in Dirs PROVE manc'[d.current] = manc[d.current]
    <3>1. d.current \in Numbers /\ d.current # m
      BY <2>1, <1>3, DirsAre, OlderManifest
    <3> QED
      BY <3>1, <1>5, <1>8
  <2>3. \A d \in Dirs' : \E e \in Dirs : e.current = d.current
    BY <1>3, <1>8 DEF Dirs, DirType
  <2>4. VersionsNumbered'
    BY <2>2, <2>3, <1>1, NumberedAsBefore DEF SeqInv
  <2> QED
    BY <2>4, <1>1, <1>3, <1>4, IdleSeq
<1> QED
  BY <1>7, <1>8 DEF OpenManifest, ChangeDir

\* A sync makes the end of a manifest one that no crash takes away; it was one before.
LEMMA SyncNumbered ==
  ASSUME FilesInv, VersionsNumbered, NEW m \in Numbers, dir.current # None,
         manc' = [manc EXCEPT ![m] = SyncedFile(manc[m])], tabc' = tabc, dir' = dir, lost' = {}
  PROVE  VersionsNumbered'
<1>1. manc \in [Numbers -> FileOf(EditType)] /\ dir.current \in Numbers
  BY CurrentIs DEF FilesInv, Types, DiskTypes
<1>2. Dirs' = {dir} /\ dir \in Dirs
  BY DEF Dirs
<1>3. ASSUME NEW k \in Ends(manc'[dir.current])
      PROVE  \E j \in Ends(manc[dir.current]) : UpTo(manc[dir.current], j) = UpTo(manc'[dir.current], k)
  <2>1. CASE dir.current # m
    BY <2>1, <1>1, <1>3
  <2>2. CASE dir.current = m
    <3>1. manc'[m] = SyncedFile(manc[m]) /\ manc[m] \in FileOf(EditType)
      BY <1>1
    <3>2. SyncedFile(manc[m]).recs = manc[m].recs /\ Settled(SyncedFile(manc[m]))
      BY <3>1, SyncedFileIs
    <3>3. k = Len(manc[m].recs)
      BY <2>2, <3>1, <3>2, <1>3 DEF Settled
    <3>4. k \in Ends(manc[m])
      BY <3>1, <3>3, EndsAtAll
    <3> QED
      BY <2>2, <3>1, <3>2, <3>4 DEF UpTo
  <2> QED
    BY <2>1, <2>2
<1> QED
  BY <1>2, <1>3, NumberedStays

\* OpenSync keeps the numbers in order (SeqInv).
LEMMA OpenSyncSeq ==
  ASSUME FilesInv, SeqInv, OpenSync
  PROVE  SeqInv'
<1>1. /\ phase = "opensync" /\ dir' = dir /\ lost' = {}
      /\ manc' = [manc EXCEPT ![v.manifest] = SyncedFile(manc[v.manifest])]
      /\ v' = v /\ logc' = logc /\ tabc' = tabc /\ job' = job
  BY DEF OpenSync, CommitDir, SyncsManifest, Quiet
<1>2. phase \in Opening /\ phase \in Opening \ {"logs"}
  BY <1>1 DEF Opening
<1>3. dir.current # None /\ job = NoJob /\ v.manifest \in Numbers
  BY <1>2, OpeningHas, WrittenHas
<1>4. LogsSorted'
  BY <1>1 DEF SeqInv, LogsSorted
<1>5. MemNumbered'
  BY <1>1, <1>2, MemStaysNumbered
<1> QED
  BY <1>1, <1>3, <1>4, <1>5, SyncNumbered, IdleSeq DEF SeqInv

\* OpenTemp keeps the numbers in order (SeqInv).
LEMMA OpenTempSeq ==
  ASSUME FilesInv, SeqInv, OpenTemp
  PROVE  SeqInv'
<1>1. /\ phase = "opentemp" /\ dir' = [dir EXCEPT !.temps = @ \cup {v.manifest}] /\ lost' = {}
      /\ manc' = manc /\ v' = v /\ logc' = logc /\ tabc' = tabc /\ job' = job
  BY DEF OpenTemp, WriteTemp, CommitDir, Quiet
<1>2. phase \in Opening
  BY <1>1 DEF Opening
<1>3. dir.current # None /\ job = NoJob /\ dir \in DirType
  BY <1>2, OpeningHas
<1>4. LogsSorted'
  BY <1>1 DEF SeqInv, LogsSorted
<1>5. MemNumbered'
  BY <1>1, <1>2, MemStaysNumbered
<1>6. \A d \in Dirs' : \E e \in Dirs : e.current = d.current
  BY <1>1, <1>3 DEF Dirs, DirType
<1> QED
  BY <1>1, <1>3, <1>4, <1>5, <1>6, NumberedAsBefore, IdleSeq DEF SeqInv

\* OpenRename keeps the numbers in order (SeqInv).
LEMMA OpenRenameSeq ==
  ASSUME FilesInv, SeqInv, OpenRename
  PROVE  SeqInv'
<1> DEFINE m == v.manifest
           f == manc[m]
<1>1. /\ phase = "openname" /\ dir' = [dir EXCEPT !.temps = @ \ {m}, !.current = m]
      /\ lost' = lost \cup {dir} /\ manc' = manc
      /\ v' = v /\ logc' = logc /\ tabc' = tabc /\ job' = job
  BY DEF OpenRename, RenameTemp, ChangeDir, Quiet
<1>2. phase \in Opening /\ phase \in Opening \ {"logs"}
  BY <1>1 DEF Opening
<1>3. job = NoJob /\ dir \in DirType
  BY <1>2, OpeningHas
<1>4. /\ m \in Numbers /\ f \in FileOf(EditType) /\ Mine = Replay(f.recs)
      /\ Mine.live = v.live \cup v.edit /\ Mine.seq = v.seq
  BY <1>2, WrittenHas
<1>5. LogsSorted'
  BY <1>1 DEF SeqInv, LogsSorted
<1>6. MemNumbered'
  BY <1>1, <1>2, MemStaysNumbered
<1>7. ASSUME NEW d \in Dirs', d.current # None, NEW k \in Ends(manc'[d.current])
      PROVE  \/ \E e \in Dirs : e.current # None /\ \E j \in Ends(manc[e.current]) :
                  UpTo(manc[e.current], j) = UpTo(manc'[d.current], k)
             \/ \A t \in UpTo(manc'[d.current], k).live :
                  \A b \in tabc'[t] : b.seq =< UpTo(manc'[d.current], k).seq
  <2>1. CASE d \in Dirs
    BY <2>1, <1>1, <1>7
  <2>2. CASE d = dir'
    <3>1. d.current = m
      BY <2>2, <1>1, <1>3 DEF DirType
    <3>2. Settled(f)
      BY <1>1 DEF FilesInv, NotCurrentYet
    <3>3. k = Len(f.recs)
      BY <3>1, <3>2, <1>1, <1>7 DEF Settled
    <3>4. UpTo(manc'[d.current], k) = Mine
      BY <3>1, <3>3, <1>1, <1>4, UpToAll
    <3> QED
      BY <3>4, <1>1, <1>2, <1>4 DEF SeqInv, MemNumbered, UpToSeq
  <2> QED
    BY <2>1, <2>2, <1>1 DEF Dirs
<1>8. VersionsNumbered'
  BY <1>1, <1>7, NumberedStays DEF SeqInv
<1> QED
  BY <1>1, <1>3, <1>5, <1>6, <1>8, IdleSeq

\* OpenInstall keeps the numbers in order (SeqInv).
LEMMA OpenInstallSeq ==
  ASSUME FilesInv, SeqInv, OpenInstall
  PROVE  SeqInv'
<1>1. /\ phase = "install" /\ UNCHANGED disk /\ job' = job
      /\ v' = [v EXCEPT !.live = @ \cup v.edit, !.edit = {}, !.logNo = v.logfile, !.descriptor = TRUE]
  BY DEF OpenInstall, Quiet
<1>2. phase \in Opening
  BY <1>1 DEF Opening
<1>3. job = NoJob /\ v \in VType
  BY <1>2, OpeningHas
<1>4. /\ v'.mem = v.mem /\ v'.imm = v.imm /\ v'.seq = v.seq /\ v'.live = v.live \cup v.edit /\ v'.edit = {}
  BY <1>1, <1>3 DEF VType
<1>5. tabc' = tabc
  BY <1>1, DiskStays
<1>6. MemNumbered'
  BY <1>2, <1>4, <1>5, MemStaysNumbered
<1> QED
  BY <1>1, <1>3, <1>6, DiskStaysNumbered, IdleSeq

\* OpenReused keeps the numbers in order (SeqInv).
LEMMA OpenReusedSeq ==
  ASSUME FilesInv, SeqInv, OpenReused
  PROVE  SeqInv'
<1>1. phase = "logs" /\ UNCHANGED disk /\ job' = job /\ v' = v
  BY DEF OpenReused, Quiet
<1>2. phase \in Opening
  BY <1>1 DEF Opening
<1>3. job = NoJob
  BY <1>2, OpeningHas
<1>4. MemNumbered'
  BY <1>1, <1>2, DiskStays, MemStaysNumbered
<1> QED
  BY <1>1, <1>3, <1>4, DiskStaysNumbered, IdleSeq

\* What a database that is open can rely on.
LEMMA RunSeq ==
  ASSUME FilesInv, SeqInv, phase \in {"clean", "run"}
  PROVE  /\ UpToSeq(v.mem, v.seq) /\ UpToSeq(v.imm, v.seq) /\ v.seq \in Nat /\ v.edit = {}
         /\ (\A t \in v.live : UpToSeq(tabc[t], v.seq) /\ t \in Numbers)
         /\ (\A t \in v.live : \A b \in tabc[t] : b.seq \in Nat)
         /\ (\A b \in v.mem \cup v.imm : b.seq \in Nat)
         /\ v.live \cup v.edit = v.live
<1>1. Open_ /\ v \in VType /\ tabc \in [Numbers -> SUBSET Batch]
  BY OpenHas DEF FilesInv, Types, DiskTypes
<1>2. v.edit = {}
  BY <1>1 DEF FilesInv, RunNumbers
<1>3. v.live \in SUBSET Numbers /\ v.mem \in SUBSET Batch /\ v.imm \in SUBSET Batch /\ v.seq \in Nat
  BY <1>1 DEF VType
<1>4. UpToSeq(v.mem, v.seq) /\ UpToSeq(v.imm, v.seq) /\ \A t \in v.live : UpToSeq(tabc[t], v.seq)
  BY DEF SeqInv, MemNumbered
<1> QED
  BY <1>1, <1>2, <1>3, <1>4 DEF Batch

\* A job that goes on, while its tables and numbers stay.
LEMMA JobStaysNumbered ==
  ASSUME SeqInv, job'.ents = job.ents, job'.edit.seq = job.edit.seq, v'.seq = v.seq, v'.live = v.live,
         \A t \in v.live : tabc'[t] = tabc[t],
         job'.stage \in Active => job.stage \in Active,
         job'.stage \in {"append", "sync", "install"} => job.stage \in {"append", "sync", "install"}
  PROVE  JobNumbered'
BY DEF SeqInv, JobNumbered, UpToSeq

\* No job, no numbers to keep.
LEMMA NoJobNumbered ==
  ASSUME job'.stage \notin Active
  PROVE  JobNumbered'
BY DEF JobNumbered, Active

\* Removing obsolete files changes no manifest that a directory names.
LEMMA DeletesNumbered ==
  ASSUME FilesInv, VersionsNumbered, phase \in {"clean", "run"}, DeleteObsoleteFiles,
         manc' = manc, tabc' = tabc
  PROVE  VersionsNumbered'
<1>1. \A d \in Dirs' : d \in Dirs \/ d.current = dir.current
  BY DeletesObsolete DEF Cleaned
<1>2. \A d \in Dirs' : \E e \in Dirs : e.current = d.current
  BY <1>1 DEF Dirs
<1> QED
  BY <1>2, NumberedAsBefore

\* OpenClean keeps the numbers in order (SeqInv).
LEMMA OpenCleanSeq ==
  ASSUME FilesInv, SeqInv, OpenClean
  PROVE  SeqInv'
<1>1. /\ phase = "clean" /\ DeleteObsoleteFiles
      /\ manc' = manc /\ logc' = logc /\ tabc' = tabc /\ v' = v /\ job' = job
  BY DEF OpenClean, Quiet
<1>2. job = NoJob
  BY <1>1 DEF FilesInv, AtRest
<1>3. LogsSorted'
  BY <1>1 DEF SeqInv, LogsSorted
<1>4. VersionsNumbered' /\ MemNumbered'
  BY <1>1, DeletesNumbered, MemStaysNumbered DEF SeqInv
<1> QED
  BY <1>1, <1>2, <1>3, <1>4, IdleSeq

\* Clean keeps the numbers in order (SeqInv).
LEMMA CleanSeq ==
  ASSUME FilesInv, SeqInv, Clean
  PROVE  SeqInv'
<1>1. /\ job.stage = "clean" /\ job' = NoJob /\ (UNCHANGED <<dir, lost>> \/ DeleteObsoleteFiles)
      /\ manc' = manc /\ logc' = logc /\ tabc' = tabc /\ v' = v
  BY DEF Clean
<1>2. phase = "run"
  BY <1>1, FreshIs DEF FilesInv, AtRest
<1>3. LogsSorted' /\ VersionsNumbered'
  <2>1. CASE UNCHANGED <<dir, lost>>
    <3>1. UNCHANGED disk
      BY <2>1, <1>1 DEF disk
    <3> QED
      BY <3>1, DiskStaysNumbered
  <2>2. CASE DeleteObsoleteFiles
    <3>1. LogsSorted'
      BY <1>1 DEF SeqInv, LogsSorted
    <3> QED
      BY <3>1, <2>2, <1>1, <1>2, DeletesNumbered DEF SeqInv
  <2> QED
    BY <2>1, <2>2, <1>1
<1>4. MemNumbered'
  BY <1>1, <1>2, MemStaysNumbered
<1> QED
  BY <1>1, <1>3, <1>4, IdleSeq

\* A write takes the next number, and its log holds only what is in the memtable.
LEMMA WriteSeq ==
  ASSUME FilesInv, ContentsInv, SeqInv, NEW sync \in BOOLEAN, Write(sync)
  PROVE  SeqInv'
<1> DEFINE b == [id |-> writes + 1, seq |-> v.seq + 1]
           lf == v.logfile
           f == Appended(logc[lf], b)
           g == IF sync THEN SyncedFile(f) ELSE f
           mem == v.mem \cup {b}
           sq == v.seq + 1
           old == logc[lf]
<1>1. /\ phase = "run" /\ dir' = dir /\ lost' \in {lost, {}} /\ manc' = manc /\ tabc' = tabc
      /\ logc' = [logc EXCEPT ![lf] = g] /\ v' = [v EXCEPT !.mem = mem, !.seq = sq] /\ job' = job
  BY DEF Write, CommitDir
<1>2. /\ v \in VType /\ Open_ /\ dir.current # None /\ lf \in Numbers
  BY <1>1, OpenHas
<1>3. writes \in Nat /\ logc \in [Numbers -> FileOf(Batch)]
  BY DEF FilesInv, Types, DiskTypes
<1>4. /\ UpToSeq(v.mem, v.seq) /\ UpToSeq(v.imm, v.seq) /\ v.seq \in Nat /\ v.edit = {}
      /\ (\A t \in v.live : UpToSeq(tabc[t], v.seq))
      /\ (\A t \in v.live : \A c \in tabc[t] : c.seq \in Nat)
      /\ (\A c \in v.mem \cup v.imm : c.seq \in Nat)
  BY <1>1, RunSeq
<1>5. b \in Batch /\ b.seq = sq
  BY <1>3, <1>4 DEF Batch
<1> HIDE DEF b
<1>6. old \in FileOf(Batch) /\ old.recs \in Seq(Batch) /\ Len(old.recs) \in Nat
  BY <1>2, <1>3, LenProperties DEF FileOf
<1>7. g.recs = Append(old.recs, b)
  <2> HIDE DEF old
  <2>1. Appended(old, b) \in FileOf(Batch) /\ Appended(old, b).recs = Append(old.recs, b)
    BY <1>5, <1>6, AppendedFile
  <2>2. SyncedFile(Appended(old, b)).recs = Appended(old, b).recs
    BY <2>1, SyncedFileIs
  <2> QED
    BY <2>1, <2>2 DEF old
<1>8. logc'[lf] = g /\ \A n \in Numbers : n # lf => logc'[n] = logc[n]
  BY <1>1, <1>2, <1>3
<1> HIDE DEF g, old, f
<1>9. /\ Len(g.recs) = Len(old.recs) + 1 /\ g.recs[Len(old.recs) + 1] = b
      /\ (\A i \in 1..Len(old.recs) : g.recs[i] = old.recs[i])
  BY <1>5, <1>6, <1>7, AppendProperties
<1>10. ASSUME NEW i \in 1..Len(old.recs) PROVE old.recs[i].seq =< v.seq
  <2>1. v.mem = Range(old.recs)
    <3>1. lf # None
      BY <1>2, NumbersAre DEF None
    <3> QED
      BY <3>1, <1>1 DEF ContentsInv, MemIsLog, LogSet, old
  <2>2. old.recs[i] \in v.mem
    BY <2>1, <1>6, LenProperties DEF Range
  <2> QED
    BY <2>2, <1>4 DEF UpToSeq
<1>11. LogsSorted'
  <2> SUFFICES ASSUME NEW n \in Numbers, NEW i \in 1..Len(logc'[n].recs), NEW j \in 1..Len(logc'[n].recs), i < j
               PROVE  logc'[n].recs[i].seq =< logc'[n].recs[j].seq
    BY DEF LogsSorted
  <2>1. CASE n # lf
    BY <2>1, <1>8 DEF SeqInv, LogsSorted
  <2>2. CASE n = lf
    <3>1. logc'[n].recs = g.recs /\ i \in 1..Len(old.recs)
      BY <2>2, <1>6, <1>8, <1>9
    <3>2. CASE j \in 1..Len(old.recs)
      <4>1. old.recs[i].seq =< old.recs[j].seq
        BY <3>1, <3>2, <1>2 DEF SeqInv, LogsSorted, old
      <4> QED
        BY <3>1, <3>2, <4>1, <1>9
    <3>3. CASE j = Len(old.recs) + 1
      <4>1. old.recs[i].seq =< v.seq /\ old.recs[i].seq \in Nat
        <5>1. old.recs[i] \in Batch
          BY <3>1, <1>6, ElementOfSeq
        <5> QED
          BY <5>1, <3>1, <1>10 DEF Batch
      <4>2. logc'[n].recs[i].seq = old.recs[i].seq /\ logc'[n].recs[j].seq = sq
        BY <3>1, <3>3, <1>5, <1>9
      <4> QED
        BY <4>1, <4>2, <1>4
    <3> QED
      BY <2>2, <3>2, <3>3, <1>6, <1>8, <1>9
  <2> QED
    BY <2>1, <2>2
<1>12. VersionsNumbered'
  <2>1. \A d \in Dirs' : d \in Dirs
    BY <1>1 DEF Dirs
  <2> QED
    BY <2>1, <1>1, NumberedAsBefore DEF SeqInv
<1> DEFINE seqs == \A c \in v.mem \cup v.imm : c.seq =< sq
<1>13. seqs /\ (\A t \in v.live : \A c \in tabc[t] : c.seq =< sq)
  BY <1>4 DEF UpToSeq
<1>14. /\ v'.mem = mem /\ v'.seq = sq /\ v'.live = v.live /\ v'.imm = v.imm /\ v'.edit = v.edit
  <2> HIDE DEF mem, sq
  <2> QED
    BY <1>1, <1>2 DEF VType
<1>15. MemNumbered'
  <2>1. UpToSeq(mem, sq)
    BY <1>4, <1>5, <1>13 DEF UpToSeq
  <2> HIDE DEF mem, sq
  <2> QED
    BY <2>1, <1>1, <1>4, <1>13, <1>14 DEF MemNumbered, UpToSeq
<1>16. JobNumbered'
  <2>1. job \in JobType
    BY DEF FilesInv, Types
  <2>2. (\A c \in job.ents : c.seq \in Nat) /\ job.edit.seq \in Nat
    BY <2>1 DEF JobType, Batch, EditType
  <2>3. JobNumbered
    BY DEF SeqInv
  <2>4. job.stage \in Active => \A c \in job.ents : c.seq =< sq
    BY <2>2, <2>3, <1>4 DEF JobNumbered, UpToSeq
  <2>5. job.stage \in {"append", "sync", "install"} => job.edit.seq =< sq
    BY <2>2, <2>3, <1>4 DEF JobNumbered
  <2> HIDE DEF sq
  <2> QED
    BY <2>3, <2>4, <2>5, <1>1, <1>14 DEF JobNumbered, UpToSeq
<1> QED
  BY <1>11, <1>12, <1>15, <1>16 DEF SeqInv

\* NewIterator keeps the numbers in order (SeqInv).
LEMMA NewIteratorSeq ==
  ASSUME FilesInv, SeqInv, NewIterator
  PROVE  SeqInv'
<1> DEFINE pins == Append(v.pins, v.live)
<1>1. phase = "run" /\ v' = [v EXCEPT !.pins = pins] /\ UNCHANGED disk /\ job' = job
  BY DEF NewIterator, Quiet
<1>2. v \in VType
  BY <1>1, OpenHas
<1> HIDE DEF pins
<1>3. v'.mem = v.mem /\ v'.imm = v.imm /\ v'.seq = v.seq /\ v'.live = v.live /\ v'.edit = v.edit
  BY <1>1, <1>2 DEF VType
<1>4. tabc' = tabc /\ LogsSorted' /\ VersionsNumbered'
  BY <1>1, DiskStays, DiskStaysNumbered
<1>5. MemNumbered' /\ JobNumbered'
  BY <1>1, <1>3, <1>4, MemStaysNumbered, JobStaysNumbered
<1> QED
  BY <1>4, <1>5 DEF SeqInv

\* SwitchMemTable keeps the numbers in order (SeqInv).
LEMMA SwitchMemTableSeq ==
  ASSUME FilesInv, SeqInv, SwitchMemTable
  PROVE  SeqInv'
<1> DEFINE n == v.next
           n1 == v.next + 1
           old == v.mem
<1>1. /\ phase = "run" /\ dir' = [dir EXCEPT !.logs = @ \cup {n}] /\ lost' = lost \cup {dir}
      /\ logc' = [logc EXCEPT ![n] = Empty]
      /\ v' = [v EXCEPT !.logfile = n, !.next = n1, !.imm = old, !.mem = {}, !.hasImm = TRUE]
      /\ manc' = manc /\ tabc' = tabc /\ job' = job
  BY DEF SwitchMemTable, ChangeDir, Bumped
<1>2. v \in VType /\ dir \in DirType
  BY <1>1, OpenHas
<1>3. LogsSorted'
  <2>1. logc \in [Numbers -> FileOf(Batch)]
    BY DEF FilesInv, Types, DiskTypes
  <2> QED
    BY <2>1, <1>1, EmptyLogSorted DEF SeqInv
<1>4. v'.mem = {} /\ v'.imm = v.mem /\ v'.seq = v.seq /\ v'.live = v.live /\ v'.edit = v.edit
  <2> HIDE DEF n, n1
  <2> QED
    BY <1>1, <1>2 DEF VType
<1> HIDE DEF n
<1>5. \A d \in Dirs' : \E e \in Dirs : e.current = d.current
  BY <1>1, <1>2 DEF Dirs, DirType
<1>6. VersionsNumbered'
  BY <1>1, <1>5, NumberedAsBefore DEF SeqInv
<1>7. MemNumbered'
  BY <1>1, <1>4 DEF SeqInv, MemNumbered, UpToSeq
<1>8. JobNumbered'
  BY <1>1, <1>4, JobStaysNumbered
<1> QED
  BY <1>3, <1>6, <1>7, <1>8 DEF SeqInv

\* StartTable keeps the numbers in order (SeqInv).
LEMMA StartTableSeq ==
  ASSUME FilesInv, SeqInv, NEW kind, NEW ents, NEW del, StartTable(kind, ents, del), UpToSeq(ents, v.seq)
  PROVE  SeqInv'
<1> DEFINE n == v.next
           n1 == v.next + 1
           pn == v.pending \cup {n}
           ed == Edit({n}, del, None, None, 0)
<1>1. /\ phase = "run" /\ dir' = [dir EXCEPT !.tables = @ \cup {n}] /\ lost' = lost \cup {dir}
      /\ tabc' = [tabc EXCEPT ![n] = {}]
      /\ v' = [v EXCEPT !.next = n1, !.pending = pn]
      /\ job' = [kind |-> kind, stage |-> "build", num |-> n, ents |-> ents, edit |-> ed]
      /\ logc' = logc /\ manc' = manc
  BY DEF StartTable, ChangeDir, Bumped
<1>2. dir.current # None /\ v \in VType /\ dir \in DirType /\ Open_ /\ n \in Nat
  BY <1>1, OpenHas
<1>3. (\A t \in v.live : t < n /\ t \in Numbers) /\ Now.next =< n /\ Now.next \in Nat
  BY <1>2, NowIs DEF FilesInv, RunNumbers, LiveFiles, VType
<1>4. v'.mem = v.mem /\ v'.imm = v.imm /\ v'.seq = v.seq /\ v'.live = v.live /\ v'.edit = v.edit
  <2> HIDE DEF n, n1, pn
  <2> QED
    BY <1>1, <1>2 DEF VType
<1>5. \A t \in Numbers : t < n => tabc'[t] = tabc[t]
  <2>1. tabc \in [Numbers -> SUBSET Batch]
    BY DEF FilesInv, Types, DiskTypes
  <2> QED
    BY <2>1, <1>1, <1>2, NumbersAre
<1>6. \A t \in Numbers : t < Now.next => tabc'[t] = tabc[t]
  BY <1>2, <1>3, <1>5, NumbersAre
<1>7. LogsSorted'
  BY <1>1 DEF SeqInv, LogsSorted
<1>8. VersionsNumbered'
  <2> HIDE DEF n
  <2>1. \A d \in Dirs' : \E e \in Dirs : e.current = d.current
    BY <1>1, <1>2 DEF Dirs, DirType
  <2> QED
    BY <2>1, <1>1, <1>6, NumberedAsBefore DEF SeqInv
<1>9. MemNumbered'
  <2>1. v.edit = {}
    BY <1>1, RunSeq
  <2>2. \A t \in v.live : tabc'[t] = tabc[t]
    BY <1>3, <1>5
  <2> QED
    BY <2>1, <2>2, <1>1, <1>4 DEF SeqInv, MemNumbered, UpToSeq
<1>10. JobNumbered'
  <2> HIDE DEF ed, n
  <2>1. job'.stage = "build" /\ job'.ents = ents
    BY <1>1
  <2> QED
    BY <2>1, <1>4 DEF JobNumbered, UpToSeq
<1> QED
  BY <1>7, <1>8, <1>9, <1>10 DEF SeqInv

\* CompactMemTable keeps the numbers in order (SeqInv).
LEMMA CompactMemTableSeq ==
  ASSUME FilesInv, SeqInv, CompactMemTable
  PROVE  SeqInv'
<1>1. StartTable("mem", v.imm, {})
  BY DEF CompactMemTable
<1>2. phase = "run"
  BY <1>1 DEF StartTable
<1> QED
  BY <1>1, <1>2, RunSeq, StartTableSeq

\* DoCompactionWork keeps the numbers in order (SeqInv).
LEMMA DoCompactionWorkSeq ==
  ASSUME FilesInv, SeqInv, DoCompactionWork
  PROVE  SeqInv'
<1>1. PICK T \in SUBSET v.live \ {{}} : StartTable("comp", UNION {tabc[t] : t \in T}, T)
  BY DEF DoCompactionWork
<1>2. phase = "run"
  BY <1>1 DEF StartTable
<1>3. \A t \in v.live : UpToSeq(tabc[t], v.seq)
  BY <1>2, RunSeq
<1>4. UpToSeq(UNION {tabc[t] : t \in T}, v.seq)
  BY <1>3 DEF UpToSeq
<1> QED
  BY <1>1, <1>4, StartTableSeq

\* The edit takes the number of the moment, which no batch of a table is above.
LEMMA FinishTableSeq ==
  ASSUME FilesInv, ContentsInv, SeqInv, FinishTable
  PROVE  SeqInv'
<1> DEFINE lg == IF job.kind = "mem" THEN v.logfile ELSE v.logNo
           pn == IF job.kind = "mem" THEN v.pending \ {job.num} ELSE v.pending
           nx == v.next
           sq == v.seq
           ed == [job.edit EXCEPT !.log = lg, !.next = nx, !.seq = sq]
<1>1. /\ job.stage = "build" /\ tabc' = [tabc EXCEPT ![job.num] = job.ents] /\ dir' = dir /\ lost' = {}
      /\ v' = [v EXCEPT !.pending = pn] /\ job' = [job EXCEPT !.stage = "append", !.edit = ed]
      /\ logc' = logc /\ manc' = manc
  BY DEF FinishTable, CommitDir
<1>2. phase = "run" /\ ~v.bgError
  BY <1>1, JobRuns DEF Active
<1>3. /\ dir.current # None /\ v \in VType /\ dir \in DirType /\ job \in JobType /\ Open_
  BY <1>2, OpenHas
<1>4. job.num \in dir.tables /\ job.edit \in EditType
  BY <1>1, <1>3 DEF FilesInv, JobNumbers, Active, JobType
<1>5. job.num \in Numbers /\ job.num \in Nat
  BY <1>3, <1>4, NumbersAre DEF DirType
<1>6. Now.next =< job.num /\ Now.next \in Nat
  BY <1>1, <1>3, NowIs DEF ContentsInv, JobContents
<1>7. \A t \in Numbers : t < Now.next => tabc'[t] = tabc[t]
  <2>1. tabc \in [Numbers -> SUBSET Batch]
    BY DEF FilesInv, Types, DiskTypes
  <2>2. \A t \in Numbers : t < Now.next => t # job.num
    BY <1>5, <1>6, NumbersAre
  <2> QED
    BY <2>1, <2>2, <1>1
<1>8. \A t \in v.live : tabc'[t] = tabc[t]
  <2>1. v.live = Now.live
    BY <1>1, <1>2, <1>3 DEF FilesInv, Installed
  <2> QED
    BY <2>1, <1>3, <1>7, NowIs
<1>9. LogsSorted'
  BY <1>1 DEF SeqInv, LogsSorted
<1>10. VersionsNumbered'
  <2>1. \A d \in Dirs' : d \in Dirs
    BY <1>1 DEF Dirs
  <2> QED
    BY <2>1, <1>1, <1>7, NumberedAsBefore DEF SeqInv
<1>11. v'.mem = v.mem /\ v'.imm = v.imm /\ v'.seq = sq /\ v'.live = v.live /\ v'.edit = v.edit
  <2> HIDE DEF pn
  <2> QED
    BY <1>1, <1>3 DEF VType
<1>12. ed.seq = sq
  <2> HIDE DEF lg, nx, sq
  <2> QED
    BY <1>4 DEF EditType
<1>13. /\ UpToSeq(v.mem, sq) /\ UpToSeq(v.imm, sq) /\ sq \in Nat /\ v.edit = {}
       /\ (\A t \in v.live : UpToSeq(tabc[t], sq))
  BY <1>2, RunSeq
<1>14. UpToSeq(job.ents, sq)
  BY <1>1 DEF SeqInv, JobNumbered, Active
<1> HIDE DEF ed, sq
<1>15. job'.stage = "append" /\ job'.edit = ed /\ job'.ents = job.ents
  BY <1>1, <1>3 DEF JobType
<1>16. \A t \in v.live : UpToSeq(tabc'[t], sq)
  BY <1>8, <1>13
<1>17. MemNumbered'
  BY <1>11, <1>13, <1>16 DEF MemNumbered, UpToSeq
<1>18. JobNumbered'
  BY <1>11, <1>12, <1>13, <1>14, <1>15, <1>16 DEF JobNumbered, UpToSeq
<1> QED
  BY <1>9, <1>10, <1>17, <1>18 DEF SeqInv

\* The version that a job's edit makes is numbered by the edit.
LEMMA EditNumbered ==
  ASSUME FilesInv, ContentsInv, SeqInv, job.stage \in {"append", "sync", "install"}
  PROVE  \A t \in (v.live \ job.edit.del) \cup job.edit.add :
           UpToSeq(tabc[t], job.edit.seq) /\ UpToSeq(tabc[t], v.seq)
<1>1. job.edit.add = {job.num} /\ tabc[job.num] = job.ents /\ phase = "run"
  BY EditIs DEF ContentsInv, JobContents
<1>2. job.stage \in Active
  BY DEF Active
<1>3. /\ UpToSeq(job.ents, job.edit.seq) /\ UpToSeq(job.ents, v.seq)
      /\ \A t \in v.live : UpToSeq(tabc[t], job.edit.seq)
  BY <1>2 DEF SeqInv, JobNumbered
<1>4. \A t \in v.live : UpToSeq(tabc[t], v.seq)
  BY <1>1, RunSeq
<1> QED
  BY <1>1, <1>3, <1>4

\* An edit is appended: the version it makes is numbered.
LEMMA AppendNumbered ==
  ASSUME FilesInv, ContentsInv, SeqInv, job.stage = "append", UNCHANGED <<dir, lost>>, tabc' = tabc,
         manc' = [manc EXCEPT ![v.manifest] = Appended(@, job.edit)]
  PROVE  VersionsNumbered'
<1> DEFINE m == v.manifest
           f == manc[m]
<1>1. /\ Dirs' = Dirs /\ Now'.live = (v.live \ job.edit.del) \cup job.edit.add /\ Now'.seq = job.edit.seq
      /\ (\A n \in Numbers \ {m} : manc'[n] = manc[n]) /\ manc'[m] = Appended(f, job.edit)
  BY AppendsEdit
<1>2. phase = "run" /\ job.edit \in EditType
  BY EditIs
<1>3. dir.current = m /\ dir.current # None
  BY <1>2, OpenHas
<1>4. f \in FileOf(EditType)
  BY <1>3, CurrentIs
<1>5. Now' = Replay(Append(f.recs, job.edit))
  <2>1. Now' = Replay(manc'[m].recs)
    BY <1>3 DEF Now
  <2>2. manc'[m].recs = Append(f.recs, job.edit)
    BY <1>1, <1>2, <1>4, AppendedFile
  <2> QED
    BY <2>1, <2>2
<1>6. ASSUME NEW d \in Dirs', d.current # None, NEW k \in Ends(manc'[d.current])
      PROVE  \/ \E e \in Dirs : e.current # None /\ \E j \in Ends(manc[e.current]) :
                  UpTo(manc[e.current], j) = UpTo(manc'[d.current], k)
             \/ \A t \in UpTo(manc'[d.current], k).live :
                  \A b \in tabc'[t] : b.seq =< UpTo(manc'[d.current], k).seq
  <2>1. CASE d.current # m
    <3>1. manc'[d.current] = manc[d.current]
      BY <2>1, <1>1, <1>6, DirsAre
    <3> QED
      BY <3>1, <1>1, <1>6
  <2>2. CASE d.current = m /\ k \in Ends(f) /\ UpTo(Appended(f, job.edit), k) = UpTo(f, k)
    BY <2>2, <1>1, <1>6
  <2>3. CASE d.current = m /\ UpTo(Appended(f, job.edit), k) = Replay(Append(f.recs, job.edit))
    <3>1. UpTo(manc'[d.current], k) = Now'
      BY <2>3, <1>1, <1>5
    <3> QED
      BY <3>1, <1>1, EditNumbered DEF UpToSeq
  <2> QED
    BY <2>1, <2>2, <2>3, <1>1, <1>2, <1>4, <1>6, EndsOfAppended
<1>7. \A t \in Numbers : t < Now.next => tabc'[t] = tabc[t]
  OBVIOUS
<1> QED
  BY <1>6, <1>7, NumberedStays DEF SeqInv

\* AppendEdit keeps the numbers in order (SeqInv).
LEMMA AppendEditSeq ==
  ASSUME FilesInv, ContentsInv, SeqInv, AppendEdit
  PROVE  SeqInv'
<1>1. /\ job.stage = "append" /\ manc' = [manc EXCEPT ![v.manifest] = Appended(@, job.edit)]
      /\ job' = [job EXCEPT !.stage = "sync"] /\ UNCHANGED <<dir, lost>>
      /\ logc' = logc /\ tabc' = tabc /\ v' = v
  BY DEF AppendEdit
<1>2. phase = "run" /\ job \in JobType
  BY <1>1, EditIs
<1>3. LogsSorted'
  BY <1>1 DEF SeqInv, LogsSorted
<1>4. VersionsNumbered' /\ MemNumbered'
  BY <1>1, <1>2, AppendNumbered, MemStaysNumbered
<1>5. job'.stage = "sync" /\ job'.edit = job.edit /\ job'.ents = job.ents
  BY <1>1, <1>2 DEF JobType
<1>6. JobNumbered'
  BY <1>1, <1>5, JobStaysNumbered DEF Active
<1> QED
  BY <1>3, <1>4, <1>6 DEF SeqInv

\* SyncEdit keeps the numbers in order (SeqInv).
LEMMA SyncEditSeq ==
  ASSUME FilesInv, SeqInv, SyncEdit
  PROVE  SeqInv'
<1>1. /\ job.stage = "sync" /\ manc' = [manc EXCEPT ![v.manifest] = SyncedFile(manc[v.manifest])]
      /\ job' = [job EXCEPT !.stage = "install"] /\ dir' = dir /\ lost' = {}
      /\ logc' = logc /\ tabc' = tabc /\ v' = v
  BY DEF SyncEdit, SyncsManifest, CommitDir
<1>2. phase = "run" /\ job \in JobType
  BY <1>1, EditIs
<1>3. LogsSorted'
  BY <1>1 DEF SeqInv, LogsSorted
<1>4. dir.current # None /\ v.manifest \in Numbers
  BY <1>2, OpenHas
<1>5. VersionsNumbered' /\ MemNumbered'
  BY <1>1, <1>2, <1>4, SyncNumbered, MemStaysNumbered DEF SeqInv
<1>6. job'.stage = "install" /\ job'.edit = job.edit /\ job'.ents = job.ents
  BY <1>1, <1>2 DEF JobType
<1>7. JobNumbered'
  BY <1>1, <1>6, JobStaysNumbered DEF Active
<1> QED
  BY <1>3, <1>5, <1>7 DEF SeqInv

\* Install keeps the numbers in order (SeqInv).
LEMMA InstallSeq ==
  ASSUME FilesInv, ContentsInv, SeqInv, Install
  PROVE  SeqInv'
<1> DEFINE lv == (v.live \ job.edit.del) \cup job.edit.add
           lg == job.edit.log
           pn == v.pending \ {job.num}
           im == IF job.kind = "mem" THEN {} ELSE v.imm
           hi == IF job.kind = "mem" THEN FALSE ELSE v.hasImm
<1>1. /\ job.stage = "install"
      /\ v' = [v EXCEPT !.live = lv, !.logNo = lg, !.pending = pn, !.imm = im, !.hasImm = hi]
      /\ job' = [NoJob EXCEPT !.stage = "clean"] /\ UNCHANGED disk
  BY DEF Install, MayInstall
<1>2. phase = "run" /\ v \in VType
  BY <1>1, EditIs, OpenHas
<1>3. \A t \in lv : UpToSeq(tabc[t], v.seq)
  BY <1>1, EditNumbered
<1>4. UpToSeq(v.mem, v.seq) /\ UpToSeq(v.imm, v.seq) /\ v.edit = {}
  BY <1>2, RunSeq
<1> HIDE DEF lv, lg, pn, hi
<1>5. v'.mem = v.mem /\ v'.imm = im /\ v'.seq = v.seq /\ v'.live = lv /\ v'.edit = v.edit
  <2> HIDE DEF im
  <2> QED
    BY <1>1, <1>2 DEF VType
<1>6. tabc' = tabc /\ LogsSorted' /\ VersionsNumbered'
  BY <1>1, DiskStays, DiskStaysNumbered
<1>7. MemNumbered'
  BY <1>3, <1>4, <1>5, <1>6 DEF MemNumbered, UpToSeq
<1>8. JobNumbered'
  <2>1. job'.stage = "clean"
    BY <1>1, FreshIs DEF JobType
  <2> QED
    BY <2>1, NoJobNumbered DEF Active
<1> QED
  BY <1>6, <1>7, <1>8 DEF SeqInv

\* EditFails keeps the numbers in order (SeqInv).
LEMMA EditFailsSeq ==
  ASSUME FilesInv, ContentsInv, SeqInv, EditFails
  PROVE  SeqInv'
<1> DEFINE pn == v.pending \ {job.num}
           added == [manc EXCEPT ![v.manifest] = Appended(@, job.edit)]
<1>1. /\ job.stage \in {"append", "sync"}
      /\ v' = [v EXCEPT !.bgError = TRUE, !.pending = pn]
      /\ job' \in {NoJob, [NoJob EXCEPT !.stage = "clean"]} /\ UNCHANGED <<dir, lost>>
      /\ logc' = logc /\ tabc' = tabc
  BY DEF EditFails
<1>2. manc' = manc \/ (job.stage = "append" /\ manc' = added)
  <2>1. CASE job.stage = "append"
    BY <2>1 DEF EditFails
  <2>2. CASE job.stage # "append"
    <3>1. manc \in [Numbers -> FileOf(EditType)]
      BY DEF FilesInv, Types, DiskTypes
    <3> QED
      BY <3>1, <2>2 DEF EditFails
  <2> QED
    BY <2>1, <2>2
<1>3. phase = "run" /\ v \in VType
  BY <1>1, EditIs, OpenHas
<1>4. LogsSorted' /\ VersionsNumbered'
  <2>1. CASE manc' = manc
    <3>1. UNCHANGED disk
      BY <2>1, <1>1 DEF disk
    <3> QED
      BY <3>1, DiskStaysNumbered
  <2>2. CASE job.stage = "append" /\ manc' = added
    <3>1. LogsSorted'
      BY <1>1 DEF SeqInv, LogsSorted
    <3> QED
      BY <3>1, <2>2, <1>1, AppendNumbered
  <2> QED
    BY <2>1, <2>2, <1>2
<1> HIDE DEF pn, added
<1>5. v'.mem = v.mem /\ v'.imm = v.imm /\ v'.seq = v.seq /\ v'.live = v.live /\ v'.edit = v.edit
  BY <1>1, <1>3 DEF VType
<1>6. MemNumbered'
  BY <1>1, <1>3, <1>5, MemStaysNumbered
<1>7. JobNumbered'
  <2>1. job'.stage \in {"", "clean"}
    BY <1>1, FreshIs DEF JobType
  <2> QED
    BY <2>1, NoJobNumbered DEF Active
<1> QED
  BY <1>4, <1>6, <1>7 DEF SeqInv

-----------------------------------------------------------------------------
(* The sequence numbers of every state                                     *)

\* At the start no batch is anywhere.
LEMMA InitSeq ==
  ASSUME FilesInv, Init
  PROVE  SeqInv
<1>1. /\ phase = "down" /\ job = NoJob /\ Dirs = {dir} /\ logc = [n \in Numbers |-> Empty]
      /\ tabc = [n \in Numbers |-> {}]
  BY DEF Init, Dirs
<1>2. job.stage = "" /\ phase \notin Opening \cup {"clean", "run"}
  BY <1>1, FreshIs DEF Opening
<1>3. LogsSorted
  <2>1. \A n \in Numbers : Len(logc[n].recs) = 0
    BY <1>1, EmptyFile
  <2> QED
    BY <2>1 DEF LogsSorted
<1>4. VersionsNumbered
  <2> SUFFICES ASSUME dir.current # None, NEW k \in Ends(manc[dir.current]),
                      NEW t \in UpTo(manc[dir.current], k).live
               PROVE  UpToSeq(tabc[t], UpTo(manc[dir.current], k).seq)
    BY <1>1 DEF VersionsNumbered
  <2>1. dir \in Dirs
    BY <1>1
  <2>2. t \in Numbers
    BY <2>1, VersionsAre
  <2> QED
    BY <2>2, <1>1 DEF UpToSeq
<1> QED
  BY <1>2, <1>3, <1>4 DEF SeqInv, MemNumbered, JobNumbered, Active

\* A step that changes nothing keeps SeqInv.
LEMMA StutterSeq ==
  ASSUME FilesInv, SeqInv, UNCHANGED vars
  PROVE  SeqInv'
<1>1. UNCHANGED disk /\ phase' = phase /\ v' = v /\ job' = job
  BY DEF vars
<1>2. tabc' = tabc /\ LogsSorted' /\ VersionsNumbered'
  BY <1>1, DiskStays, DiskStaysNumbered
<1>3. MemNumbered' /\ JobNumbered'
  BY <1>1, <1>2 DEF SeqInv, MemNumbered, JobNumbered, UpToSeq
<1> QED
  BY <1>2, <1>3 DEF SeqInv

\* Every step keeps SeqInv.
LEMMA NextSeq ==
  ASSUME DurabilityAssumption, Survivable, FilesInv, FilesInv', ContentsInv, SeqInv, [Next]_vars
  PROVE  SeqInv'
<1>1. CASE Open
  BY <1>1, OpenStartSeq, CreatingSeq, RecoverVersionsSeq, RecoverLogFileSeq, NewLogSeq,
     OpenManifestSeq, OpenSyncSeq, OpenTempSeq, OpenRenameSeq, OpenInstallSeq, OpenReusedSeq,
     OpenFailsSeq, OpenCleanSeq DEF Open
<1>2. CASE Run
  BY <1>2, WriteSeq, SwitchMemTableSeq, CompactMemTableSeq, DoCompactionWorkSeq, FinishTableSeq,
     AppendEditSeq, SyncEditSeq, InstallSeq, CleanSeq, EditFailsSeq, NewIteratorSeq DEF Run
<1>3. CASE ProcessCrash
  BY <1>3, ProcessCrashSeq
<1>4. CASE MachineCrash
  BY <1>4, MachineCrashSeq
<1>5. CASE UNCHANGED vars
  BY <1>5, StutterSeq
<1> QED
  BY <1>1, <1>2, <1>3, <1>4, <1>5 DEF Next

\* SequenceIsNewest for every bound: the number that VersionSet::Recover and
\* RecoverLogFile end with is not below that of any batch the database holds, so a
\* Write after recovery never gives a number again.
THEOREM SequenceStaysNewest == ASSUME DurabilityAssumption, Survivable PROVE Spec => []SequenceIsNewest
<1>1. Init => FilesInv /\ ContentsInv /\ SeqInv
  BY InitFiles, InitContents, InitSeq
<1>2. FilesInv /\ ContentsInv /\ SeqInv /\ [Next]_vars => FilesInv' /\ ContentsInv' /\ SeqInv'
  BY NextFiles, NextContents, NextSeq
<1>3. SeqInv => SequenceIsNewest
  BY DEF SeqInv, MemNumbered, UpToSeq, SequenceIsNewest, Contents
<1> QED
  BY <1>1, <1>2, <1>3, PTL DEF Spec
=============================================================================
