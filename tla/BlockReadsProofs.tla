--------------------------- MODULE BlockReadsProofs ---------------------------
(***************************************************************************)
(* Who owns the bytes of a block: proofs.                                  *)
(*                                                                         *)
(* The inductive invariant says who answers for every object of the heap.  *)
(* HeapIs: a live block that owns its bytes owns an array of its own, and  *)
(* every allocated array belongs to one block or to one filter.  Counted:  *)
(* the references of a table or of a cached block are the readers that     *)
(* hold it and the cache.  Distinct: a live block is the index of one      *)
(* table, or a cached block, or the block of the one reader that will      *)
(* delete it.  Places: bytes that are not owned lie in the map of a table, *)
(* and the reader of such a block holds that table.  Names: the ids under  *)
(* which blocks are cached tell the tables apart.                          *)
(***************************************************************************)
EXTENDS BlockReads, FiniteSetTheorems, TLAPS

-----------------------------------------------------------------------------
(* The inductive invariant                                                 *)

DataType == [where : {"buffer", "map"}, at : Objects]

BlockType ==
  [live : {TRUE}, data : DataType, owned : BOOLEAN, of : Files \X (Offsets \cup {"index"})]

TableType ==
  [live : {TRUE}, file : Files, map : BOOLEAN, id : Nat, index : Objects,
   filter : [data : DataType \cup {Nowhere}, delete : BOOLEAN], cached : BOOLEAN, refs : Nat]

EntryType == [live : {TRUE}, key : Nat \X Offsets, cached : BOOLEAN, refs : Nat]

HeapType ==
  [bufs : SUBSET Objects, blocks : [Objects -> {Free} \cup BlockType], bad : BOOLEAN]

Pairs == Readers \X Objects

\* The heap holds the blocks B, and an array for each that owns one and for
\* each in F.
HeapIs(h, B, F) ==
  /\ h \in HeapType /\ ~h.bad
  /\ \A b \in Objects : h.blocks[b].live <=> b \in B
  /\ B \subseteq Objects /\ F \subseteq h.bufs
  /\ \A b \in B : h.blocks[b].owned =>
       h.blocks[b].data.where = "buffer" /\ h.blocks[b].data.at \in h.bufs \ F
  /\ \A b, c \in B : h.blocks[b].owned /\ h.blocks[c].owned
                     /\ h.blocks[b].data.at = h.blocks[c].data.at => b = c
  /\ \A a \in h.bufs \ F : \E b \in B : h.blocks[b].owned /\ h.blocks[b].data.at = a

Live(f) == {x \in Objects : f[x].live}
IndexBlocks(tab) == {tab[t].index : t \in Live(tab)}
OwnBlocks(D) == {x[2] : x \in D}
BlocksOf(tab, en, D) == IndexBlocks(tab) \cup Live(en) \cup OwnBlocks(D)
Deleting(tab) == {t \in Live(tab) : tab[t].filter.delete}
ArraysOf(tab) == {tab[t].filter.data.at : t \in Deleting(tab)}

Users(H, o) == {x \in H : x[2] = o}
Count(cached) == IF cached THEN 1 ELSE 0

\* H holds <<r, o>> for a reader r that holds object o of a cache; an object
\* counts its readers, and the cache itself.
Counted(f, H) ==
  /\ H \subseteq Pairs
  /\ \A x \in H : f[x[2]].live
  /\ \A o \in Live(f) : f[o].refs \in Nat \ {0} /\ f[o].cached \in BOOLEAN
  /\ \A o \in Live(f) : f[o].refs = Count(f[o].cached) + Cardinality(Users(H, o))

\* T: the tables readers hold.
TablesOK(tab, T) == tab \in [Objects -> {Free} \cup TableType] /\ Counted(tab, T)

\* R: the blocks that readers will release to the cache.
EntriesOK(en, R) == en \in [Objects -> {Free} \cup EntryType] /\ Counted(en, R)

\* D holds <<r, b>> for a reader r that will delete block b.
Distinct(tab, en, D) ==
  /\ D \subseteq Pairs
  /\ \A t, u \in Live(tab) : tab[t].index = tab[u].index => t = u
  /\ \A t, u \in Deleting(tab) : tab[t].filter.data.at = tab[u].filter.data.at => t = u
  /\ \A t \in Live(tab) : ~en[tab[t].index].live
  /\ \A x \in D : ~en[x[2]].live
  /\ \A x \in D : \A t \in Live(tab) : tab[t].index # x[2]
  /\ \A x, y \in D : x[2] = y[2] => x = y

Places(h, tab, en, T, D) ==
  /\ \A t \in Live(tab) : ~h.blocks[tab[t].index].owned =>
       h.blocks[tab[t].index].data = InMap(t)
  /\ \A t \in Live(tab) :
       IF tab[t].filter.delete THEN tab[t].filter.data.where = "buffer"
       ELSE tab[t].filter.data \in {Nowhere, InMap(t)}
  /\ \A b \in Live(en) : h.blocks[b].owned
  /\ \A x \in D : ~h.blocks[x[2]].owned =>
       \E t \in Objects : <<x[1], t>> \in T /\ h.blocks[x[2]].data = InMap(t)

Good(h, tab, en, T, D, R) ==
  /\ HeapIs(h, BlocksOf(tab, en, D), ArraysOf(tab))
  /\ TablesOK(tab, T) /\ EntriesOK(en, R)
  /\ Distinct(tab, en, D) /\ Places(h, tab, en, T, D)

\* The cache tells tables apart.
Names(h, tab, en, id) ==
  /\ id \in Nat /\ id > 0
  /\ BlockCache => \A t \in Live(tab) : tab[t].id < id
  /\ BlockCache => \A t, u \in Live(tab) : tab[t].id = tab[u].id => t = u
  /\ ~BlockCache => Live(en) = {}
  /\ \A b \in Live(en) : en[b].key[1] < id
  /\ \A b \in Live(en) : \A t \in Live(tab) : tab[t].id = en[b].key[1] =>
       h.blocks[b].of = <<tab[t].file, en[b].key[2]>>

\* What readers hold; f is the function iter.
HeldT(f) == {<<r, f[r].table>> : r \in {r \in Readers : f[r].table # None}}
HeldB(f, how) == {<<r, f[r].block>> : r \in {r \in Readers : f[r].how = how}}

Holding == {"open", "reading", "closing"}

ReaderType ==
  [pc : {"idle", "opening"} \cup Holding, file : Files \cup {None}, table : Objects \cup {None},
   at : Offsets \cup {None}, block : Objects \cup {None}, how : {"none", "delete", "release"},
   fill : BOOLEAN]

ReaderOK(tab, f, r) ==
  /\ f[r] \in ReaderType
  /\ f[r].table # None <=> f[r].pc \in Holding
  /\ f[r].pc # "idle" => f[r].file \in Files
  /\ f[r].pc = "reading" => f[r].at \in Offsets
  /\ f[r].how # "none" => f[r].block \in Objects /\ f[r].pc \in {"open", "reading"}
  /\ f[r].table # None => tab[f[r].table].file = f[r].file

RightFor(h, f, r) ==
  f[r].how # "none" /\ f[r].pc = "open" => h.blocks[f[r].block].of = <<f[r].file, f[r].at>>

Inv(h, tab, en, id, f) ==
  /\ Good(h, tab, en, HeldT(f), HeldB(f, "delete"), HeldB(f, "release"))
  /\ Names(h, tab, en, id)
  /\ f = [r \in Readers |-> f[r]]
  /\ \A r \in Readers : ReaderOK(tab, f, r) /\ RightFor(h, f, r)

IInv == Inv(heap, table, entry, nextId, iter)

-----------------------------------------------------------------------------
(* The heap                                                                *)

\* delete[] of an allocated array.
LEMMA DeleteArrayIs ==
  ASSUME NEW h \in HeapType, ~h.bad, NEW a \in h.bufs
  PROVE  LET g == DeleteArray(h, a) IN
         /\ g \in HeapType /\ ~g.bad /\ g.blocks = h.blocks /\ g.bufs = h.bufs \ {a}
  BY DEF DeleteArray, HeapType

\* A new array.
LEMMA NewArrayIs ==
  ASSUME NEW h \in HeapType, NEW a \in Objects
  PROVE  LET g == [h EXCEPT !.bufs = @ \cup {a}] IN
         /\ g \in HeapType /\ g.bad = h.bad /\ g.blocks = h.blocks
         /\ g.bufs = h.bufs \cup {a}
  BY DEF HeapType

\* An array that goes at once.
LEMMA NewAndDeleted ==
  ASSUME NEW h \in HeapType, ~h.bad, NEW a \in Objects \ h.bufs
  PROVE  DeleteArray([h EXCEPT !.bufs = @ \cup {a}], a) = h
  BY DEF DeleteArray, HeapType

\* Block::Block
LEMMA NewBlockIs ==
  ASSUME NEW h \in HeapType, NEW b \in Objects, NEW c, c.data \in DataType, c.heap \in BOOLEAN,
         NEW of \in Files \X (Offsets \cup {"index"})
  PROVE  LET g == NewBlock(h, b, c, of) IN
         /\ g \in HeapType /\ g.bad = h.bad /\ g.bufs = h.bufs
         /\ g.blocks = [h.blocks EXCEPT ![b] = [live |-> TRUE, data |-> c.data, owned |-> c.heap, of |-> of]]
  BY DEF NewBlock, HeapType, BlockType

\* A live block is a record.
LEMMA BlockFields ==
  ASSUME NEW h \in HeapType, NEW b \in Objects, h.blocks[b].live
  PROVE  /\ h.blocks[b] \in BlockType /\ h.blocks[b] # Free
         /\ h.blocks[b].data \in DataType /\ h.blocks[b].owned \in BOOLEAN
<1>1. h.blocks[b] \in {Free} \cup BlockType
  BY DEF HeapType
<1>2. h.blocks[b] # Free
  BY DEF Free
<1> QED  BY <1>1, <1>2 DEF BlockType

\* Block::~Block
LEMMA DeleteBlockIs ==
  ASSUME NEW h \in HeapType, ~h.bad, NEW b \in Objects, h.blocks[b].live,
         h.blocks[b].owned => h.blocks[b].data.at \in h.bufs
  PROVE  LET g == DeleteBlock(h, b) IN
         /\ g \in HeapType /\ ~g.bad
         /\ g.blocks = [h.blocks EXCEPT ![b] = Free]
         /\ g.bufs = IF h.blocks[b].owned THEN h.bufs \ {h.blocks[b].data.at} ELSE h.bufs
<1>1. h.blocks[b] # Free /\ h.blocks[b].owned \in BOOLEAN
  BY BlockFields
<1> DEFINE h1 == IF h.blocks[b].owned THEN DeleteArray(h, h.blocks[b].data.at) ELSE h
<1>2. /\ h1 \in HeapType /\ ~h1.bad /\ h1.blocks = h.blocks
      /\ h1.bufs = IF h.blocks[b].owned THEN h.bufs \ {h.blocks[b].data.at} ELSE h.bufs
  <2>1. CASE h.blocks[b].owned
    BY <2>1, DeleteArrayIs
  <2>2. CASE ~h.blocks[b].owned
    BY <2>2
  <2> QED  BY <2>1, <2>2
<1>3. DeleteBlock(h, b) = [h1 EXCEPT !.blocks[b] = Free]
  BY <1>1 DEF DeleteBlock
<1> HIDE DEF h1
<1> QED  BY <1>2, <1>3 DEF HeapType

\* A set with two elements left has one, and one more when that is gone.
LEMMA NewInSet ==
  ASSUME NEW S, S # {}
  PROVE  New(S) \in S
  BY DEF New

\* A set with room for n + 1 gives one out and has room for n.
LEMMA RoomLeft ==
  ASSUME NEW S, IsFiniteSet(S), NEW n \in Nat, Cardinality(S) >= n + 1
  PROVE  S # {} /\ \A x \in S : IsFiniteSet(S \ {x}) /\ Cardinality(S \ {x}) >= n
<1>1. S # {}
  BY FS_EmptySet
<1> SUFFICES ASSUME NEW x \in S PROVE IsFiniteSet(S \ {x}) /\ Cardinality(S \ {x}) >= n
  BY <1>1
<1>2. IsFiniteSet(S \ {x}) /\ Cardinality(S \ {x}) = Cardinality(S) - 1
  BY FS_RemoveElement
<1> QED  BY <1>2, FS_CardinalityType

\* What ReadBlock may answer, and what it leaves on the heap.
ReadResult(h, t, map, x) ==
  \/ ~x.ok /\ x.h = h
  \/ x.ok /\ x.h = h /\ x.contents.data = InMap(t) /\ x.contents.heap = FALSE
     /\ x.contents.cachable = FALSE
  \/ x.ok /\ \E a \in Objects \ h.bufs :
       /\ x.h = [h EXCEPT !.bufs = @ \cup {a}]
       /\ x.contents.data = InBuffer(a) /\ x.contents.heap = TRUE /\ x.contents.cachable = TRUE

\* What ReadBlock returns, in terms of the heap it was called with.
LEMMA ReadBlockIs ==
  ASSUME BlockReadsAssumption, NEW h \in HeapType, ~h.bad, Cardinality(FreeBuffers(h)) >= 2,
         NEW t \in Objects, NEW map \in BOOLEAN, NEW x \in ReadBlock(h, t, map)
  PROVE  ReadResult(h, t, map, x)
<1> DEFINE buf == New(FreeBuffers(h))
           h1 == [h EXCEPT !.bufs = @ \cup {buf}]
           ubuf == New(FreeBuffers(h1))
           h2 == [h1 EXCEPT !.bufs = @ \cup {ubuf}]
           data == ReadInto(t, map, buf)
<1>1. IsFiniteSet(FreeBuffers(h))
  BY FS_Subset DEF FreeBuffers, BlockReadsAssumption
<1>2. FreeBuffers(h) # {} /\ \A y \in FreeBuffers(h) : IsFiniteSet(FreeBuffers(h) \ {y}) /\ Cardinality(FreeBuffers(h) \ {y}) >= 1
  BY <1>1, RoomLeft, SMTT(40)
<1>3. buf \in Objects \ h.bufs
  BY <1>2, NewInSet DEF FreeBuffers
<1>4. /\ h1 \in HeapType /\ h1.bad = h.bad /\ h1.blocks = h.blocks /\ h1.bufs = h.bufs \cup {buf}
  BY <1>3, NewArrayIs
<1>5. FreeBuffers(h1) = FreeBuffers(h) \ {buf}
  BY <1>4 DEF FreeBuffers
<1>6. FreeBuffers(h1) # {}
  <2>1. IsFiniteSet(FreeBuffers(h1)) /\ Cardinality(FreeBuffers(h1)) >= 0 + 1
    BY <1>2, <1>3, <1>5 DEF FreeBuffers
  <2> QED  BY <2>1, RoomLeft
<1>7. ubuf \in Objects \ h.bufs /\ ubuf # buf
  BY <1>6, <1>5, NewInSet DEF FreeBuffers
<1>8. h = DeleteArray(h1, buf)
  BY <1>3, NewAndDeleted
<1>9. [h EXCEPT !.bufs = @ \cup {ubuf}] = DeleteArray(h2, buf)
  <2>1. h2.bufs = (h.bufs \cup {buf}) \cup {ubuf} /\ h2.bad = h.bad /\ h2.blocks = h.blocks /\ h2 \in HeapType
    BY <1>4, <1>7, NewArrayIs, ZenonT(60)
  <2>2. h2.bufs \ {buf} = h.bufs \cup {ubuf} /\ buf \in h2.bufs
    BY <2>1, <1>3, <1>7
  <2>3. DeleteArray(h2, buf) \in HeapType /\ ~DeleteArray(h2, buf).bad
        /\ DeleteArray(h2, buf).blocks = h.blocks /\ DeleteArray(h2, buf).bufs = h.bufs \cup {ubuf}
    BY <2>1, <2>2, DeleteArrayIs
  <2>4. [h EXCEPT !.bufs = @ \cup {ubuf}] \in HeapType /\ ~[h EXCEPT !.bufs = @ \cup {ubuf}].bad
        /\ [h EXCEPT !.bufs = @ \cup {ubuf}].blocks = h.blocks
        /\ [h EXCEPT !.bufs = @ \cup {ubuf}].bufs = h.bufs \cup {ubuf}
    BY <1>7, NewArrayIs
  <2> HIDE DEF h2, h1, ubuf, buf
  <2>5. \A f, g \in HeapType : ~f.bad /\ ~g.bad /\ f.blocks = g.blocks /\ f.bufs = g.bufs => f = g
    BY DEF HeapType
  <2> QED  BY <2>3, <2>4, <2>5
<1>10. PICK read \in FileRead(map), type \in BlockTypes :
         x = IF read # "whole" \/ type \in {"mismatch", "unknown"} THEN NotRead(DeleteArray(h1, buf))
             ELSE IF type = "plain" THEN PlainContents(h1, data, buf)
             ELSE IF HaveSnappy THEN SnappyContents(h1, buf) ELSE NotRead(DeleteArray(h1, buf))
  BY DEF ReadBlock
<1>11. CASE x = NotRead(DeleteArray(h1, buf))
  BY <1>11, <1>8 DEF NotRead, ReadResult
<1>12. CASE x = PlainContents(h1, data, buf)
  <2>1. CASE map
    <3>1. data = InMap(t) /\ data # InBuffer(buf)
      BY <2>1 DEF ReadInto, InMap, InBuffer
    <3> QED  BY <3>1, <1>12, <1>8 DEF PlainContents, ReadResult
  <2>2. CASE ~map
    <3>1. data = InBuffer(buf)
      BY <2>2 DEF ReadInto
    <3> QED  BY <3>1, <1>12, <1>3 DEF PlainContents, ReadResult
  <2> QED  BY <2>1, <2>2
<1>13. CASE x = SnappyContents(h1, buf)
  BY <1>13, <1>9, <1>7 DEF SnappyContents, ReadResult
<1> QED  BY <1>10, <1>11, <1>12, <1>13

-----------------------------------------------------------------------------
(* What the heap holds                                                     *)

\* A fresh array is one more that no block owns.
LEMMA AddArray ==
  ASSUME NEW h, NEW B, NEW F, HeapIs(h, B, F), NEW a \in Objects \ h.bufs
  PROVE  HeapIs([h EXCEPT !.bufs = @ \cup {a}], B, F \cup {a})
<1> DEFINE g == [h EXCEPT !.bufs = @ \cup {a}]
<1>1. g \in HeapType /\ g.bad = h.bad /\ g.blocks = h.blocks /\ g.bufs = h.bufs \cup {a}
  BY NewArrayIs DEF HeapIs
<1> HIDE DEF g
<1>2. HeapIs(g, B, F \cup {a})
  BY <1>1 DEF HeapIs
<1> QED  BY <1>2 DEF g

\* Deleting an array that no block owns (a filter) leaves the blocks alone.
LEMMA FreeArray ==
  ASSUME NEW h, NEW B, NEW F, HeapIs(h, B, F), NEW a \in F
  PROVE  HeapIs(DeleteArray(h, a), B, F \ {a}) /\ DeleteArray(h, a).blocks = h.blocks
<1> DEFINE g == DeleteArray(h, a)
<1>1. g \in HeapType /\ ~g.bad /\ g.blocks = h.blocks /\ g.bufs = h.bufs \ {a}
  BY DeleteArrayIs DEF HeapIs
<1> HIDE DEF g
<1>2. HeapIs(g, B, F \ {a})
  BY <1>1 DEF HeapIs
<1> QED  BY <1>1, <1>2 DEF g

\* The contents of a block: an array it will own, or bytes in the map of t.
IsArray(c, a) == c.data = InBuffer(a) /\ c.heap = TRUE
IsView(c, t) == c.data = InMap(t) /\ c.heap = FALSE

\* Block b has been added to heap h.
Added(h, g, b, data, owned, of) ==
  /\ g.bufs = h.bufs
  /\ \A x \in Objects : x # b => g.blocks[x] = h.blocks[x]
  /\ g.blocks[b] = [live |-> TRUE, data |-> data, owned |-> owned, of |-> of]

\* A block that owns an array.
LEMMA AddOwner ==
  ASSUME NEW h, NEW B, NEW F, NEW a \in F, HeapIs(h, B, F), NEW b \in Objects \ B,
         NEW c, IsArray(c, a), NEW of \in Files \X (Offsets \cup {"index"})
  PROVE  /\ HeapIs(NewBlock(h, b, c, of), B \cup {b}, F \ {a})
         /\ Added(h, NewBlock(h, b, c, of), b, InBuffer(a), TRUE, of)
<1> DEFINE g == NewBlock(h, b, c, of)
<1>1. h \in HeapType /\ a \in Objects
  BY DEF HeapIs, HeapType
<1>2. InBuffer(a) \in DataType /\ InBuffer(a).at = a /\ InBuffer(a).where = "buffer"
  BY <1>1 DEF InBuffer, DataType
<1>3. /\ g \in HeapType /\ g.bad = h.bad /\ g.bufs = h.bufs
      /\ g.blocks = [h.blocks EXCEPT ![b] = [live |-> TRUE, data |-> InBuffer(a), owned |-> TRUE, of |-> of]]
  <2>1. c.data \in DataType /\ c.heap \in BOOLEAN
    BY <1>2 DEF IsArray, IsView
  <2>2. b \in Objects
    OBVIOUS
  <2>3. /\ g \in HeapType /\ g.bad = h.bad /\ g.bufs = h.bufs
        /\ g.blocks = [h.blocks EXCEPT ![b] = [live |-> TRUE, data |-> c.data, owned |-> c.heap, of |-> of]]
    BY <1>1, <2>1, <2>2, NewBlockIs
  <2> HIDE DEF g
  <2> QED  BY <2>3 DEF IsArray, IsView
<1>4. \A x \in Objects : x # b => g.blocks[x] = h.blocks[x]
  BY <1>1, <1>3 DEF HeapType
<1>5. g.blocks[b].live /\ g.blocks[b].owned /\ g.blocks[b].data = InBuffer(a)
  BY <1>1, <1>3 DEF HeapType
<1>6. HeapIs(g, B \cup {b}, F \ {a})
  <2> HIDE DEF g
  <2>1. \A x \in B : x \in Objects /\ x # b
    BY DEF HeapIs
  <2> USE <1>2, <1>3, <1>4, <1>5, <2>1
  <2>2. g \in HeapType /\ ~g.bad /\ B \cup {b} \subseteq Objects /\ F \ {a} \subseteq g.bufs
    BY DEF HeapIs
  <2>3. \A x \in Objects : g.blocks[x].live <=> x \in B \cup {b}
    BY DEF HeapIs
  <2>4. \A x \in B \cup {b} : g.blocks[x].owned =>
          g.blocks[x].data.where = "buffer" /\ g.blocks[x].data.at \in g.bufs \ (F \ {a})
    BY DEF HeapIs
  <2>5. \A x, y \in B \cup {b} : g.blocks[x].owned /\ g.blocks[y].owned
                     /\ g.blocks[x].data.at = g.blocks[y].data.at => x = y
    BY DEF HeapIs
  <2>6. \A e \in g.bufs \ (F \ {a}) : \E x \in B \cup {b} : g.blocks[x].owned /\ g.blocks[x].data.at = e
    BY DEF HeapIs
  <2> QED  BY <2>2, <2>3, <2>4, <2>5, <2>6 DEF HeapIs
<1>7. g.blocks[b] = [live |-> TRUE, data |-> InBuffer(a), owned |-> TRUE, of |-> of]
  BY <1>1, <1>3 DEF HeapType
<1> HIDE DEF g
<1>8. Added(h, g, b, InBuffer(a), TRUE, of)
  BY <1>3, <1>4, <1>7 DEF Added
<1> QED  BY <1>6, <1>8 DEF g

\* A block of bytes in a map.
LEMMA AddView ==
  ASSUME NEW h, NEW B, NEW F, HeapIs(h, B, F), NEW b \in Objects \ B, NEW t \in Objects,
         NEW c, IsView(c, t), NEW of \in Files \X (Offsets \cup {"index"})
  PROVE  /\ HeapIs(NewBlock(h, b, c, of), B \cup {b}, F)
         /\ Added(h, NewBlock(h, b, c, of), b, InMap(t), FALSE, of)
<1> DEFINE g == NewBlock(h, b, c, of)
<1>1. h \in HeapType
  BY DEF HeapIs
<1>2. InMap(t) \in DataType
  BY DEF InMap, DataType
<1>3. /\ g \in HeapType /\ g.bad = h.bad /\ g.bufs = h.bufs
      /\ g.blocks = [h.blocks EXCEPT ![b] = [live |-> TRUE, data |-> InMap(t), owned |-> FALSE, of |-> of]]
  <2>1. c.data \in DataType /\ c.heap \in BOOLEAN
    BY <1>2 DEF IsArray, IsView
  <2>2. b \in Objects
    OBVIOUS
  <2>3. /\ g \in HeapType /\ g.bad = h.bad /\ g.bufs = h.bufs
        /\ g.blocks = [h.blocks EXCEPT ![b] = [live |-> TRUE, data |-> c.data, owned |-> c.heap, of |-> of]]
    BY <1>1, <2>1, <2>2, NewBlockIs
  <2> HIDE DEF g
  <2> QED  BY <2>3 DEF IsArray, IsView
<1>4. \A x \in Objects : x # b => g.blocks[x] = h.blocks[x]
  BY <1>1, <1>3 DEF HeapType
<1>5. g.blocks[b].live /\ ~g.blocks[b].owned
  BY <1>1, <1>3 DEF HeapType
<1>6. HeapIs(g, B \cup {b}, F)
  <2> HIDE DEF g
  <2>1. \A x \in B : x \in Objects /\ x # b
    BY DEF HeapIs
  <2> QED  BY <1>3, <1>4, <1>5, <2>1 DEF HeapIs
<1>7. g.blocks[b] = [live |-> TRUE, data |-> InMap(t), owned |-> FALSE, of |-> of]
  BY <1>1, <1>3 DEF HeapType
<1> HIDE DEF g
<1>8. Added(h, g, b, InMap(t), FALSE, of)
  BY <1>3, <1>4, <1>7 DEF Added
<1> QED  BY <1>6, <1>8 DEF g

\* The array of a block goes with it.
LEMMA FreeBlock ==
  ASSUME NEW h, NEW B, NEW F, HeapIs(h, B, F), NEW b \in B
  PROVE  /\ HeapIs(DeleteBlock(h, b), B \ {b}, F)
         /\ DeleteBlock(h, b).blocks = [h.blocks EXCEPT ![b] = Free]
<1> DEFINE g == DeleteBlock(h, b)
<1>1. h \in HeapType /\ ~h.bad /\ b \in Objects /\ h.blocks[b].live
      /\ (h.blocks[b].owned => h.blocks[b].data.at \in h.bufs)
  BY DEF HeapIs
<1>2. /\ g \in HeapType /\ ~g.bad /\ g.blocks = [h.blocks EXCEPT ![b] = Free]
      /\ g.bufs = IF h.blocks[b].owned THEN h.bufs \ {h.blocks[b].data.at} ELSE h.bufs
  BY <1>1, DeleteBlockIs
<1>3. \A x \in Objects : x # b => g.blocks[x] = h.blocks[x]
  BY <1>1, <1>2 DEF HeapType
<1>4. ~g.blocks[b].live
  BY <1>1, <1>2 DEF HeapType, Free
<1>5. HeapIs(g, B \ {b}, F)
  <2> HIDE DEF g
  <2>1. B \subseteq Objects /\ F \subseteq h.bufs
    BY DEF HeapIs
  <2> USE <1>1, <1>2, <1>3, <1>4, <2>1
  <2>2. \A x \in Objects : g.blocks[x].live <=> x \in B \ {b}
    BY DEF HeapIs
  <2>3. F \subseteq g.bufs
    BY DEF HeapIs
  <2>4. \A x \in B \ {b} : g.blocks[x].owned =>
          g.blocks[x].data.where = "buffer" /\ g.blocks[x].data.at \in g.bufs \ F
    BY DEF HeapIs
  <2>5. \A x, y \in B \ {b} : g.blocks[x].owned /\ g.blocks[y].owned
                     /\ g.blocks[x].data.at = g.blocks[y].data.at => x = y
    BY DEF HeapIs
  <2>6. \A e \in g.bufs \ F : \E x \in B \ {b} : g.blocks[x].owned /\ g.blocks[x].data.at = e
    BY DEF HeapIs
  <2> QED  BY <2>2, <2>3, <2>4, <2>5, <2>6 DEF HeapIs
<1> QED  BY <1>2, <1>5

-----------------------------------------------------------------------------
(* References                                                              *)

\* Finitely many readers hold an object.
LEMMA UsersFinite ==
  ASSUME BlockReadsAssumption, NEW H, H \subseteq Pairs, NEW o
  PROVE  IsFiniteSet(Users(H, o)) /\ Cardinality(Users(H, o)) \in Nat
<1>1. IsFiniteSet(Pairs)
  BY FS_Product DEF Pairs, BlockReadsAssumption
<1>2. Users(H, o) \subseteq Pairs
  BY DEF Users
<1> QED  BY <1>1, <1>2, FS_Subset, FS_CardinalityType

\* One more reader of t.
LEMMA UsersAdd ==
  ASSUME BlockReadsAssumption, NEW H, H \subseteq Pairs, NEW r \in Readers, NEW t \in Objects, <<r, t>> \notin H
  PROVE  /\ Cardinality(Users(H \cup {<<r, t>>}, t)) = Cardinality(Users(H, t)) + 1
         /\ \A o : o # t => Users(H \cup {<<r, t>>}, o) = Users(H, o)
<1>1. Users(H \cup {<<r, t>>}, t) = Users(H, t) \cup {<<r, t>>} /\ <<r, t>> \notin Users(H, t)
  BY DEF Users
<1>2. IsFiniteSet(Users(H, t))
  BY UsersFinite
<1>3. Cardinality(Users(H, t) \cup {<<r, t>>}) = Cardinality(Users(H, t)) + 1
  BY <1>1, <1>2, FS_AddElement
<1>4. \A o : o # t => Users(H \cup {<<r, t>>}, o) = Users(H, o)
  BY DEF Users
<1> QED  BY <1>1, <1>3, <1>4

\* One reader of t less.
LEMMA UsersDrop ==
  ASSUME BlockReadsAssumption, NEW H, H \subseteq Pairs, NEW r \in Readers, NEW t \in Objects, <<r, t>> \in H
  PROVE  /\ Cardinality(Users(H \ {<<r, t>>}, t)) = Cardinality(Users(H, t)) - 1
         /\ \A o : o # t => Users(H \ {<<r, t>>}, o) = Users(H, o)
<1>1. Users(H \ {<<r, t>>}, t) = Users(H, t) \ {<<r, t>>} /\ <<r, t>> \in Users(H, t)
  BY DEF Users
<1>2. IsFiniteSet(Users(H, t))
  BY UsersFinite
<1>3. Cardinality(Users(H, t) \ {<<r, t>>}) = Cardinality(Users(H, t)) - 1
  BY <1>1, <1>2, FS_RemoveElement
<1>4. \A o : o # t => Users(H \ {<<r, t>>}, o) = Users(H, o)
  BY DEF Users
<1> QED  BY <1>1, <1>3, <1>4

\* The only object that changes.
OnlyAt(f, g, t) == \A o \in Objects : o # t => g[o] = f[o]

\* References stay counted when only object t and its readers change.
LEMMA CountStep ==
  ASSUME NEW f, NEW g, NEW H, NEW H2, Counted(f, H), NEW t \in Objects, OnlyAt(f, g, t),
         H2 \subseteq Pairs, \A o : o # t => Users(H2, o) = Users(H, o),
         ~g[t].live => Users(H2, t) = {},
         g[t].live => /\ g[t].refs \in Nat \ {0} /\ g[t].cached \in BOOLEAN
                      /\ g[t].refs = Count(g[t].cached) + Cardinality(Users(H2, t))
  PROVE  Counted(g, H2)
<1>1. \A x \in H2 : g[x[2]].live
  <2> SUFFICES ASSUME NEW x \in H2 PROVE g[x[2]].live
    OBVIOUS
  <2>1. CASE x[2] = t
    BY <2>1 DEF Users
  <2>2. CASE x[2] # t
    <3>1. x \in Users(H, x[2])
      BY <2>2 DEF Users
    <3> QED  BY <3>1, <2>2 DEF Users, Counted, OnlyAt, Pairs
  <2> QED  BY <2>1, <2>2
<1>2. \A o \in Live(g) : o # t => o \in Live(f) /\ g[o] = f[o] /\ Users(H2, o) = Users(H, o)
  BY DEF OnlyAt, Live
<1>3. \A o \in Live(g) : /\ g[o].refs \in Nat \ {0} /\ g[o].cached \in BOOLEAN
                         /\ g[o].refs = Count(g[o].cached) + Cardinality(Users(H2, o))
  <2> SUFFICES ASSUME NEW o \in Live(g)
               PROVE  /\ g[o].refs \in Nat \ {0} /\ g[o].cached \in BOOLEAN
                      /\ g[o].refs = Count(g[o].cached) + Cardinality(Users(H2, o))
    OBVIOUS
  <2>1. CASE o = t
    BY <2>1 DEF Live
  <2>2. CASE o # t
    BY <2>2, <1>2 DEF Counted
  <2> QED  BY <2>1, <2>2
<1> QED  BY <1>1, <1>3 DEF Counted

\* What is known of the count of one live object.
LEMMA CountNow ==
  ASSUME BlockReadsAssumption, NEW f, NEW H, Counted(f, H), NEW t \in Live(f)
  PROVE  /\ t \in Objects /\ H \subseteq Pairs /\ IsFiniteSet(Users(H, t))
         /\ Cardinality(Users(H, t)) \in Nat /\ f[t].refs \in Nat \ {0} /\ f[t].cached \in BOOLEAN
         /\ f[t].refs = Count(f[t].cached) + Cardinality(Users(H, t))
<1>1. t \in Objects /\ H \subseteq Pairs /\ f[t].refs \in Nat \ {0} /\ f[t].cached \in BOOLEAN
      /\ f[t].refs = Count(f[t].cached) + Cardinality(Users(H, t))
  BY DEF Counted, Live
<1> QED  BY <1>1, UsersFinite

\* A reader takes a reference.
LEMMA CountTake ==
  ASSUME BlockReadsAssumption, NEW f, NEW g, NEW H, Counted(f, H), NEW t \in Live(f),
         NEW r \in Readers, <<r, t>> \notin H,
         OnlyAt(f, g, t), g[t].live, g[t].cached = f[t].cached, g[t].refs = f[t].refs + 1
  PROVE  Counted(g, H \cup {<<r, t>>})
<1> DEFINE H2 == H \cup {<<r, t>>}
<1>1. /\ t \in Objects /\ H \subseteq Pairs /\ Cardinality(Users(H, t)) \in Nat
      /\ f[t].refs \in Nat \ {0} /\ f[t].cached \in BOOLEAN
      /\ f[t].refs = Count(f[t].cached) + Cardinality(Users(H, t))
  BY CountNow
<1>2. Cardinality(Users(H2, t)) = Cardinality(Users(H, t)) + 1 /\ \A o : o # t => Users(H2, o) = Users(H, o)
  BY <1>1, UsersAdd
<1>3. H2 \subseteq Pairs
  BY <1>1 DEF Pairs
<1> HIDE DEF H2
<1>4. /\ g[t].refs \in Nat \ {0} /\ g[t].cached \in BOOLEAN
      /\ g[t].refs = Count(g[t].cached) + Cardinality(Users(H2, t))
  BY <1>1, <1>2 DEF Count
<1>5. Counted(g, H2)
  BY <1>1, <1>2, <1>3, <1>4, CountStep
<1> QED  BY <1>5 DEF H2

\* A reader gives one back, and it was not the last one.
LEMMA CountDrop ==
  ASSUME BlockReadsAssumption, NEW f, NEW g, NEW H, Counted(f, H), NEW t \in Live(f),
         NEW r \in Readers, <<r, t>> \in H, f[t].refs # 1,
         OnlyAt(f, g, t), g[t].live, g[t].cached = f[t].cached, g[t].refs = f[t].refs - 1
  PROVE  Counted(g, H \ {<<r, t>>})
<1> DEFINE H2 == H \ {<<r, t>>}
<1>1. /\ t \in Objects /\ H \subseteq Pairs /\ Cardinality(Users(H, t)) \in Nat
      /\ f[t].refs \in Nat \ {0} /\ f[t].cached \in BOOLEAN
      /\ f[t].refs = Count(f[t].cached) + Cardinality(Users(H, t))
  BY CountNow
<1>2. Cardinality(Users(H2, t)) = Cardinality(Users(H, t)) - 1 /\ \A o : o # t => Users(H2, o) = Users(H, o)
  BY <1>1, UsersDrop
<1>3. H2 \subseteq Pairs
  BY <1>1
<1> HIDE DEF H2
<1>4. /\ g[t].refs \in Nat \ {0} /\ g[t].cached \in BOOLEAN
      /\ g[t].refs = Count(g[t].cached) + Cardinality(Users(H2, t))
  BY <1>1, <1>2 DEF Count
<1>5. Counted(g, H2)
  BY <1>1, <1>2, <1>3, <1>4, CountStep
<1> QED  BY <1>5 DEF H2

\* It was the last one.
LEMMA CountLast ==
  ASSUME BlockReadsAssumption, NEW f, NEW g, NEW H, Counted(f, H), NEW t \in Live(f),
         NEW r \in Readers, <<r, t>> \in H, f[t].refs = 1, OnlyAt(f, g, t), ~g[t].live
  PROVE  Counted(g, H \ {<<r, t>>})
<1> DEFINE H2 == H \ {<<r, t>>}
<1>1. /\ t \in Objects /\ H \subseteq Pairs /\ Cardinality(Users(H, t)) \in Nat
      /\ f[t].refs = Count(f[t].cached) + Cardinality(Users(H, t))
  BY CountNow
<1>2. Cardinality(Users(H2, t)) = Cardinality(Users(H, t)) - 1 /\ \A o : o # t => Users(H2, o) = Users(H, o)
  BY <1>1, UsersDrop
<1>3. H2 \subseteq Pairs
  BY <1>1
<1>4. IsFiniteSet(Users(H2, t)) /\ Cardinality(Users(H2, t)) \in Nat
  BY <1>3, UsersFinite
<1> HIDE DEF H2
<1>5. Cardinality(Users(H2, t)) = 0
  BY <1>1, <1>2, <1>4 DEF Count
<1>6. Users(H2, t) = {}
  BY <1>4, <1>5, FS_EmptySet
<1>7. Counted(g, H2)
  BY <1>1, <1>2, <1>3, <1>6, CountStep
<1> QED  BY <1>7 DEF H2

\* The cache drops an object that readers still hold.
LEMMA CountUncache ==
  ASSUME BlockReadsAssumption, NEW f, NEW g, NEW H, Counted(f, H), NEW t \in Live(f),
         f[t].cached, f[t].refs # 1,
         OnlyAt(f, g, t), g[t].live, g[t].cached = FALSE, g[t].refs = f[t].refs - 1
  PROVE  Counted(g, H)
<1>1. /\ t \in Objects /\ H \subseteq Pairs /\ Cardinality(Users(H, t)) \in Nat
      /\ f[t].refs \in Nat \ {0} /\ f[t].cached \in BOOLEAN
      /\ f[t].refs = Count(f[t].cached) + Cardinality(Users(H, t))
  BY CountNow
<1>2. /\ g[t].refs \in Nat \ {0} /\ g[t].cached \in BOOLEAN
      /\ g[t].refs = Count(g[t].cached) + Cardinality(Users(H, t))
  <2>1. g[t].cached \in BOOLEAN /\ ~g[t].cached
    OBVIOUS
  <2>2. (IF g[t].cached THEN 1 ELSE 0) = 0 /\ (IF f[t].cached THEN 1 ELSE 0) = 1
    BY <2>1
  <2> QED  BY <1>1, <2>1, <2>2 DEF Count
<1> QED  BY <1>1, <1>2, CountStep

\* The cache drops an object that nobody holds.
LEMMA CountGone ==
  ASSUME BlockReadsAssumption, NEW f, NEW g, NEW H, Counted(f, H), NEW t \in Live(f),
         f[t].cached, f[t].refs = 1, OnlyAt(f, g, t), ~g[t].live
  PROVE  Counted(g, H)
<1>1. /\ t \in Objects /\ H \subseteq Pairs /\ IsFiniteSet(Users(H, t)) /\ Cardinality(Users(H, t)) \in Nat
      /\ f[t].refs = Count(f[t].cached) + Cardinality(Users(H, t))
  BY CountNow
<1>2. Cardinality(Users(H, t)) = 0
  BY <1>1 DEF Count
<1>3. Users(H, t) = {}
  BY <1>1, <1>2, FS_EmptySet
<1> QED  BY <1>1, <1>3, CountStep

\* An object is inserted and handed to a reader.
LEMMA CountInsert ==
  ASSUME BlockReadsAssumption, NEW f, NEW g, NEW H, Counted(f, H), NEW t \in Objects, ~f[t].live,
         NEW r \in Readers, OnlyAt(f, g, t), g[t].live, g[t].cached = TRUE, g[t].refs = 2
  PROVE  Counted(g, H \cup {<<r, t>>})
<1> DEFINE H2 == H \cup {<<r, t>>}
<1>1. H \subseteq Pairs /\ Users(H, t) = {}
  BY DEF Counted, Users
<1>2. Cardinality(Users(H, t)) = 0
  BY <1>1, FS_EmptySet
<1>3. <<r, t>> \notin H
  BY DEF Counted
<1>4. Cardinality(Users(H2, t)) = Cardinality(Users(H, t)) + 1 /\ \A o : o # t => Users(H2, o) = Users(H, o)
  BY <1>1, <1>3, UsersAdd
<1>5. H2 \subseteq Pairs
  BY <1>1 DEF Pairs
<1> HIDE DEF H2
<1>6. /\ g[t].refs \in Nat \ {0} /\ g[t].cached \in BOOLEAN
      /\ g[t].refs = Count(g[t].cached) + Cardinality(Users(H2, t))
  <2>1. g[t].cached \in BOOLEAN /\ g[t].cached
    OBVIOUS
  <2>2. (IF g[t].cached THEN 1 ELSE 0) = 1
    BY <2>1
  <2> QED  BY <1>2, <1>4, <2>1, <2>2 DEF Count
<1>7. Counted(g, H2)
  BY <1>4, <1>5, <1>6, CountStep
<1> QED  BY <1>7 DEF H2

-----------------------------------------------------------------------------
(* Steps of the caches and of the readers                                  *)

\* Nothing else becomes of the blocks that are left.
BlocksStay(h, g) == \A c \in Objects : g.blocks[c].live => g.blocks[c] = h.blocks[c]

\* What is in a live table.
LEMMA TableFields ==
  ASSUME NEW tab \in [Objects -> {Free} \cup TableType], NEW t \in Live(tab)
  PROVE  /\ t \in Objects /\ tab[t] \in TableType /\ tab[t].index \in Objects
         /\ tab[t].filter.delete \in BOOLEAN /\ tab[t].filter.data \in DataType \cup {Nowhere}
<1>1. t \in Objects /\ tab[t] \in {Free} \cup TableType /\ tab[t].live
  BY DEF Live
<1>2. tab[t] # Free
  BY <1>1 DEF Free
<1> QED  BY <1>1, <1>2 DEF TableType

\* The part of Good that is about the heap.
LEMMA GoodHeap ==
  ASSUME NEW h, NEW tab, NEW en, NEW T, NEW D, NEW R, Good(h, tab, en, T, D, R)
  PROVE  h \in HeapType /\ HeapIs(h, BlocksOf(tab, en, D), ArraysOf(tab))
  BY DEF Good, HeapIs

\* A table's count changes.
LEMMA TableCounts ==
  ASSUME NEW h, NEW tab, NEW en, NEW T, NEW D, NEW R, Good(h, tab, en, T, D, R),
         NEW t \in Live(tab), NEW tab2, NEW T2, OnlyAt(tab, tab2, t),
         tab2[t].live, tab2[t].index = tab[t].index, tab2[t].filter = tab[t].filter,
         TablesOK(tab2, T2),
         \A x \in D : \A u \in Objects : <<x[1], u>> \in T => <<x[1], u>> \in T2
  PROVE  Good(h, tab2, en, T2, D, R)
<1>1. Live(tab2) = Live(tab)
  BY DEF Live, OnlyAt
<1>2. \A u \in Live(tab) : tab2[u].index = tab[u].index /\ tab2[u].filter = tab[u].filter
  BY DEF Live, OnlyAt
<1>3. Deleting(tab2) = Deleting(tab) /\ IndexBlocks(tab2) = IndexBlocks(tab)
  BY <1>1, <1>2 DEF Deleting, IndexBlocks
<1>4. ArraysOf(tab2) = ArraysOf(tab)
  BY <1>2, <1>3 DEF ArraysOf, Deleting
<1>5. BlocksOf(tab2, en, D) = BlocksOf(tab, en, D)
  BY <1>3 DEF BlocksOf
<1>6. Distinct(tab2, en, D)
  <2>1. \A u \in Deleting(tab) : u \in Live(tab)
    BY DEF Deleting
  <2> QED  BY <1>1, <1>2, <1>3, <2>1 DEF Good, Distinct
<1>7. Places(h, tab2, en, T2, D)
  BY <1>1, <1>2 DEF Good, Places
<1> QED  BY <1>4, <1>5, <1>6, <1>7 DEF Good

\* An entry's count changes.
LEMMA EntryCounts ==
  ASSUME NEW h, NEW tab, NEW en, NEW T, NEW D, NEW R, Good(h, tab, en, T, D, R),
         NEW b \in Live(en), NEW en2, NEW R2, OnlyAt(en, en2, b), en2[b].live, EntriesOK(en2, R2)
  PROVE  Good(h, tab, en2, T, D, R2)
<1>1. Live(en2) = Live(en) /\ \A c \in Objects : en2[c].live <=> en[c].live
  BY DEF Live, OnlyAt
<1>2. BlocksOf(tab, en2, D) = BlocksOf(tab, en, D)
  BY <1>1 DEF BlocksOf
<1>3. \A t \in Live(tab) : tab[t].index \in Objects
  BY TableFields DEF Good, TablesOK
<1>4. \A x \in D : x[2] \in Objects
  BY DEF Good, Distinct, Pairs
<1>5. Distinct(tab, en2, D)
  BY <1>1, <1>3, <1>4 DEF Good, Distinct
<1>6. Places(h, tab, en2, T, D)
  BY <1>1 DEF Good, Places
<1> QED  BY <1>2, <1>5, <1>6 DEF Good

\* An entry goes, and its block.
LEMMA EntryGoes ==
  ASSUME NEW h, NEW tab, NEW en, NEW T, NEW D, NEW R, Good(h, tab, en, T, D, R),
         NEW b \in Live(en), NEW en2, NEW R2, OnlyAt(en, en2, b), ~en2[b].live, EntriesOK(en2, R2)
  PROVE  Good(DeleteBlock(h, b), tab, en2, T, D, R2) /\ BlocksStay(h, DeleteBlock(h, b))
<1> DEFINE g == DeleteBlock(h, b)
           B == BlocksOf(tab, en, D)
<1>1. b \in B /\ b \in Objects
  BY DEF BlocksOf, Live
<1>2. HeapIs(g, B \ {b}, ArraysOf(tab)) /\ g.blocks = [h.blocks EXCEPT ![b] = Free] /\ h \in HeapType
  <2>1. h \in HeapType /\ HeapIs(h, B, ArraysOf(tab))
    BY GoodHeap
  <2> HIDE DEF B
  <2> QED  BY <1>1, <2>1, FreeBlock
<1>3. g.blocks[b] = Free /\ \A c \in Objects : c # b => g.blocks[c] = h.blocks[c]
  BY <1>1, <1>2 DEF HeapType
<1>4. Live(en2) = Live(en) \ {b} /\ \A c \in Objects : en2[c].live => en[c].live
  BY DEF Live, OnlyAt
<1>5. \A t \in Live(tab) : tab[t].index \in Objects /\ tab[t].index # b
  <2> SUFFICES ASSUME NEW t \in Live(tab) PROVE tab[t].index \in Objects /\ tab[t].index # b
    OBVIOUS
  <2>1. tab[t].index \in Objects
    BY TableFields DEF Good, TablesOK
  <2> QED  BY <2>1 DEF Good, Distinct, Live
<1>6. \A x \in D : x[2] \in Objects /\ x[2] # b
  BY DEF Good, Distinct, Pairs, Live
<1>7. BlocksOf(tab, en2, D) = B \ {b}
  BY <1>4, <1>5, <1>6 DEF BlocksOf, IndexBlocks, OwnBlocks
<1> HIDE DEF g, B
<1>8. Distinct(tab, en2, D)
  BY <1>4, <1>5, <1>6 DEF Good, Distinct
<1>9. Places(g, tab, en2, T, D)
  <2>1. \A c \in Live(en2) : c \in Objects /\ c # b /\ c \in Live(en)
    BY <1>4 DEF Live
  <2>2. \A c \in Live(en2) : g.blocks[c].owned
    BY <1>3, <2>1 DEF Good, Places
  <2>3. \A t \in Live(tab) : ~g.blocks[tab[t].index].owned => g.blocks[tab[t].index].data = InMap(t)
    BY <1>3, <1>5 DEF Good, Places
  <2>4. \A x \in D : ~g.blocks[x[2]].owned =>
          \E t \in Objects : <<x[1], t>> \in T /\ g.blocks[x[2]].data = InMap(t)
    BY <1>3, <1>6, SMTT(40) DEF Good, Places
  <2> QED  BY <2>2, <2>3, <2>4 DEF Good, Places
<1>10. BlocksStay(h, g)
  BY <1>3 DEF BlocksStay, Free
<1>11. Good(g, tab, en2, T, D, R2)
  BY <1>2, <1>7, <1>8, <1>9 DEF Good
<1> QED  BY <1>10, <1>11 DEF g

\* A block that a reader owns goes.
LEMMA OwnGoes ==
  ASSUME NEW h, NEW tab, NEW en, NEW T, NEW D, NEW R, Good(h, tab, en, T, D, R),
         NEW r \in Readers, NEW b \in Objects, <<r, b>> \in D
  PROVE  Good(DeleteBlock(h, b), tab, en, T, D \ {<<r, b>>}, R) /\ BlocksStay(h, DeleteBlock(h, b))
<1> DEFINE g == DeleteBlock(h, b)
           B == BlocksOf(tab, en, D)
           D2 == D \ {<<r, b>>}
<1>1. b \in B
  BY DEF BlocksOf, OwnBlocks
<1>2. HeapIs(g, B \ {b}, ArraysOf(tab)) /\ g.blocks = [h.blocks EXCEPT ![b] = Free] /\ h \in HeapType
  <2>1. h \in HeapType /\ HeapIs(h, B, ArraysOf(tab))
    BY GoodHeap
  <2> HIDE DEF B
  <2> QED  BY <1>1, <2>1, FreeBlock
<1>3. g.blocks[b] = Free /\ \A c \in Objects : c # b => g.blocks[c] = h.blocks[c]
  BY <1>2 DEF HeapType
<1>4. \A t \in Live(tab) : tab[t].index \in Objects /\ tab[t].index # b
  <2> SUFFICES ASSUME NEW t \in Live(tab) PROVE tab[t].index \in Objects /\ tab[t].index # b
    OBVIOUS
  <2>1. tab[t].index \in Objects
    BY TableFields DEF Good, TablesOK
  <2> QED  BY <2>1 DEF Good, Distinct
<1>5. \A x \in D2 : x[2] \in Objects /\ x[2] # b
  BY DEF Good, Distinct, Pairs
<1>6. \A c \in Live(en) : c \in Objects /\ c # b
  BY DEF Good, Distinct, Live
<1>7. BlocksOf(tab, en, D2) = B \ {b}
  BY <1>4, <1>5, <1>6 DEF BlocksOf, IndexBlocks, OwnBlocks
<1>8. D2 \subseteq D
  OBVIOUS
<1> HIDE DEF g, B, D2
<1>9. Distinct(tab, en, D2)
  BY <1>8 DEF Good, Distinct
<1>10. Places(g, tab, en, T, D2)
  BY <1>3, <1>4, <1>5, <1>6, <1>8, SMTT(40) DEF Good, Places
<1>11. BlocksStay(h, g)
  BY <1>3 DEF BlocksStay, Free
<1>12. Good(g, tab, en, T, D2, R)
  BY <1>2, <1>7, <1>9, <1>10 DEF Good
<1> QED  BY <1>11, <1>12 DEF g, D2

\* A table goes, its index and its filter.
LEMMA TableGoes ==
  ASSUME NEW h, NEW tab, NEW en, NEW T, NEW D, NEW R, Good(h, tab, en, T, D, R),
         NEW t \in Live(tab), NEW tab2, NEW T2, OnlyAt(tab, tab2, t), ~tab2[t].live,
         TablesOK(tab2, T2),
         \A x \in D : \A u \in Objects : <<x[1], u>> \in T => <<x[1], u>> \in T2,
         NEW h1, h1 = IF tab[t].filter.delete THEN DeleteArray(h, tab[t].filter.data.at) ELSE h
  PROVE  Good(DeleteBlock(h1, tab[t].index), tab2, en, T2, D, R)
         /\ BlocksStay(h, DeleteBlock(h1, tab[t].index))
<1> DEFINE b == tab[t].index
           a == tab[t].filter.data.at
           g == DeleteBlock(h1, b)
           B == BlocksOf(tab, en, D)
<1>1. t \in Objects /\ b \in Objects /\ tab[t].filter.delete \in BOOLEAN
  BY TableFields DEF Good, TablesOK
<1>2. b \in B
  BY DEF BlocksOf, IndexBlocks
<1>3. Live(tab2) = Live(tab) \ {t} /\ \A u \in Live(tab2) : tab2[u] = tab[u]
  BY DEF Live, OnlyAt
<1>4. Deleting(tab2) = Deleting(tab) \ {t}
  BY <1>3 DEF Deleting
<1>5. HeapIs(h1, B, ArraysOf(tab2)) /\ h1.blocks = h.blocks
  <2>1. CASE tab[t].filter.delete
    <3>1. t \in Deleting(tab) /\ a \in ArraysOf(tab)
      BY <2>1 DEF Deleting, ArraysOf
    <3>2. \A u \in Deleting(tab2) : tab2[u].filter.data.at = tab[u].filter.data.at /\ tab[u].filter.data.at # a
      BY <3>1, <1>3, <1>4 DEF Good, Distinct, Deleting
    <3>3. ArraysOf(tab2) = ArraysOf(tab) \ {a}
      BY <3>2, <1>4 DEF ArraysOf
    <3>4. HeapIs(h, B, ArraysOf(tab))
      BY DEF Good
    <3> HIDE DEF B, a
    <3>5. HeapIs(DeleteArray(h, a), B, ArraysOf(tab) \ {a}) /\ DeleteArray(h, a).blocks = h.blocks
      BY <3>1, <3>4, FreeArray
    <3>6. h1 = DeleteArray(h, a)
      BY <2>1 DEF a
    <3> QED  BY <3>3, <3>5, <3>6
  <2>2. CASE ~tab[t].filter.delete
    <3>1. Deleting(tab2) = Deleting(tab) /\ \A u \in Deleting(tab) : tab2[u] = tab[u]
      BY <2>2, <1>3, <1>4 DEF Deleting
    <3>2. ArraysOf(tab2) = ArraysOf(tab)
      BY <3>1 DEF ArraysOf
    <3> QED  BY <2>2, <3>2 DEF Good
  <2> QED  BY <1>1, <2>1, <2>2
<1>6. HeapIs(g, B \ {b}, ArraysOf(tab2)) /\ g.blocks = [h.blocks EXCEPT ![b] = Free] /\ h \in HeapType
  <2>1. h \in HeapType
    BY GoodHeap
  <2> HIDE DEF B, b
  <2> QED  BY <1>2, <1>5, <2>1, FreeBlock
<1>7. g.blocks[b] = Free /\ \A c \in Objects : c # b => g.blocks[c] = h.blocks[c]
  BY <1>1, <1>6 DEF HeapType
<1>8. \A u \in Live(tab2) : tab[u].index \in Objects /\ tab[u].index # b
  <2> SUFFICES ASSUME NEW u \in Live(tab2) PROVE tab[u].index \in Objects /\ tab[u].index # b
    OBVIOUS
  <2>1. u \in Live(tab) /\ u # t
    BY <1>3
  <2>2. tab[u].index \in Objects
    BY <2>1, TableFields DEF Good, TablesOK
  <2> QED  BY <2>1, <2>2 DEF Good, Distinct
<1>9. \A x \in D : x[2] \in Objects /\ x[2] # b
  BY DEF Good, Distinct, Pairs
<1>10. \A c \in Live(en) : c \in Objects /\ c # b
  BY DEF Good, Distinct, Live
<1>11. BlocksOf(tab2, en, D) = B \ {b}
  BY <1>3, <1>8, <1>9, <1>10 DEF BlocksOf, IndexBlocks, OwnBlocks
<1> HIDE DEF g, B, b
<1>12. Distinct(tab2, en, D)
  <2>1. \A u \in Deleting(tab2) : u \in Deleting(tab) /\ tab2[u] = tab[u]
    BY <1>3, <1>4 DEF Deleting
  <2> QED  BY <1>3, <2>1 DEF Good, Distinct
<1>13. Places(g, tab2, en, T2, D)
  BY <1>3, <1>7, <1>8, <1>9, <1>10 DEF Good, Places
<1>14. BlocksStay(h, g)
  BY <1>7 DEF BlocksStay, Free
<1>15. Good(g, tab2, en, T2, D, R)
  BY <1>6, <1>11, <1>12, <1>13 DEF Good
<1> QED  BY <1>14, <1>15 DEF g, b

\* Blocks that were there are no new ones.
LEMMA OldBlocks ==
  ASSUME NEW h, NEW tab, NEW en, NEW T, NEW D, NEW R, Good(h, tab, en, T, D, R),
         NEW b \in Objects \ BlocksOf(tab, en, D)
  PROVE  /\ \A t \in Live(tab) : tab[t].index \in Objects /\ tab[t].index # b
         /\ \A c \in Live(en) : c \in Objects /\ c # b
         /\ \A x \in D : x[2] \in Objects /\ x[2] # b
         /\ ~en[b].live
<1>1. \A t \in Live(tab) : tab[t].index \in Objects
  BY TableFields DEF Good, TablesOK
<1>2. \A t \in Live(tab) : tab[t].index # b
  BY DEF BlocksOf, IndexBlocks
<1>3. \A c \in Live(en) : c \in Objects /\ c # b
  BY DEF BlocksOf, Live
<1>4. \A x \in D : x[2] \in Objects
  BY DEF Good, Distinct, Pairs
<1>5. \A x \in D : x[2] # b
  BY DEF BlocksOf, OwnBlocks
<1>6. ~en[b].live
  BY <1>3 DEF Live
<1> QED  BY <1>1, <1>2, <1>3, <1>4, <1>5, <1>6

\* A new block goes into the cache.
LEMMA EntryComes ==
  ASSUME NEW h, NEW tab, NEW en, NEW T, NEW D, NEW R, Good(h, tab, en, T, D, R),
         NEW b \in Objects \ BlocksOf(tab, en, D), NEW g,
         HeapIs(g, BlocksOf(tab, en, D) \cup {b}, ArraysOf(tab)),
         \A c \in Objects : c # b => g.blocks[c] = h.blocks[c], g.blocks[b].owned,
         NEW en2, NEW R2, OnlyAt(en, en2, b), en2[b].live, EntriesOK(en2, R2)
  PROVE  Good(g, tab, en2, T, D, R2)
<1>1. /\ \A t \in Live(tab) : tab[t].index \in Objects /\ tab[t].index # b
      /\ \A c \in Live(en) : c \in Objects /\ c # b
      /\ \A x \in D : x[2] \in Objects /\ x[2] # b
  BY OldBlocks
<1>2. Live(en2) = Live(en) \cup {b} /\ \A c \in Objects : c # b => (en2[c].live <=> en[c].live)
  BY DEF Live, OnlyAt
<1>3. BlocksOf(tab, en2, D) = BlocksOf(tab, en, D) \cup {b}
  BY <1>2 DEF BlocksOf
<1>4. Distinct(tab, en2, D)
  BY <1>1, <1>2 DEF Good, Distinct
<1>5. Places(g, tab, en2, T, D)
  <2>1. \A c \in Live(en2) : g.blocks[c].owned
    BY <1>1, <1>2 DEF Good, Places
  <2>2. \A t \in Live(tab) : ~g.blocks[tab[t].index].owned => g.blocks[tab[t].index].data = InMap(t)
    BY <1>1 DEF Good, Places
  <2>3. \A x \in D : ~g.blocks[x[2]].owned =>
          \E t \in Objects : <<x[1], t>> \in T /\ g.blocks[x[2]].data = InMap(t)
    BY <1>1 DEF Good, Places
  <2> QED  BY <2>1, <2>2, <2>3 DEF Good, Places
<1> QED  BY <1>3, <1>4, <1>5 DEF Good

\* A reader keeps a new block to itself.
LEMMA OwnComes ==
  ASSUME NEW h, NEW tab, NEW en, NEW T, NEW D, NEW R, Good(h, tab, en, T, D, R),
         NEW b \in Objects \ BlocksOf(tab, en, D), NEW g,
         HeapIs(g, BlocksOf(tab, en, D) \cup {b}, ArraysOf(tab)),
         \A c \in Objects : c # b => g.blocks[c] = h.blocks[c],
         NEW r \in Readers, NEW u \in Objects, <<r, u>> \in T,
         ~g.blocks[b].owned => g.blocks[b].data = InMap(u)
  PROVE  Good(g, tab, en, T, D \cup {<<r, b>>}, R)
<1> DEFINE D2 == D \cup {<<r, b>>}
<1>1. /\ \A t \in Live(tab) : tab[t].index \in Objects /\ tab[t].index # b
      /\ \A c \in Live(en) : c \in Objects /\ c # b
      /\ \A x \in D : x[2] \in Objects /\ x[2] # b
      /\ ~en[b].live
  BY OldBlocks
<1>2. BlocksOf(tab, en, D2) = BlocksOf(tab, en, D) \cup {b}
  <2>1. <<r, b>>[2] = b /\ <<r, b>> \in D2
    OBVIOUS
  <2>2. OwnBlocks(D2) \subseteq OwnBlocks(D) \cup {b}
    BY DEF OwnBlocks
  <2>3. OwnBlocks(D) \cup {b} \subseteq OwnBlocks(D2)
    BY <2>1 DEF OwnBlocks
  <2> HIDE DEF D2
  <2> QED  BY <2>2, <2>3 DEF BlocksOf
<1>3. D2 \subseteq Pairs
  BY DEF Good, Distinct, Pairs
<1>4. \A x \in D2 : x \in D \/ (x = <<r, b>> /\ x[1] = r /\ x[2] = b)
  OBVIOUS
<1> HIDE DEF D2
<1>5. Distinct(tab, en, D2)
  BY <1>1, <1>3, <1>4 DEF Good, Distinct
<1>6. Places(g, tab, en, T, D2)
  <2>1. \A c \in Live(en) : g.blocks[c].owned
    BY <1>1 DEF Good, Places
  <2>2. \A t \in Live(tab) : ~g.blocks[tab[t].index].owned => g.blocks[tab[t].index].data = InMap(t)
    BY <1>1 DEF Good, Places
  <2>3. \A x \in D : ~g.blocks[x[2]].owned =>
          \E t \in Objects : <<x[1], t>> \in T /\ g.blocks[x[2]].data = InMap(t)
    BY <1>1 DEF Good, Places
  <2>4. \A x \in D2 : ~g.blocks[x[2]].owned =>
          \E t \in Objects : <<x[1], t>> \in T /\ g.blocks[x[2]].data = InMap(t)
    BY <1>4, <2>3
  <2> QED  BY <2>1, <2>2, <2>4 DEF Good, Places
<1>7. Good(g, tab, en, T, D2, R)
  BY <1>2, <1>5, <1>6 DEF Good
<1> QED  BY <1>7 DEF D2

\* Heap g has the index block b and the filter of a new table.
TableIn(h, B, A, g, t, b, F) ==
  /\ HeapIs(g, B \cup {b}, A \cup F)
  /\ \A o \in Objects : o # b => g.blocks[o] = h.blocks[o]
  /\ ~g.blocks[b].owned => g.blocks[b].data = InMap(t)

\* w is a filter for table t, and F the array it owns; A: the arrays there are.
FilterFits(A, w, t, F) ==
  \/ w.delete /\ w.data.where = "buffer" /\ w.data.at \notin A /\ F = {w.data.at}
  \/ ~w.delete /\ w.data \in {Nowhere, InMap(t)} /\ F = {}

\* Tables that keep their filters keep their arrays.
LEMMA ArraysStay ==
  ASSUME NEW tab, NEW tab2, \A u \in Deleting(tab) : u \in Deleting(tab2) /\ tab2[u] = tab[u]
  PROVE  ArraysOf(tab) \subseteq ArraysOf(tab2)
<1> SUFFICES ASSUME NEW a \in ArraysOf(tab) PROVE a \in ArraysOf(tab2)
  OBVIOUS
<1>1. PICK u \in Deleting(tab) : a = tab[u].filter.data.at
  BY DEF ArraysOf
<1>2. u \in Deleting(tab2) /\ a = tab2[u].filter.data.at
  BY <1>1
<1> QED  BY <1>2 DEF ArraysOf

\* A table is opened; F: the array of its filter, if it has one.
LEMMA TableComes ==
  ASSUME NEW h, NEW tab, NEW en, NEW T, NEW D, NEW R, Good(h, tab, en, T, D, R),
         NEW b \in Objects \ BlocksOf(tab, en, D), NEW g, NEW F, NEW t \in Objects, ~tab[t].live,
         TableIn(h, BlocksOf(tab, en, D), ArraysOf(tab), g, t, b, F),
         NEW tab2, NEW T2, OnlyAt(tab, tab2, t), tab2[t].live, tab2[t].index = b, TablesOK(tab2, T2),
         T \subseteq T2, FilterFits(ArraysOf(tab), tab2[t].filter, t, F)
  PROVE  Good(g, tab2, en, T2, D, R)
<1>8. /\ HeapIs(g, BlocksOf(tab, en, D) \cup {b}, ArraysOf(tab) \cup F)
      /\ \A c \in Objects : c # b => g.blocks[c] = h.blocks[c]
      /\ ~g.blocks[b].owned => g.blocks[b].data = InMap(t)
  BY DEF TableIn
<1>9. \/ /\ tab2[t].filter.delete /\ tab2[t].filter.data.where = "buffer"
         /\ tab2[t].filter.data.at \notin ArraysOf(tab) /\ F = {tab2[t].filter.data.at}
      \/ ~tab2[t].filter.delete /\ tab2[t].filter.data \in {Nowhere, InMap(t)} /\ F = {}
  BY DEF FilterFits
<1> USE <1>8, <1>9
<1>1. /\ \A u \in Live(tab) : tab[u].index \in Objects /\ tab[u].index # b
      /\ \A c \in Live(en) : c \in Objects /\ c # b
      /\ \A x \in D : x[2] \in Objects /\ x[2] # b
      /\ ~en[b].live
  BY OldBlocks
<1>2. Live(tab2) = Live(tab) \cup {t} /\ t \notin Live(tab) /\ \A u \in Live(tab) : tab2[u] = tab[u]
  BY DEF Live, OnlyAt
<1>3. IndexBlocks(tab2) = IndexBlocks(tab) \cup {b}
  BY <1>2 DEF IndexBlocks
<1>4. BlocksOf(tab2, en, D) = BlocksOf(tab, en, D) \cup {b}
  BY <1>3 DEF BlocksOf
<1>5. /\ ArraysOf(tab2) = ArraysOf(tab) \cup F
      /\ \A u, w \in Deleting(tab2) : tab2[u].filter.data.at = tab2[w].filter.data.at => u = w
  <2>1. \A u \in Deleting(tab) : u \in Deleting(tab2) /\ tab2[u] = tab[u]
    BY <1>2 DEF Deleting
  <2>2. \A u, w \in Deleting(tab) : tab[u].filter.data.at = tab[w].filter.data.at => u = w
    BY DEF Good, Distinct
  <2>3. CASE ~tab2[t].filter.delete /\ F = {}
    <3>1. Deleting(tab2) = Deleting(tab)
      BY <2>3, <1>2 DEF Deleting
    <3>2. ArraysOf(tab) \subseteq ArraysOf(tab2)
      BY <2>1, ArraysStay
    <3>3. \A u \in Deleting(tab2) : u \in Deleting(tab) /\ tab[u] = tab2[u]
      BY <3>1, <2>1
    <3>4. ArraysOf(tab2) \subseteq ArraysOf(tab)
      BY <3>3, ArraysStay
    <3>5. ArraysOf(tab2) = ArraysOf(tab) \cup F
      BY <3>2, <3>4, <2>3
    <3>6. \A u, w \in Deleting(tab2) : tab2[u].filter.data.at = tab2[w].filter.data.at => u = w
      BY <3>3, <2>2
    <3> QED  BY <3>5, <3>6
  <2>4. CASE tab2[t].filter.delete /\ tab2[t].filter.data.at \notin ArraysOf(tab) /\ F = {tab2[t].filter.data.at}
    <3>1. Deleting(tab2) = Deleting(tab) \cup {t}
      BY <2>4, <1>2 DEF Deleting
    <3>2. ArraysOf(tab2) = ArraysOf(tab) \cup F
      <4>1. ArraysOf(tab2) \subseteq ArraysOf(tab) \cup F
        <5>1. \A u \in Deleting(tab2) : tab2[u].filter.data.at \in ArraysOf(tab) \cup F
          <6> SUFFICES ASSUME NEW u \in Deleting(tab2) PROVE tab2[u].filter.data.at \in ArraysOf(tab) \cup F
            OBVIOUS
          <6>1. CASE u = t
            BY <6>1, <2>4
          <6>2. CASE u \in Deleting(tab)
            BY <6>2, <2>1 DEF ArraysOf
          <6> QED  BY <6>1, <6>2, <3>1
        <5> QED  BY <5>1 DEF ArraysOf
      <4>2. ArraysOf(tab) \subseteq ArraysOf(tab2)
        BY <2>1, ArraysStay
      <4>3. F \subseteq ArraysOf(tab2)
        BY <3>1, <2>4 DEF ArraysOf
      <4> QED  BY <4>1, <4>2, <4>3
    <3>3. \A u \in Deleting(tab) : tab2[u].filter.data.at \in ArraysOf(tab)
      BY <2>1 DEF ArraysOf
    <3> QED  BY <3>1, <3>2, <3>3, <2>1, <2>2, <2>4
  <2> QED  BY <2>3, <2>4
<1>6. Distinct(tab2, en, D)
  <2>1. \A u, w \in Live(tab2) : tab2[u].index = tab2[w].index => u = w
    BY <1>1, <1>2 DEF Good, Distinct
  <2>2. \A u \in Live(tab2) : ~en[tab2[u].index].live
    BY <1>1, <1>2 DEF Good, Distinct
  <2>3. \A x \in D : \A u \in Live(tab2) : tab2[u].index # x[2]
    BY <1>1, <1>2 DEF Good, Distinct
  <2> QED  BY <1>5, <2>1, <2>2, <2>3 DEF Good, Distinct
<1>7. Places(g, tab2, en, T2, D)
  <2>1. \A c \in Live(en) : g.blocks[c].owned
    BY <1>1 DEF Good, Places
  <2>2. \A u \in Live(tab2) : ~g.blocks[tab2[u].index].owned => g.blocks[tab2[u].index].data = InMap(u)
    BY <1>1, <1>2 DEF Good, Places
  <2>3. \A x \in D : ~g.blocks[x[2]].owned =>
          \E u \in Objects : <<x[1], u>> \in T2 /\ g.blocks[x[2]].data = InMap(u)
    BY <1>1 DEF Good, Places
  <2>4. \A u \in Live(tab2) :
          IF tab2[u].filter.delete THEN tab2[u].filter.data.where = "buffer"
          ELSE tab2[u].filter.data \in {Nowhere, InMap(u)}
    BY <1>2 DEF Good, Places
  <2> QED  BY <2>1, <2>2, <2>3, <2>4 DEF Places
<1> QED  BY <1>4, <1>5, <1>6, <1>7 DEF Good

\* Release or Erase: the last reference frees a table.
TableUnref(h, tab, t, cached, h2, tab2) ==
  /\ OnlyAt(tab, tab2, t) /\ tab2 \in [Objects -> {Free} \cup TableType]
  /\ IF tab[t].refs = 1
     THEN /\ tab2[t] = Free
          /\ h2 = DeleteBlock(IF tab[t].filter.delete THEN DeleteArray(h, tab[t].filter.data.at) ELSE h,
                              tab[t].index)
     ELSE h2 = h /\ tab2[t] = [tab[t] EXCEPT !.cached = cached, !.refs = @ - 1]

EntryUnref(h, en, b, cached, h2, en2) ==
  /\ OnlyAt(en, en2, b) /\ en2 \in [Objects -> {Free} \cup EntryType]
  /\ IF en[b].refs = 1 THEN en2[b] = Free /\ h2 = DeleteBlock(h, b)
     ELSE h2 = h /\ en2[b] = [en[b] EXCEPT !.cached = cached, !.refs = @ - 1]

TablesStay(tab, tab2) ==
  \A u \in Live(tab2) : u \in Live(tab) /\ tab2[u].id = tab[u].id /\ tab2[u].file = tab[u].file
EntriesStay(en, en2) == \A c \in Live(en2) : c \in Live(en) /\ en2[c].key = en[c].key

\* A live entry is an entry.
LEMMA EntryFields ==
  ASSUME NEW en \in [Objects -> {Free} \cup EntryType], NEW b \in Live(en)
  PROVE  b \in Objects /\ en[b] \in EntryType
<1>1. b \in Objects /\ en[b] \in {Free} \cup EntryType /\ en[b].live
  BY DEF Live
<1>2. en[b] # Free
  BY <1>1 DEF Free
<1> QED  BY <1>1, <1>2

\* The parts of a table whose count went down.
LEMMA TableLess ==
  ASSUME NEW w \in TableType, NEW cached \in BOOLEAN, NEW u, u = [w EXCEPT !.cached = cached, !.refs = @ - 1]
  PROVE  /\ u.live /\ u.cached = cached /\ u.refs = w.refs - 1 /\ u.index = w.index /\ u.filter = w.filter
         /\ u.id = w.id /\ u.file = w.file
  BY DEF TableType

\* The fields of an entry with one reference less.
LEMMA EntryLess ==
  ASSUME NEW w \in EntryType, NEW cached \in BOOLEAN, NEW u, u = [w EXCEPT !.cached = cached, !.refs = @ - 1]
  PROVE  u.live /\ u.cached = cached /\ u.refs = w.refs - 1 /\ u.key = w.key
  BY DEF EntryType

\* A free place is not live.
LEMMA FreeIsNot == ~Free.live
  BY DEF Free

\* Blocks stay when nothing happens.
LEMMA SameBlocksStay ==
  ASSUME NEW h
  PROVE  BlocksStay(h, h)
  BY DEF BlocksStay

\* Tables keep their names when only t changes and keeps its own.
LEMMA TablesStayAt ==
  ASSUME NEW tab, NEW tab2, NEW t \in Live(tab), OnlyAt(tab, tab2, t),
         tab2[t].live => tab2[t].id = tab[t].id /\ tab2[t].file = tab[t].file
  PROVE  TablesStay(tab, tab2)
  BY DEF TablesStay, OnlyAt, Live

\* Entries keep their keys when only b changes and keeps its own.
LEMMA EntriesStayAt ==
  ASSUME NEW en, NEW en2, NEW b \in Live(en), OnlyAt(en, en2, b), en2[b].live => en2[b].key = en[b].key
  PROVE  EntriesStay(en, en2)
  BY DEF EntriesStay, OnlyAt, Live

\* The table cache drops a table.
LEMMA TableUncached ==
  ASSUME BlockReadsAssumption, NEW h, NEW tab, NEW en, NEW T, NEW D, NEW R, Good(h, tab, en, T, D, R),
         NEW t \in Live(tab), tab[t].cached, NEW h2, NEW tab2, TableUnref(h, tab, t, FALSE, h2, tab2)
  PROVE  Good(h2, tab2, en, T, D, R) /\ BlocksStay(h, h2) /\ TablesStay(tab, tab2)
<1>1. tab[t] \in TableType /\ Counted(tab, T) /\ OnlyAt(tab, tab2, t) /\ tab2 \in [Objects -> {Free} \cup TableType]
  BY TableFields DEF Good, TablesOK, TableUnref
<1>2. CASE tab[t].refs = 1
  <2>1. ~tab2[t].live /\ tab2[t] = Free
    BY <1>2, FreeIsNot DEF TableUnref
  <2>2. Counted(tab2, T)
    BY <1>1, <1>2, <2>1, CountGone
  <2>3. TablesOK(tab2, T)
    BY <1>1, <2>2 DEF TablesOK
  <2>4. PICK h1 : h1 = IF tab[t].filter.delete THEN DeleteArray(h, tab[t].filter.data.at) ELSE h
    OBVIOUS
  <2>5. Good(DeleteBlock(h1, tab[t].index), tab2, en, T, D, R) /\ BlocksStay(h, DeleteBlock(h1, tab[t].index))
    BY <1>1, <2>1, <2>3, <2>4, TableGoes
  <2>6. h2 = DeleteBlock(h1, tab[t].index)
    BY <1>2, <2>4 DEF TableUnref
  <2>7. TablesStay(tab, tab2)
    BY <1>1, <2>1, TablesStayAt
  <2> QED  BY <2>5, <2>6, <2>7
<1>3. CASE tab[t].refs # 1
  <2>1. h2 = h /\ tab2[t] = [tab[t] EXCEPT !.cached = FALSE, !.refs = @ - 1]
    BY <1>3 DEF TableUnref
  <2>2. /\ tab2[t].live /\ tab2[t].cached = FALSE /\ tab2[t].refs = tab[t].refs - 1 /\ tab2[t].index = tab[t].index
        /\ tab2[t].filter = tab[t].filter /\ tab2[t].id = tab[t].id /\ tab2[t].file = tab[t].file
    BY <1>1, <2>1, TableLess, ZenonT(60)
  <2>3. Counted(tab2, T)
    BY <1>1, <1>3, <2>2, CountUncache
  <2>4. TablesOK(tab2, T)
    BY <1>1, <2>3 DEF TablesOK
  <2>5. Good(h, tab2, en, T, D, R)
    BY <1>1, <2>2, <2>4, TableCounts
  <2>6. TablesStay(tab, tab2)
    BY <1>1, <2>2, TablesStayAt
  <2> QED  BY <2>1, <2>5, <2>6, SameBlocksStay
<1> QED  BY <1>2, <1>3

\* A reader that owns no block releases its table.
LEMMA TableReleased ==
  ASSUME BlockReadsAssumption, NEW h, NEW tab, NEW en, NEW T, NEW D, NEW R, Good(h, tab, en, T, D, R),
         NEW t \in Objects, NEW r \in Readers, <<r, t>> \in T, \A x \in D : x[1] # r,
         NEW h2, NEW tab2, TableUnref(h, tab, t, tab[t].cached, h2, tab2)
  PROVE  Good(h2, tab2, en, T \ {<<r, t>>}, D, R) /\ BlocksStay(h, h2) /\ TablesStay(tab, tab2)
<1>1. t \in Live(tab)
  BY DEF Good, TablesOK, Counted, Live
<1>2. tab[t] \in TableType /\ Counted(tab, T) /\ OnlyAt(tab, tab2, t) /\ tab2 \in [Objects -> {Free} \cup TableType]
  BY <1>1, TableFields DEF Good, TablesOK, TableUnref
<1>3. PICK T2 : T2 = T \ {<<r, t>>}
  OBVIOUS
<1>4. \A x \in D : \A u \in Objects : <<x[1], u>> \in T => <<x[1], u>> \in T2
  BY <1>3
<1>5. CASE tab[t].refs = 1
  <2>1. ~tab2[t].live /\ tab2[t] = Free
    BY <1>5, FreeIsNot DEF TableUnref
  <2>2. Counted(tab2, T2)
    BY <1>1, <1>2, <1>3, <1>5, <2>1, CountLast
  <2>3. TablesOK(tab2, T2)
    BY <1>2, <2>2 DEF TablesOK
  <2>4. PICK h1 : h1 = IF tab[t].filter.delete THEN DeleteArray(h, tab[t].filter.data.at) ELSE h
    OBVIOUS
  <2>5. Good(DeleteBlock(h1, tab[t].index), tab2, en, T2, D, R) /\ BlocksStay(h, DeleteBlock(h1, tab[t].index))
    BY <1>1, <1>2, <1>4, <2>1, <2>3, <2>4, TableGoes
  <2>6. h2 = DeleteBlock(h1, tab[t].index)
    BY <1>5, <2>4 DEF TableUnref
  <2>7. TablesStay(tab, tab2)
    BY <1>1, <1>2, <2>1, TablesStayAt
  <2> QED  BY <1>3, <2>5, <2>6, <2>7
<1>6. CASE tab[t].refs # 1
  <2>1. h2 = h /\ tab2[t] = [tab[t] EXCEPT !.cached = tab[t].cached, !.refs = @ - 1]
    BY <1>6 DEF TableUnref
  <2>2. tab[t].cached \in BOOLEAN
    BY <1>2 DEF TableType
  <2>3. /\ tab2[t].live /\ tab2[t].cached = tab[t].cached /\ tab2[t].refs = tab[t].refs - 1
        /\ tab2[t].index = tab[t].index
        /\ tab2[t].filter = tab[t].filter /\ tab2[t].id = tab[t].id /\ tab2[t].file = tab[t].file
    BY <1>2, <2>1, ZenonT(60) DEF TableType
  <2>4. Counted(tab2, T2)
    BY <1>1, <1>2, <1>3, <1>6, <2>3, CountDrop
  <2>5. TablesOK(tab2, T2)
    BY <1>2, <2>4 DEF TablesOK
  <2>6. Good(h, tab2, en, T2, D, R)
    BY <1>1, <1>2, <1>4, <2>3, <2>5, TableCounts
  <2>7. TablesStay(tab, tab2)
    BY <1>1, <1>2, <2>3, TablesStayAt
  <2> QED  BY <1>3, <2>1, <2>6, <2>7, SameBlocksStay
<1> QED  BY <1>5, <1>6

\* The block cache drops an entry.
LEMMA EntryUncached ==
  ASSUME BlockReadsAssumption, NEW h, NEW tab, NEW en, NEW T, NEW D, NEW R, Good(h, tab, en, T, D, R),
         NEW b \in Live(en), en[b].cached, NEW h2, NEW en2, EntryUnref(h, en, b, FALSE, h2, en2)
  PROVE  Good(h2, tab, en2, T, D, R) /\ BlocksStay(h, h2) /\ EntriesStay(en, en2)
<1>1. en[b] \in EntryType /\ Counted(en, R) /\ OnlyAt(en, en2, b) /\ en2 \in [Objects -> {Free} \cup EntryType]
  BY EntryFields DEF Good, EntriesOK, EntryUnref
<1>2. CASE en[b].refs = 1
  <2>1. ~en2[b].live /\ h2 = DeleteBlock(h, b)
    BY <1>2, FreeIsNot DEF EntryUnref
  <2>2. Counted(en2, R)
    BY <1>1, <1>2, <2>1, CountGone
  <2>3. EntriesOK(en2, R)
    BY <1>1, <2>2 DEF EntriesOK
  <2>4. Good(DeleteBlock(h, b), tab, en2, T, D, R) /\ BlocksStay(h, DeleteBlock(h, b))
    BY <1>1, <2>1, <2>3, EntryGoes
  <2>5. EntriesStay(en, en2)
    BY <1>1, <2>1, EntriesStayAt
  <2> QED  BY <2>1, <2>4, <2>5
<1>3. CASE en[b].refs # 1
  <2>1. h2 = h /\ en2[b] = [en[b] EXCEPT !.cached = FALSE, !.refs = @ - 1]
    BY <1>3 DEF EntryUnref
  <2>2. en2[b].live /\ en2[b].cached = FALSE /\ en2[b].refs = en[b].refs - 1 /\ en2[b].key = en[b].key
    BY <1>1, <2>1, EntryLess
  <2>3. Counted(en2, R)
    BY <1>1, <1>3, <2>2, CountUncache
  <2>4. EntriesOK(en2, R)
    BY <1>1, <2>3 DEF EntriesOK
  <2>5. Good(h, tab, en2, T, D, R)
    BY <1>1, <2>2, <2>4, EntryCounts
  <2>6. EntriesStay(en, en2)
    BY <1>1, <2>2, EntriesStayAt
  <2> QED  BY <2>1, <2>5, <2>6, SameBlocksStay
<1> QED  BY <1>2, <1>3

\* A reader releases a block to the cache.
LEMMA EntryReleased ==
  ASSUME BlockReadsAssumption, NEW h, NEW tab, NEW en, NEW T, NEW D, NEW R, Good(h, tab, en, T, D, R),
         NEW b \in Objects, NEW r \in Readers, <<r, b>> \in R,
         NEW h2, NEW en2, EntryUnref(h, en, b, en[b].cached, h2, en2)
  PROVE  Good(h2, tab, en2, T, D, R \ {<<r, b>>}) /\ BlocksStay(h, h2) /\ EntriesStay(en, en2)
<1>1. b \in Live(en)
  BY DEF Good, EntriesOK, Counted, Live
<1>2. en[b] \in EntryType /\ Counted(en, R) /\ OnlyAt(en, en2, b) /\ en2 \in [Objects -> {Free} \cup EntryType]
  BY <1>1, EntryFields DEF Good, EntriesOK, EntryUnref
<1>3. PICK R2 : R2 = R \ {<<r, b>>}
  OBVIOUS
<1>4. CASE en[b].refs = 1
  <2>1. ~en2[b].live /\ h2 = DeleteBlock(h, b)
    BY <1>4, FreeIsNot DEF EntryUnref
  <2>2. Counted(en2, R2)
    BY <1>1, <1>2, <1>3, <1>4, <2>1, CountLast
  <2>3. EntriesOK(en2, R2)
    BY <1>2, <2>2 DEF EntriesOK
  <2>4. Good(DeleteBlock(h, b), tab, en2, T, D, R2) /\ BlocksStay(h, DeleteBlock(h, b))
    BY <1>1, <1>2, <2>1, <2>3, EntryGoes
  <2>5. EntriesStay(en, en2)
    BY <1>1, <1>2, <2>1, EntriesStayAt
  <2> QED  BY <1>3, <2>1, <2>4, <2>5
<1>5. CASE en[b].refs # 1
  <2>1. h2 = h /\ en2[b] = [en[b] EXCEPT !.cached = en[b].cached, !.refs = @ - 1]
    BY <1>5 DEF EntryUnref
  <2>2. en[b].cached \in BOOLEAN
    BY <1>2 DEF EntryType
  <2>3. en2[b].live /\ en2[b].cached = en[b].cached /\ en2[b].refs = en[b].refs - 1 /\ en2[b].key = en[b].key
    BY <1>2, <2>1, <2>2, EntryLess, ZenonT(60)
  <2>4. Counted(en2, R2)
    BY <1>1, <1>2, <1>3, <1>5, <2>3, CountDrop
  <2>5. EntriesOK(en2, R2)
    BY <1>2, <2>4 DEF EntriesOK
  <2>6. Good(h, tab, en2, T, D, R2)
    BY <1>1, <1>2, <2>3, <2>5, EntryCounts
  <2>7. EntriesStay(en, en2)
    BY <1>1, <1>2, <2>3, EntriesStayAt
  <2> QED  BY <1>3, <2>1, <2>6, <2>7, SameBlocksStay
<1> QED  BY <1>4, <1>5

-----------------------------------------------------------------------------
(* What readers hold                                                       *)

OnlyReader(f, g, r) == \A q \in Readers : q # r => g[q] = f[q]

MineT(f, r) == IF f[r].table # None THEN {<<r, f[r].table>>} ELSE {}
MineB(f, r, how) == IF f[r].how = how THEN {<<r, f[r].block>>} ELSE {}

\* What a step of reader r does to the tables that readers hold.
LEMMA HeldTStep ==
  ASSUME NEW f, NEW g, NEW r \in Readers, OnlyReader(f, g, r)
  PROVE  HeldT(g) = (HeldT(f) \ MineT(f, r)) \cup MineT(g, r) /\ MineT(f, r) \subseteq HeldT(f)
         /\ \A t : t # f[r].table => <<r, t>> \notin HeldT(f)
  BY DEF HeldT, MineT, OnlyReader

\* What a step of reader r does to the blocks that readers hold.
LEMMA HeldBStep ==
  ASSUME NEW f, NEW g, NEW r \in Readers, OnlyReader(f, g, r), NEW how
  PROVE  HeldB(g, how) = (HeldB(f, how) \ MineB(f, r, how)) \cup MineB(g, r, how)
         /\ MineB(f, r, how) \subseteq HeldB(f, how)
         /\ \A b : b # f[r].block => <<r, b>> \notin HeldB(f, how)
  BY DEF HeldB, MineB, OnlyReader

\* What a reader holds is there.
LEMMA HeldIsLive ==
  ASSUME NEW h, NEW tab, NEW en, NEW f, NEW r \in Readers, ReaderOK(tab, f, r),
         Good(h, tab, en, HeldT(f), HeldB(f, "delete"), HeldB(f, "release"))
  PROVE  /\ f[r].table # None => f[r].table \in Live(tab) /\ <<r, f[r].table>> \in HeldT(f)
         /\ f[r].how # "none" => h.blocks[f[r].block].live
         /\ f[r].how = "release" => f[r].block \in Live(en)
<1>1. f[r].table # None => <<r, f[r].table>> \in HeldT(f) /\ f[r].table \in Objects
  BY DEF HeldT, ReaderOK, ReaderType
<1>2. f[r].table # None => f[r].table \in Live(tab)
  <2> SUFFICES ASSUME f[r].table # None PROVE f[r].table \in Live(tab)
    OBVIOUS
  <2>1. \A x \in HeldT(f) : tab[x[2]].live
    BY DEF Good, TablesOK, Counted
  <2> QED  BY <1>1, <2>1 DEF Live
<1>3. f[r].how = "release" => f[r].block \in Live(en)
  <2> SUFFICES ASSUME f[r].how = "release" PROVE f[r].block \in Live(en)
    OBVIOUS
  <2>1. <<r, f[r].block>> \in HeldB(f, "release") /\ f[r].block \in Objects
    BY DEF HeldB, ReaderOK
  <2>2. \A x \in HeldB(f, "release") : en[x[2]].live
    BY DEF Good, EntriesOK, Counted
  <2> QED  BY <2>1, <2>2 DEF Live
<1>4. f[r].how # "none" => h.blocks[f[r].block].live
  <2> SUFFICES ASSUME f[r].how # "none" PROVE h.blocks[f[r].block].live
    OBVIOUS
  <2>1. f[r].how \in {"delete", "release"} /\ f[r].block \in Objects
    BY DEF ReaderOK, ReaderType
  <2>2. \A b \in BlocksOf(tab, en, HeldB(f, "delete")) : b \in Objects => h.blocks[b].live
    BY DEF Good, HeapIs
  <2>3. f[r].block \in BlocksOf(tab, en, HeldB(f, "delete"))
    <3>1. CASE f[r].how = "release"
      BY <3>1, <1>3 DEF BlocksOf
    <3>2. CASE f[r].how = "delete"
      <4>1. <<r, f[r].block>> \in HeldB(f, "delete") /\ <<r, f[r].block>>[2] = f[r].block
        BY <3>2 DEF HeldB
      <4> QED  BY <4>1 DEF BlocksOf, OwnBlocks
    <3> QED  BY <2>1, <3>1, <3>2
  <2> QED  BY <2>1, <2>2, <2>3
<1> QED  BY <1>1, <1>2, <1>3, <1>4

BlocksKeep(h, g) ==
  \A c \in Objects : h.blocks[c].live /\ g.blocks[c].live => g.blocks[c] = h.blocks[c]
TablesKeep(tab, tab2) ==
  \A u \in Live(tab) : u \in Live(tab2) => tab2[u].file = tab[u].file

\* A step of one reader: what the others know stays true.
LEMMA ReaderStep ==
  ASSUME NEW h, NEW tab, NEW en, NEW id, NEW f, Inv(h, tab, en, id, f),
         NEW h2, NEW tab2, NEW en2, NEW id2, NEW g, NEW r \in Readers, OnlyReader(f, g, r),
         g = [q \in Readers |-> g[q]],
         Good(h2, tab2, en2, HeldT(g), HeldB(g, "delete"), HeldB(g, "release")),
         Names(h2, tab2, en2, id2), ReaderOK(tab2, g, r), RightFor(h2, g, r),
         BlocksKeep(h, h2), TablesKeep(tab, tab2)
  PROVE  Inv(h2, tab2, en2, id2, g)
<1> SUFFICES ASSUME NEW q \in Readers, q # r PROVE ReaderOK(tab2, g, q) /\ RightFor(h2, g, q)
  BY DEF Inv
<1>1. g[q] = f[q]
  BY DEF OnlyReader
<1>2. ReaderOK(tab, f, q) /\ RightFor(h, f, q)
  BY DEF Inv
<1>3. f[q].table # None => f[q].table \in Live(tab)
  BY <1>2, HeldIsLive DEF Inv
<1>4. f[q].how # "none" => h.blocks[f[q].block].live
  BY <1>2, HeldIsLive DEF Inv
<1>5. g[q].table # None => g[q].table \in Live(tab2)
  <2> SUFFICES ASSUME g[q].table # None PROVE g[q].table \in Live(tab2)
    OBVIOUS
  <2>1. <<q, g[q].table>> \in HeldT(g) /\ g[q].table \in Objects
    BY <1>1, <1>2 DEF HeldT, ReaderOK, ReaderType
  <2>2. \A x \in HeldT(g) : tab2[x[2]].live
    BY DEF Good, TablesOK, Counted
  <2> QED  BY <2>1, <2>2 DEF Live
<1>6. ReaderOK(tab2, g, q)
  <2>1. g[q].table # None => tab2[g[q].table].file = tab[f[q].table].file
    BY <1>1, <1>3, <1>5 DEF TablesKeep
  <2> QED  BY <1>1, <1>2, <2>1 DEF ReaderOK
<1>7. RightFor(h2, g, q)
  <2> SUFFICES ASSUME g[q].how # "none", g[q].pc = "open"
               PROVE  h2.blocks[g[q].block].of = <<g[q].file, g[q].at>>
    BY DEF RightFor
  <2>1. h2.blocks[g[q].block].live
    BY <1>6, HeldIsLive
  <2>2. g[q].block \in Objects
    BY <1>6 DEF ReaderOK
  <2>3. h2.blocks[g[q].block] = h.blocks[f[q].block]
    BY <1>1, <1>4, <2>1, <2>2 DEF BlocksKeep
  <2> QED  BY <1>1, <1>2, <2>3 DEF RightFor
<1> QED  BY <1>6, <1>7

\* A cache drops something: no reader takes part.
LEMMA CacheStep ==
  ASSUME NEW h, NEW tab, NEW en, NEW id, NEW f, Inv(h, tab, en, id, f),
         NEW h2, NEW tab2, NEW en2,
         Good(h2, tab2, en2, HeldT(f), HeldB(f, "delete"), HeldB(f, "release")),
         Names(h2, tab2, en2, id), BlocksKeep(h, h2), TablesKeep(tab, tab2)
  PROVE  Inv(h2, tab2, en2, id, f)
<1> SUFFICES ASSUME NEW q \in Readers PROVE ReaderOK(tab2, f, q) /\ RightFor(h2, f, q)
  BY DEF Inv
<1>1. ReaderOK(tab, f, q) /\ RightFor(h, f, q)
  BY DEF Inv
<1>2. f[q].table # None => f[q].table \in Live(tab)
  BY <1>1, HeldIsLive DEF Inv
<1>3. f[q].how # "none" => h.blocks[f[q].block].live
  BY <1>1, HeldIsLive DEF Inv
<1>4. f[q].table # None => f[q].table \in Live(tab2)
  <2> SUFFICES ASSUME f[q].table # None PROVE f[q].table \in Live(tab2)
    OBVIOUS
  <2>1. <<q, f[q].table>> \in HeldT(f) /\ f[q].table \in Objects
    BY <1>1 DEF HeldT, ReaderOK, ReaderType
  <2>2. \A x \in HeldT(f) : tab2[x[2]].live
    BY DEF Good, TablesOK, Counted
  <2> QED  BY <2>1, <2>2 DEF Live
<1>5. ReaderOK(tab2, f, q)
  BY <1>1, <1>2, <1>4 DEF ReaderOK, TablesKeep
<1>6. RightFor(h2, f, q)
  <2> SUFFICES ASSUME f[q].how # "none", f[q].pc = "open"
               PROVE  h2.blocks[f[q].block].of = <<f[q].file, f[q].at>>
    BY DEF RightFor
  <2>1. h2.blocks[f[q].block].live
    BY <1>5, HeldIsLive
  <2>2. f[q].block \in Objects
    BY <1>5 DEF ReaderOK
  <2>3. h2.blocks[f[q].block] = h.blocks[f[q].block]
    BY <1>3, <2>1, <2>2 DEF BlocksKeep
  <2> QED  BY <1>1, <2>3 DEF RightFor
<1> QED  BY <1>5, <1>6

\* Entries and tables that are left keep their names.
LEMMA NamesStay ==
  ASSUME NEW h, NEW tab, NEW en, NEW id, Names(h, tab, en, id), NEW h2, NEW tab2, NEW en2,
         BlocksStay(h, h2), TablesStay(tab, tab2), EntriesStay(en, en2),
         \A b \in Live(en2) : h2.blocks[b].live
  PROVE  Names(h2, tab2, en2, id)
<1>1. \A b \in Live(en2) : h2.blocks[b] = h.blocks[b]
  BY DEF BlocksStay, Live
<1>2. BlockCache => \A t \in Live(tab2) : tab2[t].id < id
  BY DEF Names, TablesStay
<1>3. BlockCache => \A t, u \in Live(tab2) : tab2[t].id = tab2[u].id => t = u
  BY DEF Names, TablesStay
<1>4. ~BlockCache => Live(en2) = {}
  BY DEF Names, EntriesStay
<1>5. \A b \in Live(en2) : en2[b].key[1] < id
  BY DEF Names, EntriesStay
<1>6. \A b \in Live(en2) : \A t \in Live(tab2) : tab2[t].id = en2[b].key[1] =>
        h2.blocks[b].of = <<tab2[t].file, en2[b].key[2]>>
  BY <1>1 DEF Names, EntriesStay, TablesStay
<1> QED  BY <1>2, <1>3, <1>4, <1>5, <1>6 DEF Names

\* A cached block is a block.
LEMMA EntriesHaveBlocks ==
  ASSUME NEW h, NEW tab, NEW en, NEW T, NEW D, NEW R, Good(h, tab, en, T, D, R)
  PROVE  \A b \in Live(en) : h.blocks[b].live
  BY DEF Good, HeapIs, BlocksOf, Live

\* To stay is more than to keep.
LEMMA StayIsKeep ==
  ASSUME NEW h, NEW h2, BlocksStay(h, h2), NEW tab, NEW tab2, TablesStay(tab, tab2)
  PROVE  BlocksKeep(h, h2) /\ TablesKeep(tab, tab2)
  BY DEF BlocksStay, BlocksKeep, TablesStay, TablesKeep

\* Tables and entries stay when nothing happens to them.
LEMMA SameStay ==
  ASSUME NEW tab, NEW en
  PROVE  TablesStay(tab, tab) /\ EntriesStay(en, en)
  BY DEF TablesStay, EntriesStay

-----------------------------------------------------------------------------
(* The code's helpers                                                      *)

\* A table with one reference less is still a table.
LEMMA LessIsTable ==
  ASSUME NEW w \in TableType, NEW cached \in BOOLEAN, w.refs # 0
  PROVE  [w EXCEPT !.cached = cached, !.refs = @ - 1] \in TableType
<1>1. w.refs - 1 \in Nat
  BY DEF TableType
<1> QED  BY <1>1 DEF TableType

\* An entry with one reference less is still an entry.
LEMMA LessIsEntry ==
  ASSUME NEW w \in EntryType, NEW cached \in BOOLEAN, w.refs # 0
  PROVE  [w EXCEPT !.cached = cached, !.refs = @ - 1] \in EntryType
<1>1. w.refs - 1 \in Nat
  BY DEF EntryType
<1> QED  BY <1>1 DEF EntryType

\* The updates of the helpers.
SetTo(f, o, w) == [f EXCEPT ![o] = w]
WithCached(f, o, cached) == [f EXCEPT ![o].cached = cached]
Less(w, cached) == IF w.refs = 1 THEN Free ELSE [w EXCEPT !.cached = cached, !.refs = @ - 1]

\* LRUCache::Unref on a table: one reference less, and the deleter at zero.
LEMMA UnrefTableIs ==
  ASSUME NEW h, NEW t \in Live(table), table \in [Objects -> {Free} \cup TableType], table[t].refs # 0,
         NEW cached, cached \in BOOLEAN, NEW tab, tab = WithCached(table, t, cached)
  PROVE  /\ TableUnref(h, table, t, cached, UnrefTable(h, tab, t).h, UnrefTable(h, tab, t).table)
         /\ UnrefTable(h, tab, t).table =
              SetTo(table, t, Less(table[t], cached))
<1> DEFINE w == [table[t] EXCEPT !.cached = cached, !.refs = @ - 1]
           y == UnrefTable(h, tab, t)
<1>1. t \in Objects /\ table[t] \in TableType
  BY TableFields
<1>2. w \in TableType
  BY <1>1, LessIsTable
<1>3. tab[t] = [table[t] EXCEPT !.cached = cached] /\ tab[t].refs = table[t].refs
  BY <1>1 DEF TableType, WithCached
<1>4. CASE table[t].refs = 1
  <2>1. y.h = DeleteTable(h, t) /\ y.table = [tab EXCEPT ![t] = Free]
    BY <1>3, <1>4 DEF UnrefTable
  <2>2. y.table = [table EXCEPT ![t] = Free]
    BY <2>1, <1>1 DEF WithCached
  <2>3. y.table \in [Objects -> {Free} \cup TableType] /\ y.table[t] = Free /\ OnlyAt(table, y.table, t)
    <3> HIDE DEF y
    <3> QED  BY <2>2, <1>1 DEF OnlyAt
  <2> HIDE DEF y
  <2>4. TableUnref(h, table, t, cached, y.h, y.table)
    BY <1>4, <2>1, <2>3 DEF TableUnref, DeleteTable
  <2> QED  BY <1>4, <2>2, <2>4 DEF y, SetTo, Less
<1>5. CASE table[t].refs # 1
  <2>1. y.h = h /\ y.table = [tab EXCEPT ![t].refs = @ - 1]
    BY <1>3, <1>5 DEF UnrefTable
  <2>2. [tab[t] EXCEPT !.refs = @ - 1] = w
    BY <1>1, <1>3 DEF TableType
  <2>3. y.table = [table EXCEPT ![t] = w]
    <3>1. y.table = [tab EXCEPT ![t] = [tab[t] EXCEPT !.refs = @ - 1]]
      BY <2>1
    <3>2. y.table = [tab EXCEPT ![t] = w]
      BY <3>1, <2>2
    <3> HIDE DEF w, y
    <3> QED  BY <3>2, <1>1 DEF WithCached
  <2> HIDE DEF w
  <2>4. y.table \in [Objects -> {Free} \cup TableType] /\ y.table[t] = w /\ OnlyAt(table, y.table, t)
    <3> HIDE DEF y
    <3> QED  BY <2>3, <1>1, <1>2 DEF OnlyAt
  <2> HIDE DEF y
  <2>5. TableUnref(h, table, t, cached, y.h, y.table)
    BY <1>5, <2>1, <2>4 DEF TableUnref, w
  <2> QED  BY <1>5, <2>3, <2>5 DEF y, w, SetTo, Less
<1> QED  BY <1>4, <1>5

\* The table that the table cache drops to make room.
LEMMA UncachedIs ==
  ASSUME NEW h, NEW S, S # {}, S \subseteq Live(table), table \in [Objects -> {Free} \cup TableType],
         \A t \in S : table[t].refs # 0
  PROVE  LET t == New(S)
             y == Uncached(h, table, S)
         IN  /\ t \in S
             /\ TableUnref(h, table, t, FALSE, y.h, y.table)
             /\ y.table = SetTo(table, t, Less(table[t], FALSE))
<1>1. PICK t : t = New(S)
  OBVIOUS
<1>2. t \in S /\ t \in Live(table) /\ table[t].refs # 0
  BY <1>1, NewInSet
<1>3. PICK tab : tab = WithCached(table, t, FALSE)
  OBVIOUS
<1>4. Uncached(h, table, S) = UnrefTable(h, tab, t)
  BY <1>1, <1>3 DEF Uncached, WithCached
<1>5. /\ TableUnref(h, table, t, FALSE, UnrefTable(h, tab, t).h, UnrefTable(h, tab, t).table)
      /\ UnrefTable(h, tab, t).table =
           SetTo(table, t, Less(table[t], FALSE))
  <2>1. PICK c \in BOOLEAN : c = FALSE
    OBVIOUS
  <2>2. tab = WithCached(table, t, c)
    BY <1>3, <2>1
  <2>3. /\ TableUnref(h, table, t, c, UnrefTable(h, tab, t).h, UnrefTable(h, tab, t).table)
        /\ UnrefTable(h, tab, t).table =
             SetTo(table, t, Less(table[t], c))
    BY <1>2, <2>2, UnrefTableIs
  <2> QED  BY <2>1, <2>3
<1> QED  BY <1>1, <1>2, <1>4, <1>5

\* LRUCache::Unref on a block: one reference less, and the deleter at zero.
LEMMA UnrefEntryIs ==
  ASSUME NEW h, NEW en, NEW b \in Live(en), en \in [Objects -> {Free} \cup EntryType], en[b].refs # 0,
         NEW cached, cached \in BOOLEAN, NEW e, e = WithCached(en, b, cached)
  PROVE  /\ EntryUnref(h, en, b, cached, UnrefEntry(h, e, b).h, UnrefEntry(h, e, b).entry)
         /\ UnrefEntry(h, e, b).entry =
              SetTo(en, b, Less(en[b], cached))
<1> DEFINE w == [en[b] EXCEPT !.cached = cached, !.refs = @ - 1]
           y == UnrefEntry(h, e, b)
<1>1. b \in Objects /\ en[b] \in EntryType
  BY EntryFields
<1>2. w \in EntryType
  BY <1>1, LessIsEntry
<1>3. e[b] = [en[b] EXCEPT !.cached = cached] /\ e[b].refs = en[b].refs
  BY <1>1 DEF EntryType, WithCached
<1>4. CASE en[b].refs = 1
  <2>1. y.h = DeleteBlock(h, b) /\ y.entry = [e EXCEPT ![b] = Free]
    BY <1>3, <1>4 DEF UnrefEntry
  <2>2. y.entry = [en EXCEPT ![b] = Free]
    BY <2>1, <1>1 DEF WithCached
  <2>3. y.entry \in [Objects -> {Free} \cup EntryType] /\ y.entry[b] = Free /\ OnlyAt(en, y.entry, b)
    <3> HIDE DEF y
    <3> QED  BY <2>2, <1>1 DEF OnlyAt
  <2> HIDE DEF y
  <2>4. EntryUnref(h, en, b, cached, y.h, y.entry)
    BY <1>4, <2>1, <2>3 DEF EntryUnref
  <2> QED  BY <1>4, <2>2, <2>4 DEF y, SetTo, Less
<1>5. CASE en[b].refs # 1
  <2>1. y.h = h /\ y.entry = [e EXCEPT ![b].refs = @ - 1]
    BY <1>3, <1>5 DEF UnrefEntry
  <2>2. [e[b] EXCEPT !.refs = @ - 1] = w
    BY <1>1, <1>3 DEF EntryType
  <2>3. y.entry = [en EXCEPT ![b] = w]
    <3>1. y.entry = [e EXCEPT ![b] = [e[b] EXCEPT !.refs = @ - 1]]
      BY <2>1
    <3>2. y.entry = [e EXCEPT ![b] = w]
      BY <3>1, <2>2
    <3> HIDE DEF w, y
    <3> QED  BY <3>2, <1>1 DEF WithCached
  <2> HIDE DEF w
  <2>4. y.entry \in [Objects -> {Free} \cup EntryType] /\ y.entry[b] = w /\ OnlyAt(en, y.entry, b)
    <3> HIDE DEF y
    <3> QED  BY <2>3, <1>1, <1>2 DEF OnlyAt
  <2> HIDE DEF y
  <2>5. EntryUnref(h, en, b, cached, y.h, y.entry)
    BY <1>5, <2>1, <2>4 DEF EntryUnref, w
  <2> QED  BY <1>5, <2>3, <2>5 DEF y, w, SetTo, Less
<1> QED  BY <1>4, <1>5

\* Updates that change nothing.
LEMMA TableAsBefore ==
  ASSUME table \in [Objects -> {Free} \cup TableType], NEW t \in Live(table)
  PROVE  table[t].cached \in BOOLEAN /\ table = WithCached(table, t, table[t].cached)
<1>1. t \in Objects /\ table[t] \in TableType
  BY TableFields
<1>2. [table[t] EXCEPT !.cached = table[t].cached] = table[t] /\ table[t].cached \in BOOLEAN
  BY <1>1 DEF TableType
<1>3. [table EXCEPT ![t].cached = table[t].cached] = [table EXCEPT ![t] = [table[t] EXCEPT !.cached = table[t].cached]]
  OBVIOUS
<1>4. [table EXCEPT ![t].cached = table[t].cached] = [table EXCEPT ![t] = table[t]]
  BY <1>2, <1>3
<1>5. [table EXCEPT ![t] = table[t]] = table
  BY <1>1
<1> QED  BY <1>2, <1>4, <1>5 DEF WithCached

\* An entry whose flag is set to what it was is as it was.
LEMMA EntryAsBefore ==
  ASSUME NEW en \in [Objects -> {Free} \cup EntryType], NEW b \in Live(en)
  PROVE  en[b].cached \in BOOLEAN /\ en = WithCached(en, b, en[b].cached)
<1>1. b \in Objects /\ en[b] \in EntryType
  BY EntryFields
<1>2. [en[b] EXCEPT !.cached = en[b].cached] = en[b] /\ en[b].cached \in BOOLEAN
  BY <1>1 DEF EntryType
<1>3. [en EXCEPT ![b].cached = en[b].cached] = [en EXCEPT ![b] = [en[b] EXCEPT !.cached = en[b].cached]]
  OBVIOUS
<1>4. [en EXCEPT ![b].cached = en[b].cached] = [en EXCEPT ![b] = en[b]]
  BY <1>2, <1>3
<1>5. [en EXCEPT ![b] = en[b]] = en
  BY <1>1
<1> QED  BY <1>2, <1>4, <1>5 DEF WithCached

\* The block that the block cache drops to make room.
LEMMA ErasedIs ==
  ASSUME NEW h, NEW en, NEW S, S # {}, S \subseteq Live(en), en \in [Objects -> {Free} \cup EntryType],
         \A b \in S : en[b].refs # 0
  PROVE  LET b == New(S)
             y == Erased(h, en, S)
         IN  /\ b \in S
             /\ EntryUnref(h, en, b, FALSE, y.h, y.entry)
             /\ y.entry = SetTo(en, b, Less(en[b], FALSE))
<1>1. PICK b : b = New(S)
  OBVIOUS
<1>2. b \in S /\ b \in Live(en) /\ en[b].refs # 0
  BY <1>1, NewInSet
<1>3. PICK e : e = WithCached(en, b, FALSE)
  OBVIOUS
<1>4. Erased(h, en, S) = UnrefEntry(h, e, b)
  BY <1>1, <1>3 DEF Erased, WithCached
<1>5. /\ EntryUnref(h, en, b, FALSE, UnrefEntry(h, e, b).h, UnrefEntry(h, e, b).entry)
      /\ UnrefEntry(h, e, b).entry = SetTo(en, b, Less(en[b], FALSE))
  <2>1. PICK c \in BOOLEAN : c = FALSE
    OBVIOUS
  <2>2. e = WithCached(en, b, c)
    BY <1>3, <2>1
  <2>3. /\ EntryUnref(h, en, b, c, UnrefEntry(h, e, b).h, UnrefEntry(h, e, b).entry)
        /\ UnrefEntry(h, e, b).entry = SetTo(en, b, Less(en[b], c))
    BY <1>2, <2>2, UnrefEntryIs
  <2> QED  BY <2>1, <2>3
<1> QED  BY <1>1, <1>2, <1>4, <1>5

\* Counts are never zero.
LEMMA CountsPositive ==
  ASSUME NEW h, NEW tab, NEW en, NEW T, NEW D, NEW R, Good(h, tab, en, T, D, R)
  PROVE  (\A t \in Live(tab) : tab[t].refs # 0) /\ (\A b \in Live(en) : en[b].refs # 0)
         /\ tab \in [Objects -> {Free} \cup TableType] /\ en \in [Objects -> {Free} \cup EntryType]
  BY DEF Good, TablesOK, EntriesOK, Counted

\* What is left to a reader whose block goes the way "how".
Minus(H, r, block, how, way) == IF how = way THEN H \ {<<r, block>>} ELSE H

\* The cleanup function that a reader registered for its block.
LEMMA CleanupGood ==
  ASSUME BlockReadsAssumption, NEW h, NEW tab, NEW en, NEW T, NEW D, NEW R, Good(h, tab, en, T, D, R),
         NEW r \in Readers, NEW block, NEW how \in {"none", "delete", "release"},
         how # "none" => block \in Objects,
         how = "delete" => <<r, block>> \in D, how = "release" => <<r, block>> \in R,
         NEW x, x = Cleanup(h, en, block, how),
         NEW D2, D2 = Minus(D, r, block, how, "delete"),
         NEW R2, R2 = Minus(R, r, block, how, "release")
  PROVE  Good(x.h, tab, x.entry, T, D2, R2) /\ BlocksStay(h, x.h) /\ EntriesStay(en, x.entry)
<1>1. CASE how = "none"
  <2>1. x.h = h /\ x.entry = en /\ D2 = D /\ R2 = R
    BY <1>1 DEF Cleanup, Minus
  <2> QED  BY <2>1, SameBlocksStay, SameStay
<1>2. CASE how = "delete"
  <2>1. x.h = DeleteBlock(h, block) /\ x.entry = en /\ D2 = D \ {<<r, block>>} /\ R2 = R
    BY <1>2 DEF Cleanup, Minus
  <2> QED  BY <1>2, <2>1, OwnGoes, SameStay
<1>3. CASE how = "release"
  <2>1. x = UnrefEntry(h, en, block) /\ D2 = D /\ R2 = R \ {<<r, block>>}
    BY <1>3 DEF Cleanup, Minus
  <2>2. block \in Live(en) /\ block \in Objects
    BY <1>3 DEF Good, EntriesOK, Counted, Live
  <2>3. en \in [Objects -> {Free} \cup EntryType] /\ en[block].refs # 0
    BY <2>2, CountsPositive
  <2>4. en[block].cached \in BOOLEAN /\ en = WithCached(en, block, en[block].cached)
    BY <2>2, <2>3, EntryAsBefore
  <2>5. EntryUnref(h, en, block, en[block].cached, x.h, x.entry)
    BY <2>1, <2>2, <2>3, <2>4, UnrefEntryIs
  <2>6. <<r, block>> \in R
    BY <1>3
  <2>7. Good(x.h, tab, x.entry, T, D, R \ {<<r, block>>}) /\ BlocksStay(h, x.h) /\ EntriesStay(en, x.entry)
    BY <2>2, <2>5, <2>6, EntryReleased
  <2> QED  BY <2>1, <2>7
<1> QED  BY <1>1, <1>2, <1>3

-----------------------------------------------------------------------------
(* The actions                                                             *)

\* The table cache drops a table.
LEMMA EvictTableStep ==
  ASSUME BlockReadsAssumption, IInv, NEW n \in Files, EvictTable(n)
  PROVE  IInv'
<1> DEFINE S == CachedTable(n)
           t == New(S)
           y == Uncached(heap, table, S)
           T == HeldT(iter)
           D == HeldB(iter, "delete")
           R == HeldB(iter, "release")
<1>1. Good(heap, table, entry, T, D, R) /\ Names(heap, table, entry, nextId)
  BY DEF IInv, Inv
<1>2. S # {} /\ heap' = y.h /\ table' = y.table /\ entry' = entry /\ nextId' = nextId /\ iter' = iter
  BY DEF EvictTable
<1>3. S \subseteq Live(table) /\ \A u \in S : table[u].cached
  BY DEF CachedTable, Live
<1>4. table \in [Objects -> {Free} \cup TableType] /\ \A u \in S : table[u].refs # 0
  BY <1>1, <1>3, CountsPositive
<1> HIDE DEF S
<1>5. t \in S /\ TableUnref(heap, table, t, FALSE, y.h, y.table)
  BY <1>2, <1>3, <1>4, UncachedIs
<1> HIDE DEF y, t, T, D, R
<1>6. Good(y.h, y.table, entry, T, D, R) /\ BlocksStay(heap, y.h) /\ TablesStay(table, y.table)
  BY <1>1, <1>3, <1>5, TableUncached
<1>7. Names(y.h, y.table, entry, nextId)
  BY <1>1, <1>6, NamesStay, SameStay, EntriesHaveBlocks
<1>8. BlocksKeep(heap, y.h) /\ TablesKeep(table, y.table)
  BY <1>6, StayIsKeep
<1>9. Inv(y.h, y.table, entry, nextId, iter)
  BY <1>6, <1>7, <1>8, CacheStep DEF IInv, T, D, R
<1> QED  BY <1>2, <1>9 DEF IInv

\* The block cache drops a block.
LEMMA EvictBlockStep ==
  ASSUME BlockReadsAssumption, IInv, NEW b \in Objects, EvictBlock(b)
  PROVE  IInv'
<1> DEFINE y == Erased(heap, entry, {b})
           T == HeldT(iter)
           D == HeldB(iter, "delete")
           R == HeldB(iter, "release")
<1>1. Good(heap, table, entry, T, D, R) /\ Names(heap, table, entry, nextId)
  BY DEF IInv, Inv
<1>2. heap' = y.h /\ entry' = y.entry /\ table' = table /\ nextId' = nextId /\ iter' = iter
  BY DEF EvictBlock
<1>3. b \in Live(entry) /\ entry[b].cached
  BY DEF EvictBlock, Live
<1>4. entry \in [Objects -> {Free} \cup EntryType] /\ \A c \in {b} : entry[c].refs # 0
  BY <1>1, <1>3, CountsPositive
<1>5. New({b}) = b /\ {b} # {} /\ {b} \subseteq Live(entry)
  BY <1>3, NewInSet
<1>6. EntryUnref(heap, entry, b, FALSE, y.h, y.entry)
  BY <1>4, <1>5, ErasedIs
<1> HIDE DEF y, T, D, R
<1>7. Good(y.h, table, y.entry, T, D, R) /\ BlocksStay(heap, y.h) /\ EntriesStay(entry, y.entry)
  BY <1>1, <1>3, <1>6, EntryUncached
<1>8. Names(y.h, table, y.entry, nextId)
  BY <1>1, <1>7, NamesStay, SameStay, EntriesHaveBlocks
<1>9. BlocksKeep(heap, y.h) /\ TablesKeep(table, table)
  BY <1>7, StayIsKeep, SameStay
<1>10. Inv(y.h, table, y.entry, nextId, iter)
  BY <1>7, <1>8, <1>9, CacheStep DEF IInv, T, D, R
<1> QED  BY <1>2, <1>10 DEF IInv

\* What a reader holds after it gave back its block, or takes nothing new.
LEMMA HeldDropped ==
  ASSUME NEW f, NEW g, NEW r \in Readers, OnlyReader(f, g, r), NEW how, g[r].how # how
  PROVE  HeldB(g, how) = Minus(HeldB(f, how), r, f[r].block, f[r].how, how)
<1>1. HeldB(g, how) = (HeldB(f, how) \ MineB(f, r, how)) \cup MineB(g, r, how)
  BY HeldBStep
<1> QED  BY <1>1 DEF MineB, Minus

\* A reader that keeps its block changes nothing of who holds blocks.
LEMMA HeldSame ==
  ASSUME NEW f, NEW g, NEW r \in Readers, OnlyReader(f, g, r), NEW how,
         g[r].how = f[r].how, g[r].block = f[r].block
  PROVE  HeldB(g, how) = HeldB(f, how)
<1>1. HeldB(g, how) = (HeldB(f, how) \ MineB(f, r, how)) \cup MineB(g, r, how)
      /\ MineB(f, r, how) \subseteq HeldB(f, how)
  BY HeldBStep
<1>2. MineB(g, r, how) = MineB(f, r, how)
  BY DEF MineB
<1> QED  BY <1>1, <1>2

\* A reader takes a block, for the one it had if it had one.
LEMMA HeldTaken ==
  ASSUME NEW f, NEW g, NEW r \in Readers, OnlyReader(f, g, r), NEW how, g[r].how = how,
         f[r].how # how \/ f[r].block # g[r].block
  PROVE  /\ HeldB(g, how) = Minus(HeldB(f, how) \cup {<<r, g[r].block>>}, r, f[r].block, f[r].how, how)
         /\ <<r, g[r].block>> \notin HeldB(f, how)
<1>1. HeldB(g, how) = (HeldB(f, how) \ MineB(f, r, how)) \cup MineB(g, r, how)
  BY HeldBStep
<1>2. <<r, g[r].block>> \notin HeldB(f, how)
  BY DEF HeldB
<1>3. f[r].how = how => <<r, g[r].block>> # <<r, f[r].block>>
  OBVIOUS
<1> QED  BY <1>1, <1>2, <1>3 DEF MineB, Minus

\* A reader that keeps its table changes nothing of who holds tables.
LEMMA HeldSameT ==
  ASSUME NEW f, NEW g, NEW r \in Readers, OnlyReader(f, g, r), g[r].table = f[r].table
  PROVE  HeldT(g) = HeldT(f)
<1>1. HeldT(g) = (HeldT(f) \ MineT(f, r)) \cup MineT(g, r) /\ MineT(f, r) \subseteq HeldT(f)
  BY HeldTStep
<1>2. MineT(g, r) = MineT(f, r)
  BY DEF MineT
<1> QED  BY <1>1, <1>2

\* A reader takes a table.
LEMMA HeldTakenT ==
  ASSUME NEW f, NEW g, NEW r \in Readers, OnlyReader(f, g, r), f[r].table = None, g[r].table # None
  PROVE  HeldT(g) = HeldT(f) \cup {<<r, g[r].table>>} /\ <<r, g[r].table>> \notin HeldT(f)
<1>1. HeldT(g) = (HeldT(f) \ MineT(f, r)) \cup MineT(g, r)
      /\ \A t : t # f[r].table => <<r, t>> \notin HeldT(f)
  BY HeldTStep
<1> QED  BY <1>1 DEF MineT

\* A reader gives its table back.
LEMMA HeldDroppedT ==
  ASSUME NEW f, NEW g, NEW r \in Readers, OnlyReader(f, g, r), f[r].table # None, g[r].table = None
  PROVE  HeldT(g) = HeldT(f) \ {<<r, f[r].table>>}
<1>1. HeldT(g) = (HeldT(f) \ MineT(f, r)) \cup MineT(g, r)
  BY HeldTStep
<1> QED  BY <1>1 DEF MineT

\* An assignment to iter[r] is a step of reader r.
LEMMA ReaderSet ==
  ASSUME NEW f, f = [q \in Readers |-> f[q]], NEW r \in Readers, NEW w, NEW g, g = [f EXCEPT ![r] = w]
  PROVE  g[r] = w /\ OnlyReader(f, g, r) /\ g = [q \in Readers |-> g[q]]
<1>1. g[r] = w
  OBVIOUS
<1>2. OnlyReader(f, g, r)
  BY DEF OnlyReader
<1>3. g = [q \in Readers |-> g[q]]
  OBVIOUS
<1> QED  BY <1>1, <1>2, <1>3

\* What a reader knows of itself.
LEMMA Myself ==
  ASSUME IInv, NEW r \in Readers
  PROVE  /\ Good(heap, table, entry, HeldT(iter), HeldB(iter, "delete"), HeldB(iter, "release"))
         /\ Names(heap, table, entry, nextId) /\ iter = [q \in Readers |-> iter[q]]
         /\ ReaderOK(table, iter, r) /\ RightFor(heap, iter, r) /\ iter[r] \in ReaderType
         /\ iter[r].how = "delete" => <<r, iter[r].block>> \in HeldB(iter, "delete")
         /\ iter[r].how = "release" => <<r, iter[r].block>> \in HeldB(iter, "release")
<1>1. /\ Good(heap, table, entry, HeldT(iter), HeldB(iter, "delete"), HeldB(iter, "release"))
      /\ Names(heap, table, entry, nextId) /\ iter = [q \in Readers |-> iter[q]]
      /\ ReaderOK(table, iter, r) /\ RightFor(heap, iter, r)
  BY DEF IInv, Inv
<1>2. iter[r] \in ReaderType
  BY <1>1 DEF ReaderOK
<1>3. /\ iter[r].how = "delete" => <<r, iter[r].block>> \in HeldB(iter, "delete")
      /\ iter[r].how = "release" => <<r, iter[r].block>> \in HeldB(iter, "release")
  BY DEF HeldB
<1> QED  BY <1>1, <1>2, <1>3

\* A reader gives its table back to the table cache.
LEMMA ReleaseTableStep ==
  ASSUME BlockReadsAssumption, IInv, NEW r \in Readers, ReleaseTable(r)
  PROVE  IInv'
<1> DEFINE t == iter[r].table
           y == UnrefTable(heap, table, t)
           T == HeldT(iter)
           D == HeldB(iter, "delete")
           R == HeldB(iter, "release")
<1>1. /\ Good(heap, table, entry, T, D, R) /\ Names(heap, table, entry, nextId)
      /\ iter = [q \in Readers |-> iter[q]] /\ ReaderOK(table, iter, r) /\ iter[r] \in ReaderType
  BY Myself
<1>2. /\ iter[r].pc = "closing" /\ heap' = y.h /\ table' = y.table /\ entry' = entry /\ nextId' = nextId
      /\ iter' = [iter EXCEPT ![r] = NoIterator]
  BY DEF ReleaseTable
<1>3. iter'[r] = NoIterator /\ OnlyReader(iter, iter', r) /\ iter' = [q \in Readers |-> iter'[q]]
  BY <1>1, <1>2, ReaderSet
<1>4. t # None /\ iter[r].how = "none"
  BY <1>1, <1>2 DEF ReaderOK, Holding
<1>5. t \in Live(table) /\ <<r, t>> \in T /\ t \in Objects
  BY <1>1, <1>4, HeldIsLive DEF Live
<1>6. \A x \in D : x[1] # r
  BY <1>4 DEF HeldB
<1>7. table \in [Objects -> {Free} \cup TableType] /\ table[t].refs # 0
  BY <1>1, <1>5, CountsPositive
<1>8. table[t].cached \in BOOLEAN /\ table = WithCached(table, t, table[t].cached)
  BY <1>5, <1>7, TableAsBefore
<1>9. TableUnref(heap, table, t, table[t].cached, y.h, y.table)
  BY <1>5, <1>7, <1>8, UnrefTableIs
<1>10. HeldT(iter') = T \ {<<r, t>>} /\ HeldB(iter', "delete") = D /\ HeldB(iter', "release") = R
  <2>1. iter'[r].table = None /\ iter'[r].how = "none"
    BY <1>3 DEF NoIterator
  <2> QED  BY <1>3, <1>4, <2>1, HeldDroppedT, HeldDropped DEF Minus
<1> HIDE DEF y, T, D, R, t
<1>11. Good(y.h, y.table, entry, T \ {<<r, t>>}, D, R) /\ BlocksStay(heap, y.h) /\ TablesStay(table, y.table)
  BY <1>1, <1>5, <1>6, <1>9, TableReleased, SMTT(40)
<1>12. Names(y.h, y.table, entry, nextId)
  BY <1>1, <1>11, NamesStay, SameStay, EntriesHaveBlocks
<1>13. BlocksKeep(heap, y.h) /\ TablesKeep(table, y.table)
  BY <1>11, StayIsKeep
<1>14. ReaderOK(y.table, iter', r) /\ RightFor(y.h, iter', r)
  BY <1>3 DEF ReaderOK, RightFor, NoIterator, ReaderType, Holding
<1>15. Inv(y.h, y.table, entry, nextId, iter')
  BY <1>3, <1>10, <1>11, <1>12, <1>13, <1>14, ReaderStep DEF IInv
<1> QED  BY <1>2, <1>15 DEF IInv

\* The block of a reader goes, and it has no other one.
LEMMA DropBlock ==
  ASSUME BlockReadsAssumption, IInv, NEW r \in Readers, NEW g, NEW x,
         x = Cleanup(heap, entry, iter[r].block, iter[r].how), OnlyReader(iter, g, r),
         g = [q \in Readers |-> g[q]], g[r].how = "none", g[r].table = iter[r].table, ReaderOK(table, g, r)
  PROVE  Inv(x.h, table, x.entry, nextId, g)
<1> DEFINE T == HeldT(iter)
           D == HeldB(iter, "delete")
           R == HeldB(iter, "release")
<1>1. /\ Good(heap, table, entry, T, D, R) /\ Names(heap, table, entry, nextId)
      /\ ReaderOK(table, iter, r) /\ iter[r] \in ReaderType
      /\ iter[r].how = "delete" => <<r, iter[r].block>> \in D
      /\ iter[r].how = "release" => <<r, iter[r].block>> \in R
  BY Myself
<1>2. iter[r].how \in {"none", "delete", "release"} /\ (iter[r].how # "none" => iter[r].block \in Objects)
  BY <1>1 DEF ReaderOK, ReaderType
<1>3. HeldT(g) = T
  BY HeldSameT
<1>4. HeldB(g, "delete") = Minus(D, r, iter[r].block, iter[r].how, "delete")
  BY HeldDropped
<1>5. HeldB(g, "release") = Minus(R, r, iter[r].block, iter[r].how, "release")
  BY HeldDropped
<1> HIDE DEF T, D, R
<1>6. /\ Good(x.h, table, x.entry, T, HeldB(g, "delete"), HeldB(g, "release"))
      /\ BlocksStay(heap, x.h) /\ EntriesStay(entry, x.entry)
  BY <1>1, <1>2, <1>4, <1>5, CleanupGood
<1>7. Names(x.h, table, x.entry, nextId)
  BY <1>1, <1>6, NamesStay, SameStay, EntriesHaveBlocks
<1>8. BlocksKeep(heap, x.h) /\ TablesKeep(table, table)
  BY <1>6, StayIsKeep, SameStay
<1>9. RightFor(x.h, g, r)
  BY DEF RightFor
<1> QED  BY <1>3, <1>6, <1>7, <1>8, <1>9, ReaderStep DEF IInv

\* An iterator leaves its block: it deletes it or releases it.
LEMMA LeaveBlockStep ==
  ASSUME BlockReadsAssumption, IInv, NEW r \in Readers, LeaveBlock(r)
  PROVE  IInv'
<1>1. PICK x : x = Cleanup(heap, entry, iter[r].block, iter[r].how)
  OBVIOUS
<1>2. /\ heap' = x.h /\ entry' = x.entry /\ table' = table /\ nextId' = nextId /\ iter[r].pc = "open"
      /\ iter' = [iter EXCEPT ![r].pc = "open", ![r].block = None, ![r].how = "none"]
  BY <1>1 DEF LeaveBlock, SetData
<1>3. PICK w : w = [iter[r] EXCEPT !.pc = "open", !.block = None, !.how = "none"]
  OBVIOUS
<1>4. iter = [q \in Readers |-> iter[q]] /\ ReaderOK(table, iter, r) /\ iter[r] \in ReaderType
  BY Myself
<1>5. iter' = [iter EXCEPT ![r] = w]
  BY <1>2, <1>3, <1>4
<1>6. iter'[r] = w /\ OnlyReader(iter, iter', r) /\ iter' = [q \in Readers |-> iter'[q]]
  BY <1>4, <1>5, ReaderSet
<1>7. /\ w \in ReaderType /\ w.pc = "open" /\ w.how = "none" /\ w.table = iter[r].table /\ w.file = iter[r].file
      /\ w.at = iter[r].at
  BY <1>3, <1>4 DEF ReaderType, Holding
<1>8. ReaderOK(table, iter', r)
  BY <1>2, <1>4, <1>6, <1>7 DEF ReaderOK
<1>9. Inv(x.h, table, x.entry, nextId, iter')
  BY <1>1, <1>6, <1>7, <1>8, DropBlock
<1> QED  BY <1>2, <1>9 DEF IInv

\* A reader deletes its iterator.
LEMMA DeleteIteratorStep ==
  ASSUME BlockReadsAssumption, IInv, NEW r \in Readers, DeleteIterator(r)
  PROVE  IInv'
<1>1. PICK x : x = Cleanup(heap, entry, iter[r].block, iter[r].how)
  OBVIOUS
<1>2. PICK w : w = [NoIterator EXCEPT !.pc = "closing", !.file = iter[r].file, !.table = iter[r].table]
  OBVIOUS
<1>3. /\ heap' = x.h /\ entry' = x.entry /\ table' = table /\ nextId' = nextId /\ iter[r].pc = "open"
      /\ iter' = [iter EXCEPT ![r] = w]
  BY <1>1, <1>2 DEF DeleteIterator
<1>4. iter = [q \in Readers |-> iter[q]] /\ ReaderOK(table, iter, r) /\ iter[r] \in ReaderType
  BY Myself
<1>5. iter'[r] = w /\ OnlyReader(iter, iter', r) /\ iter' = [q \in Readers |-> iter'[q]]
  BY <1>3, <1>4, ReaderSet
<1>6. w \in ReaderType /\ w.pc = "closing" /\ w.how = "none" /\ w.table = iter[r].table /\ w.file = iter[r].file
  BY <1>2, <1>4 DEF ReaderType, Holding, NoIterator
<1>7. ReaderOK(table, iter', r)
  BY <1>3, <1>4, <1>5, <1>6 DEF ReaderOK, Holding
<1>8. Inv(x.h, table, x.entry, nextId, iter')
  BY <1>1, <1>5, <1>6, <1>7, DropBlock
<1> QED  BY <1>3, <1>8 DEF IInv

\* A count that goes up.
LEMMA TableMore ==
  ASSUME NEW w \in TableType, NEW v, v = [w EXCEPT !.refs = @ + 1]
  PROVE  /\ v \in TableType /\ v.live /\ v.cached = w.cached /\ v.refs = w.refs + 1
         /\ v.index = w.index /\ v.filter = w.filter /\ v.id = w.id /\ v.file = w.file
<1>1. w.refs + 1 \in Nat
  BY DEF TableType
<1>2. v \in TableType
  BY <1>1 DEF TableType
<1> QED  BY <1>2 DEF TableType

\* An entry with one reference more, and that one taken back.
LEMMA EntryMore ==
  ASSUME NEW w \in EntryType, NEW v, v = [w EXCEPT !.refs = @ + 1]
  PROVE  /\ v \in EntryType /\ v.live /\ v.cached = w.cached /\ v.refs = w.refs + 1 /\ v.key = w.key
         /\ [v EXCEPT !.refs = @ - 1] = w
<1>1. w.refs + 1 \in Nat /\ (w.refs + 1) - 1 = w.refs
  BY DEF EntryType
<1>2. v \in EntryType
  BY <1>1 DEF EntryType
<1>3. v.live /\ v.cached = w.cached /\ v.refs = w.refs + 1 /\ v.key = w.key
  BY DEF EntryType
<1>4. [v EXCEPT !.refs = @ - 1] = [w EXCEPT !.refs = (w.refs + 1) - 1]
  BY <1>3
<1>5. [w EXCEPT !.refs = w.refs] = w
  BY DEF EntryType
<1> QED  BY <1>1, <1>2, <1>3, <1>4, <1>5

\* A step that changes only what a reader is about to do.
LEMMA ReaderMoves ==
  ASSUME BlockReadsAssumption, IInv, NEW r \in Readers, NEW w, NEW g, g = [iter EXCEPT ![r] = w],
         w.how = iter[r].how, w.block = iter[r].block, w.table = iter[r].table,
         ReaderOK(table, g, r), RightFor(heap, g, r)
  PROVE  Inv(heap, table, entry, nextId, g)
<1>1. /\ Good(heap, table, entry, HeldT(iter), HeldB(iter, "delete"), HeldB(iter, "release"))
      /\ Names(heap, table, entry, nextId) /\ iter = [q \in Readers |-> iter[q]]
  BY Myself
<1>2. g[r] = w /\ OnlyReader(iter, g, r) /\ g = [q \in Readers |-> g[q]]
  BY <1>1, ReaderSet
<1>3. HeldT(g) = HeldT(iter) /\ HeldB(g, "delete") = HeldB(iter, "delete") /\ HeldB(g, "release") = HeldB(iter, "release")
  <2>1. g[r].how = iter[r].how /\ g[r].block = iter[r].block /\ g[r].table = iter[r].table
    BY <1>2
  <2>2. HeldT(g) = HeldT(iter)
    BY <1>2, <2>1, HeldSameT
  <2>3. ASSUME NEW how PROVE HeldB(g, how) = HeldB(iter, how)
    <3>1. PICK f : f = iter
      OBVIOUS
    <3>2. OnlyReader(f, g, r) /\ g[r].how = f[r].how /\ g[r].block = f[r].block
      BY <1>2, <2>1, <3>1
    <3>3. HeldB(g, how) = HeldB(f, how)
      BY <3>2, HeldSame, ZenonT(60)
    <3> QED  BY <3>1, <3>3
  <2> QED  BY <2>2, <2>3
<1>4. BlocksKeep(heap, heap) /\ TablesKeep(table, table)
  BY StayIsKeep, SameStay, SameBlocksStay
<1> QED  BY <1>1, <1>2, <1>3, <1>4, ReaderStep DEF IInv

\* FindTable: the table is in the cache, or has to be opened.
LEMMA FindTableStep ==
  ASSUME BlockReadsAssumption, IInv, NEW r \in Readers, NEW n \in Files, FindTable(r, n)
  PROVE  IInv'
<1> DEFINE S == CachedTable(n)
           t == New(S)
           T == HeldT(iter)
           D == HeldB(iter, "delete")
           R == HeldB(iter, "release")
<1>1. /\ Good(heap, table, entry, T, D, R) /\ Names(heap, table, entry, nextId)
      /\ iter = [q \in Readers |-> iter[q]] /\ ReaderOK(table, iter, r) /\ iter[r] \in ReaderType
  BY Myself
<1>2. iter[r].pc = "idle" /\ heap' = heap /\ entry' = entry /\ nextId' = nextId
  BY DEF FindTable
<1>3. iter[r].table = None /\ iter[r].how = "none"
  BY <1>1, <1>2 DEF ReaderOK, Holding
<1>4. CASE S = {}
  <2>1. table' = table /\ iter' = [iter EXCEPT ![r].pc = "opening", ![r].file = n]
    BY <1>4 DEF FindTable
  <2>2. PICK w : w = [iter[r] EXCEPT !.pc = "opening", !.file = n]
    OBVIOUS
  <2>3. iter' = [iter EXCEPT ![r] = w]
    BY <2>1, <2>2, <1>1
  <2>4. /\ w \in ReaderType /\ w.pc = "opening" /\ w.how = "none" /\ w.table = None /\ w.file = n
        /\ w.block = iter[r].block
    BY <2>2, <1>1, <1>3 DEF ReaderType, Holding
  <2>5. iter'[r] = w
    BY <2>3, <1>1, ReaderSet
  <2>6. ReaderOK(table, iter', r) /\ RightFor(heap, iter', r)
    BY <2>4, <2>5 DEF ReaderOK, RightFor, Holding
  <2>7. Inv(heap, table, entry, nextId, iter')
    BY <1>3, <2>3, <2>4, <2>6, ReaderMoves
  <2> QED  BY <1>2, <2>1, <2>7 DEF IInv
<1>5. CASE S # {}
  <2>1. /\ iter' = [iter EXCEPT ![r].pc = "open", ![r].file = n, ![r].table = t]
        /\ table' = [table EXCEPT ![t].refs = @ + 1]
    BY <1>5 DEF FindTable
  <2>2. t \in S /\ t \in Live(table) /\ table[t].file = n /\ t \in Objects
    BY <1>5, NewInSet DEF CachedTable, Live
  <2> HIDE DEF t, S
  <2>3. table \in [Objects -> {Free} \cup TableType] /\ table[t] \in TableType
    BY <1>1, <2>2, CountsPositive, TableFields
  <2>4. PICK v : v = [table[t] EXCEPT !.refs = @ + 1]
    OBVIOUS
  <2>5. /\ v \in TableType /\ v.live /\ v.cached = table[t].cached /\ v.refs = table[t].refs + 1
        /\ v.index = table[t].index /\ v.filter = table[t].filter /\ v.id = table[t].id /\ v.file = table[t].file
    BY <2>3, <2>4, TableMore
  <2>6. table' = [table EXCEPT ![t] = v]
    BY <2>1, <2>4
  <2>7. table'[t] = v /\ OnlyAt(table, table', t) /\ table' \in [Objects -> {Free} \cup TableType]
    BY <2>2, <2>3, <2>5, <2>6 DEF OnlyAt
  <2>8. PICK w : w = [iter[r] EXCEPT !.pc = "open", !.file = n, !.table = t]
    OBVIOUS
  <2>9. iter' = [iter EXCEPT ![r] = w]
    BY <2>1, <2>8, <1>1
  <2>10. /\ w \in ReaderType /\ w.pc = "open" /\ w.how = "none" /\ w.table = t /\ w.file = n
         /\ w.block = iter[r].block
    BY <2>2, <2>8, <1>1, <1>3 DEF ReaderType, Holding
  <2>11. iter'[r] = w /\ OnlyReader(iter, iter', r) /\ iter' = [q \in Readers |-> iter'[q]]
    BY <2>9, <1>1, ReaderSet
  <2>12. t # None
    BY <2>2 DEF BlockReadsAssumption, None
  <2>13. HeldT(iter') = T \cup {<<r, t>>} /\ <<r, t>> \notin T
    BY <1>3, <2>10, <2>11, <2>12, HeldTakenT
  <2>14. HeldB(iter', "delete") = D /\ HeldB(iter', "release") = R
    BY <1>3, <2>10, <2>11, HeldSame
  <2> HIDE DEF T, D, R
  <2>15. Counted(table', T \cup {<<r, t>>})
    <3>1. Counted(table, T)
      BY <1>1 DEF Good, TablesOK
    <3> QED  BY <3>1, <2>2, <2>5, <2>7, <2>13, CountTake
  <2>16. TablesOK(table', T \cup {<<r, t>>})
    BY <2>7, <2>15 DEF TablesOK
  <2>17. Good(heap, table', entry, T \cup {<<r, t>>}, D, R)
    <3>1. PICK T2 : T2 = T \cup {<<r, t>>}
      OBVIOUS
    <3>2. \A x \in D : \A u \in Objects : <<x[1], u>> \in T => <<x[1], u>> \in T2
      BY <3>1
    <3>3. TablesOK(table', T2)
      BY <3>1, <2>16
    <3>4. Good(heap, table', entry, T2, D, R)
      BY <1>1, <2>2, <2>5, <2>7, <3>2, <3>3, TableCounts
    <3> QED  BY <3>1, <3>4
  <2>18. TablesStay(table, table')
    BY <2>2, <2>5, <2>7, TablesStayAt
  <2>19. Names(heap, table', entry, nextId)
    BY <1>1, <2>18, NamesStay, SameStay, SameBlocksStay, EntriesHaveBlocks
  <2>20. BlocksKeep(heap, heap) /\ TablesKeep(table, table')
    BY <2>18, StayIsKeep, SameBlocksStay
  <2>21. ReaderOK(table', iter', r) /\ RightFor(heap, iter', r)
    BY <2>2, <2>5, <2>7, <2>10, <2>11 DEF ReaderOK, RightFor, Holding, None, BlockReadsAssumption
  <2>22. Inv(heap, table', entry, nextId, iter')
    BY <2>11, <2>13, <2>14, <2>17, <2>19, <2>20, <2>21, ReaderStep DEF IInv
  <2> QED  BY <1>2, <2>22 DEF IInv
<1> QED  BY <1>4, <1>5

\* BlockReader: the block is in the cache, or has to be read.
LEMMA BlockReaderStep ==
  ASSUME BlockReadsAssumption, IInv, NEW r \in Readers, NEW off \in Offsets, NEW fill \in BOOLEAN,
         BlockReader(r, off, fill)
  PROVE  IInv'
<1> DEFINE S == IF BlockCache THEN CachedBlock(CacheKey(r, off)) ELSE {}
           b == New(S)
           en == [entry EXCEPT ![b].refs = @ + 1]
           x == Cleanup(heap, en, iter[r].block, iter[r].how)
           t == iter[r].table
           T == HeldT(iter)
           D == HeldB(iter, "delete")
           R == HeldB(iter, "release")
<1>1. /\ Good(heap, table, entry, T, D, R) /\ Names(heap, table, entry, nextId)
      /\ iter = [q \in Readers |-> iter[q]] /\ ReaderOK(table, iter, r) /\ iter[r] \in ReaderType
      /\ iter[r].how = "delete" => <<r, iter[r].block>> \in D
      /\ iter[r].how = "release" => <<r, iter[r].block>> \in R
  BY Myself
<1>2. iter[r].pc = "open" /\ table' = table /\ nextId' = nextId
  BY DEF BlockReader
<1>3. t # None /\ iter[r].file \in Files
  BY <1>1, <1>2 DEF ReaderOK, Holding
<1>4. t \in Live(table) /\ table[t].file = iter[r].file
  BY <1>1, <1>3, HeldIsLive DEF ReaderOK
<1>5. CASE S = {}
  <2>1. heap' = heap /\ entry' = entry /\ iter' = [iter EXCEPT ![r].pc = "reading", ![r].at = off, ![r].fill = fill]
    BY <1>5 DEF BlockReader
  <2>2. PICK w : w = [iter[r] EXCEPT !.pc = "reading", !.at = off, !.fill = fill]
    OBVIOUS
  <2>3. iter' = [iter EXCEPT ![r] = w]
    BY <2>1, <2>2, <1>1
  <2>4. /\ w \in ReaderType /\ w.pc = "reading" /\ w.how = iter[r].how /\ w.table = iter[r].table
        /\ w.file = iter[r].file /\ w.block = iter[r].block /\ w.at = off
    BY <2>2, <1>1 DEF ReaderType, Holding
  <2>5. iter'[r] = w
    BY <2>3, <1>1, ReaderSet
  <2>6. ReaderOK(table, iter', r) /\ RightFor(heap, iter', r)
    BY <1>1, <1>2, <2>4, <2>5 DEF ReaderOK, RightFor, Holding
  <2>7. Inv(heap, table, entry, nextId, iter')
    BY <2>3, <2>4, <2>6, ReaderMoves
  <2> QED  BY <1>2, <2>1, <2>7 DEF IInv
<1>6. CASE S # {}
  <2>1. /\ iter' = [iter EXCEPT ![r].block = b, ![r].how = "release", ![r].at = off]
        /\ heap' = x.h /\ entry' = x.entry
    BY <1>6 DEF BlockReader
  <2>2. b \in Live(entry) /\ entry[b].key = CacheKey(r, off) /\ b \in Objects
    BY <1>6, NewInSet DEF CachedBlock, Live
  <2>3. heap.blocks[b].live /\ heap.blocks[b].of = <<iter[r].file, off>>
    <3>1. entry[b].key[1] = table[t].id /\ entry[b].key[2] = off
      BY <2>2 DEF CacheKey
    <3>2. heap.blocks[b].live
      BY <2>2, <1>1, EntriesHaveBlocks
    <3> HIDE DEF b, t
    <3> QED  BY <3>1, <3>2, <1>1, <1>4, <2>2 DEF Names
  <2> HIDE DEF b, S, t
  <2>4. PICK w : w = [iter[r] EXCEPT !.block = b, !.how = "release", !.at = off]
    OBVIOUS
  <2>5. iter' = [iter EXCEPT ![r] = w]
    BY <2>1, <2>4, <1>1
  <2>6. /\ w \in ReaderType /\ w.pc = "open" /\ w.how = "release" /\ w.table = iter[r].table
        /\ w.file = iter[r].file /\ w.block = b /\ w.at = off
    BY <2>2, <2>4, <1>1, <1>2 DEF ReaderType, Holding
  <2>7. iter'[r] = w /\ OnlyReader(iter, iter', r) /\ iter' = [q \in Readers |-> iter'[q]]
    BY <2>5, <1>1, ReaderSet
  <2>8. ReaderOK(table, iter', r)
    BY <1>1, <1>2, <2>2, <2>6, <2>7 DEF ReaderOK, Holding
  <2>9. HeldT(iter') = T
    BY <2>6, <2>7, HeldSameT
  <2>10. entry \in [Objects -> {Free} \cup EntryType] /\ entry[b] \in EntryType /\ entry[b].refs # 0
    BY <1>1, <2>2, CountsPositive, EntryFields
  <2>11. PICK v : v = [entry[b] EXCEPT !.refs = @ + 1]
    OBVIOUS
  <2>12. v \in EntryType /\ v.live /\ v.cached = entry[b].cached /\ v.refs = entry[b].refs + 1 /\ v.key = entry[b].key
    BY <2>10, <2>11, EntryMore
  <2>13. en = [entry EXCEPT ![b] = v]
    BY <2>11
  <2>14. en[b] = v /\ OnlyAt(entry, en, b) /\ en \in [Objects -> {Free} \cup EntryType]
    BY <2>2, <2>10, <2>12, <2>13 DEF OnlyAt
  <2>15. CASE iter[r].how = "release" /\ iter[r].block = b
    <3>1. x = UnrefEntry(heap, en, b)
      BY <2>15 DEF Cleanup
    <3>2. en[b].refs # 1
      BY <2>10, <2>12, <2>14 DEF EntryType
    <3>3. x.h = heap /\ x.entry = [en EXCEPT ![b].refs = @ - 1]
      <4> HIDE DEF x, en
      <4> QED  BY <3>1, <3>2 DEF UnrefEntry
    <3>4. [v EXCEPT !.refs = @ - 1] = entry[b]
      BY <2>10, <2>11, EntryMore
    <3>5. x.entry = entry
      <4>1. x.entry = [en EXCEPT ![b] = [en[b] EXCEPT !.refs = @ - 1]]
        BY <3>3
      <4>2. x.entry = [en EXCEPT ![b] = entry[b]]
        BY <4>1, <3>4, <2>14
      <4> HIDE DEF x
      <4> QED  BY <4>2, <2>13, <2>10, <2>2
    <3>6. RightFor(heap, iter', r)
      BY <2>3, <2>6, <2>7 DEF RightFor
    <3>7. Inv(heap, table, entry, nextId, iter')
      BY <2>5, <2>6, <2>8, <2>15, <3>6, ReaderMoves
    <3> QED  BY <1>2, <2>1, <3>3, <3>5, <3>7 DEF IInv
  <2>16. CASE iter[r].how # "release" \/ iter[r].block # b
    <3>1. HeldB(iter', "delete") = Minus(D, r, iter[r].block, iter[r].how, "delete")
      BY <2>6, <2>7, HeldDropped
    <3>2. PICK R1 : R1 = R \cup {<<r, b>>}
      OBVIOUS
    <3>3. HeldB(iter', "release") = Minus(R1, r, iter[r].block, iter[r].how, "release") /\ <<r, b>> \notin R
      BY <2>6, <2>7, <2>16, <3>2, HeldTaken
    <3> HIDE DEF en, T, D, R
    <3>4. Counted(en, R1)
      <4>1. Counted(entry, R)
        BY <1>1 DEF Good, EntriesOK
      <4> QED  BY <4>1, <2>2, <2>12, <2>14, <3>2, <3>3, CountTake
    <3>5. EntriesOK(en, R1)
      BY <2>14, <3>4 DEF EntriesOK
    <3>6. Good(heap, table, en, T, D, R1)
      BY <1>1, <2>2, <2>12, <2>14, <3>5, EntryCounts
    <3>7. EntriesStay(entry, en)
      BY <2>2, <2>12, <2>14, EntriesStayAt
    <3>8. Names(heap, table, en, nextId)
      BY <1>1, <3>6, <3>7, NamesStay, SameStay, SameBlocksStay, EntriesHaveBlocks
    <3>9. /\ iter[r].how \in {"none", "delete", "release"} /\ (iter[r].how # "none" => iter[r].block \in Objects)
          /\ iter[r].how = "release" => <<r, iter[r].block>> \in R1
      BY <1>1, <3>2 DEF ReaderOK, ReaderType
    <3>10. /\ Good(x.h, table, x.entry, T, HeldB(iter', "delete"), HeldB(iter', "release"))
           /\ BlocksStay(heap, x.h) /\ EntriesStay(en, x.entry)
      BY <1>1, <3>1, <3>3, <3>6, <3>9, CleanupGood
    <3> HIDE DEF x
    <3>11. Names(x.h, table, x.entry, nextId)
      BY <3>8, <3>10, NamesStay, SameStay, EntriesHaveBlocks
    <3>12. BlocksKeep(heap, x.h) /\ TablesKeep(table, table)
      BY <3>10, StayIsKeep, SameStay
    <3>13. RightFor(x.h, iter', r)
      <4>1. x.h.blocks[b].live
        BY <2>6, <2>7, <2>8, <2>9, <3>10, HeldIsLive
      <4>2. x.h.blocks[b] = heap.blocks[b]
        BY <2>2, <3>10, <4>1 DEF BlocksStay
      <4> QED  BY <2>3, <2>6, <2>7, <4>2 DEF RightFor
    <3>14. Inv(x.h, table, x.entry, nextId, iter')
      BY <2>7, <2>8, <2>9, <3>10, <3>11, <3>12, <3>13, ReaderStep DEF IInv
    <3> QED  BY <1>2, <2>1, <3>14 DEF IInv
  <2> QED  BY <2>15, <2>16
<1> QED  BY <1>5, <1>6

\* Heap g is h, which held blocks B and arrays F, and a block b read in table t.
NewBlockIn(h, B, F, t, x, b, of, g) ==
  /\ HeapIs(g, B \cup {b}, F)
  /\ \A o \in Objects : o # b => g.blocks[o] = h.blocks[o]
  /\ g.blocks[b].live /\ g.blocks[b].of = of
  /\ ~g.blocks[b].owned => g.blocks[b].data = InMap(t)
  /\ x.contents.cachable => g.blocks[b].owned
  /\ \E a \in Objects : g.bufs \subseteq h.bufs \cup {a}

\* A block read into a new Block.
LEMMA NewBlockGood ==
  ASSUME NEW h, NEW B, NEW F, HeapIs(h, B, F), NEW t \in Objects, NEW map, NEW x, x.ok, ReadResult(h, t, map, x),
         NEW b \in Objects \ B, NEW of \in Files \X (Offsets \cup {"index"})
  PROVE  NewBlockIn(h, B, F, t, x, b, of, NewBlock(x.h, b, x.contents, of))
<1>1. PICK c : c = x.contents
  OBVIOUS
<1>2. PICK k : k = x.h
  OBVIOUS
<1> DEFINE g == NewBlock(k, b, c, of)
<1> SUFFICES /\ HeapIs(g, B \cup {b}, F)
             /\ \A o \in Objects : o # b => g.blocks[o] = h.blocks[o]
             /\ g.blocks[b].live /\ g.blocks[b].of = of
             /\ ~g.blocks[b].owned => g.blocks[b].data = InMap(t)
             /\ c.cachable => g.blocks[b].owned
             /\ \E a \in Objects : g.bufs \subseteq h.bufs \cup {a}
  BY <1>1, <1>2 DEF NewBlockIn
<1>3. CASE /\ k = h /\ c.data = InMap(t) /\ c.heap = FALSE /\ c.cachable = FALSE
  <2>1. IsView(c, t)
    BY <1>3 DEF IsView
  <2>2. HeapIs(g, B \cup {b}, F) /\ Added(h, g, b, InMap(t), FALSE, of)
    BY <1>3, <2>1, AddView
  <2> HIDE DEF g
  <2>3. g.bufs = h.bufs /\ (\A o \in Objects : o # b => g.blocks[o] = h.blocks[o])
    BY <2>2 DEF Added
  <2>4. g.blocks[b].live /\ g.blocks[b].of = of /\ g.blocks[b].data = InMap(t)
    BY <2>2 DEF Added
  <2>5. g.bufs \subseteq h.bufs \cup {t} /\ ~c.cachable
    BY <1>3, <2>3
  <2> QED  BY <2>2, <2>3, <2>4, <2>5
<1>4. CASE \E a \in Objects \ h.bufs :
             /\ k = [h EXCEPT !.bufs = @ \cup {a}]
             /\ c.data = InBuffer(a) /\ c.heap = TRUE /\ c.cachable = TRUE
  <2>1. PICK a \in Objects \ h.bufs :
             /\ k = [h EXCEPT !.bufs = @ \cup {a}]
             /\ c.data = InBuffer(a) /\ c.heap = TRUE /\ c.cachable = TRUE
    BY <1>4
  <2>2. HeapIs(k, B, F \cup {a})
    BY <2>1, AddArray
  <2>3. k.blocks = h.blocks /\ k.bufs = h.bufs \cup {a}
    BY <2>1, NewArrayIs DEF HeapIs
  <2>4. PICK F2 : F2 = F \cup {a}
    OBVIOUS
  <2>5. F2 \ {a} = F /\ a \in F2 /\ HeapIs(k, B, F2)
    BY <2>2, <2>4 DEF HeapIs
  <2>6. IsArray(c, a)
    BY <2>1 DEF IsArray
  <2>7. HeapIs(g, B \cup {b}, F2 \ {a}) /\ Added(k, g, b, InBuffer(a), TRUE, of)
    BY <2>5, <2>6, AddOwner
  <2> HIDE DEF g
  <2>8. g.bufs = k.bufs /\ (\A o \in Objects : o # b => g.blocks[o] = k.blocks[o])
    BY <2>7 DEF Added
  <2>9. g.blocks[b].live /\ g.blocks[b].of = of /\ g.blocks[b].owned
    BY <2>7 DEF Added
  <2>10. \A o \in Objects : o # b => g.blocks[o] = h.blocks[o]
    BY <2>3, <2>8
  <2>11. g.bufs \subseteq h.bufs \cup {a} /\ a \in Objects
    BY <2>3, <2>8
  <2>12. HeapIs(g, B \cup {b}, F)
    BY <2>5, <2>7
  <2> QED  BY <2>9, <2>10, <2>11, <2>12
<1> QED  BY <1>1, <1>2, <1>3, <1>4 DEF ReadResult

\* An address for a block.
LEMMA FreshBlock ==
  ASSUME BlockReadsAssumption, NEW h, NEW tab, NEW en, NEW T, NEW D, NEW R, Good(h, tab, en, T, D, R),
         Cardinality(FreeBlocks(h)) >= 2
  PROVE  New(FreeBlocks(h)) \in Objects \ BlocksOf(tab, en, D) /\ ~h.blocks[New(FreeBlocks(h))].live
<1>1. IsFiniteSet(FreeBlocks(h))
  BY FS_Subset DEF FreeBlocks, BlockReadsAssumption
<1>2. FreeBlocks(h) # {}
  BY <1>1, RoomLeft
<1>3. PICK b : b = New(FreeBlocks(h))
  OBVIOUS
<1>4. b \in Objects /\ h.blocks[b] = Free
  BY <1>2, <1>3, NewInSet DEF FreeBlocks
<1>5. ~h.blocks[b].live
  BY <1>4, FreeIsNot
<1>6. b \notin BlocksOf(tab, en, D)
  BY <1>4, <1>5 DEF Good, HeapIs
<1> QED  BY <1>3, <1>4, <1>5, <1>6

\* A reader's old block goes after it has got a new one, b.
LEMMA ChangeBlock ==
  ASSUME BlockReadsAssumption, IInv, NEW r \in Readers, NEW h1, NEW en1, NEW D1, NEW R1,
         Good(h1, table, en1, HeldT(iter), D1, R1), Names(h1, table, en1, nextId), BlocksKeep(heap, h1),
         NEW b \in Objects, h1.blocks[b].of = <<iter[r].file, iter[r].at>>,
         iter[r].how = "delete" => <<r, iter[r].block>> \in D1,
         iter[r].how = "release" => <<r, iter[r].block>> \in R1,
         NEW x, x = Cleanup(h1, en1, iter[r].block, iter[r].how),
         NEW g, g = [q \in Readers |-> g[q]], OnlyReader(iter, g, r), ReaderOK(table, g, r),
         g[r].block = b, g[r].how # "none", g[r].table = iter[r].table, g[r].file = iter[r].file, g[r].at = iter[r].at,
         HeldB(g, "delete") = Minus(D1, r, iter[r].block, iter[r].how, "delete"),
         HeldB(g, "release") = Minus(R1, r, iter[r].block, iter[r].how, "release")
  PROVE  Inv(x.h, table, x.entry, nextId, g)
<1>1. ReaderOK(table, iter, r) /\ iter[r] \in ReaderType
  BY Myself
<1>2. HeldT(g) = HeldT(iter)
  BY HeldSameT
<1>3. iter[r].how \in {"none", "delete", "release"} /\ (iter[r].how # "none" => iter[r].block \in Objects)
  BY <1>1 DEF ReaderOK, ReaderType
<1>4. /\ Good(x.h, table, x.entry, HeldT(iter), HeldB(g, "delete"), HeldB(g, "release"))
      /\ BlocksStay(h1, x.h) /\ EntriesStay(en1, x.entry)
  <2>1. PICK T : T = HeldT(iter)
    OBVIOUS
  <2>2. PICK D2 : D2 = HeldB(g, "delete")
    OBVIOUS
  <2>3. PICK R2 : R2 = HeldB(g, "release")
    OBVIOUS
  <2>4. D2 = Minus(D1, r, iter[r].block, iter[r].how, "delete") /\ R2 = Minus(R1, r, iter[r].block, iter[r].how, "release")
        /\ Good(h1, table, en1, T, D1, R1)
    BY <2>1, <2>2, <2>3
  <2>5. Good(x.h, table, x.entry, T, D2, R2) /\ BlocksStay(h1, x.h) /\ EntriesStay(en1, x.entry)
    BY <1>3, <2>4, CleanupGood
  <2> QED  BY <2>1, <2>2, <2>3, <2>5
<1>5. Names(x.h, table, x.entry, nextId)
  BY <1>4, NamesStay, SameStay, EntriesHaveBlocks
<1>6. BlocksKeep(heap, x.h) /\ TablesKeep(table, table)
  BY <1>4 DEF BlocksKeep, BlocksStay, TablesKeep
<1>7. RightFor(x.h, g, r)
  <2>1. x.h.blocks[b].live
    BY <1>2, <1>4, HeldIsLive
  <2>2. x.h.blocks[b] = h1.blocks[b]
    BY <2>1, <1>4 DEF BlocksStay
  <2> QED  BY <2>2 DEF RightFor
<1> QED  BY <1>2, <1>4, <1>5, <1>6, <1>7, ReaderStep DEF IInv

\* Names do not depend on blocks that are not cached.
LEMMA NamesKeep ==
  ASSUME NEW h, NEW tab, NEW en, NEW id, Names(h, tab, en, id), NEW g,
         \A c \in Live(en) : g.blocks[c] = h.blocks[c]
  PROVE  Names(g, tab, en, id)
  BY DEF Names

\* A new entry is named after its table and its place.
LEMMA NamesInsert ==
  ASSUME NEW h, NEW tab, NEW en, NEW id, Names(h, tab, en, id), BlockCache, NEW b \in Objects, NEW en2,
         OnlyAt(en, en2, b), NEW g, \A c \in Objects : c # b => g.blocks[c] = h.blocks[c],
         NEW t \in Live(tab), NEW off, en2[b].key = <<tab[t].id, off>>,
         g.blocks[b].of = <<tab[t].file, off>>
  PROVE  Names(g, tab, en2, id)
<1>1. id \in Nat /\ id > 0 /\ (\A u \in Live(tab) : tab[u].id < id)
      /\ (\A u, v \in Live(tab) : tab[u].id = tab[v].id => u = v)
  BY DEF Names
<1>2. \A c \in Live(en2) : c = b \/ (c # b /\ c \in Live(en) /\ en2[c] = en[c] /\ g.blocks[c] = h.blocks[c])
  BY DEF OnlyAt, Live
<1>3. en2[b].key[1] = tab[t].id /\ en2[b].key[2] = off
  OBVIOUS
<1>4. \A c \in Live(en2) : en2[c].key[1] < id
  <2> SUFFICES ASSUME NEW c \in Live(en2) PROVE en2[c].key[1] < id
    OBVIOUS
  <2>1. CASE c = b
    BY <2>1, <1>1, <1>3
  <2>2. CASE c # b
    BY <2>2, <1>2 DEF Names
  <2> QED  BY <2>1, <2>2
<1>5. \A c \in Live(en2) : \A u \in Live(tab) : tab[u].id = en2[c].key[1] =>
        g.blocks[c].of = <<tab[u].file, en2[c].key[2]>>
  <2> SUFFICES ASSUME NEW c \in Live(en2), NEW u \in Live(tab), tab[u].id = en2[c].key[1]
               PROVE  g.blocks[c].of = <<tab[u].file, en2[c].key[2]>>
    OBVIOUS
  <2>1. CASE c = b
    <3>1. u = t
      BY <2>1, <1>1, <1>3
    <3> QED  BY <2>1, <3>1, <1>3
  <2>2. CASE c # b
    BY <2>2, <1>2 DEF Names
  <2> QED  BY <2>1, <2>2
<1> QED  BY <1>1, <1>4, <1>5 DEF Names

\* Insert: an entry with the same key goes when the new one has come.
LEMMA EntryReplaced ==
  ASSUME BlockReadsAssumption, NEW T, NEW D, NEW R, Good(heap, table, entry, T, D, R),
         NEW h1, NEW en2, NEW R2, Good(h1, table, en2, T, D, R2),
         NEW b \in Objects, ~entry[b].live, NEW new, en2 = SetTo(entry, b, new),
         NEW key, NEW y, y = Erased(h1, entry, CachedBlock(key)), NEW en3, en3 = SetTo(y.entry, b, new)
  PROVE  Good(y.h, table, en3, T, D, R2) /\ BlocksStay(h1, y.h) /\ EntriesStay(en2, en3)
<1>0. PICK S : S = CachedBlock(key)
  OBVIOUS
<1>1. /\ entry \in [Objects -> {Free} \cup EntryType] /\ \A c \in Live(entry) : entry[c].refs # 0
      /\ en2 \in [Objects -> {Free} \cup EntryType]
  BY CountsPositive
<1>4. S \subseteq Live(entry) /\ (\A c \in S : entry[c].cached) /\ y = Erased(h1, entry, S)
  BY <1>0 DEF CachedBlock, Live
<1>2. CASE S = {}
  <2>1. y = [h |-> h1, entry |-> entry]
    BY <1>2, <1>4 DEF Erased
  <2>2. y.h = h1 /\ y.entry = entry
    BY <2>1
  <2>3. y.h = h1 /\ en3 = en2
    BY <2>2
  <2> QED  BY <2>3, SameStay, SameBlocksStay
<1>3. CASE S # {}
  <2>1. PICK e : e = New(S)
    OBVIOUS
  <2>2. e \in S /\ EntryUnref(h1, entry, e, FALSE, y.h, y.entry)
    BY <1>1, <1>3, <1>4, <2>1, ErasedIs
  <2>3. e \in Live(entry) /\ e # b /\ e \in Objects /\ entry[e].cached
    BY <1>4, <2>2 DEF Live
  <2>4. en2[e] = entry[e] /\ e \in Live(en2) /\ en2[b] = new
    BY <1>1, <2>3 DEF Live, SetTo
  <2>5. /\ y.entry \in [Objects -> {Free} \cup EntryType] /\ OnlyAt(entry, y.entry, e)
        /\ IF entry[e].refs = 1 THEN y.entry[e] = Free /\ y.h = DeleteBlock(h1, e)
           ELSE y.h = h1 /\ y.entry[e] = [entry[e] EXCEPT !.cached = FALSE, !.refs = @ - 1]
    BY <2>2 DEF EntryUnref
  <2>6. en3[e] = y.entry[e] /\ en3[b] = new
    BY <2>3, <2>5 DEF SetTo
  <2>7. OnlyAt(en2, en3, e)
    <3> SUFFICES ASSUME NEW o \in Objects, o # e PROVE en3[o] = en2[o]
      BY DEF OnlyAt
    <3>1. CASE o = b
      BY <3>1, <2>4, <2>6
    <3>2. CASE o # b
      <4>1. en3[o] = y.entry[o]
        BY <3>2, <2>5 DEF SetTo
      <4>2. y.entry[o] = entry[o]
        BY <2>5 DEF OnlyAt
      <4>3. en2[o] = entry[o]
        BY <3>2, <1>1 DEF SetTo
      <4> QED  BY <4>1, <4>2, <4>3
    <3> QED  BY <3>1, <3>2
  <2>8. en3 \in [Objects -> {Free} \cup EntryType]
    <3>1. new \in {Free} \cup EntryType
      BY <1>1, <2>4
    <3> QED  BY <3>1, <2>5 DEF SetTo
  <2>9. EntryUnref(h1, en2, e, FALSE, y.h, en3)
    <3>1. CASE entry[e].refs = 1
      BY <3>1, <2>4, <2>5, <2>6, <2>7, <2>8 DEF EntryUnref
    <3>2. CASE entry[e].refs # 1
      BY <3>2, <2>4, <2>5, <2>6, <2>7, <2>8 DEF EntryUnref
    <3> QED  BY <3>1, <3>2
  <2>10. PICK h3, e3 : h3 = y.h /\ e3 = en3
    OBVIOUS
  <2>11. EntryUnref(h1, en2, e, FALSE, h3, e3) /\ en2[e].cached
    BY <2>3, <2>4, <2>9, <2>10
  <2>12. Good(h3, table, e3, T, D, R2) /\ BlocksStay(h1, h3) /\ EntriesStay(en2, e3)
    BY <2>4, <2>11, EntryUncached
  <2> QED  BY <2>10, <2>12
<1> QED  BY <1>2, <1>3

\* Block b, new in heap h1, is what reader r asked for in table t.
BlockRead(r, t, b, h1) ==
  /\ b \in Objects \ BlocksOf(table, entry, HeldB(iter, "delete")) /\ ~heap.blocks[b].live
  /\ HeapIs(h1, BlocksOf(table, entry, HeldB(iter, "delete")) \cup {b}, ArraysOf(table))
  /\ \A c \in Objects : c # b => h1.blocks[c] = heap.blocks[c]
  /\ ~h1.blocks[b].owned => h1.blocks[b].data = InMap(t)
  /\ h1.blocks[b].of = <<iter[r].file, iter[r].at>>

\* Reader r stands in block b, and will clean up in this way.
StandsIn(r, g, b, how) ==
  /\ g = [q \in Readers |-> g[q]] /\ OnlyReader(iter, g, r) /\ ReaderOK(table, g, r)
  /\ g[r].block = b /\ g[r].how = how /\ g[r].table = iter[r].table
  /\ g[r].file = iter[r].file /\ g[r].at = iter[r].at

\* The reader holds its new block, and its old one no longer.
LEMMA StandsHeld ==
  ASSUME NEW r \in Readers, NEW g, NEW b, NEW how \in {"delete", "release"}, StandsIn(r, g, b, how),
         iter[r].how # "none" => iter[r].block # b, NEW H, H = HeldB(iter, how) \cup {<<r, b>>}
  PROVE  HeldB(g, how) = Minus(H, r, iter[r].block, iter[r].how, how)
<1>1. OnlyReader(iter, g, r) /\ g[r].block = b /\ g[r].how = how
  BY DEF StandsIn
<1>2. iter[r].how # how \/ iter[r].block # g[r].block
  BY <1>1
<1>3. HeldB(g, how) = (HeldB(iter, how) \ MineB(iter, r, how)) \cup MineB(g, r, how)
  BY <1>1, HeldBStep
<1>4. iter[r].how = how => <<r, b>> # <<r, iter[r].block>>
  BY <1>1, <1>2
<1>5. MineB(g, r, how) = {<<r, b>>}
  BY <1>1 DEF MineB
<1> QED  BY <1>3, <1>4, <1>5 DEF MineB, Minus

\* The block a reader stands in is there.
LEMMA HeldBlock ==
  ASSUME IInv, NEW r \in Readers
  PROVE  iter[r].how # "none" => heap.blocks[iter[r].block].live
<1>1. /\ Good(heap, table, entry, HeldT(iter), HeldB(iter, "delete"), HeldB(iter, "release"))
      /\ ReaderOK(table, iter, r)
  BY Myself
<1> QED  BY <1>1, HeldIsLive

\* What a new block leaves alone.
LEMMA ReadKeeps ==
  ASSUME IInv, NEW r \in Readers, NEW t, NEW b, NEW h1, BlockRead(r, t, b, h1)
  PROVE  /\ BlocksKeep(heap, h1) /\ Names(h1, table, entry, nextId) /\ ~entry[b].live /\ b \in Objects
         /\ iter[r].how # "none" => iter[r].block # b
         /\ \A c \in Live(entry) : c # b
<1>1. /\ Good(heap, table, entry, HeldT(iter), HeldB(iter, "delete"), HeldB(iter, "release"))
      /\ Names(heap, table, entry, nextId) /\ ReaderOK(table, iter, r)
  BY Myself
<1>2. /\ b \in Objects \ BlocksOf(table, entry, HeldB(iter, "delete")) /\ ~heap.blocks[b].live
      /\ \A c \in Objects : c # b => h1.blocks[c] = heap.blocks[c]
  BY DEF BlockRead
<1>3. (\A c \in Live(entry) : c \in Objects /\ c # b) /\ ~entry[b].live
  BY <1>1, <1>2, OldBlocks
<1>4. iter[r].how # "none" => iter[r].block # b
  BY <1>2, HeldBlock
<1>5. Names(h1, table, entry, nextId)
  BY <1>1, <1>2, <1>3, NamesKeep
<1>6. BlocksKeep(heap, h1)
  BY <1>2 DEF BlocksKeep
<1> QED  BY <1>2, <1>3, <1>4, <1>5, <1>6

\* The reader keeps a block it has read to itself.
LEMMA KeepBlock ==
  ASSUME BlockReadsAssumption, IInv, NEW r \in Readers, NEW t \in Objects, <<r, t>> \in HeldT(iter),
         NEW b, NEW h1, BlockRead(r, t, b, h1), NEW g, StandsIn(r, g, b, "delete"),
         NEW z, z = Cleanup(h1, entry, iter[r].block, iter[r].how)
  PROVE  Inv(z.h, table, z.entry, nextId, g)
<1>1. PICK T, D, R : T = HeldT(iter) /\ D = HeldB(iter, "delete") /\ R = HeldB(iter, "release")
  OBVIOUS
<1>2. /\ Good(heap, table, entry, T, D, R)
      /\ iter[r].how = "delete" => <<r, iter[r].block>> \in D
      /\ iter[r].how = "release" => <<r, iter[r].block>> \in R
  BY <1>1, Myself
<1>3. /\ BlocksKeep(heap, h1) /\ Names(h1, table, entry, nextId) /\ b \in Objects
      /\ iter[r].how # "none" => iter[r].block # b
  BY ReadKeeps
<1>4. PICK D1 : D1 = D \cup {<<r, b>>}
  OBVIOUS
<1>5. Good(h1, table, entry, T, D1, R)
  <2>1. /\ b \in Objects \ BlocksOf(table, entry, D)
        /\ HeapIs(h1, BlocksOf(table, entry, D) \cup {b}, ArraysOf(table))
        /\ \A c \in Objects : c # b => h1.blocks[c] = heap.blocks[c]
        /\ ~h1.blocks[b].owned => h1.blocks[b].data = InMap(t)
    BY <1>1 DEF BlockRead
  <2>2. <<r, t>> \in T
    BY <1>1
  <2> QED  BY <1>2, <1>4, <2>1, <2>2, OwnComes
<1>6. h1.blocks[b].of = <<iter[r].file, iter[r].at>>
  BY DEF BlockRead
<1>7. /\ g = [q \in Readers |-> g[q]] /\ OnlyReader(iter, g, r) /\ ReaderOK(table, g, r)
      /\ g[r].block = b /\ g[r].how = "delete" /\ g[r].table = iter[r].table
      /\ g[r].file = iter[r].file /\ g[r].at = iter[r].at
  BY DEF StandsIn
<1>8. HeldB(g, "delete") = Minus(D1, r, iter[r].block, iter[r].how, "delete")
  <2>1. D1 = HeldB(iter, "delete") \cup {<<r, b>>}
    BY <1>1, <1>4
  <2> QED  BY <1>3, <2>1, StandsHeld
<1>9. HeldB(g, "release") = Minus(R, r, iter[r].block, iter[r].how, "release")
  BY <1>1, <1>7, HeldDropped
<1>10. iter[r].how = "delete" => <<r, iter[r].block>> \in D1
  BY <1>2, <1>4
<1>11. Good(h1, table, entry, HeldT(iter), D1, R)
  BY <1>1, <1>5
<1>12. g[r].how # "none"
  BY <1>7
<1> QED  BY <1>2, <1>3, <1>6, <1>7, <1>8, <1>9, <1>10, <1>11, <1>12, ChangeBlock

\* The key of the block that reader r reads in table t, and its entry.
KeyFor(key, r, t) == key = <<table[t].id, iter[r].at>>
NewEntry(key) == [live |-> TRUE, key |-> key, cached |-> TRUE, refs |-> 2]

\* A block that may be cached goes into the cache, and the reader shares it.
LEMMA CacheBlock ==
  ASSUME BlockReadsAssumption, IInv, BlockCache, NEW r \in Readers, NEW t \in Live(table),
         iter[r].file = table[t].file, NEW b, NEW h1, BlockRead(r, t, b, h1), h1.blocks[b].owned,
         iter[r].at \in Offsets, NEW key, KeyFor(key, r, t),
         NEW g, StandsIn(r, g, b, "release"),
         NEW y, y = Erased(h1, entry, CachedBlock(key)), NEW en3, en3 = SetTo(y.entry, b, NewEntry(key)),
         NEW z, z = Cleanup(y.h, en3, iter[r].block, iter[r].how)
  PROVE  Inv(z.h, table, z.entry, nextId, g)
<1>0. PICK new : new = NewEntry(key)
  OBVIOUS
<1>1. PICK T, D, R : T = HeldT(iter) /\ D = HeldB(iter, "delete") /\ R = HeldB(iter, "release")
  OBVIOUS
<1>2. /\ Good(heap, table, entry, T, D, R) /\ Names(heap, table, entry, nextId)
      /\ iter[r].how = "delete" => <<r, iter[r].block>> \in D
      /\ iter[r].how = "release" => <<r, iter[r].block>> \in R
  BY <1>1, Myself
<1>3. /\ BlocksKeep(heap, h1) /\ b \in Objects /\ ~entry[b].live
      /\ iter[r].how # "none" => iter[r].block # b
  BY ReadKeeps
<1>4. /\ b \in Objects \ BlocksOf(table, entry, D)
      /\ HeapIs(h1, BlocksOf(table, entry, D) \cup {b}, ArraysOf(table))
      /\ \A c \in Objects : c # b => h1.blocks[c] = heap.blocks[c]
      /\ h1.blocks[b].of = <<iter[r].file, iter[r].at>> /\ ~heap.blocks[b].live
  BY <1>1 DEF BlockRead
<1>5. PICK R2, en2 : R2 = R \cup {<<r, b>>} /\ en2 = SetTo(entry, b, new)
  OBVIOUS
<1>6. entry \in [Objects -> {Free} \cup EntryType] /\ table \in [Objects -> {Free} \cup TableType]
  BY <1>2, CountsPositive
<1>7. new = NewEntry(key) /\ new \in EntryType /\ new.live /\ new.cached = TRUE /\ new.refs = 2 /\ new.key = key
  <2>1. table[t].id \in Nat
    BY <1>6, TableFields DEF TableType
  <2>2. key \in Nat \X Offsets
    BY <2>1 DEF KeyFor
  <2> QED  BY <1>0, <2>2 DEF EntryType, NewEntry
<1>8. en2[b] = new /\ OnlyAt(entry, en2, b) /\ en2 \in [Objects -> {Free} \cup EntryType]
  BY <1>3, <1>5, <1>6, <1>7 DEF OnlyAt, SetTo
<1>9. EntriesOK(en2, R2)
  <2>1. Counted(entry, R)
    BY <1>2 DEF Good, EntriesOK
  <2>2. en2[b].live /\ en2[b].cached = TRUE /\ en2[b].refs = 2
    BY <1>7, <1>8
  <2>3. Counted(en2, R2)
    BY <2>1, <2>2, <1>3, <1>5, <1>8, CountInsert
  <2> QED  BY <1>8, <2>3 DEF EntriesOK
<1>10. Good(h1, table, en2, T, D, R2)
  <2>1. en2[b].live /\ h1.blocks[b].owned
    BY <1>7, <1>8
  <2> QED  BY <1>2, <1>4, <1>8, <1>9, <2>1, EntryComes
<1>11. Names(h1, table, en2, nextId)
  <2>1. PICK off : off = iter[r].at
    OBVIOUS
  <2>2. en2[b].key = <<table[t].id, off>> /\ h1.blocks[b].of = <<table[t].file, off>>
    BY <1>4, <1>7, <1>8, <2>1 DEF KeyFor
  <2> QED  BY <1>2, <1>3, <1>4, <1>8, <2>2, NamesInsert
<1>12. Good(y.h, table, en3, T, D, R2) /\ BlocksStay(h1, y.h) /\ EntriesStay(en2, en3)
  <2>1. en2 = SetTo(entry, b, new) /\ en3 = SetTo(y.entry, b, new)
    BY <1>0, <1>5
  <2> QED  BY <1>2, <1>3, <1>10, <2>1, EntryReplaced
<1>13. PICK h3 : h3 = y.h
  OBVIOUS
<1>14. Good(h3, table, en3, HeldT(iter), D, R2) /\ BlocksStay(h1, h3) /\ EntriesStay(en2, en3)
  BY <1>1, <1>12, <1>13
<1>15. Names(h3, table, en3, nextId)
  BY <1>11, <1>14, NamesStay, SameStay, EntriesHaveBlocks
<1>16. BlocksKeep(heap, h3)
  BY <1>3, <1>14 DEF BlocksKeep, BlocksStay
<1>17. h3.blocks[b].of = <<iter[r].file, iter[r].at>>
  <2>1. <<r, b>> \in R2 /\ <<r, b>>[2] = b
    BY <1>5
  <2>2. b \in Live(en3)
    BY <2>1, <1>3, <1>14 DEF Good, EntriesOK, Counted, Live
  <2>3. h3.blocks[b].live
    BY <2>2, <1>14, EntriesHaveBlocks
  <2>4. h3.blocks[b] = h1.blocks[b]
    BY <2>3, <1>3, <1>14 DEF BlocksStay
  <2> QED  BY <2>4, <1>4
<1>18. /\ g = [q \in Readers |-> g[q]] /\ OnlyReader(iter, g, r) /\ ReaderOK(table, g, r)
       /\ g[r].block = b /\ g[r].how = "release" /\ g[r].table = iter[r].table
       /\ g[r].file = iter[r].file /\ g[r].at = iter[r].at
  BY DEF StandsIn
<1>19. HeldB(g, "release") = Minus(R2, r, iter[r].block, iter[r].how, "release")
  <2>1. R2 = HeldB(iter, "release") \cup {<<r, b>>}
    BY <1>1, <1>5
  <2> QED  BY <1>3, <2>1, StandsHeld
<1>20. HeldB(g, "delete") = Minus(D, r, iter[r].block, iter[r].how, "delete")
  BY <1>1, <1>18, HeldDropped
<1>21. (iter[r].how = "release" => <<r, iter[r].block>> \in R2) /\ g[r].how # "none"
  BY <1>2, <1>5, <1>18
<1>22. z = Cleanup(h3, en3, iter[r].block, iter[r].how)
  BY <1>13
<1> QED  BY <1>2, <1>3, <1>14, <1>15, <1>16, <1>17, <1>18, <1>19, <1>20, <1>21, <1>22, ChangeBlock

\* What SetData does to the reader.
LEMMA SetReader ==
  ASSUME IInv, NEW r \in Readers, iter[r].pc = "reading", NEW b \in Objects \cup {None},
         NEW how \in {"none", "delete", "release"}, how # "none" => b \in Objects,
         NEW g, g = [iter EXCEPT ![r].pc = "open", ![r].block = b, ![r].how = how]
  PROVE  StandsIn(r, g, b, how)
<1>1. iter = [q \in Readers |-> iter[q]] /\ ReaderOK(table, iter, r) /\ iter[r] \in ReaderType
  BY Myself
<1>2. PICK w : w = [iter[r] EXCEPT !.pc = "open", !.block = b, !.how = how]
  OBVIOUS
<1>3. g = [iter EXCEPT ![r] = w]
  BY <1>1, <1>2
<1>4. g[r] = w /\ OnlyReader(iter, g, r) /\ g = [q \in Readers |-> g[q]]
  BY <1>1, <1>3, ReaderSet
<1>5. /\ w \in ReaderType /\ w.pc = "open" /\ w.how = how /\ w.table = iter[r].table
      /\ w.file = iter[r].file /\ w.block = b /\ w.at = iter[r].at
  BY <1>1, <1>2 DEF ReaderType, Holding
<1>6. ReaderOK(table, g, r)
  BY <1>1, <1>4, <1>5 DEF ReaderOK, Holding
<1> QED  BY <1>4, <1>5, <1>6 DEF StandsIn

\* A block was read: it is inserted in the cache, or is the reader's own.
LEMMA ReadInStep ==
  ASSUME BlockReadsAssumption, IInv, NEW r \in Readers, ReadIn(r)
  PROVE  IInv'
<1>1. PICK t, key, b : t = iter[r].table /\ key = CacheKey(r, iter[r].at) /\ b = New(FreeBlocks(heap))
  OBVIOUS
<1>2. iter[r].pc = "reading" /\ Room(heap, 2) /\ table' = table /\ nextId' = nextId
  BY DEF ReadIn
<1>3. PICK x \in ReadBlock(heap, t, table[t].map) :
           IF ~x.ok THEN SetData(r, x.h, entry, None, "none")
           ELSE LET h1 == NewBlock(x.h, b, x.contents, <<table[t].file, iter[r].at>>)
                    y  == Erased(h1, entry, CachedBlock(key))
                IN  IF BlockCache /\ x.contents.cachable /\ iter[r].fill
                    THEN SetData(r, y.h, [y.entry EXCEPT ![b] = [live |-> TRUE, key |-> key, cached |-> TRUE, refs |-> 2]],
                                 b, "release")
                    ELSE SetData(r, h1, entry, b, "delete")
  BY <1>1 DEF ReadIn
<1>4. PICK T, D, R : T = HeldT(iter) /\ D = HeldB(iter, "delete") /\ R = HeldB(iter, "release")
  OBVIOUS
<1>5. Good(heap, table, entry, T, D, R) /\ ReaderOK(table, iter, r) /\ iter[r] \in ReaderType
  BY <1>4, Myself
<1>6. t # None /\ iter[r].at \in Offsets /\ iter[r].file \in Files /\ table[t].file = iter[r].file
  BY <1>1, <1>2, <1>5 DEF ReaderOK, Holding
<1>7. t \in Live(table) /\ <<r, t>> \in HeldT(iter) /\ t \in Objects
  BY <1>1, <1>4, <1>5, <1>6, HeldIsLive DEF Live
<1>8. table[t].map \in BOOLEAN
  BY <1>5, <1>7, CountsPositive, TableFields DEF TableType
<1>9. /\ Cardinality(FreeBuffers(heap)) >= 2 /\ Cardinality(FreeBlocks(heap)) >= 2
      /\ heap \in HeapType /\ ~heap.bad /\ HeapIs(heap, BlocksOf(table, entry, D), ArraysOf(table))
  BY <1>2, <1>5 DEF Room, Good, HeapIs
<1>10. ReadResult(heap, t, table[t].map, x)
  BY <1>3, <1>7, <1>8, <1>9, ReadBlockIs
<1>11. b \in Objects \ BlocksOf(table, entry, D) /\ ~heap.blocks[b].live
  BY <1>1, <1>5, <1>9, FreshBlock
<1>12. PICK g : g = iter'
  OBVIOUS
<1>13. CASE ~x.ok
  <2>1. SetData(r, heap, entry, None, "none")
    BY <1>3, <1>10, <1>13 DEF ReadResult
  <2>2. PICK z : z = Cleanup(heap, entry, iter[r].block, iter[r].how)
    OBVIOUS
  <2>3. /\ heap' = z.h /\ entry' = z.entry
        /\ g = [iter EXCEPT ![r].pc = "open", ![r].block = None, ![r].how = "none"]
    BY <1>12, <2>1, <2>2 DEF SetData
  <2>4. StandsIn(r, g, None, "none")
    BY <1>2, <2>3, SetReader
  <2>5. /\ g = [q \in Readers |-> g[q]] /\ OnlyReader(iter, g, r) /\ ReaderOK(table, g, r)
        /\ g[r].how = "none" /\ g[r].table = iter[r].table
    BY <2>4 DEF StandsIn
  <2>6. Inv(z.h, table, z.entry, nextId, g)
    BY <2>2, <2>5, DropBlock
  <2> QED  BY <1>2, <1>12, <2>3, <2>6 DEF IInv
<1>14. CASE x.ok
  <2>1. PICK of : of = <<table[t].file, iter[r].at>>
    OBVIOUS
  <2>2. of \in Files \X (Offsets \cup {"index"}) /\ of = <<iter[r].file, iter[r].at>>
    BY <1>6, <2>1
  <2>3. PICK h1 : h1 = NewBlock(x.h, b, x.contents, of)
    OBVIOUS
  <2>4. /\ HeapIs(h1, BlocksOf(table, entry, D) \cup {b}, ArraysOf(table))
        /\ \A o \in Objects : o # b => h1.blocks[o] = heap.blocks[o]
        /\ h1.blocks[b].of = of
        /\ ~h1.blocks[b].owned => h1.blocks[b].data = InMap(t)
        /\ x.contents.cachable => h1.blocks[b].owned
    <3>1. PICK B, F, map : B = BlocksOf(table, entry, D) /\ F = ArraysOf(table) /\ map = table[t].map
      OBVIOUS
    <3>2. HeapIs(heap, B, F) /\ ReadResult(heap, t, map, x) /\ b \in Objects \ B
      BY <1>9, <1>10, <1>11, <3>1
    <3>3. NewBlockIn(heap, B, F, t, x, b, of, NewBlock(x.h, b, x.contents, of))
      BY <1>7, <1>14, <2>2, <3>2, NewBlockGood
    <3>4. NewBlockIn(heap, B, F, t, x, b, of, h1)
      BY <2>3, <3>3
    <3> QED  BY <3>1, <3>4 DEF NewBlockIn
  <2>5. BlockRead(r, t, b, h1)
    BY <1>4, <1>11, <2>2, <2>4 DEF BlockRead
  <2>6. CASE ~(BlockCache /\ x.contents.cachable /\ iter[r].fill)
    <3>1. SetData(r, h1, entry, b, "delete")
      BY <1>3, <1>14, <2>1, <2>3, <2>6
    <3>2. PICK z : z = Cleanup(h1, entry, iter[r].block, iter[r].how)
      OBVIOUS
    <3>3. /\ heap' = z.h /\ entry' = z.entry
          /\ g = [iter EXCEPT ![r].pc = "open", ![r].block = b, ![r].how = "delete"]
      BY <1>12, <3>1, <3>2 DEF SetData
    <3>4. StandsIn(r, g, b, "delete")
      BY <1>2, <1>11, <3>3, SetReader
    <3>5. Inv(z.h, table, z.entry, nextId, g)
      BY <1>7, <2>5, <3>2, <3>4, KeepBlock
    <3> QED  BY <1>2, <1>12, <3>3, <3>5 DEF IInv
  <2>7. CASE BlockCache /\ x.contents.cachable /\ iter[r].fill
    <3>1. PICK y : y = Erased(h1, entry, CachedBlock(key))
      OBVIOUS
    <3>2. PICK en3 : en3 = SetTo(y.entry, b, NewEntry(key))
      OBVIOUS
    <3>3. SetData(r, y.h, en3, b, "release")
      <4>1. SetData(r, y.h, [y.entry EXCEPT ![b] = [live |-> TRUE, key |-> key, cached |-> TRUE, refs |-> 2]],
                    b, "release")
        BY <1>3, <1>14, <2>1, <2>3, <2>7, <3>1
      <4>2. en3 = [y.entry EXCEPT ![b] = [live |-> TRUE, key |-> key, cached |-> TRUE, refs |-> 2]]
        BY <3>2 DEF SetTo, NewEntry
      <4> QED  BY <4>1, <4>2
    <3>4. PICK z : z = Cleanup(y.h, en3, iter[r].block, iter[r].how)
      OBVIOUS
    <3>5. /\ heap' = z.h /\ entry' = z.entry
          /\ g = [iter EXCEPT ![r].pc = "open", ![r].block = b, ![r].how = "release"]
      BY <1>12, <3>3, <3>4 DEF SetData
    <3>6. StandsIn(r, g, b, "release")
      BY <1>2, <1>11, <3>5, SetReader
    <3>7. KeyFor(key, r, t) /\ h1.blocks[b].owned /\ BlockCache
      BY <1>1, <2>4, <2>7 DEF KeyFor, CacheKey
    <3>8. Inv(z.h, table, z.entry, nextId, g)
      BY <1>6, <1>7, <2>5, <3>1, <3>2, <3>4, <3>6, <3>7, CacheBlock
    <3> QED  BY <1>2, <1>12, <3>5, <3>8 DEF IInv
  <2> QED  BY <2>6, <2>7
<1> QED  BY <1>13, <1>14

\* Table::Rep
NewTable(n, map, b, filter) ==
  [live |-> TRUE, file |-> n, map |-> map, id |-> CacheId, index |-> b, filter |-> filter,
   cached |-> TRUE, refs |-> 2]

\* The filter of a table t that has been read, and the array that holds it.
FilterIs(h, filter, t, F) ==
  /\ filter \in [data : DataType \cup {Nowhere}, delete : BOOLEAN]
  /\ \/ filter.delete = TRUE /\ \E a \in Objects \ h.bufs : filter.data = InBuffer(a) /\ F = {a}
     \/ filter.delete = FALSE /\ filter.data \in {Nowhere, InMap(t)} /\ F = {}

\* A filter record has its type.
LEMMA FilterTyped ==
  ASSUME NEW d \in DataType \cup {Nowhere}, NEW e \in BOOLEAN, NEW f, f = [data |-> d, delete |-> e]
  PROVE  f \in [data : DataType \cup {Nowhere}, delete : BOOLEAN] /\ f.data = d /\ f.delete = e
  OBVIOUS

\* Both kinds of place are places.
LEMMA DataTyped ==
  ASSUME NEW a \in Objects
  PROVE  InMap(a) \in DataType /\ InBuffer(a) \in DataType
  BY DEF InMap, InBuffer, DataType

\* What is left after one array more.
LEMMA ArraysLeft ==
  ASSUME BlockReadsAssumption, NEW h, NEW g, Cardinality(FreeBuffers(h)) >= 4,
         NEW a \in Objects, g.bufs \subseteq h.bufs \cup {a}
  PROVE  Cardinality(FreeBuffers(g)) >= 2
<1>1. IsFiniteSet(FreeBuffers(h)) /\ IsFiniteSet(FreeBuffers(g))
  BY FS_Subset DEF FreeBuffers, BlockReadsAssumption
<1>2. FreeBuffers(h) \ {a} \subseteq FreeBuffers(g)
  BY DEF FreeBuffers
<1>3. PICK S : S = FreeBuffers(h) \ {a}
  OBVIOUS
<1>4. IsFiniteSet(S) /\ Cardinality(S) >= 3
  <2>1. IsFiniteSet(FreeBuffers(h)) /\ Cardinality(FreeBuffers(h)) \in Nat
    BY <1>1, FS_CardinalityType
  <2>2. CASE a \in FreeBuffers(h)
    <3>1. IsFiniteSet(FreeBuffers(h) \ {a}) /\ Cardinality(FreeBuffers(h) \ {a}) = Cardinality(FreeBuffers(h)) - 1
      BY <2>1, <2>2, FS_RemoveElement
    <3> QED  BY <1>3, <2>1, <3>1
  <2>3. CASE a \notin FreeBuffers(h)
    <3>1. S = FreeBuffers(h)
      BY <1>3, <2>3
    <3> QED  BY <2>1, <3>1
  <2> QED  BY <2>2, <2>3
<1>5. Cardinality(S) \in Nat /\ Cardinality(FreeBuffers(g)) \in Nat
  BY <1>1, <1>4, FS_CardinalityType
<1>6. Cardinality(S) =< Cardinality(FreeBuffers(g))
  BY <1>1, <1>2, <1>3, FS_Subset
<1> QED  BY <1>4, <1>5, <1>6

\* Table::ReadFilter
FilterFrom(f) ==
  IF ~f.ok THEN [data |-> Nowhere, delete |-> FALSE]
  ELSE [data |-> f.contents.data, delete |-> f.contents.heap]

\* A filter is read after the index, or not.
LEMMA FilterRead ==
  ASSUME NEW h, NEW B, NEW A, NEW h1, NEW t \in Objects, NEW map, NEW b, NEW q, NEW of,
         NewBlockIn(h, B, A, t, q, b, of, h1), NEW f, ReadResult(h1, t, map, f), A \subseteq h1.bufs,
         NEW filter, filter = FilterFrom(f)
  PROVE  \E F : TableIn(h, B, A, f.h, t, b, F) /\ FilterIs(h1, filter, t, F)
<1>1. /\ HeapIs(h1, B \cup {b}, A)
      /\ \A o \in Objects : o # b => h1.blocks[o] = h.blocks[o]
      /\ ~h1.blocks[b].owned => h1.blocks[b].data = InMap(t)
  BY DEF NewBlockIn
<1>2. CASE ~f.ok /\ f.h = h1
  <2>1. filter = [data |-> Nowhere, delete |-> FALSE]
    BY <1>2 DEF FilterFrom
  <2>2. FilterIs(h1, filter, t, {})
    BY <2>1, FilterTyped, DataTyped DEF FilterIs
  <2>3. A \cup {} = A
    OBVIOUS
  <2>4. TableIn(h, B, A, f.h, t, b, {})
    BY <1>1, <1>2, <2>3 DEF TableIn
  <2> QED  BY <2>2, <2>4
<1>3. CASE f.ok /\ f.h = h1 /\ f.contents.data = InMap(t) /\ f.contents.heap = FALSE
  <2>1. filter = [data |-> InMap(t), delete |-> FALSE]
    BY <1>3 DEF FilterFrom
  <2>2. FilterIs(h1, filter, t, {})
    BY <2>1, FilterTyped, DataTyped DEF FilterIs
  <2>3. A \cup {} = A
    OBVIOUS
  <2>4. TableIn(h, B, A, f.h, t, b, {})
    BY <1>1, <1>3, <2>3 DEF TableIn
  <2> QED  BY <2>2, <2>4
<1>4. CASE f.ok /\ \E a \in Objects \ h1.bufs :
             /\ f.h = [h1 EXCEPT !.bufs = @ \cup {a}]
             /\ f.contents.data = InBuffer(a) /\ f.contents.heap = TRUE
  <2>1. PICK a \in Objects \ h1.bufs :
             /\ f.h = [h1 EXCEPT !.bufs = @ \cup {a}]
             /\ f.contents.data = InBuffer(a) /\ f.contents.heap = TRUE
    BY <1>4
  <2>2. filter = [data |-> InBuffer(a), delete |-> TRUE]
    BY <1>4, <2>1 DEF FilterFrom
  <2>3. FilterIs(h1, filter, t, {a})
    BY <2>2, FilterTyped, DataTyped DEF FilterIs
  <2>4. HeapIs(f.h, B \cup {b}, A \cup {a})
    BY <1>1, <2>1, AddArray
  <2>5. f.h.blocks = h1.blocks
    BY <1>1, <2>1, NewArrayIs DEF HeapIs
  <2>6. TableIn(h, B, A, f.h, t, b, {a})
    BY <1>1, <2>4, <2>5 DEF TableIn
  <2> QED  BY <2>3, <2>6
<1> QED  BY <1>2, <1>3, <1>4 DEF ReadResult

\* What Table::Open may answer; B and A are the blocks and arrays of the heap.
OpenResult(B, A, t, n, map, x) ==
  \/ ~x.ok /\ x.h = heap
  \/ x.ok /\ \E b \in Objects \ B : \E F, h1, filter :
       /\ TableIn(heap, B, A, x.h, t, b, F) /\ FilterIs(h1, filter, t, F) /\ A \subseteq h1.bufs
       /\ x.table = NewTable(n, map, b, filter) /\ ~heap.blocks[b].live

\* What Table::Open leaves on the heap, whether it succeeds or fails.
LEMMA OpenedIs ==
  ASSUME BlockReadsAssumption, NEW T, NEW D, NEW R, Good(heap, table, entry, T, D, R), Room(heap, 4),
         NEW t \in Objects, NEW n \in Files, NEW map \in BOOLEAN, NEW x \in Opened(heap, t, n, map)
  PROVE  OpenResult(BlocksOf(table, entry, D), ArraysOf(table), t, n, map, x)
<1>1. PICK B, A : B = BlocksOf(table, entry, D) /\ A = ArraysOf(table)
  OBVIOUS
<1>2. /\ Cardinality(FreeBuffers(heap)) >= 4 /\ Cardinality(FreeBlocks(heap)) >= 4
      /\ heap \in HeapType /\ ~heap.bad /\ HeapIs(heap, B, A)
  BY <1>1 DEF Room, Good, HeapIs
<1>3. Cardinality(FreeBuffers(heap)) >= 2 /\ Cardinality(FreeBlocks(heap)) >= 2
  <2>1. IsFiniteSet(FreeBuffers(heap)) /\ IsFiniteSet(FreeBlocks(heap))
    BY FS_Subset DEF FreeBuffers, FreeBlocks, BlockReadsAssumption
  <2>2. Cardinality(FreeBuffers(heap)) \in Nat /\ Cardinality(FreeBlocks(heap)) \in Nat
    BY <2>1, FS_CardinalityType
  <2> QED  BY <1>2, <2>2
<1> DEFINE NoFilter == [data |-> Nowhere, delete |-> FALSE]
           FilterOf(f) == IF ~f.ok THEN NoFilter ELSE [data |-> f.contents.data, delete |-> f.contents.heap]
           Block(q) == New(FreeBlocks(q.h))
           Heap(q) == NewBlock(q.h, Block(q), q.contents, <<n, "index">>)
           Rest(q) ==
             IF ~Filters THEN {[h |-> Heap(q), ok |-> TRUE, table |-> NewTable(n, map, Block(q), NoFilter)]}
             ELSE {[h |-> f.h, ok |-> TRUE, table |-> NewTable(n, map, Block(q), FilterOf(f))] : f \in ReadBlock(Heap(q), t, map)}
<1>4. PICK q \in ReadBlock(heap, t, map) : x \in IF q.ok THEN Rest(q) ELSE {q}
  BY DEF Opened, NewTable
<1>5. ReadResult(heap, t, map, q)
  BY <1>2, <1>3, <1>4, ReadBlockIs
<1>6. CASE ~q.ok
  <2>1. x = q
    BY <1>4, <1>6
  <2>2. ~x.ok /\ x.h = heap
    BY <1>5, <1>6, <2>1 DEF ReadResult
  <2> QED  BY <2>2 DEF OpenResult
<1>7. CASE q.ok
  <2>1. x \in Rest(q)
    BY <1>4, <1>7
  <2>2. q.h.blocks = heap.blocks
    <3>1. CASE q.h = heap
      BY <3>1
    <3>2. CASE \E a \in Objects \ heap.bufs : q.h = [heap EXCEPT !.bufs = @ \cup {a}]
      BY <1>2, <3>2, NewArrayIs
    <3> QED  BY <1>5, <3>1, <3>2 DEF ReadResult
  <2>3. FreeBlocks(q.h) = FreeBlocks(heap)
    BY <2>2 DEF FreeBlocks
  <2>4. PICK b, h1, of : b = Block(q) /\ h1 = Heap(q) /\ of = <<n, "index">>
    OBVIOUS
  <2>5. b \in Objects \ B /\ ~heap.blocks[b].live
    <3>1. b = New(FreeBlocks(heap))
      BY <2>3, <2>4
    <3> QED  BY <1>1, <1>3, <3>1, FreshBlock
  <2>6. NewBlockIn(heap, B, A, t, q, b, of, h1)
    <3>1. of \in Files \X (Offsets \cup {"index"})
      BY <2>4
    <3>2. h1 = NewBlock(q.h, b, q.contents, of)
      BY <2>4
    <3>3. NewBlockIn(heap, B, A, t, q, b, of, NewBlock(q.h, b, q.contents, of))
      <4> HIDE DEF Rest, Block, Heap, FilterOf, NoFilter
      <4> QED  BY <1>2, <1>5, <1>7, <2>5, <3>1, NewBlockGood
    <3> QED  BY <3>2, <3>3
  <2>7. A \subseteq h1.bufs /\ HeapIs(h1, B \cup {b}, A)
    BY <2>6 DEF NewBlockIn, HeapIs
  <2>8. \E F, filter : /\ TableIn(heap, B, A, x.h, t, b, F) /\ FilterIs(h1, filter, t, F)
                       /\ x.table = NewTable(n, map, b, filter) /\ x.ok
    <3>1. CASE ~Filters
      <4>1. x = [h |-> h1, ok |-> TRUE, table |-> NewTable(n, map, b, NoFilter)]
        BY <2>1, <2>4, <3>1
      <4>2. x.h = h1 /\ x.ok /\ x.table = NewTable(n, map, b, NoFilter)
        BY <4>1
      <4>3. FilterIs(h1, NoFilter, t, {})
        BY FilterTyped DEF FilterIs
      <4>4. A \cup {} = A
        OBVIOUS
      <4>5. TableIn(heap, B, A, h1, t, b, {})
        BY <2>6, <4>4 DEF NewBlockIn, TableIn
      <4> QED  BY <4>2, <4>3, <4>5
    <3>2. CASE Filters
      <4>1. PICK f \in ReadBlock(h1, t, map) : x = [h |-> f.h, ok |-> TRUE, table |-> NewTable(n, map, b, FilterOf(f))]
        BY <2>1, <2>4, <3>2
      <4>2. PICK filter : filter = FilterFrom(f)
        OBVIOUS
      <4>3. x.h = f.h /\ x.ok /\ x.table = NewTable(n, map, b, filter)
        BY <4>1, <4>2 DEF FilterFrom
      <4> HIDE DEF Rest, Block, Heap, FilterOf, NoFilter
      <4>4. Cardinality(FreeBuffers(h1)) >= 2
        <5>1. PICK a \in Objects : h1.bufs \subseteq heap.bufs \cup {a}
          BY <2>6 DEF NewBlockIn
        <5> QED  BY <1>2, <5>1, ArraysLeft
      <4>5. h1 \in HeapType /\ ~h1.bad
        BY <2>7 DEF HeapIs
      <4>6. ReadResult(h1, t, map, f)
        BY <4>1, <4>4, <4>5, ReadBlockIs
      <4>7. \E F : TableIn(heap, B, A, f.h, t, b, F) /\ FilterIs(h1, filter, t, F)
        BY <2>6, <2>7, <4>2, <4>6, FilterRead
      <4> QED  BY <4>3, <4>7
    <3> QED  BY <3>1, <3>2
  <2> HIDE DEF Rest, Block, Heap, FilterOf, NoFilter
  <2>9. PICK F, filter : /\ TableIn(heap, B, A, x.h, t, b, F) /\ FilterIs(h1, filter, t, F)
                         /\ x.table = NewTable(n, map, b, filter) /\ x.ok
    BY <2>8
  <2>10. OpenResult(B, A, t, n, map, x)
    BY <2>5, <2>7, <2>9 DEF OpenResult
  <2> QED  BY <1>1, <2>10
<1> QED  BY <1>6, <1>7

\* The cache tells a new table from all before it.
LEMMA NamesOpen ==
  ASSUME BlockReadsAssumption, NEW h, NEW tab, NEW en, NEW id, Names(h, tab, en, id), NEW g,
         tab \in [Objects -> {Free} \cup TableType], en \in [Objects -> {Free} \cup EntryType],
         \A c \in Live(en) : g.blocks[c] = h.blocks[c],
         NEW t \in Objects, NEW tab2, OnlyAt(tab, tab2, t), BlockCache => tab2[t].id = id
  PROVE  Names(g, tab2, en, id + 1)
<1>1. id \in Nat /\ id > 0 /\ id + 1 \in Nat /\ id + 1 > 0
  BY DEF Names
<1>2. \A u \in Live(tab2) : u = t \/ (u # t /\ u \in Live(tab) /\ tab2[u] = tab[u])
  BY DEF OnlyAt, Live
<1>3. CASE BlockCache
  <2>1. tab2[t].id = id
    BY <1>3
  <2>2. /\ \A u \in Live(tab) : tab[u].id < id
        /\ \A u, v \in Live(tab) : tab[u].id = tab[v].id => u = v
    BY <1>3 DEF Names
  <2>3. \A u \in Live(tab) : tab[u].id \in Nat
    BY TableFields DEF TableType
  <2>4. \A c \in Live(en) : en[c].key[1] \in Nat
    BY EntryFields DEF EntryType
  <2>5. \A c \in Live(en) : en[c].key[1] < id
    BY DEF Names
  <2>6. \A u \in Live(tab2) : tab2[u].id < id + 1
    <3> SUFFICES ASSUME NEW u \in Live(tab2) PROVE tab2[u].id < id + 1
      OBVIOUS
    <3>1. CASE u = t
      BY <1>1, <2>1, <3>1
    <3>2. CASE u # t
      <4>1. tab2[u].id = tab[u].id /\ u \in Live(tab)
        BY <1>2, <3>2
      <4> QED  BY <1>1, <2>2, <2>3, <4>1
    <3> QED  BY <3>1, <3>2
  <2>7. \A u, v \in Live(tab2) : tab2[u].id = tab2[v].id => u = v
    <3>1. \A u \in Live(tab) : tab[u].id # id
      BY <1>1, <2>2, <2>3
    <3> QED  BY <1>2, <2>1, <2>2, <3>1
  <2>8. \A c \in Live(en) : en[c].key[1] < id + 1 /\ en[c].key[1] # id
    BY <1>1, <2>4, <2>5
  <2>9. \A c \in Live(en) : \A u \in Live(tab2) : tab2[u].id = en[c].key[1] =>
          g.blocks[c].of = <<tab2[u].file, en[c].key[2]>>
    <3> SUFFICES ASSUME NEW c \in Live(en), NEW u \in Live(tab2), tab2[u].id = en[c].key[1]
                 PROVE  g.blocks[c].of = <<tab2[u].file, en[c].key[2]>>
      OBVIOUS
    <3>1. u # t
      BY <2>1, <2>8
    <3>2. u \in Live(tab) /\ tab2[u] = tab[u]
      BY <1>2, <3>1
    <3> QED  BY <3>2 DEF Names
  <2> QED  BY <1>1, <1>3, <2>6, <2>7, <2>8, <2>9 DEF Names
<1>4. CASE ~BlockCache
  <2>1. Live(en) = {}
    BY <1>4 DEF Names
  <2> QED  BY <1>1, <1>4, <2>1 DEF Names
<1> QED  BY <1>3, <1>4

\* Insert: an older table of the same file goes when the new one has come.
LEMMA TableReplaced ==
  ASSUME BlockReadsAssumption, NEW T, NEW D, NEW R, Good(heap, table, entry, T, D, R),
         NEW h1, NEW tab2, NEW T2, Good(h1, tab2, entry, T2, D, R),
         NEW t \in Objects, ~table[t].live, NEW new, tab2 = SetTo(table, t, new),
         NEW n, NEW y, y = Uncached(h1, table, CachedTable(n)), NEW tab3, tab3 = SetTo(y.table, t, new)
  PROVE  Good(y.h, tab3, entry, T2, D, R) /\ BlocksStay(h1, y.h) /\ TablesStay(tab2, tab3)
<1>0. PICK S : S = CachedTable(n)
  OBVIOUS
<1>1. /\ table \in [Objects -> {Free} \cup TableType] /\ \A c \in Live(table) : table[c].refs # 0
      /\ tab2 \in [Objects -> {Free} \cup TableType]
  BY CountsPositive
<1>4. S \subseteq Live(table) /\ (\A c \in S : table[c].cached) /\ y = Uncached(h1, table, S)
  BY <1>0 DEF CachedTable, Live
<1>2. CASE S = {}
  <2>1. y = [h |-> h1, table |-> table]
    BY <1>2, <1>4 DEF Uncached
  <2>2. y.h = h1 /\ y.table = table
    BY <2>1
  <2>3. y.h = h1 /\ tab3 = tab2
    BY <2>2
  <2> QED  BY <2>3, SameStay, SameBlocksStay
<1>3. CASE S # {}
  <2>1. PICK e : e = New(S)
    OBVIOUS
  <2>2. e \in S /\ TableUnref(h1, table, e, FALSE, y.h, y.table)
    BY <1>1, <1>3, <1>4, <2>1, UncachedIs
  <2>3. e \in Live(table) /\ e # t /\ e \in Objects /\ table[e].cached
    BY <1>4, <2>2 DEF Live
  <2>4. tab2[e] = table[e] /\ e \in Live(tab2) /\ tab2[t] = new
    BY <1>1, <2>3 DEF Live, SetTo
  <2>5. y.table \in [Objects -> {Free} \cup TableType] /\ OnlyAt(table, y.table, e)
    BY <2>2 DEF TableUnref
  <2>6. tab3[e] = y.table[e] /\ tab3[t] = new
    BY <2>3, <2>5 DEF SetTo
  <2>7. OnlyAt(tab2, tab3, e)
    <3> SUFFICES ASSUME NEW o \in Objects, o # e PROVE tab3[o] = tab2[o]
      BY DEF OnlyAt
    <3>1. CASE o = t
      BY <3>1, <2>4, <2>6
    <3>2. CASE o # t
      <4>1. tab3[o] = y.table[o]
        BY <3>2, <2>5 DEF SetTo
      <4>2. y.table[o] = table[o]
        BY <2>5 DEF OnlyAt
      <4>3. tab2[o] = table[o]
        BY <3>2, <1>1 DEF SetTo
      <4> QED  BY <4>1, <4>2, <4>3
    <3> QED  BY <3>1, <3>2
  <2>8. tab3 \in [Objects -> {Free} \cup TableType]
    <3>1. new \in {Free} \cup TableType
      BY <1>1, <2>4
    <3> QED  BY <3>1, <2>5 DEF SetTo
  <2>9. PICK h3 : h3 = y.h
    OBVIOUS
  <2>10. TableUnref(h1, tab2, e, FALSE, h3, tab3)
    <3>1. PICK v, w, z : v = table[e] /\ w = y.table[e] /\ z = tab3[e]
      OBVIOUS
    <3>2. z = w /\ tab2[e] = v
      BY <2>4, <2>6, <3>1
    <3>3. IF v.refs = 1
          THEN /\ w = Free
               /\ h3 = DeleteBlock(IF v.filter.delete THEN DeleteArray(h1, v.filter.data.at) ELSE h1, v.index)
          ELSE h3 = h1 /\ w = [v EXCEPT !.cached = FALSE, !.refs = @ - 1]
      BY <2>2, <2>9, <3>1 DEF TableUnref
    <3> QED  BY <2>7, <2>8, <3>1, <3>2, <3>3 DEF TableUnref
  <2>11. tab2[e].cached
    BY <2>3, <2>4
  <2>12. PICK u2, u3 : u2 = tab2 /\ u3 = tab3
    OBVIOUS
  <2>13. TableUnref(h1, u2, e, FALSE, h3, u3) /\ u2[e].cached /\ e \in Live(u2) /\ Good(h1, u2, entry, T2, D, R)
    BY <2>4, <2>10, <2>11, <2>12
  <2>14. Good(h3, u3, entry, T2, D, R) /\ BlocksStay(h1, h3) /\ TablesStay(u2, u3)
    BY <2>13, TableUncached
  <2> QED  BY <2>9, <2>12, <2>14
<1> QED  BY <1>2, <1>3

JustOpened(new, n, b, filter) ==
  /\ new \in TableType /\ new.live /\ new.file = n /\ new.index = b /\ new.filter = filter
  /\ new.cached = TRUE /\ new.refs = 2 /\ (BlockCache => new.id = nextId)

\* What a new table is.
LEMMA NewTableIs ==
  ASSUME BlockReadsAssumption, NEW h, NEW tab, NEW en, Names(h, tab, en, nextId), NEW n \in Files,
         NEW map \in BOOLEAN, NEW b \in Objects, NEW k, NEW filter, NEW t \in Objects, NEW F, FilterIs(k, filter, t, F),
         NEW new, new = NewTable(n, map, b, filter)
  PROVE  JustOpened(new, n, b, filter)
<1>1. nextId \in Nat
  BY DEF Names
<1>2. CacheId \in Nat /\ (BlockCache => CacheId = nextId)
  BY <1>1 DEF CacheId
<1>3. filter \in [data : DataType \cup {Nowhere}, delete : BOOLEAN]
  BY DEF FilterIs
<1> QED  BY <1>2, <1>3 DEF NewTable, TableType, JustOpened

\* The new table has come, and the older one has not gone yet.
Inserted(h1, tab2, T2, D, R, t, new, n) ==
  /\ Good(h1, tab2, entry, T2, D, R) /\ Names(h1, tab2, entry, nextId + 1)
  /\ tab2[t] = new /\ OnlyAt(table, tab2, t) /\ new.live /\ new.file = n

\* A table opened and inserted in the table cache, held by its reader.
LEMMA TableInserted ==
  ASSUME BlockReadsAssumption, NEW T, NEW D, NEW R, Good(heap, table, entry, T, D, R),
         Names(heap, table, entry, nextId), NEW r \in Readers, NEW t \in Objects, ~table[t].live,
         NEW n \in Files, NEW map \in BOOLEAN, NEW b \in Objects \ BlocksOf(table, entry, D),
         NEW h1, NEW F, NEW k, NEW filter, TableIn(heap, BlocksOf(table, entry, D), ArraysOf(table), h1, t, b, F),
         FilterIs(k, filter, t, F), ArraysOf(table) \subseteq k.bufs,
         NEW new, new = NewTable(n, map, b, filter),
         NEW tab2, tab2 = SetTo(table, t, new), NEW T2, T2 = T \cup {<<r, t>>}
  PROVE  Inserted(h1, tab2, T2, D, R, t, new, n)
<1>0. JustOpened(new, n, b, filter)
  BY NewTableIs
<1>1. /\ new \in TableType /\ new.live /\ new.file = n /\ new.index = b /\ new.filter = filter
      /\ new.cached = TRUE /\ new.refs = 2 /\ (BlockCache => new.id = nextId)
  BY <1>0 DEF JustOpened
<1>2. table \in [Objects -> {Free} \cup TableType] /\ entry \in [Objects -> {Free} \cup EntryType]
  BY CountsPositive
<1>3. tab2[t] = new /\ OnlyAt(table, tab2, t) /\ tab2 \in [Objects -> {Free} \cup TableType]
  BY <1>1, <1>2 DEF SetTo, OnlyAt
<1>4. TablesOK(tab2, T2)
  <2>1. Counted(table, T)
    BY DEF Good, TablesOK
  <2>2. tab2[t].live /\ tab2[t].cached = TRUE /\ tab2[t].refs = 2
    BY <1>1, <1>3
  <2>3. Counted(tab2, T2)
    BY <2>1, <2>2, <1>3, CountInsert
  <2> QED  BY <1>3, <2>3 DEF TablesOK
<1>5. PICK B, A : B = BlocksOf(table, entry, D) /\ A = ArraysOf(table)
  OBVIOUS
<1>6. /\ HeapIs(h1, B \cup {b}, A \cup F)
      /\ \A o \in Objects : o # b => h1.blocks[o] = heap.blocks[o]
      /\ ~h1.blocks[b].owned => h1.blocks[b].data = InMap(t)
  BY <1>5 DEF TableIn
<1>7. PICK w : w = tab2[t].filter
  OBVIOUS
<1>8. FilterFits(A, w, t, F)
  <2>1. w = filter
    BY <1>1, <1>3, <1>7
  <2>2. CASE filter.delete = TRUE /\ \E a \in Objects \ k.bufs : filter.data = InBuffer(a) /\ F = {a}
    BY <1>5, <2>1, <2>2 DEF InBuffer, FilterFits
  <2>3. CASE filter.delete = FALSE /\ filter.data \in {Nowhere, InMap(t)} /\ F = {}
    BY <2>1, <2>3 DEF FilterFits
  <2> QED  BY <2>2, <2>3 DEF FilterIs
<1>9. Good(h1, tab2, entry, T2, D, R)
  <2>1. tab2[t].live /\ tab2[t].index = b /\ T \subseteq T2
    BY <1>1, <1>3
  <2>2. PICK u2 : u2 = tab2
    OBVIOUS
  <2>3. u2[t].live /\ u2[t].index = b /\ OnlyAt(table, u2, t) /\ TablesOK(u2, T2) /\ T \subseteq T2
    BY <1>3, <1>4, <2>1, <2>2
  <2>4. FilterFits(ArraysOf(table), u2[t].filter, t, F)
    BY <1>5, <1>7, <1>8, <2>2
  <2>5. Good(h1, u2, entry, T2, D, R)
    BY <2>3, <2>4, TableComes
  <2> QED  BY <2>2, <2>5
<1>10. Names(h1, tab2, entry, nextId + 1)
  <2>1. \A c \in Live(entry) : c \in Objects /\ c # b
    BY OldBlocks
  <2>2. \A c \in Live(entry) : h1.blocks[c] = heap.blocks[c]
    BY <1>6, <2>1
  <2>3. BlockCache => tab2[t].id = nextId
    BY <1>1, <1>3
  <2> QED  BY <1>2, <1>3, <2>2, <2>3, NamesOpen
<1> QED  BY <1>1, <1>3, <1>9, <1>10 DEF Inserted

\* Reader r holds table t, the one that has been opened.
HasOpened(r, g, t) ==
  /\ g = [q \in Readers |-> g[q]] /\ OnlyReader(iter, g, r) /\ g[r] \in ReaderType
  /\ g[r].pc = "open" /\ g[r].table = t /\ g[r].file = iter[r].file /\ g[r].how = "none"

\* The reader of a table that it has just opened.
LEMMA OpenReader ==
  ASSUME BlockReadsAssumption, IInv, NEW r \in Readers, iter[r].pc = "opening", NEW t \in Objects,
         NEW g, g = [iter EXCEPT ![r].pc = "open", ![r].table = t]
  PROVE  HasOpened(r, g, t)
<1>1. iter = [q \in Readers |-> iter[q]] /\ ReaderOK(table, iter, r) /\ iter[r] \in ReaderType
  BY Myself
<1>2. PICK w : w = [iter[r] EXCEPT !.pc = "open", !.table = t]
  OBVIOUS
<1>3. g = [iter EXCEPT ![r] = w]
  BY <1>1, <1>2
<1>4. g[r] = w /\ OnlyReader(iter, g, r) /\ g = [q \in Readers |-> g[q]]
  BY <1>1, <1>3, ReaderSet
<1>5. iter[r].how = "none"
  BY <1>1 DEF ReaderOK, ReaderType
<1>6. /\ w \in ReaderType /\ w.pc = "open" /\ w.table = t /\ w.file = iter[r].file /\ w.how = "none"
  BY <1>1, <1>2, <1>5 DEF ReaderType, Holding
<1> QED  BY <1>4, <1>6 DEF HasOpened

\* FindTable has opened a table.
LEMMA TableOpened ==
  ASSUME BlockReadsAssumption, IInv, NEW r \in Readers, iter[r].pc = "opening", NEW t \in Objects, ~table[t].live,
         NEW n, n = iter[r].file, NEW new, NEW h1, NEW tab2, tab2 = SetTo(table, t, new),
         NEW T2, T2 = HeldT(iter) \cup {<<r, t>>},
         Good(h1, tab2, entry, T2, HeldB(iter, "delete"), HeldB(iter, "release")),
         Names(h1, tab2, entry, nextId + 1), BlocksKeep(heap, h1),
         tab2[t] = new, OnlyAt(table, tab2, t), new.live, new.file = n,
         NEW y, y = Uncached(h1, table, CachedTable(n)), NEW tab3, tab3 = SetTo(y.table, t, new),
         NEW g, HasOpened(r, g, t)
  PROVE  Inv(y.h, tab3, entry, nextId + 1, g)
<1>1. PICK T, D, R : T = HeldT(iter) /\ D = HeldB(iter, "delete") /\ R = HeldB(iter, "release")
  OBVIOUS
<1>2. Good(heap, table, entry, T, D, R) /\ Names(heap, table, entry, nextId) /\ ReaderOK(table, iter, r) /\ iter[r] \in ReaderType
  BY <1>1, Myself
<1>3. iter[r].table = None /\ iter[r].how = "none" /\ iter[r].file \in Files
  BY <1>2 DEF ReaderOK, Holding, ReaderType
<1>4. Good(h1, tab2, entry, T2, D, R)
  BY <1>1
<1>5. Good(y.h, tab3, entry, T2, D, R) /\ BlocksStay(h1, y.h) /\ TablesStay(tab2, tab3)
  BY <1>2, <1>4, TableReplaced
<1>6. PICK h3, k : h3 = y.h /\ k = nextId + 1
  OBVIOUS
<1>7. Good(h3, tab3, entry, T2, D, R) /\ BlocksStay(h1, h3) /\ Names(h1, tab2, entry, k)
  BY <1>5, <1>6
<1>8. Names(h3, tab3, entry, k)
  BY <1>5, <1>7, NamesStay, SameStay, EntriesHaveBlocks
<1>9. BlocksKeep(heap, h3)
  BY <1>7 DEF BlocksKeep, BlocksStay
<1>10. TablesKeep(table, tab3)
  <2> SUFFICES ASSUME NEW u \in Live(table), u \in Live(tab3) PROVE tab3[u].file = table[u].file
    BY DEF TablesKeep
  <2>1. u # t /\ u \in Objects
    BY DEF Live
  <2>2. tab2[u] = table[u]
    BY <2>1 DEF OnlyAt
  <2>3. tab3[u].file = tab2[u].file
    BY <1>5 DEF TablesStay
  <2> QED  BY <2>2, <2>3
<1>11. /\ g = [q \in Readers |-> g[q]] /\ OnlyReader(iter, g, r) /\ g[r] \in ReaderType
       /\ g[r].pc = "open" /\ g[r].table = t /\ g[r].file = iter[r].file /\ g[r].how = "none"
  BY DEF HasOpened
<1>12. t # None
  BY DEF BlockReadsAssumption, None
<1>13. HeldT(g) = T2 /\ HeldB(g, "delete") = D /\ HeldB(g, "release") = R
  <2>1. OnlyReader(iter, g, r)
    BY <1>11
  <2>2. HeldT(g) = HeldT(iter) \cup {<<r, g[r].table>>}
    BY <1>3, <1>11, <1>12, <2>1, HeldTakenT
  <2>3. HeldB(g, "delete") = Minus(HeldB(iter, "delete"), r, iter[r].block, iter[r].how, "delete")
    BY <1>11, HeldDropped
  <2>4. HeldB(g, "release") = Minus(HeldB(iter, "release"), r, iter[r].block, iter[r].how, "release")
    BY <1>11, HeldDropped
  <2> QED  BY <1>1, <1>3, <1>11, <2>2, <2>3, <2>4 DEF Minus
<1>14. tab3[t].file = iter[r].file
  <2>1. <<r, t>> \in T2 /\ <<r, t>>[2] = t
    OBVIOUS
  <2>2. t \in Live(tab3)
    BY <2>1, <1>5 DEF Good, TablesOK, Counted, Live
  <2>3. tab3[t].file = tab2[t].file
    BY <1>5, <2>2 DEF TablesStay
  <2> QED  BY <2>3
<1>15. ReaderOK(tab3, g, r)
  BY <1>3, <1>11, <1>12, <1>14 DEF ReaderOK, Holding
<1>16. RightFor(h3, g, r)
  BY <1>11 DEF RightFor
<1>17. Good(h3, tab3, entry, HeldT(g), HeldB(g, "delete"), HeldB(g, "release"))
  BY <1>7, <1>13
<1>18. Inv(h3, tab3, entry, k, g)
  BY <1>8, <1>9, <1>10, <1>11, <1>15, <1>16, <1>17, ReaderStep DEF IInv
<1> QED  BY <1>6, <1>18

\* Table::Open and the insertion in the table cache, or the failure.
LEMMA OpenTableStep ==
  ASSUME BlockReadsAssumption, IInv, NEW r \in Readers, OpenTable(r)
  PROVE  IInv'
<1>1. PICK t, n : t = New(FreeTables) /\ n = iter[r].file
  OBVIOUS
<1>2. iter[r].pc = "opening" /\ Room(heap, 4) /\ FreeTables # {} /\ entry' = entry
  BY DEF OpenTable
<1>12. PICK map \in BOOLEAN : \E x \in Opened(heap, t, n, map) :
       IF ~x.ok THEN heap' = x.h /\ iter' = [iter EXCEPT ![r] = NoIterator] /\ table' = table /\ nextId' = nextId
       ELSE LET y == Uncached(x.h, table, CachedTable(n))
            IN  /\ heap' = y.h /\ table' = [y.table EXCEPT ![t] = x.table]
                /\ nextId' = nextId + 1
                /\ iter' = [iter EXCEPT ![r].pc = "open", ![r].table = t]
  BY <1>1 DEF OpenTable
<1>3. PICK x \in Opened(heap, t, n, map) :
       IF ~x.ok THEN heap' = x.h /\ iter' = [iter EXCEPT ![r] = NoIterator] /\ table' = table /\ nextId' = nextId
       ELSE LET y == Uncached(x.h, table, CachedTable(n))
            IN  /\ heap' = y.h /\ table' = [y.table EXCEPT ![t] = x.table]
                /\ nextId' = nextId + 1
                /\ iter' = [iter EXCEPT ![r].pc = "open", ![r].table = t]
  BY <1>12
<1>4. PICK T, D, R : T = HeldT(iter) /\ D = HeldB(iter, "delete") /\ R = HeldB(iter, "release")
  OBVIOUS
<1>5. /\ Good(heap, table, entry, T, D, R) /\ ReaderOK(table, iter, r) /\ iter[r] \in ReaderType
      /\ Names(heap, table, entry, nextId) /\ iter = [q \in Readers |-> iter[q]]
  BY <1>4, Myself
<1>6. t \in Objects /\ ~table[t].live
  BY <1>1, <1>2, NewInSet DEF FreeTables
<1>7. n \in Files /\ iter[r].how = "none" /\ iter[r].table = None
  BY <1>1, <1>2, <1>5 DEF ReaderOK, ReaderType, Holding
<1>8. OpenResult(BlocksOf(table, entry, D), ArraysOf(table), t, n, map, x)
  BY <1>2, <1>3, <1>5, <1>6, <1>7, OpenedIs
<1>9. PICK g : g = iter'
  OBVIOUS
<1>10. CASE ~x.ok
  <2>1. heap' = heap /\ g = [iter EXCEPT ![r] = NoIterator] /\ table' = table /\ nextId' = nextId
    BY <1>3, <1>8, <1>9, <1>10 DEF OpenResult
  <2>2. g[r] = NoIterator /\ OnlyReader(iter, g, r) /\ g = [q \in Readers |-> g[q]]
    BY <1>5, <2>1, ReaderSet
  <2>3. g[r].how = "none" /\ g[r].table = iter[r].table /\ ReaderOK(table, g, r)
    BY <1>7, <2>2 DEF NoIterator, ReaderOK, ReaderType, Holding
  <2>4. PICK z : z = Cleanup(heap, entry, iter[r].block, iter[r].how)
    OBVIOUS
  <2>5. z.h = heap /\ z.entry = entry
    BY <1>7, <2>4 DEF Cleanup
  <2>6. Inv(z.h, table, z.entry, nextId, g)
    BY <2>2, <2>3, <2>4, DropBlock
  <2> QED  BY <1>2, <1>9, <2>1, <2>5, <2>6 DEF IInv
<1>11. CASE x.ok
  <2>1. PICK y, new : y = Uncached(x.h, table, CachedTable(n)) /\ new = x.table
    OBVIOUS
  <2>2. PICK tab3 : tab3 = SetTo(y.table, t, new)
    OBVIOUS
  <2>3. /\ heap' = y.h /\ table' = tab3 /\ nextId' = nextId + 1
        /\ g = [iter EXCEPT ![r].pc = "open", ![r].table = t]
    BY <1>3, <1>9, <1>11, <2>1, <2>2 DEF SetTo
  <2>12. PICK b \in Objects \ BlocksOf(table, entry, D) : \E F, k, filter :
          /\ TableIn(heap, BlocksOf(table, entry, D), ArraysOf(table), x.h, t, b, F)
          /\ FilterIs(k, filter, t, F) /\ ArraysOf(table) \subseteq k.bufs
          /\ x.table = NewTable(n, map, b, filter) /\ ~heap.blocks[b].live
    BY <1>8, <1>11 DEF OpenResult
  <2>4. PICK F, k, filter :
          /\ TableIn(heap, BlocksOf(table, entry, D), ArraysOf(table), x.h, t, b, F)
          /\ FilterIs(k, filter, t, F) /\ ArraysOf(table) \subseteq k.bufs
          /\ x.table = NewTable(n, map, b, filter) /\ ~heap.blocks[b].live
    BY <2>12
  <2>5. PICK h1, tab2, T2 : h1 = x.h /\ tab2 = SetTo(table, t, new) /\ T2 = T \cup {<<r, t>>}
    OBVIOUS
  <2>6. TableIn(heap, BlocksOf(table, entry, D), ArraysOf(table), h1, t, b, F) /\ new = NewTable(n, map, b, filter)
    BY <2>1, <2>4, <2>5
  <2>7. /\ Good(h1, tab2, entry, T2, D, R) /\ Names(h1, tab2, entry, nextId + 1)
        /\ tab2[t] = new /\ OnlyAt(table, tab2, t) /\ new.live /\ new.file = n
    <3>1. tab2 = SetTo(table, t, new) /\ T2 = T \cup {<<r, t>>} /\ FilterIs(k, filter, t, F) /\ ArraysOf(table) \subseteq k.bufs
      BY <2>4, <2>5
    <3>2. Inserted(h1, tab2, T2, D, R, t, new, n)
      BY <1>5, <1>6, <1>7, <2>6, <3>1, TableInserted
    <3> QED  BY <3>2 DEF Inserted
  <2>8. BlocksKeep(heap, h1)
    BY <2>4, <2>6 DEF BlocksKeep, TableIn
  <2>9. HasOpened(r, g, t)
    BY <1>2, <1>6, <2>3, OpenReader
  <2>10. T2 = HeldT(iter) \cup {<<r, t>>} /\ y = Uncached(h1, table, CachedTable(n))
         /\ Good(h1, tab2, entry, T2, HeldB(iter, "delete"), HeldB(iter, "release"))
    BY <1>4, <2>1, <2>5, <2>7
  <2>11. Inv(y.h, tab3, entry, nextId + 1, g)
    BY <1>1, <1>2, <1>6, <2>2, <2>5, <2>7, <2>8, <2>9, <2>10, TableOpened
  <2> QED  BY <1>2, <1>9, <2>3, <2>11 DEF IInv
<1> QED  BY <1>10, <1>11

-----------------------------------------------------------------------------
(* The theorems                                                            *)

\* Nothing is allocated at first.
LEMMA InitIsSound ==
  ASSUME BlockReadsAssumption, ReadsInit
  PROVE  IInv
<1>1. /\ heap = [bufs |-> {}, blocks |-> [b \in Objects |-> Free], bad |-> FALSE]
      /\ table = [t \in Objects |-> Free] /\ entry = [b \in Objects |-> Free]
      /\ nextId = 1 /\ iter = [r \in Readers |-> NoIterator]
  BY DEF ReadsInit
<1>2. Live(table) = {} /\ Live(entry) = {}
  BY <1>1, FreeIsNot DEF Live
<1>3. \A r \in Readers : iter[r] = NoIterator
  BY <1>1
<1>4. HeldT(iter) = {} /\ HeldB(iter, "delete") = {} /\ HeldB(iter, "release") = {}
  BY <1>3 DEF HeldT, HeldB, NoIterator
<1>5. BlocksOf(table, entry, {}) = {} /\ ArraysOf(table) = {}
  BY <1>2 DEF BlocksOf, IndexBlocks, OwnBlocks, ArraysOf, Deleting
<1>6. HeapIs(heap, {}, {})
  <2>1. heap \in HeapType /\ ~heap.bad /\ heap.bufs = {}
    BY <1>1 DEF HeapType
  <2>2. \A b \in Objects : ~heap.blocks[b].live
    BY <1>1, FreeIsNot
  <2> QED  BY <2>1, <2>2 DEF HeapIs
<1>7. TablesOK(table, {}) /\ EntriesOK(entry, {})
  BY <1>1, <1>2 DEF TablesOK, EntriesOK, Counted
<1>8. Distinct(table, entry, {}) /\ Places(heap, table, entry, {}, {})
  BY <1>2 DEF Distinct, Places, Deleting
<1>9. Good(heap, table, entry, {}, {}, {})
  BY <1>5, <1>6, <1>7, <1>8 DEF Good
<1>10. Names(heap, table, entry, nextId)
  BY <1>1, <1>2 DEF Names
<1>11. \A r \in Readers : ReaderOK(table, iter, r) /\ RightFor(heap, iter, r)
  <2>1. /\ NoIterator \in ReaderType /\ NoIterator.pc = "idle" /\ NoIterator.table = None /\ NoIterator.how = "none"
    BY DEF NoIterator, ReaderType
  <2>2. "idle" \notin Holding
    BY DEF Holding
  <2> QED  BY <1>3, <2>1, <2>2 DEF ReaderOK, RightFor
<1>12. iter = [r \in Readers |-> iter[r]]
  BY <1>1
<1> QED  BY <1>4, <1>9, <1>10, <1>11, <1>12 DEF IInv, Inv

\* Every step keeps it.
LEMMA NextKeeps ==
  ASSUME BlockReadsAssumption, IInv, [ReadsNext]_readsVars
  PROVE  IInv'
<1>1. CASE UNCHANGED readsVars
  BY <1>1 DEF readsVars, IInv
<1>2. ASSUME NEW r \in Readers, NEW n \in Files, FindTable(r, n)
      PROVE  IInv'
  BY <1>2, FindTableStep
<1>3. ASSUME NEW r \in Readers, OpenTable(r)
      PROVE  IInv'
  BY <1>3, OpenTableStep
<1>4. ASSUME NEW r \in Readers, NEW off \in Offsets, NEW fill \in BOOLEAN, BlockReader(r, off, fill)
      PROVE  IInv'
  BY <1>4, BlockReaderStep
<1>5. ASSUME NEW r \in Readers, ReadIn(r)
      PROVE  IInv'
  BY <1>5, ReadInStep
<1>6. ASSUME NEW r \in Readers, LeaveBlock(r)
      PROVE  IInv'
  BY <1>6, LeaveBlockStep
<1>7. ASSUME NEW r \in Readers, DeleteIterator(r)
      PROVE  IInv'
  BY <1>7, DeleteIteratorStep
<1>8. ASSUME NEW r \in Readers, ReleaseTable(r)
      PROVE  IInv'
  BY <1>8, ReleaseTableStep
<1>9. ASSUME NEW n \in Files, EvictTable(n)
      PROVE  IInv'
  BY <1>9, EvictTableStep
<1>10. ASSUME NEW b \in Objects, EvictBlock(b)
       PROVE  IInv'
  BY <1>10, EvictBlockStep
<1> QED  BY <1>1, <1>2, <1>3, <1>4, <1>5, <1>6, <1>7, <1>8, <1>9, <1>10 DEF ReadsNext

\* From the invariant: the bytes of everything in use are there.
LEMMA BytesThere ==
  ASSUME BlockReadsAssumption, IInv
  PROVE  BytesAreThere
<1>1. PICK T, D, R : T = HeldT(iter) /\ D = HeldB(iter, "delete") /\ R = HeldB(iter, "release")
  OBVIOUS
<1>2. Good(heap, table, entry, T, D, R)
  BY <1>1 DEF IInv, Inv
<1>3. \A r \in Readers : iter[r].table # None => table[iter[r].table].live
  <2> SUFFICES ASSUME NEW r \in Readers, iter[r].table # None PROVE table[iter[r].table].live
    OBVIOUS
  <2>1. Good(heap, table, entry, HeldT(iter), HeldB(iter, "delete"), HeldB(iter, "release")) /\ ReaderOK(table, iter, r)
    BY Myself
  <2> QED  BY <2>1, HeldIsLive DEF Live
<1>4. \A r \in Readers : iter[r].how # "none" => heap.blocks[iter[r].block].live
  BY HeldBlock
<1>5. \A b \in Objects : entry[b].live => heap.blocks[b].live
  BY <1>2, EntriesHaveBlocks DEF Live
<1>6. \A t \in Objects : table[t].live /\ table[t].filter.data # Nowhere => Alive(table[t].filter.data)
  <2> SUFFICES ASSUME NEW t \in Live(table), table[t].filter.data # Nowhere
               PROVE  Alive(table[t].filter.data)
    BY DEF Live
  <2>1. PICK f : f = table[t].filter
    OBVIOUS
  <2>2. IF f.delete THEN f.data.where = "buffer" ELSE f.data \in {Nowhere, InMap(t)}
    BY <1>2, <2>1 DEF Good, Places
  <2>3. CASE f.delete
    <3>1. f.data.at \in ArraysOf(table)
      BY <2>1, <2>3 DEF ArraysOf, Deleting
    <3>2. f.data.at \in heap.bufs
      BY <1>2, <3>1 DEF Good, HeapIs
    <3> QED  BY <2>1, <2>2, <2>3, <3>2 DEF Alive
  <2>4. CASE ~f.delete
    <3>1. f.data = InMap(t)
      BY <2>1, <2>2, <2>4
    <3> QED  BY <2>1, <3>1 DEF Alive, InMap, Live
  <2> QED  BY <2>3, <2>4
<1>7. \A b \in Objects : heap.blocks[b].live => Alive(heap.blocks[b].data)
  <2> SUFFICES ASSUME NEW b \in Objects, heap.blocks[b].live PROVE Alive(heap.blocks[b].data)
    OBVIOUS
  <2>1. HeapIs(heap, BlocksOf(table, entry, D), ArraysOf(table))
    BY <1>2, GoodHeap
  <2>2. b \in BlocksOf(table, entry, D)
    BY <2>1 DEF HeapIs
  <2>3. CASE heap.blocks[b].owned
    <3>1. heap.blocks[b].data.where = "buffer" /\ heap.blocks[b].data.at \in heap.bufs
      BY <2>1, <2>2, <2>3 DEF HeapIs
    <3> QED  BY <3>1 DEF Alive
  <2>4. CASE ~heap.blocks[b].owned
    <3>1. \E t \in Live(table) : heap.blocks[b].data = InMap(t)
      <4>1. CASE b \in IndexBlocks(table)
        <5>1. PICK t \in Live(table) : b = table[t].index
          BY <4>1 DEF IndexBlocks
        <5> QED  BY <1>2, <2>4, <5>1 DEF Good, Places
      <4>2. CASE b \in Live(entry)
        BY <1>2, <2>4, <4>2 DEF Good, Places
      <4>3. CASE b \in OwnBlocks(D)
        <5>1. PICK x \in D : b = x[2]
          BY <4>3 DEF OwnBlocks
        <5>2. PICK t \in Objects : <<x[1], t>> \in T /\ heap.blocks[b].data = InMap(t)
          BY <1>2, <2>4, <5>1 DEF Good, Places
        <5>3. t \in Live(table)
          <6>1. \A y \in T : table[y[2]].live
            BY <1>2 DEF Good, TablesOK, Counted
          <6>2. <<x[1], t>>[2] = t
            OBVIOUS
          <6> QED  BY <5>2, <6>1, <6>2 DEF Live
        <5> QED  BY <5>2, <5>3
      <4> QED  BY <2>2, <4>1, <4>2, <4>3 DEF BlocksOf
    <3>2. PICK t \in Live(table) : heap.blocks[b].data = InMap(t)
      BY <3>1
    <3> QED  BY <3>2 DEF Alive, InMap, Live
  <2> QED  BY <2>3, <2>4
<1> QED  BY <1>3, <1>4, <1>5, <1>6, <1>7 DEF BytesAreThere

\* From the invariant: the owners of the heap are all there are.
LEMMA NothingLost ==
  ASSUME BlockReadsAssumption, IInv
  PROVE  NothingLeaks
<1> DEFINE blocks == {b \in Objects : heap.blocks[b].live}
           tables == {t \in Objects : table[t].live}
<1>1. PICK D : D = HeldB(iter, "delete")
  OBVIOUS
<1>2. HeapIs(heap, BlocksOf(table, entry, D), ArraysOf(table))
  BY <1>1, GoodHeap DEF IInv, Inv
<1>3. tables = Live(table)
  BY DEF Live
<1>4. blocks = BlocksOf(table, entry, D)
  BY <1>2 DEF HeapIs
<1>5. OwnBlocks(D) = {iter[r].block : r \in {r \in Readers : iter[r].how = "delete"}}
  <2>1. PICK S : S = {r \in Readers : iter[r].how = "delete"}
    OBVIOUS
  <2>2. D = {<<r, iter[r].block>> : r \in S}
    BY <1>1, <2>1 DEF HeldB
  <2>3. \A r \in S : <<r, iter[r].block>> \in D /\ <<r, iter[r].block>>[2] = iter[r].block
    BY <2>2
  <2>4. \A x \in D : \E r \in S : x[2] = iter[r].block
    BY <2>2
  <2>5. OwnBlocks(D) \subseteq {iter[r].block : r \in S}
    BY <2>4 DEF OwnBlocks
  <2>6. {iter[r].block : r \in S} \subseteq OwnBlocks(D)
    BY <2>3 DEF OwnBlocks
  <2> QED  BY <2>1, <2>5, <2>6
<1>6. ~heap.bad
  BY <1>2 DEF HeapIs
<1>7. blocks = {table[t].index : t \in tables} \cup {b \in Objects : entry[b].live}
               \cup {iter[r].block : r \in {r \in Readers : iter[r].how = "delete"}}
  BY <1>3, <1>4, <1>5 DEF BlocksOf, IndexBlocks, Live
<1>8. {table[t].filter.data.at : t \in {t \in tables : table[t].filter.delete}} = ArraysOf(table)
  BY <1>3 DEF ArraysOf, Deleting
<1>9. heap.bufs = {heap.blocks[b].data.at : b \in {b \in blocks : heap.blocks[b].owned}} \cup ArraysOf(table)
  <2>1. PICK B, A, O : B = blocks /\ A = ArraysOf(table) /\ O = {heap.blocks[b].data.at : b \in {b \in B : heap.blocks[b].owned}}
    OBVIOUS
  <2>2. HeapIs(heap, B, A)
    BY <1>2, <1>4, <2>1
  <2>3. A \subseteq heap.bufs
    BY <2>2 DEF HeapIs
  <2>4. O \subseteq heap.bufs
    BY <2>1, <2>2 DEF HeapIs
  <2>5. heap.bufs \ A \subseteq O
    BY <2>1, <2>2 DEF HeapIs
  <2> QED  BY <2>1, <2>3, <2>4, <2>5
<1> QED  BY <1>6, <1>7, <1>8, <1>9 DEF NothingLeaks

\* From the invariant: readers stand in the blocks they asked for.
LEMMA BlockIsRight ==
  ASSUME IInv
  PROVE  RightBlock
  BY DEF IInv, Inv, RightFor, RightBlock

\* Tables, their filters, blocks and entries of the block cache have exactly the
\* owners the code gives them, and counts that say how many readers hold them
\* (cache.cc's Ref and Unref under TableCache::FindTable and Table::BlockReader).
THEOREM OwnershipSound == ASSUME BlockReadsAssumption PROVE ReadsSpec => []IInv
<1>1. ReadsInit => IInv
  BY InitIsSound
<1>2. IInv /\ [ReadsNext]_readsVars => IInv'
  BY NextKeeps
<1> QED  BY <1>1, <1>2, PTL DEF ReadsSpec

\* For every number of readers, files and addresses: the block an iterator stands
\* in, the index and filter of a table in use and every cached block can be read
\* and is the one asked for; arrays and blocks are freed once, and each has an
\* owner that will free it (ReadBlock, Block::~Block, Table::Rep::~Rep,
\* DeleteBlock and ReleaseBlock, DeleteEntry).
THEOREM BlocksInUseAreLive == ASSUME BlockReadsAssumption PROVE ReadsSpec => []InUseIsLive
<1>1. IInv => InUseIsLive
  BY BytesThere, NothingLost, BlockIsRight DEF InUseIsLive
<1> QED  BY <1>1, OwnershipSound, PTL

=============================================================================
