---------------------------- MODULE SkipListProofs ----------------------------
(***************************************************************************)
(* The skip list of the memtable: what TLC checks of SkipList on small     *)
(* lists, proved for every number of entries and every height.             *)
(*                                                                         *)
(* The argument. Memory as the writer sees it is, at every level, a chain  *)
(* in the order of the keys that passes over no node of that level (Order, *)
(* Present, Complete, NoSkip, Spanned), and each chain is part of the one  *)
(* below (Nested); the node being inserted is linked below its level and   *)
(* nowhere else (Inserting). What readers see differs from that only where *)
(* the writer has stored since its last release store (Behind), and at     *)
(* each of these places the old value serves as well as the new one. So    *)
(* what is seen is such a list, too (SeenIsAList), and the search itself   *)
(* is simple.                                                              *)
(***************************************************************************)
EXTENDS SkipList, TLAPS

\* The link of node n at level i and the key of node n, in the memory f: mem, or
\* seen.
L(f, n, i) == f[Link(n, i)]
K(f, n) == f[KeyOf(n)]

-----------------------------------------------------------------------------
(* The inductive invariant                                                 *)

Memories == [Locs -> Int]
Inserts == [key : 0..N, height : 0..MaxHeight, level : 0..MaxHeight, linked : BOOLEAN]
Readers ==
  [pc : {"idle", "search", "lost"}, op : {"new", "ge", "lt", "last", "first", "next"},
   t : 0..(N + 1), x : 0..N, level : Levels, base : SUBSET (1..N), node : 1..(N + 1)]

\* max_height_ counts levels.
Typed(f) == f \in Memories /\ f[Height] \in 1..MaxHeight

Types ==
  /\ Typed(mem) /\ Typed(seen)
  /\ dirty \subseteq Locs
  /\ ins \in Inserts
  /\ published \subseteq 1..N
  /\ rd \in Readers

\* A link leads to a later node, and those of the head are always there.
Order(f) ==
  /\ \A n \in Nodes, i \in Levels : L(f, n, i) = Garbage \/ L(f, n, i) \in (n + 1)..(N + 1)
  /\ \A i \in Levels : L(f, Head, i) # Garbage
  /\ \A n \in 1..N : K(f, n) \in {Garbage, n}

\* A node that is not there has no links; one that has a link has those below it.
Present(f) ==
  /\ \A n \in 1..N, i \in Levels : K(f, n) = Garbage => L(f, n, i) = Garbage
  /\ \A n \in Nodes, i \in Levels : i > 0 /\ L(f, n, i) # Garbage => L(f, n, i - 1) # Garbage

\* A node that a link leads to is complete at that level; the node key, which is
\* being inserted, is linked below lvl.
Complete(f, key, lvl) ==
  \A n \in Nodes, m \in 1..N, i \in Levels :
    L(f, n, i) = m => K(f, m) = m /\ L(f, m, i) # Garbage /\ (m = key => i < lvl)

\* No link passes over a node of its level.
NoSkip(f, key, lvl) ==
  \A n \in Nodes, m \in 1..N, i \in Levels :
    n < m /\ L(f, n, i) # Garbage /\ L(f, m, i) # Garbage /\ (m = key => i < lvl) => L(f, n, i) =< m

\* What a link leads to is also led to one level below.
Nested(f) ==
  \A n \in Nodes, m \in 1..N, i \in Levels :
    i > 0 /\ L(f, n, i) = m => \E p \in Nodes : L(f, p, i - 1) = m

\* Every place t has a node before it at every level.
Spanned(f) ==
  \A t \in 1..(N + 1), i \in Levels :
    \E n \in Nodes : n < t /\ L(f, n, i) # Garbage /\ L(f, n, i) >= t

\* The node before key at level lvl.
IsPrev(f, n, key, lvl) == n < key /\ L(f, n, lvl) # Garbage /\ L(f, n, lvl) >= key

\* The node being inserted has its own links up to lvl, at lvl if it is linked.
Inserting(f, key, lvl, linked) ==
  key # 0 =>
    /\ K(f, key) = key
    /\ \A i \in Levels : L(f, key, i) # Garbage <=> (i < lvl \/ (i = lvl /\ linked))
    /\ lvl > 0 => \E p \in Nodes : L(f, p, lvl - 1) = key
    /\ linked => \A n \in Nodes : IsPrev(f, n, key, lvl) => L(f, key, lvl) = L(f, n, lvl)

\* The list, while key is being inserted and is linked below lvl.
List(f, key, lvl, linked) ==
  /\ Order(f) /\ Present(f) /\ Complete(f, key, lvl) /\ NoSkip(f, key, lvl) /\ Nested(f)
  /\ Spanned(f)
  /\ Inserting(f, key, lvl, linked)

\* Where an insertion is.
Progress ==
  /\ ins.key = 0 => ins = Idle
  /\ ins.key # 0 => ins.height >= 1 /\ ins.level =< ins.height /\ (ins.linked => ins.level < ins.height)

Known == \A k \in published : k # ins.key /\ K(mem, k) = k /\ L(mem, k, 0) # Garbage

\* What readers see, s, while the stores to f that have not reached them may hide
\* the height, the key of the new node and its link at lvl, and the link to it below.
Behind(s, f, key, lvl, linked) ==
  /\ key = 0 => s = f
  /\ \A n \in 1..N : \/ K(s, n) = K(f, n)
                     \/ n = key /\ lvl = 0 /\ K(s, n) = Garbage
  /\ \A n \in Nodes, i \in Levels :
       \/ L(s, n, i) = L(f, n, i)
       \/ n = key /\ i = lvl /\ linked /\ L(s, n, i) = Garbage
       \/ lvl > 0 /\ i = lvl - 1 /\ L(f, n, i) = key /\ L(s, n, i) = L(f, key, i)

\* Where the reader is.
Reading ==
  /\ rd.pc # "lost"
  /\ rd.base \subseteq published
  /\ rd.pc = "search" => /\ rd.op \in {"ge", "lt", "last"}
                         /\ rd.x < rd.t /\ L(seen, rd.x, rd.level) # Garbage
                         /\ rd.op = "last" => rd.t = Nil
  /\ rd.node # Nil => L(seen, rd.node, 0) # Garbage

\* The writer and its memory; the reader.
Writer ==
  /\ Types /\ Progress
  /\ List(mem, ins.key, ins.level, ins.linked)
  /\ Known
  /\ Behind(seen, mem, ins.key, ins.level, ins.linked)

Reader == Reading /\ FindsPublished /\ StaysInOrder

IInv == Writer /\ Reader

-----------------------------------------------------------------------------
(* Stores                                                                  *)

\* A link holds a number.
LEMMA LinkType ==
  ASSUME SizesAssumption, NEW f \in Memories, NEW n \in Nodes, NEW i \in Levels
  PROVE  L(f, n, i) \in Int
BY DEF SizesAssumption, Memories, L, Link, Locs, Nodes, Levels

\* g is f with v stored to the link of node p at level j: that link has changed, and
\* nothing else.
OneLinkStored(f, g, p, j, v) ==
  /\ Typed(g)
  /\ \A n \in Nodes, i \in Levels : L(g, n, i) = IF n = p /\ i = j THEN v ELSE L(f, n, i)
  /\ \A n \in 1..N : K(g, n) = K(f, n)

\* A store to a link changes that link alone.
LEMMA LinkStored ==
  ASSUME SizesAssumption, NEW f, Typed(f), NEW p \in Nodes, NEW j \in Levels, NEW v \in Int,
         NEW g, g = [f EXCEPT ![Link(p, j)] = v]
  PROVE  OneLinkStored(f, g, p, j, v)
<1>1. Link(p, j) \in Locs /\ Link(p, j) # Height /\ Height \in Locs
  BY DEF SizesAssumption, Locs, Nodes, Levels, Link, Height, Head
<1>2. Typed(g)
  BY <1>1 DEF Typed, Memories
<1>3. \A n \in Nodes, i \in Levels : Link(n, i) \in Locs /\ (Link(n, i) = Link(p, j) <=> n = p /\ i = j)
  BY DEF SizesAssumption, Locs, Nodes, Levels, Link
<1>4. \A n \in 1..N : KeyOf(n) \in Locs /\ KeyOf(n) # Link(p, j)
  BY DEF SizesAssumption, Locs, Nodes, Levels, Link, KeyOf
<1> QED
  BY <1>1, <1>2, <1>3, <1>4 DEF Typed, Memories, L, K, OneLinkStored

\* A store to a key likewise.
LEMMA KeyStored ==
  ASSUME SizesAssumption, NEW f, Typed(f), NEW p \in 1..N, NEW v \in Int,
         NEW g, g = [f EXCEPT ![KeyOf(p)] = v]
  PROVE  /\ Typed(g)
         /\ \A n \in Nodes, i \in Levels : L(g, n, i) = L(f, n, i)
         /\ \A n \in 1..N : K(g, n) = IF n = p THEN v ELSE K(f, n)
<1>1. KeyOf(p) \in Locs /\ KeyOf(p) # Height /\ Height \in Locs
  BY DEF SizesAssumption, Locs, Nodes, KeyOf, Height, Head
<1>2. Typed(g)
  BY <1>1 DEF Typed, Memories
<1>3. \A n \in Nodes, i \in Levels : Link(n, i) \in Locs /\ Link(n, i) # KeyOf(p)
  BY DEF SizesAssumption, Locs, Nodes, Levels, Link, KeyOf
<1>4. \A n \in 1..N : KeyOf(n) \in Locs /\ (KeyOf(n) = KeyOf(p) <=> n = p)
  BY DEF SizesAssumption, Locs, Nodes, Levels, KeyOf
<1> QED
  BY <1>1, <1>2, <1>3, <1>4 DEF Typed, Memories, L, K

\* A store to max_height_ touches no node.
LEMMA HeightStored ==
  ASSUME SizesAssumption, NEW f, Typed(f), NEW v \in 1..MaxHeight,
         NEW g, g = [f EXCEPT ![Height] = v]
  PROVE  /\ Typed(g)
         /\ \A n \in Nodes, i \in Levels : L(g, n, i) = L(f, n, i)
         /\ \A n \in 1..N : K(g, n) = K(f, n)
<1>1. Height \in Locs
  BY DEF SizesAssumption, Locs, Nodes, Height, Head
<1>2. Typed(g)
  BY <1>1 DEF SizesAssumption, Typed, Memories
<1>3. \A n \in Nodes, i \in Levels : Link(n, i) \in Locs /\ Link(n, i) # Height
  BY DEF SizesAssumption, Locs, Nodes, Levels, Link, Height, Head
<1>4. \A n \in 1..N : KeyOf(n) \in Locs /\ KeyOf(n) # Height
  BY DEF SizesAssumption, Locs, Nodes, KeyOf, Height, Head
<1> QED
  BY <1>1, <1>2, <1>3, <1>4 DEF Typed, Memories, L, K

-----------------------------------------------------------------------------
(* The list under the steps of an insertion                                *)

\* A node that no link leads to may be made.
LEMMA NodeMade ==
  ASSUME SizesAssumption, NEW f, Typed(f), NEW key \in 1..N, List(f, 0, 0, FALSE), K(f, key) = Garbage,
         NEW g, \A n \in Nodes, i \in Levels : L(g, n, i) = L(f, n, i),
         \A n \in 1..N : K(g, n) = IF n = key THEN key ELSE K(f, n)
  PROVE  List(g, key, 0, FALSE)
<1> USE DEF List
<1>0. key # 0 /\ key \in Nodes /\ Garbage \notin 1..N /\ 1..N \subseteq Nodes
  BY DEF SizesAssumption, Nodes, Garbage
<1>1. Order(g)
  BY <1>0 DEF Order, Head, Nodes, SizesAssumption
<1>2. Present(g)
  <2>1. \A n \in Nodes, i \in Levels : i > 0 => i - 1 \in Levels
    BY DEF Levels, SizesAssumption
  <2> QED BY <1>0, <2>1 DEF Present
<1>3. \A i \in Levels : L(f, key, i) = Garbage
  BY <1>0 DEF Present
<1>4. Complete(g, key, 0)
  BY <1>0, <1>3 DEF Complete
<1>5. NoSkip(g, key, 0)
  BY <1>0, <1>3 DEF NoSkip
<1>6. Nested(g)
  <2>1. \A i \in Levels : i > 0 => i - 1 \in Levels
    BY DEF Levels, SizesAssumption
  <2> QED BY <2>1 DEF Nested
<1>7. Spanned(g)
  BY DEF Spanned
<1>8. Inserting(g, key, 0, FALSE)
  BY <1>0, <1>3 DEF Inserting, Levels, SizesAssumption
<1> QED BY <1>1, <1>2, <1>4, <1>5, <1>6, <1>7, <1>8

\* There is one node before key at a level at which key is not linked yet.
LEMMA PrevIsUnique ==
  ASSUME SizesAssumption, NEW f \in Memories, NEW key \in 1..N, NEW lvl \in Levels,
         NoSkip(f, key, lvl), NEW p \in Nodes, NEW q \in Nodes,
         IsPrev(f, p, key, lvl), IsPrev(f, q, key, lvl)
  PROVE  p = q
<1>1. L(f, p, lvl) \in Int /\ L(f, q, lvl) \in Int
  BY LinkType
<1>2. ~(p < q)
  <2> SUFFICES ASSUME p < q PROVE FALSE
    OBVIOUS
  <2>1. q \in 1..N /\ q < key /\ q # key
    BY DEF IsPrev, Nodes, SizesAssumption
  <2>2. L(f, p, lvl) =< q
    BY <2>1 DEF NoSkip, IsPrev
  <2> QED BY <1>1, <2>1, <2>2 DEF IsPrev, Nodes, SizesAssumption
<1>3. ~(q < p)
  <2> SUFFICES ASSUME q < p PROVE FALSE
    OBVIOUS
  <2>1. p \in 1..N /\ p < key /\ p # key
    BY DEF IsPrev, Nodes, SizesAssumption
  <2>2. L(f, q, lvl) =< p
    BY <2>1 DEF NoSkip, IsPrev
  <2> QED BY <1>1, <2>1, <2>2 DEF IsPrev, Nodes, SizesAssumption
<1> QED BY <1>2, <1>3 DEF Nodes, SizesAssumption

\* The new node takes over the link of the node before it.
LEMMA OwnLinkSet ==
  ASSUME SizesAssumption, NEW f, Typed(f), NEW key \in 1..N, NEW lvl \in Levels, List(f, key, lvl, FALSE),
         NEW p \in Nodes, IsPrev(f, p, key, lvl),
         NEW g, Typed(g),
         \A n \in Nodes, i \in Levels : L(g, n, i) = IF n = key /\ i = lvl THEN L(f, p, lvl) ELSE L(f, n, i),
         \A n \in 1..N : K(g, n) = K(f, n)
  PROVE  List(g, key, lvl, TRUE)
<1> DEFINE v == L(f, p, lvl)
<1>0. /\ key # 0 /\ key \in Nodes /\ 1..N \subseteq Nodes
      /\ f \in Memories /\ g \in Memories
      /\ \A n \in Nodes, i \in Levels : L(f, n, i) \in Int
      /\ \A i \in Levels : i \in Int /\ i >= 0 /\ (i > 0 => i - 1 \in Levels)
      /\ v # Garbage /\ p < key /\ v >= key
  BY LinkType DEF SizesAssumption, Nodes, Garbage, Levels, Typed, IsPrev
<1>1. Order(f) /\ Present(f) /\ Complete(f, key, lvl) /\ NoSkip(f, key, lvl) /\ Nested(f) /\ Spanned(f)
  BY DEF List
<1>2. /\ K(f, key) = key
      /\ \A i \in Levels : L(f, key, i) # Garbage <=> i < lvl
      /\ lvl > 0 => \E q \in Nodes : L(f, q, lvl - 1) = key
  BY <1>0 DEF List, Inserting
<1>3. v # key /\ v \in (key + 1)..(N + 1)
  <2>1. v # key
    BY <1>0, <1>1 DEF Complete
  <2>2. v \in (p + 1)..(N + 1)
    BY <1>0, <1>1 DEF Order
  <2> QED BY <1>0, <2>1, <2>2 DEF SizesAssumption, Nodes
<1> HIDE DEF v
<1>4. Order(g)
  BY <1>0, <1>1, <1>3 DEF Order, Head, Nodes, SizesAssumption, v
<1>5. Present(g)
  <2>1. \A i \in Levels : i > 0 /\ L(g, key, i) # Garbage => L(g, key, i - 1) # Garbage
    BY <1>0, <1>2 DEF v
  <2>2. key # Garbage
    BY DEF Garbage, SizesAssumption
  <2> QED BY <1>0, <1>1, <1>2, <2>1, <2>2 DEF Present, v
<1>6. Complete(g, key, lvl)
  <2> SUFFICES ASSUME NEW n \in Nodes, NEW m \in 1..N, NEW i \in Levels, L(g, n, i) = m
               PROVE  K(g, m) = m /\ L(g, m, i) # Garbage /\ (m = key => i < lvl)
    BY DEF Complete
  <2>1. CASE n = key /\ i = lvl
    <3>1. L(f, p, lvl) = m
      BY <2>1
    <3>2. K(f, m) = m /\ L(f, m, lvl) # Garbage /\ (m = key => lvl < lvl)
      BY <3>1, <1>1 DEF Complete
    <3> QED BY <2>1, <3>1, <3>2, <1>0, <1>3 DEF v
  <2>2. CASE ~(n = key /\ i = lvl)
    <3>1. L(f, n, i) = m
      BY <2>2
    <3>2. K(f, m) = m /\ L(f, m, i) # Garbage /\ (m = key => i < lvl)
      BY <3>1, <1>1 DEF Complete
    <3> QED BY <3>2, <1>0 DEF v
  <2> QED BY <2>1, <2>2
<1>7. NoSkip(g, key, lvl)
  <2> SUFFICES ASSUME NEW n \in Nodes, NEW m \in 1..N, NEW i \in Levels, n < m,
                      L(g, n, i) # Garbage, L(g, m, i) # Garbage, m = key => i < lvl
               PROVE  L(g, n, i) =< m
    BY DEF NoSkip
  <2>1. L(g, m, i) = L(f, m, i)
    BY <1>0
  <2>2. CASE n = key /\ i = lvl
    <3>1. p < m
      BY <2>2, <1>0 DEF Nodes, SizesAssumption
    <3>2. L(f, p, lvl) =< m
      BY <3>1, <2>1, <2>2, <1>0, <1>1 DEF NoSkip, v
    <3> QED BY <2>2, <3>2
  <2>3. CASE ~(n = key /\ i = lvl)
    BY <2>1, <2>3, <1>1 DEF NoSkip
  <2> QED BY <2>2, <2>3
<1>8. Nested(g)
  <2> SUFFICES ASSUME NEW n \in Nodes, NEW m \in 1..N, NEW i \in Levels, i > 0, L(g, n, i) = m
               PROVE  \E q \in Nodes : L(g, q, i - 1) = m
    BY DEF Nested
  <2>1. \E q \in Nodes : L(f, q, i) = m
    <3>1. CASE n = key /\ i = lvl
      BY <3>1
    <3>2. CASE ~(n = key /\ i = lvl)
      BY <3>2
    <3> QED BY <3>1, <3>2
  <2>2. PICK q \in Nodes : L(f, q, i - 1) = m
    BY <2>1, <1>1 DEF Nested
  <2>3. ~(q = key /\ i - 1 = lvl)
    BY <2>2, <1>0, <1>2 DEF Garbage, SizesAssumption
  <2> QED BY <2>2, <2>3, <1>0
<1>9. Spanned(g)
  <2> SUFFICES ASSUME NEW t \in 1..(N + 1), NEW i \in Levels
               PROVE  \E n \in Nodes : n < t /\ L(g, n, i) # Garbage /\ L(g, n, i) >= t
    BY DEF Spanned
  <2>1. PICK n \in Nodes : n < t /\ L(f, n, i) # Garbage /\ L(f, n, i) >= t
    BY <1>1 DEF Spanned
  <2>2. ~(n = key /\ i = lvl)
    BY <2>1, <1>0, <1>2
  <2> QED BY <2>1, <2>2
<1>10. Inserting(g, key, lvl, TRUE)
  <2>1. K(g, key) = key
    BY <1>2
  <2>2. \A i \in Levels : L(g, key, i) # Garbage <=> (i < lvl \/ i = lvl)
    BY <1>0, <1>2 DEF v
  <2>3. lvl > 0 => \E q \in Nodes : L(g, q, lvl - 1) = key
    BY <1>0, <1>2
  <2>4. ASSUME NEW n \in Nodes, IsPrev(g, n, key, lvl)
        PROVE  L(g, key, lvl) = L(g, n, lvl)
    <3>1. n # key /\ L(g, n, lvl) = L(f, n, lvl)
      BY <2>4, <1>0 DEF IsPrev, Nodes, SizesAssumption
    <3>2. IsPrev(f, n, key, lvl)
      BY <2>4, <3>1 DEF IsPrev
    <3>3. n = p
      BY <3>2, <1>0, <1>1, PrevIsUnique
    <3> QED BY <3>1, <3>3, <1>0
  <2> QED BY <2>1, <2>2, <2>3, <2>4 DEF Inserting
<1> QED BY <1>4, <1>5, <1>6, <1>7, <1>8, <1>9, <1>10 DEF List

\* The node before the new one leads to it.
LEMMA Spliced ==
  ASSUME SizesAssumption, NEW f, Typed(f), NEW key \in 1..N, NEW lvl \in Levels, List(f, key, lvl, TRUE),
         NEW p \in Nodes, IsPrev(f, p, key, lvl),
         NEW g, Typed(g),
         \A n \in Nodes, i \in Levels : L(g, n, i) = IF n = p /\ i = lvl THEN key ELSE L(f, n, i),
         \A n \in 1..N : K(g, n) = K(f, n)
  PROVE  List(g, key, lvl + 1, FALSE)
<1>0. /\ key # 0 /\ key # Garbage /\ key \in Nodes /\ 1..N \subseteq Nodes
      /\ f \in Memories /\ g \in Memories
      /\ \A n \in Nodes, i \in Levels : L(f, n, i) \in Int
      /\ \A i \in Levels : i \in Int /\ i >= 0 /\ (i > 0 => i - 1 \in Levels)
      /\ L(f, p, lvl) # Garbage /\ p < key /\ L(f, p, lvl) >= key
  BY LinkType DEF SizesAssumption, Nodes, Garbage, Levels, Typed, IsPrev
<1>1. Order(f) /\ Present(f) /\ Complete(f, key, lvl) /\ NoSkip(f, key, lvl) /\ Nested(f) /\ Spanned(f)
  BY DEF List
<1>2. /\ K(f, key) = key
      /\ \A i \in Levels : L(f, key, i) # Garbage <=> (i < lvl \/ i = lvl)
      /\ lvl > 0 => \E q \in Nodes : L(f, q, lvl - 1) = key
      /\ L(f, key, lvl) = L(f, p, lvl)
  BY <1>0 DEF List, Inserting
<1>4. Order(g)
  BY <1>0, <1>1 DEF Order, Head, Nodes, SizesAssumption
<1>5. Present(g)
  BY <1>0, <1>1 DEF Present
<1>6. Complete(g, key, lvl + 1)
  <2> SUFFICES ASSUME NEW n \in Nodes, NEW m \in 1..N, NEW i \in Levels, L(g, n, i) = m
               PROVE  K(g, m) = m /\ L(g, m, i) # Garbage /\ (m = key => i < lvl + 1)
    BY DEF Complete
  <2>1. CASE n = p /\ i = lvl
    BY <2>1, <1>0, <1>2
  <2>2. CASE ~(n = p /\ i = lvl)
    <3>1. L(f, n, i) = m
      BY <2>2
    <3>2. K(f, m) = m /\ L(f, m, i) # Garbage /\ (m = key => i < lvl)
      BY <3>1, <1>1 DEF Complete
    <3> QED BY <3>2, <1>0
  <2> QED BY <2>1, <2>2
<1>7. NoSkip(g, key, lvl + 1)
  <2> SUFFICES ASSUME NEW n \in Nodes, NEW m \in 1..N, NEW i \in Levels, n < m,
                      L(g, n, i) # Garbage, L(g, m, i) # Garbage, m = key => i < lvl + 1
               PROVE  L(g, n, i) =< m
    BY DEF NoSkip
  <2>1. L(f, m, i) # Garbage
    BY <1>0
  <2>2. CASE n = p /\ i = lvl
    <3>1. CASE m = key
      BY <3>1, <2>2, <1>0
    <3>2. CASE m # key
      <4>1. L(f, p, lvl) =< m
        BY <2>1, <2>2, <3>2, <1>0, <1>1 DEF NoSkip
      <4> QED BY <4>1, <2>2, <1>0 DEF SizesAssumption
    <3> QED BY <3>1, <3>2
  <2>3. CASE ~(n = p /\ i = lvl)
    <3>1. L(g, n, i) = L(f, n, i)
      BY <2>3
    <3>2. CASE m = key /\ i = lvl
      <4>1. n # p /\ ~IsPrev(f, n, key, lvl)
        BY <2>3, <3>2, <1>0, <1>1, PrevIsUnique
      <4> QED BY <4>1, <3>1, <3>2, <1>0 DEF IsPrev
    <3>3. CASE ~(m = key /\ i = lvl)
      <4>1. m = key => i < lvl
        BY <3>3, <1>0
      <4> QED BY <4>1, <2>1, <3>1, <1>1 DEF NoSkip
    <3> QED BY <3>2, <3>3
  <2> QED BY <2>2, <2>3
<1>8. Nested(g)
  <2> SUFFICES ASSUME NEW n \in Nodes, NEW m \in 1..N, NEW i \in Levels, i > 0, L(g, n, i) = m
               PROVE  \E q \in Nodes : L(g, q, i - 1) = m
    BY DEF Nested
  <2>1. PICK q \in Nodes : L(f, q, i - 1) = m
    <3>1. CASE n = p /\ i = lvl
      BY <3>1, <1>0, <1>2
    <3>2. CASE ~(n = p /\ i = lvl)
      BY <3>2, <1>1 DEF Nested
    <3> QED BY <3>1, <3>2
  <2>2. CASE q = p /\ i - 1 = lvl
    <3>1. L(g, key, i - 1) = m
      BY <2>1, <2>2, <1>0, <1>2 DEF Nodes, SizesAssumption
    <3> QED BY <3>1, <1>0
  <2>3. CASE ~(q = p /\ i - 1 = lvl)
    BY <2>1, <2>3, <1>0
  <2> QED BY <2>2, <2>3
<1>9. Spanned(g)
  <2> SUFFICES ASSUME NEW t \in 1..(N + 1), NEW i \in Levels
               PROVE  \E n \in Nodes : n < t /\ L(g, n, i) # Garbage /\ L(g, n, i) >= t
    BY DEF Spanned
  <2>1. PICK n \in Nodes : n < t /\ L(f, n, i) # Garbage /\ L(f, n, i) >= t
    BY <1>1 DEF Spanned
  <2>2. CASE ~(n = p /\ i = lvl)
    BY <2>1, <2>2
  <2>3. CASE n = p /\ i = lvl /\ t =< key
    BY <2>1, <2>3, <1>0
  <2>4. CASE n = p /\ i = lvl /\ t > key
    <3>1. L(g, key, lvl) = L(f, n, lvl)
      BY <2>4, <1>0, <1>2 DEF Nodes, SizesAssumption
    <3> QED BY <2>1, <2>4, <3>1, <1>0
  <2> QED BY <2>2, <2>3, <2>4, <1>0 DEF SizesAssumption
<1>10. Inserting(g, key, lvl + 1, FALSE)
  <2>1. K(g, key) = key
    BY <1>2
  <2>2. \A i \in Levels : L(g, key, i) # Garbage <=> i < lvl + 1
    BY <1>0, <1>2 DEF Nodes, SizesAssumption
  <2>3. L(g, p, (lvl + 1) - 1) = key
    BY <1>0
  <2> QED BY <2>1, <2>2, <2>3 DEF Inserting
<1> QED BY <1>4, <1>5, <1>6, <1>7, <1>8, <1>9, <1>10 DEF List

\* A node that is linked at all its levels is a node like the others.
LEMMA NodeDone ==
  ASSUME SizesAssumption, NEW f, Typed(f), NEW key \in 1..N, NEW h \in 1..MaxHeight, List(f, key, h, FALSE)
  PROVE  List(f, 0, 0, FALSE) /\ K(f, key) = key /\ L(f, key, 0) # Garbage
<1>1. /\ K(f, key) = key
      /\ \A i \in Levels : L(f, key, i) # Garbage <=> i < h
  BY DEF List, Inserting, SizesAssumption
<1>2. 0 \in Levels
  BY DEF Levels, SizesAssumption
<1>3. Complete(f, 0, 0)
  BY DEF List, Complete
<1>4. NoSkip(f, 0, 0)
  <2> SUFFICES ASSUME NEW n \in Nodes, NEW m \in 1..N, NEW i \in Levels, n < m,
                      L(f, n, i) # Garbage, L(f, m, i) # Garbage
               PROVE  L(f, n, i) =< m
    BY DEF NoSkip
  <2>1. m = key => i < h
    BY <1>1
  <2> QED BY <2>1 DEF List, NoSkip
<1> QED BY <1>1, <1>2, <1>3, <1>4 DEF List, Inserting

-----------------------------------------------------------------------------
(* What readers see                                                        *)

\* What readers see is a list, too: in order, complete, nested, and without a gap
\* where a node of the list is.
SeenList(s, f, key) ==
  /\ \A n \in Nodes, i \in Levels : L(s, n, i) = Garbage \/ L(s, n, i) \in (n + 1)..(N + 1)
  /\ \A i \in Levels : L(s, Head, i) # Garbage
  /\ \A n \in Nodes, m \in 1..N, i \in Levels : L(s, n, i) = m => K(s, m) = m /\ L(s, m, i) # Garbage
  /\ \A n \in Nodes, i \in Levels : i > 0 /\ L(s, n, i) # Garbage => L(s, n, i - 1) # Garbage
  /\ \A n \in Nodes, k \in 1..N :
       n < k /\ k # key /\ L(f, k, 0) # Garbage /\ L(s, n, 0) # Garbage => L(s, n, 0) =< k
  /\ \A n \in Nodes, m \in 1..N, i \in Levels :
       i > 0 /\ L(s, n, i) = m => \E p \in Nodes : L(s, p, i - 1) = m

\* The stores that have not reached the readers do not matter to them.
LEMMA SeenIsAList ==
  ASSUME SizesAssumption, NEW f, Typed(f), NEW s, Typed(s),
         NEW key \in 0..N, NEW lvl \in 0..MaxHeight, NEW linked \in BOOLEAN, linked => lvl \in Levels,
         List(f, key, lvl, linked), Behind(s, f, key, lvl, linked)
  PROVE  SeenList(s, f, key)
<1>0. /\ 1..N \subseteq Nodes /\ Head \in Nodes /\ 0 \in Levels
      /\ f \in Memories /\ s \in Memories
      /\ \A n \in Nodes, i \in Levels : L(f, n, i) \in Int /\ L(s, n, i) \in Int
      /\ \A i \in Levels : i \in Int /\ i >= 0 /\ (i > 0 => i - 1 \in Levels)
      /\ \A n \in 1..N : n # Garbage /\ n # 0
      /\ lvl > 0 => lvl - 1 \in Levels
  BY LinkType DEF SizesAssumption, Nodes, Garbage, Levels, Typed, Head
<1>1. Order(f) /\ Present(f) /\ Complete(f, key, lvl) /\ NoSkip(f, key, lvl) /\ Nested(f) /\ Spanned(f)
  BY DEF List
<1>2. key # 0 => /\ key \in 1..N
                 /\ K(f, key) = key
                 /\ \A i \in Levels : L(f, key, i) # Garbage <=> (i < lvl \/ (i = lvl /\ linked))
                 /\ linked => \A n \in Nodes : IsPrev(f, n, key, lvl) => L(f, key, lvl) = L(f, n, lvl)
  BY DEF List, Inserting, SizesAssumption
<1>3. ASSUME NEW n \in Nodes, NEW i \in Levels
      PROVE  \/ L(s, n, i) = L(f, n, i)
             \/ key # 0 /\ n = key /\ i = lvl /\ linked /\ L(s, n, i) = Garbage
             \/ key # 0 /\ lvl > 0 /\ i = lvl - 1 /\ L(f, n, i) = key /\ L(s, n, i) = L(f, key, i)
  BY DEF Behind
<1>4. \A n \in Nodes, i \in Levels : L(s, n, i) = Garbage \/ L(s, n, i) \in (n + 1)..(N + 1)
  <2> SUFFICES ASSUME NEW n \in Nodes, NEW i \in Levels, L(s, n, i) # Garbage
               PROVE  L(s, n, i) \in (n + 1)..(N + 1)
    OBVIOUS
  <2>1. CASE L(s, n, i) = L(f, n, i)
    BY <2>1, <1>1 DEF Order
  <2>2. CASE key # 0 /\ L(f, n, i) = key /\ L(s, n, i) = L(f, key, i)
    <3>1. key \in (n + 1)..(N + 1)
      BY <2>2, <1>0, <1>1, <1>2 DEF Order
    <3>2. L(f, key, i) \in (key + 1)..(N + 1)
      BY <2>2, <1>0, <1>1, <1>2 DEF Order
    <3> QED BY <2>2, <3>1, <3>2 DEF Nodes, SizesAssumption
  <2> QED BY <1>3, <2>1, <2>2
<1>5. \A i \in Levels : L(s, Head, i) # Garbage
  <2> SUFFICES ASSUME NEW i \in Levels PROVE L(s, Head, i) # Garbage
    OBVIOUS
  <2>1. Head # key \/ key = 0
    BY DEF Head
  <2>2. L(f, Head, i) # Garbage
    BY <1>1 DEF Order
  <2> QED BY <1>0, <1>2, <1>3, <2>1, <2>2
<1>6. ASSUME NEW n \in Nodes, NEW m \in 1..N, NEW i \in Levels, L(s, n, i) = m
      PROVE  K(s, m) = m /\ L(s, m, i) # Garbage
  <2>1. K(f, m) = m /\ L(f, m, i) # Garbage /\ (m = key => i < lvl)
    <3>1. L(f, n, i) = m \/ (key # 0 /\ L(f, key, i) = m)
      BY <1>0, <1>3, <1>6
    <3> QED BY <3>1, <1>0, <1>1, <1>2 DEF Complete
  <2>2. K(s, m) = m
    BY <2>1, <1>0 DEF Behind
  <2>3. L(s, m, i) # Garbage
    <3>1. ~(m = key /\ i = lvl)
      BY <2>1, <1>0
    <3> QED BY <2>1, <3>1, <1>0, <1>2, <1>3
  <2> QED BY <2>2, <2>3
<1>7. ASSUME NEW n \in Nodes, NEW i \in Levels, i > 0, L(s, n, i) # Garbage
      PROVE  L(s, n, i - 1) # Garbage
  <2>1. L(f, n, i) # Garbage
    BY <1>0, <1>2, <1>3, <1>7
  <2>2. L(f, n, i - 1) # Garbage
    BY <2>1, <1>1, <1>7 DEF Present
  <2>3. ~(key # 0 /\ n = key /\ i - 1 = lvl)
    BY <2>1, <1>0, <1>2
  <2>4. i - 1 \in Levels
    BY <1>0, <1>7
  <2>5. \/ L(s, n, i - 1) = L(f, n, i - 1)
        \/ key # 0 /\ lvl > 0 /\ i - 1 = lvl - 1 /\ L(s, n, i - 1) = L(f, key, i - 1)
    BY <1>3, <2>3, <2>4
  <2> QED BY <2>2, <2>4, <2>5, <1>0, <1>2
<1>8. ASSUME NEW n \in Nodes, NEW k \in 1..N, n < k, k # key, L(f, k, 0) # Garbage, L(s, n, 0) # Garbage
      PROVE  L(s, n, 0) =< k
  <2>1. L(f, n, 0) # Garbage
    BY <1>0, <1>2, <1>3, <1>8
  <2>2. L(f, n, 0) =< k
    BY <2>1, <1>0, <1>1, <1>8 DEF NoSkip
  <2>3. CASE L(s, n, 0) = L(f, n, 0)
    BY <2>2, <2>3
  <2>4. CASE key # 0 /\ lvl > 0 /\ L(f, n, 0) = key /\ L(s, n, 0) = L(f, key, 0)
    <3>1. key \in 1..N /\ key < k
      BY <2>2, <2>4, <1>2, <1>8 DEF SizesAssumption
    <3>2. L(f, key, 0) =< k
      BY <3>1, <2>4, <1>0, <1>1, <1>2, <1>8 DEF NoSkip
    <3> QED BY <2>4, <3>2
  <2> QED BY <2>3, <2>4, <1>0, <1>3, <1>8
<1>9. ASSUME NEW n \in Nodes, NEW m \in 1..N, NEW i \in Levels, i > 0, L(s, n, i) = m
      PROVE  \E p \in Nodes : L(s, p, i - 1) = m
  <2>0. i - 1 \in Levels
    BY <1>0, <1>9
  <2>1. CASE L(f, n, i) = m
    <3>1. PICK p \in Nodes : L(f, p, i - 1) = m
      BY <2>1, <1>1, <1>9 DEF Nested
    <3>2. CASE L(s, p, i - 1) = L(f, p, i - 1)
      BY <3>1, <3>2
    <3>3. CASE key # 0 /\ p = key /\ i - 1 = lvl /\ linked
      <4>1. PICK q \in Nodes : IsPrev(f, q, key, lvl)
        BY <3>3, <1>1, <1>2, <2>0 DEF Spanned, IsPrev, SizesAssumption
      <4>2. L(f, q, lvl) = m
        BY <4>1, <3>1, <3>3, <1>2
      <4>3. q # key /\ lvl # lvl - 1 /\ lvl \in Levels
        BY <4>1, <1>2, <3>3, <2>0 DEF IsPrev, Nodes, SizesAssumption
      <4>4. L(s, q, lvl) = m
        BY <4>2, <4>3, <1>3
      <4> QED BY <4>4, <3>3
    <3>4. CASE key # 0 /\ i - 1 = lvl - 1 /\ L(f, p, i - 1) = key
      <4>1. m = key /\ i = lvl
        BY <3>1, <3>4, <1>0
      <4> QED BY <4>1, <2>1, <1>0, <1>1 DEF Complete
    <3> QED BY <3>2, <3>3, <3>4, <2>0, <1>3
  <2>2. CASE key # 0 /\ lvl > 0 /\ i = lvl - 1 /\ L(f, key, i) = m
    <3>1. PICK p \in Nodes : L(f, p, i - 1) = m
      BY <2>2, <1>0, <1>1, <1>2, <1>9 DEF Nested
    <3>2. L(s, p, i - 1) = m
      BY <3>1, <2>0, <2>2, <1>0, <1>3
    <3> QED BY <3>2
  <2> QED BY <2>1, <2>2, <1>0, <1>3, <1>9
<1> QED BY <1>4, <1>5, <1>6, <1>7, <1>8, <1>9 DEF SeenList

\* Readers see no link that the writer does not.
LEMMA SeenIsThere ==
  ASSUME SizesAssumption, NEW f, Typed(f), NEW s,
         NEW key \in 0..N, NEW lvl \in 0..MaxHeight, NEW linked \in BOOLEAN,
         List(f, key, lvl, linked), Behind(s, f, key, lvl, linked),
         NEW n \in Nodes, NEW i \in Levels, L(s, n, i) # Garbage
  PROVE  L(f, n, i) # Garbage
<1>1. key = 0 => s = f
  BY DEF Behind
<1>2. key # Garbage
  BY DEF Garbage, SizesAssumption
<1> QED BY <1>1, <1>2 DEF Behind

-----------------------------------------------------------------------------
(* The steps                                                               *)

\* The types of the parts of the state.
LEMMA Parts ==
  ASSUME SizesAssumption, Types
  PROVE  /\ ins.key \in 0..N /\ ins.height \in 0..MaxHeight /\ ins.level \in 0..MaxHeight /\ ins.linked \in BOOLEAN
         /\ rd.pc \in {"idle", "search", "lost"} /\ rd.op \in {"new", "ge", "lt", "last", "first", "next"}
         /\ rd.t \in 0..(N + 1) /\ rd.x \in Nodes /\ rd.level \in Levels /\ rd.base \subseteq 1..N
         /\ rd.node \in 1..(N + 1)
         /\ mem \in Memories /\ seen \in Memories
         /\ (ins.key # 0 => ins.key \in 1..N)
BY DEF Types, Typed, Inserts, Readers, Nodes, SizesAssumption

\* A reader that does nothing keeps its place while links appear and none goes.
LEMMA ReaderWaits ==
  ASSUME SizesAssumption, Types, Reader, rd' = rd, published \subseteq published',
         \A n \in Nodes, i \in Levels : L(seen, n, i) # Garbage => L(seen', n, i) # Garbage
  PROVE  Reader'
<1>1. rd.x \in Nodes /\ rd.level \in Levels /\ 0 \in Levels /\ (rd.node # Nil => rd.node \in Nodes)
  BY Parts DEF Levels, Nodes, Nil, SizesAssumption
<1>2. Reading'
  <2>1. rd.pc = "search" => L(seen', rd.x, rd.level) # Garbage
    BY <1>1 DEF Reader, Reading
  <2>2. rd.node # Nil => L(seen', rd.node, 0) # Garbage
    BY <1>1 DEF Reader, Reading
  <2> QED BY <2>1, <2>2 DEF Reader, Reading
<1>3. FindsPublished' /\ StaysInOrder'
  BY DEF Reader, FindsPublished, StaysInOrder
<1> QED BY <1>2, <1>3 DEF Reader

\* Init
LEMMA InitInv ==
  ASSUME SizesAssumption, Init
  PROVE  IInv
<1>1. /\ \A n \in Nodes, i \in Levels : L(InitMem, n, i) = IF n = Head THEN Nil ELSE Garbage
      /\ \A n \in 1..N : K(InitMem, n) = Garbage
      /\ Typed(InitMem)
  BY DEF SizesAssumption, InitMem, L, K, Link, KeyOf, Locs, Nodes, Levels, Head, Height, Nil, Garbage, Typed, Memories
<1>2. List(InitMem, 0, 0, FALSE)
  <2>0. /\ 0 \in Nodes /\ Nil # Garbage /\ Nil \in Int /\ Nil = N + 1 /\ Garbage \notin 1..N /\ Nil \notin 1..N
        /\ \A i \in Levels : i > 0 => i - 1 \in Levels
    BY DEF SizesAssumption, Nodes, Nil, Garbage, Levels
  <2>1. Order(InitMem)
    BY <1>1, <2>0 DEF Order, Head, Nodes, SizesAssumption
  <2>2. Present(InitMem)
    BY <1>1, <2>0 DEF Present, Head, Nodes, SizesAssumption
  <2>3. Complete(InitMem, 0, 0) /\ Nested(InitMem)
    BY <1>1, <2>0 DEF Complete, Nested
  <2>4. NoSkip(InitMem, 0, 0)
    BY <1>1, <2>0 DEF NoSkip, Head, Nodes
  <2>5. Spanned(InitMem)
    BY <1>1, <2>0 DEF Spanned, Head, SizesAssumption
  <2> QED BY <2>1, <2>2, <2>3, <2>4, <2>5 DEF List, Inserting
<1>3. Types
  BY <1>1 DEF Init, Types, Idle, Inserts, Readers, Head, Nil, Levels, SizesAssumption
<1>4. Progress /\ Known
  BY DEF Init, Idle, Progress, Known
<1>5. Behind(InitMem, InitMem, 0, 0, FALSE)
  BY DEF Behind
<1>6. Writer
  BY <1>2, <1>3, <1>4, <1>5 DEF Writer, Init, Idle
<1>7. Reader
  BY DEF Reader, Reading, FindsPublished, StaysInOrder, Init
<1> QED BY <1>6, <1>7 DEF IInv

\* A store reaches the readers.
LEMMA DrainStep ==
  ASSUME SizesAssumption, IInv, Drain
  PROVE  IInv'
<1>1. PICK loc \in dirty : seen' = [seen EXCEPT ![loc] = mem[loc]] /\ dirty' = dirty \ {loc}
  BY DEF Drain
<1>2. mem' = mem /\ ins' = ins /\ published' = published /\ rd' = rd
  BY DEF Drain
<1>3. Types /\ Progress /\ Known /\ List(mem, ins.key, ins.level, ins.linked)
      /\ Behind(seen, mem, ins.key, ins.level, ins.linked) /\ Reader
  BY DEF IInv, Writer
<1>4. loc \in Locs /\ Typed(mem) /\ Typed(seen)
  BY <1>3 DEF Types
<1>5. Typed(seen')
  BY <1>1, <1>4 DEF Typed, Memories
<1>6. /\ \A n \in Nodes, i \in Levels : L(seen', n, i) \in {L(seen, n, i), L(mem, n, i)}
      /\ \A n \in 1..N : K(seen', n) \in {K(seen, n), K(mem, n)}
  <2>1. \A lc \in Locs : seen'[lc] \in {seen[lc], mem[lc]}
    BY <1>1, <1>4 DEF Typed, Memories
  <2>2. /\ \A n \in Nodes, i \in Levels : Link(n, i) \in Locs
        /\ \A n \in 1..N : KeyOf(n) \in Locs
    BY DEF Locs, Nodes, Levels, Link, KeyOf, SizesAssumption
  <2> QED BY <2>1, <2>2 DEF L, K
<1>7. Behind(seen', mem, ins.key, ins.level, ins.linked)
  <2>1. ins.key = 0 => seen' = mem
    BY <1>1, <1>3, <1>4 DEF Behind, Typed, Memories
  <2> QED BY <2>1, <1>3, <1>6 DEF Behind
<1>8. Writer'
  <2>1. Types'
    BY <1>2, <1>1, <1>3, <1>5 DEF Types
  <2>2. Progress' /\ Known'
    BY <1>2, <1>3 DEF Progress, Known
  <2>3. List(mem, ins.key, ins.level, ins.linked)' /\ Behind(seen, mem, ins.key, ins.level, ins.linked)'
    BY <1>2, <1>3, <1>7
  <2> QED BY <2>1, <2>2, <2>3 DEF Writer
<1>9. Reader'
  <2>1. \A n \in Nodes, i \in Levels : L(seen, n, i) # Garbage => L(mem, n, i) # Garbage
    BY <1>3, <1>4, SeenIsThere, Parts
  <2>2. \A n \in Nodes, i \in Levels : L(seen, n, i) # Garbage => L(seen', n, i) # Garbage
    BY <1>6, <2>1
  <2> QED BY <2>2, <1>2, <1>3, ReaderWaits
<1> QED BY <1>8, <1>9 DEF IInv

\* Insert makes the node.
LEMMA BeginInsertStep ==
  ASSUME SizesAssumption, IInv, NEW key \in 1..N, NEW height \in 1..MaxHeight, BeginInsert(key, height)
  PROVE  IInv'
<1>1. Types /\ Progress /\ Known /\ List(mem, ins.key, ins.level, ins.linked)
      /\ Behind(seen, mem, ins.key, ins.level, ins.linked) /\ Reader
  BY DEF IInv, Writer
<1>2. /\ ins.key = 0 /\ ins = Idle /\ K(mem, key) = Garbage /\ seen = mem
      /\ ins' = [key |-> key, height |-> height, level |-> 0, linked |-> FALSE]
      /\ published' = published /\ rd' = rd
      /\ List(mem, 0, 0, FALSE) /\ Typed(mem)
  <2>1. /\ ins.key = 0 /\ K(mem, key) = Garbage
        /\ ins' = [key |-> key, height |-> height, level |-> 0, linked |-> FALSE]
        /\ published' = published /\ rd' = rd
    BY DEF BeginInsert, K
  <2>2. ins = Idle /\ seen = mem /\ Typed(mem)
    BY <2>1, <1>1 DEF Progress, Behind, Types
  <2>3. ins.level = 0 /\ ins.linked = FALSE
    BY <2>2 DEF Idle
  <2>4. List(mem, 0, 0, FALSE)
    BY <1>1, <2>1, <2>3, Zenon
  <2> QED BY <2>1, <2>2, <2>4
<1> DEFINE m == IF height > mem[Height] THEN NoBarrier_Store(Memory, Height, height) ELSE Memory
<1>3. mem' = [m.mem EXCEPT ![KeyOf(key)] = key] /\ seen' = m.seen /\ dirty' = m.dirty \cup {KeyOf(key)}
  BY DEF BeginInsert, Stored, NoBarrier_Store
<1>4. /\ m.seen = seen /\ m.dirty \subseteq Locs
      /\ m.mem = mem \/ m.mem = [mem EXCEPT ![Height] = height]
  <2>1. Height \in Locs /\ dirty \subseteq Locs
    BY <1>1 DEF Height, Head, Locs, Nodes, SizesAssumption, Types
  <2> QED BY <2>1 DEF NoBarrier_Store, Memory
<1>5. /\ Typed(m.mem)
      /\ \A n \in Nodes, i \in Levels : L(m.mem, n, i) = L(mem, n, i)
      /\ \A n \in 1..N : K(m.mem, n) = K(mem, n)
  BY <1>2, <1>4, HeightStored
<1> HIDE DEF m
<1>6. /\ Typed(mem')
      /\ \A n \in Nodes, i \in Levels : L(mem', n, i) = L(m.mem, n, i)
      /\ \A n \in 1..N : K(mem', n) = IF n = key THEN key ELSE K(m.mem, n)
  BY <1>3, <1>5, KeyStored
<1>7. /\ \A n \in Nodes, i \in Levels : L(mem', n, i) = L(mem, n, i)
      /\ \A n \in 1..N : K(mem', n) = IF n = key THEN key ELSE K(mem, n)
  BY <1>5, <1>6
<1>8. List(mem', key, 0, FALSE)
  BY <1>2, <1>7, NodeMade
<1>9. seen' = seen /\ Behind(seen', mem', key, 0, FALSE)
  <2>1. key # 0
    BY DEF SizesAssumption
  <2> QED BY <2>1, <1>2, <1>3, <1>4, <1>7 DEF Behind
<1>10. Types'
  <2>1. KeyOf(key) \in Locs
    BY DEF KeyOf, Locs, Nodes, SizesAssumption
  <2>2. ins' \in Inserts
    BY <1>2 DEF Inserts, SizesAssumption
  <2> QED BY <2>1, <2>2, <1>1, <1>2, <1>3, <1>4, <1>6, <1>9 DEF Types
<1>11. Progress'
  BY <1>2 DEF Progress, SizesAssumption
<1>12. Known'
  <2> SUFFICES ASSUME NEW k \in published
               PROVE  k # ins'.key /\ K(mem', k) = k /\ L(mem', k, 0) # Garbage
    BY <1>2 DEF Known
  <2>1. k \in 1..N /\ k \in Nodes /\ 0 \in Levels /\ key # Garbage
    BY <1>1 DEF Types, Nodes, Levels, Garbage, SizesAssumption
  <2>2. K(mem, k) = k /\ L(mem, k, 0) # Garbage
    BY <1>1 DEF Known
  <2>3. k # Garbage
    BY <2>1 DEF Garbage, SizesAssumption
  <2> QED BY <2>1, <2>2, <2>3, <1>2, <1>7
<1>13. Writer'
  BY <1>2, <1>8, <1>9, <1>10, <1>11, <1>12 DEF Writer
<1>14. Reader'
  BY <1>1, <1>2, <1>9, ReaderWaits
<1> QED BY <1>13, <1>14 DEF IInv

\* What Prev finds.
LEMMA PrevIsPrev ==
  ASSUME SizesAssumption, NEW key \in 1..N, NEW i \in Levels, Spanned(mem)
  PROVE  Prev(key, i) \in Nodes /\ IsPrev(mem, Prev(key, i), key, i)
<1>1. \E n \in Nodes : n < key /\ mem[Link(n, i)] # Garbage /\ mem[Link(n, i)] >= key
  BY DEF Spanned, L, SizesAssumption
<1> QED BY <1>1 DEF Prev, IsPrev, L

\* Known entries stay as they are when a link is stored.
LEMMA KnownStay ==
  ASSUME SizesAssumption, Types, Known, published' = published, ins'.key = ins.key,
         \A n \in 1..N : K(mem', n) = K(mem, n),
         \A n \in Nodes, i \in Levels : L(mem, n, i) # Garbage => L(mem', n, i) # Garbage
  PROVE  Known'
<1> SUFFICES ASSUME NEW k \in published
             PROVE  k # ins'.key /\ K(mem', k) = k /\ L(mem', k, 0) # Garbage
  BY DEF Known
<1>1. k \in 1..N /\ k \in Nodes /\ 0 \in Levels
  BY DEF Types, Nodes, Levels, SizesAssumption
<1> QED BY <1>1 DEF Known

\* Insert sets the link of the new node.
LEMMA SetOwnLinkStep ==
  ASSUME SizesAssumption, IInv, SetOwnLink
  PROVE  IInv'
<1> DEFINE key == ins.key
           lvl == ins.level
           p == Prev(key, lvl)
<1>1. Types /\ Progress /\ Known /\ List(mem, key, lvl, ins.linked)
      /\ Behind(seen, mem, key, lvl, ins.linked) /\ Reader
  BY DEF IInv, Writer
<1>2. /\ key \in 1..N /\ lvl \in Levels /\ ins.linked = FALSE /\ ins \in Inserts /\ lvl < ins.height
      /\ ins' = [ins EXCEPT !.linked = TRUE]
      /\ published' = published /\ rd' = rd
      /\ List(mem, key, lvl, FALSE) /\ Typed(mem)
  <2>1. /\ key # 0 /\ lvl < ins.height /\ ~ins.linked
        /\ ins' = [ins EXCEPT !.linked = TRUE] /\ published' = published /\ rd' = rd
    BY DEF SetOwnLink
  <2>2. ins \in Inserts /\ Typed(mem)
    BY <1>1 DEF Types
  <2>3. key \in 1..N /\ lvl \in Levels /\ ins.linked = FALSE
    BY <2>1, <2>2 DEF Inserts, Levels, SizesAssumption
  <2>4. List(mem, key, lvl, FALSE)
    BY <1>1, <2>3, Zenon
  <2> QED BY <2>1, <2>2, <2>3, <2>4
<1>3. p \in Nodes /\ IsPrev(mem, p, key, lvl)
  BY <1>2, PrevIsPrev DEF List
<1>4. /\ mem' = [mem EXCEPT ![Link(key, lvl)] = L(mem, p, lvl)]
      /\ seen' = seen /\ dirty' = dirty \cup {Link(key, lvl)}
  BY DEF SetOwnLink, Stored, NoBarrier_Store, Memory, LinkLevel, L
<1>5. ins'.key = key /\ ins'.level = lvl /\ ins'.linked = TRUE /\ ins'.height = ins.height
  BY <1>2 DEF Inserts
<1>6. Link(key, lvl) \in Locs /\ key \in Nodes
  BY <1>2 DEF Link, Locs, Nodes, Levels, SizesAssumption
<1> HIDE DEF key, lvl, p
<1>7. L(mem, p, lvl) \in Int
  BY <1>2, <1>3, LinkType DEF Typed
<1>8. /\ Typed(mem')
      /\ \A n \in Nodes, i \in Levels : L(mem', n, i) = IF n = key /\ i = lvl THEN L(mem, p, lvl) ELSE L(mem, n, i)
      /\ \A n \in 1..N : K(mem', n) = K(mem, n)
  <2>1. Typed(mem) /\ key \in Nodes /\ lvl \in Levels
    BY <1>2, <1>6
  <2>2. OneLinkStored(mem, mem', key, lvl, L(mem, p, lvl))
    BY <2>1, <1>4, <1>7, LinkStored
  <2> QED BY <2>2 DEF OneLinkStored
<1>9. List(mem', key, lvl, TRUE)
  BY <1>2, <1>3, <1>8, OwnLinkSet
<1>10. Behind(seen', mem', key, lvl, TRUE)
  <2>0. key # 0 /\ lvl # lvl - 1
    BY <1>2 DEF Levels, SizesAssumption
  <2>1. \A i \in Levels : L(mem, key, i) # Garbage <=> i < lvl
    BY <1>2, <2>0 DEF List, Inserting
  <2>2. L(mem, key, lvl) = Garbage /\ L(seen, key, lvl) = Garbage
    BY <2>0, <2>1, <1>1, <1>2, <1>6 DEF Behind, Levels, SizesAssumption
  <2>3. ASSUME NEW n \in Nodes, NEW i \in Levels
        PROVE  \/ L(seen', n, i) = L(mem', n, i)
               \/ n = key /\ i = lvl /\ TRUE /\ L(seen', n, i) = Garbage
               \/ lvl > 0 /\ i = lvl - 1 /\ L(mem', n, i) = key /\ L(seen', n, i) = L(mem', key, i)
    <3>1. CASE n = key /\ i = lvl
      BY <3>1, <2>2, <1>4
    <3>2. CASE ~(n = key /\ i = lvl)
      <4>1. L(mem', n, i) = L(mem, n, i) /\ (i = lvl - 1 => L(mem', key, i) = L(mem, key, i))
        BY <3>2, <1>6, <1>8, <2>0
      <4> QED BY <4>1, <1>1, <1>2, <1>4 DEF Behind
    <3> QED BY <3>1, <3>2
  <2> QED BY <2>0, <2>3, <1>1, <1>4, <1>8 DEF Behind
<1>11. Types'
  BY <1>1, <1>2, <1>4, <1>6, <1>8 DEF Types, Inserts
<1>12. Progress'
  BY <1>1, <1>2, <1>5 DEF Progress, key, lvl, SizesAssumption
<1>13. Known'
  <2>1. L(mem, p, lvl) # Garbage
    BY <1>3 DEF IsPrev
  <2> QED BY <2>1, <1>1, <1>2, <1>5, <1>8, KnownStay DEF key
<1>14. Writer'
  BY <1>5, <1>9, <1>10, <1>11, <1>12, <1>13 DEF Writer
<1>15. Reader'
  BY <1>1, <1>2, <1>4, ReaderWaits
<1> QED BY <1>14, <1>15 DEF IInv

\* Insert links the new node into a level.
LEMMA SpliceStep ==
  ASSUME SizesAssumption, IInv, Splice
  PROVE  IInv'
<1> DEFINE key == ins.key
           lvl == ins.level
           p == Prev(key, lvl)
<1>1. Types /\ Progress /\ Known /\ List(mem, key, lvl, ins.linked)
      /\ Behind(seen, mem, key, lvl, ins.linked) /\ Reader
  BY DEF IInv, Writer
<1>2. /\ key \in 1..N /\ lvl \in Levels /\ ins.linked = TRUE /\ ins \in Inserts /\ lvl < ins.height
      /\ ins' = [ins EXCEPT !.level = @ + 1, !.linked = FALSE]
      /\ published' = published /\ rd' = rd
      /\ List(mem, key, lvl, TRUE) /\ Typed(mem)
  <2>1. /\ key # 0 /\ ins.linked
        /\ ins' = [ins EXCEPT !.level = @ + 1, !.linked = FALSE] /\ published' = published /\ rd' = rd
    BY DEF Splice
  <2>2. ins \in Inserts /\ Typed(mem)
    BY <1>1 DEF Types
  <2>3. key \in 1..N /\ lvl < ins.height /\ lvl \in Levels /\ ins.linked = TRUE
    BY <1>1, <2>1, <2>2 DEF Inserts, Progress, Levels, SizesAssumption
  <2>4. List(mem, key, lvl, TRUE)
    BY <1>1, <2>3, Zenon
  <2> QED BY <2>1, <2>2, <2>3, <2>4
<1>3. p \in Nodes /\ IsPrev(mem, p, key, lvl)
  BY <1>2, PrevIsPrev DEF List
<1>4. mem' = [mem EXCEPT ![Link(p, lvl)] = key] /\ seen' = mem /\ dirty' = {Link(p, lvl)}
  BY DEF Splice, Stored, Release_Store, Memory, LinkLevel
<1>5. ins'.key = key /\ ins'.level = lvl + 1 /\ ins'.linked = FALSE /\ ins'.height = ins.height
  BY <1>2 DEF Inserts
<1>6. Link(p, lvl) \in Locs /\ key \in Nodes /\ key \in Int /\ key # 0 /\ key # Garbage
  BY <1>2, <1>3 DEF Link, Locs, Nodes, Levels, SizesAssumption, Garbage
<1>7. Types'
  <2>1. ins' \in Inserts
    <3>1. lvl + 1 \in 0..MaxHeight
      BY <1>2 DEF Levels, SizesAssumption
    <3> QED BY <3>1, <1>2 DEF Inserts
  <2>2. Typed(mem')
    <3>1. OneLinkStored(mem, mem', p, lvl, key)
      BY <1>2, <1>3, <1>4, <1>6, LinkStored
    <3> QED BY <3>1 DEF OneLinkStored
  <2> QED BY <2>1, <2>2, <1>1, <1>2, <1>4, <1>6 DEF Types
<1>8. Progress'
  BY <1>1, <1>2, <1>5 DEF Progress, SizesAssumption, Inserts
<1> HIDE DEF key, lvl, p
<1>9. /\ Typed(mem')
      /\ \A n \in Nodes, i \in Levels : L(mem', n, i) = IF n = p /\ i = lvl THEN key ELSE L(mem, n, i)
      /\ \A n \in 1..N : K(mem', n) = K(mem, n)
  <2>1. Typed(mem) /\ key \in Int /\ p \in Nodes /\ lvl \in Levels
    BY <1>2, <1>3, <1>6
  <2>2. OneLinkStored(mem, mem', p, lvl, key)
    BY <2>1, <1>4, LinkStored
  <2> QED BY <2>2 DEF OneLinkStored
<1>10. List(mem', key, lvl + 1, FALSE)
  BY <1>2, <1>3, <1>9, Spliced
<1>11. Behind(seen', mem', key, lvl + 1, FALSE)
  <2>1. lvl + 1 > 0 /\ lvl = (lvl + 1) - 1
    BY <1>2 DEF Levels, SizesAssumption
  <2>2. L(mem, key, lvl) = L(mem, p, lvl) /\ p # key
    BY <1>2, <1>3, <1>6 DEF List, Inserting, IsPrev, SizesAssumption
  <2>3. L(mem', key, lvl) = L(seen', p, lvl)
    BY <2>2, <1>2, <1>4, <1>6, <1>9
  <2> QED BY <2>1, <2>3, <1>4, <1>6, <1>9 DEF Behind
<1>12. Known'
  BY <1>1, <1>2, <1>5, <1>6, <1>9, KnownStay DEF key
<1>13. Writer'
  BY <1>5, <1>7, <1>8, <1>10, <1>11, <1>12 DEF Writer
<1>14. Reader'
  <2>1. \A n \in Nodes, i \in Levels : L(seen, n, i) # Garbage => L(mem, n, i) # Garbage
    BY <1>1, SeenIsThere, Parts DEF Types, key, lvl
  <2> QED BY <2>1, <1>1, <1>2, <1>4, ReaderWaits
<1> QED BY <1>13, <1>14 DEF IInv

\* The write is acknowledged.
LEMMA PublishStep ==
  ASSUME SizesAssumption, IInv, Publish
  PROVE  IInv'
<1>1. Types /\ Progress /\ Known /\ List(mem, ins.key, ins.level, ins.linked)
      /\ Behind(seen, mem, ins.key, ins.level, ins.linked) /\ Reader
  BY DEF IInv, Writer
<1>2. /\ ins.key \in 1..N /\ ins.level = ins.height /\ ins.height \in 1..MaxHeight /\ ins.linked = FALSE
      /\ ins' = Idle /\ seen' = mem /\ mem' = mem /\ dirty' = {} /\ rd' = rd
      /\ published' = published \cup {ins.key}
      /\ Typed(mem)
  BY <1>1, Parts DEF Publish, Progress, Types, SizesAssumption
<1>3. List(mem, 0, 0, FALSE) /\ K(mem, ins.key) = ins.key /\ L(mem, ins.key, 0) # Garbage
  BY <1>1, <1>2, NodeDone
<1>4. Types' /\ Progress'
  <2>1. Idle \in Inserts /\ Idle.key = 0
    BY DEF Idle, Inserts, SizesAssumption
  <2>2. {} \subseteq Locs /\ published \cup {ins.key} \subseteq 1..N
    BY <1>1, <1>2 DEF Types
  <2>3. Types'
    BY <2>1, <2>2, <1>1, <1>2 DEF Types
  <2> QED BY <2>1, <2>3, <1>2 DEF Progress
<1>5. Known'
  <2> SUFFICES ASSUME NEW k \in published'
               PROVE  k # ins'.key /\ K(mem', k) = k /\ L(mem', k, 0) # Garbage
    BY DEF Known
  <2>1. ins'.key = 0 /\ k \in 1..N
    BY <1>1, <1>2 DEF Idle, Types
  <2> QED BY <2>1, <1>1, <1>2, <1>3 DEF Known, SizesAssumption
<1>6. Writer'
  BY <1>2, <1>3, <1>4, <1>5 DEF Writer, Idle, Behind
<1>7. Reader'
  <2>1. \A n \in Nodes, i \in Levels : L(seen, n, i) # Garbage => L(mem, n, i) # Garbage
    BY <1>1, SeenIsThere, Parts DEF Types
  <2> QED BY <2>1, <1>1, <1>2, ReaderWaits
<1> QED BY <1>6, <1>7 DEF IInv

-----------------------------------------------------------------------------

\* What the reader relies on.
LEMMA ReaderSees ==
  ASSUME SizesAssumption, Writer
  PROVE  SeenList(seen, mem, ins.key)
<1>1. ins.linked => ins.level \in Levels
  BY Parts DEF Writer, Progress, Levels, Idle, SizesAssumption
<1> QED BY <1>1, Parts, SeenIsAList DEF Writer, Types

\* A reader's step leaves the writer and its memory alone.
LEMMA WriterWaits ==
  ASSUME Writer, UNCHANGED <<mem, seen, dirty, ins, published>>, rd' \in Readers
  PROVE  Writer'
<1>1. Types' /\ Progress' /\ Known'
  BY DEF Writer, Types, Progress, Known
<1> QED BY <1>1 DEF Writer

\* No entry that was published is passed over by a link that readers see.
LEMMA NothingBetween ==
  ASSUME SizesAssumption, Writer, NEW n \in Nodes, L(seen, n, 0) # Garbage, NEW k \in published, n < k
  PROVE  L(seen, n, 0) =< k
<1>1. SeenList(seen, mem, ins.key)
  BY ReaderSees
<1>2. k \in 1..N /\ k # ins.key /\ L(mem, k, 0) # Garbage
  BY DEF Writer, Types, Known
<1> QED BY <1>1, <1>2 DEF SeenList

\* A search begins.
LEMMA StartStep ==
  ASSUME SizesAssumption, IInv, NEW op \in {"ge", "lt", "last"}, NEW t \in 1..(N + 1),
         op = "last" => t = Nil, Start(op, t)
  PROVE  IInv'
<1>1. Writer /\ Reader /\ SeenList(seen, mem, ins.key) /\ Types
  BY ReaderSees DEF IInv, Writer
<1>2. /\ UNCHANGED <<mem, seen, dirty, ins, published>>
      /\ rd' = [rd EXCEPT !.pc = "search", !.op = op, !.t = t, !.x = Head, !.level = seen[Height] - 1,
                          !.base = published]
  BY DEF Start
<1>3. rd \in Readers /\ seen[Height] - 1 \in Levels /\ published \in SUBSET (1..N)
  BY <1>1 DEF Types, Typed, Levels, SizesAssumption
<1>4. rd' \in Readers
  <2>1. op \in {"new", "ge", "lt", "last", "first", "next"} /\ t \in 0..(N + 1) /\ Head \in 0..N
    BY DEF Head, SizesAssumption
  <2> QED BY <2>1, <1>2, <1>3 DEF Readers
<1>5. /\ rd'.pc = "search" /\ rd'.op = op /\ rd'.t = t /\ rd'.x = Head /\ rd'.level = seen[Height] - 1
      /\ rd'.base = published /\ rd'.node = rd.node
  BY <1>2, <1>3 DEF Readers
<1>6. Reading'
  <2>1. L(seen, rd'.x, rd'.level) # Garbage
    BY <1>1, <1>3, <1>5 DEF SeenList
  <2>2. rd'.x < rd'.t
    BY <1>5 DEF Head, SizesAssumption
  <2> QED BY <2>1, <2>2, <1>1, <1>2, <1>5 DEF Reader, Reading
<1>7. FindsPublished' /\ StaysInOrder'
  BY <1>5 DEF FindsPublished, StaysInOrder
<1> QED BY <1>1, <1>2, <1>4, <1>6, <1>7, WriterWaits DEF IInv, Reader

\* One turn of the loop of a search.
LEMMA WalkStep ==
  ASSUME SizesAssumption, IInv, Walk
  PROVE  IInv'
<1> DEFINE nxt == seen[Link(rd.x, rd.level)]
<1>1. Writer /\ Reader /\ SeenList(seen, mem, ins.key) /\ Types
  BY ReaderSees DEF IInv, Writer
<1>2. UNCHANGED <<mem, seen, dirty, ins, published>> /\ rd.pc = "search"
  BY DEF Walk
<1>3. /\ rd \in Readers /\ rd.x \in Nodes /\ rd.level \in Levels /\ rd.t \in 0..(N + 1)
      /\ rd.op \in {"ge", "lt", "last"} /\ rd.x < rd.t /\ (rd.op = "last" => rd.t = Nil)
      /\ rd.base \subseteq published
  BY <1>1, <1>2, Parts DEF Types, Reader, Reading
<1>4. nxt = L(seen, rd.x, rd.level) /\ nxt # Garbage /\ nxt \in (rd.x + 1)..(N + 1)
  BY <1>1, <1>2, <1>3 DEF L, Reader, Reading, SeenList
<1>5. nxt # Nil => nxt \in 1..N /\ K(seen, nxt) = nxt /\ L(seen, nxt, rd.level) # Garbage
  BY <1>1, <1>3, <1>4 DEF SeenList, Nil, Nodes, SizesAssumption
<1>6. ~(nxt = Garbage \/ (nxt # Nil /\ seen[KeyOf(nxt)] = Garbage))
  BY <1>4, <1>5 DEF K, Garbage, SizesAssumption
<1>7. \/ GoesRight(nxt, rd.t) /\ rd' = [rd EXCEPT !.x = nxt]
      \/ ~GoesRight(nxt, rd.t) /\ rd.level > 0 /\ rd' = [rd EXCEPT !.level = LevelBelow(@)]
      \/ /\ ~GoesRight(nxt, rd.t) /\ ~(rd.level > 0)
         /\ rd' = [rd EXCEPT !.pc = "idle", !.node = Found(rd.op, rd.x, nxt)]
  BY <1>6 DEF Walk
<1> HIDE DEF nxt
<1>8. CASE GoesRight(nxt, rd.t) /\ rd' = [rd EXCEPT !.x = nxt]
  <2>1. nxt \in 1..N /\ nxt < rd.t /\ rd' \in Readers
    BY <1>8, <1>3, <1>5 DEF GoesRight, Readers, SizesAssumption
  <2>2. /\ rd'.x = nxt /\ rd'.pc = rd.pc /\ rd'.op = rd.op /\ rd'.t = rd.t /\ rd'.level = rd.level
        /\ rd'.base = rd.base /\ rd'.node = rd.node
    BY <1>8, <1>3 DEF Readers
  <2>3. Reading'
    BY <2>1, <2>2, <1>1, <1>2, <1>3, <1>5, <1>8 DEF Reader, Reading, GoesRight
  <2>4. FindsPublished' /\ StaysInOrder'
    BY <2>2, <1>2 DEF FindsPublished, StaysInOrder
  <2> QED BY <2>1, <2>3, <2>4, <1>1, <1>2, WriterWaits DEF IInv, Reader
<1>9. CASE rd.level > 0 /\ rd' = [rd EXCEPT !.level = LevelBelow(@)]
  <2>1. rd.level - 1 \in Levels /\ L(seen, rd.x, rd.level - 1) # Garbage
    BY <1>9, <1>1, <1>3, <1>4 DEF SeenList, Levels, SizesAssumption
  <2>2. rd' \in Readers
    BY <1>9, <1>3, <2>1 DEF Readers, LevelBelow
  <2>3. /\ rd'.x = rd.x /\ rd'.pc = rd.pc /\ rd'.op = rd.op /\ rd'.t = rd.t /\ rd'.level = rd.level - 1
        /\ rd'.base = rd.base /\ rd'.node = rd.node
    BY <1>9, <1>3 DEF Readers, LevelBelow
  <2>4. Reading'
    BY <2>1, <2>3, <1>1, <1>2, <1>3 DEF Reader, Reading
  <2>5. FindsPublished' /\ StaysInOrder'
    BY <2>3, <1>2 DEF FindsPublished, StaysInOrder
  <2> QED BY <2>2, <2>4, <2>5, <1>1, <1>2, WriterWaits DEF IInv, Reader
<1>10. CASE /\ ~GoesRight(nxt, rd.t) /\ ~(rd.level > 0)
            /\ rd' = [rd EXCEPT !.pc = "idle", !.node = Found(rd.op, rd.x, nxt)]
  <2> DEFINE nd == Found(rd.op, rd.x, nxt)
  <2>1. rd.level = 0 /\ nxt >= rd.t /\ nxt \in Int /\ rd.x \in Int /\ rd.t \in Int
    BY <1>10, <1>3, <1>4 DEF GoesRight, Nil, Levels, Nodes, SizesAssumption
  <2>2. \A k \in rd.base : k \in Int /\ k \in 1..N /\ (rd.x < k => nxt =< k)
      <3> SUFFICES ASSUME NEW k \in rd.base PROVE k \in Int /\ k \in 1..N /\ (rd.x < k => nxt =< k)
      OBVIOUS
    <3>1. k \in published /\ k \in 1..N
      BY <1>1, <1>3 DEF Types
    <3>2. nxt = L(seen, rd.x, 0) /\ L(seen, rd.x, 0) # Garbage
      BY <2>1, <1>4
    <3>3. rd.x < k => L(seen, rd.x, 0) =< k
      BY <3>1, <3>2, <1>1, <1>3, NothingBetween
    <3> QED BY <3>1, <3>2, <3>3 DEF SizesAssumption
  <2>3. nd \in 1..(N + 1) /\ (nd # Nil => L(seen, nd, 0) # Garbage)
    <3>1. CASE rd.op = "ge"
      BY <3>1, <2>1, <1>3, <1>4, <1>5 DEF Found, Nodes, SizesAssumption
    <3>2. CASE rd.op # "ge" /\ rd.x = Head
      BY <3>2 DEF Found, Nil, SizesAssumption
    <3>3. CASE rd.op # "ge" /\ rd.x # Head
      BY <3>3, <2>1, <1>3, <1>4 DEF Found, Head, Nodes, SizesAssumption
    <3> QED BY <3>1, <3>2, <3>3
  <2>4. rd.op = "ge" => nd = nxt
    BY DEF Found
  <2>5. rd.op \in {"lt", "last"} => IF rd.x = 0 THEN nd = Nil ELSE nd = rd.x /\ nd # Nil
    BY <1>3 DEF Found, Head, Nil, Nodes, SizesAssumption
  <2> HIDE DEF nd
  <2>6. rd' \in Readers
    BY <2>3, <1>10, <1>3 DEF Readers, nd
  <2>7. /\ rd'.x = rd.x /\ rd'.pc = "idle" /\ rd'.op = rd.op /\ rd'.t = rd.t
        /\ rd'.base = rd.base /\ rd'.node = nd
    BY <1>10, <1>3 DEF Readers, nd
  <2>8. Reading'
    BY <2>3, <2>7, <1>2, <1>3 DEF Reading
  <2>9. \A k \in rd.base : rd.x < k => rd.t =< k
    BY <2>1, <2>2
  <2>10. FindsPublished'
    <3> SUFFICES ASSUME NEW k \in rd.base
                 PROVE  CASE rd.op = "ge"    -> rd.t =< k => nd =< k
                          [] rd.op = "lt"    -> k < rd.t => nd # Nil /\ nd >= k
                          [] rd.op = "last"  -> nd # Nil /\ nd >= k
                          [] rd.op = "first" -> nd =< k
                          [] rd.op = "next"  -> k > rd.t => nd =< k
                          [] OTHER -> TRUE
      BY <2>7 DEF FindsPublished, Nil
    <3>1. CASE rd.op = "ge"
      BY <3>1, <2>1, <2>2, <2>4, <1>3
    <3>2. CASE rd.op = "lt"
      <4>1. k < rd.t => ~(rd.x < k) /\ rd.x # 0
        BY <2>1, <2>2, <2>9, SizesAssumption DEF SizesAssumption
      <4> QED BY <3>2, <4>1, <2>1, <2>2, <2>5
    <3>3. CASE rd.op = "last"
      <4>1. ~(rd.x < k) /\ rd.x # 0
        BY <3>3, <2>1, <2>2, <2>9, <1>3 DEF SizesAssumption, Nil
      <4> QED BY <3>3, <4>1, <2>1, <2>2, <2>5
    <3> QED BY <3>1, <3>2, <3>3, <1>3
  <2>11. StaysInOrder'
    <3> SUFFICES CASE rd.op = "ge"   -> nd >= rd.t
                   [] rd.op = "lt"   -> nd = Nil \/ nd < rd.t
                   [] rd.op = "next" -> nd > rd.t
                   [] OTHER -> TRUE
      BY <2>7 DEF StaysInOrder, Nil
    <3>1. CASE rd.op = "ge"
      BY <3>1, <2>1, <2>4
    <3>2. CASE rd.op = "lt"
      BY <3>2, <2>1, <2>5, <1>3
    <3>3. CASE rd.op = "last"
      BY <3>3
    <3> QED BY <3>1, <3>2, <3>3, <1>3
  <2> QED BY <2>6, <2>8, <2>10, <2>11, <1>1, <1>2, WriterWaits DEF IInv, Reader
<1> QED BY <1>7, <1>8, <1>9, <1>10

\* SeekToFirst and Next.
LEMMA StepStep ==
  ASSUME SizesAssumption, IInv, NEW from \in Nodes, L(seen, from, 0) # Garbage,
         NEW op \in {"first", "next"}, op = "first" => from = Head, Step(op, from)
  PROVE  IInv'
<1>1. Writer /\ Reader /\ SeenList(seen, mem, ins.key) /\ Types
  BY ReaderSees DEF IInv, Writer
<1>2. /\ UNCHANGED <<mem, seen, dirty, ins, published>>
      /\ rd.pc = "idle"
      /\ rd' = [rd EXCEPT !.op = op, !.t = from, !.x = from, !.level = 0, !.base = published,
                          !.node = L(seen, from, 0)]
  BY DEF Step, L
<1>3. rd \in Readers /\ 0 \in Levels /\ published \in SUBSET (1..N)
  BY <1>1 DEF Types, Levels, SizesAssumption
<1> DEFINE nd == L(seen, from, 0)
<1>4. nd \in (from + 1)..(N + 1) /\ (nd # Nil => L(seen, nd, 0) # Garbage)
  BY <1>1, <1>3 DEF SeenList, Nodes, Nil, SizesAssumption
<1>5. \A k \in published : from < k => nd =< k
  BY <1>1, NothingBetween
<1> HIDE DEF nd
<1>6. rd' \in Readers
  <2>1. op \in {"new", "ge", "lt", "last", "first", "next"} /\ from \in 0..(N + 1) /\ from \in 0..N
        /\ nd \in 1..(N + 1)
    BY <1>4 DEF Nodes, SizesAssumption
  <2>2. rd' = [rd EXCEPT !.op = op, !.t = from, !.x = from, !.level = 0, !.base = published, !.node = nd]
    BY <1>2 DEF nd
  <2> QED BY <2>1, <2>2, <1>3 DEF Readers
<1>7. /\ rd'.pc = "idle" /\ rd'.op = op /\ rd'.t = from /\ rd'.base = published /\ rd'.node = nd
  BY <1>2, <1>3 DEF Readers, nd
<1>8. Reading'
  BY <1>2, <1>4, <1>7 DEF Reading
<1>9. FindsPublished'
  <2> SUFFICES ASSUME NEW k \in published
               PROVE  IF op = "first" THEN nd =< k ELSE k > from => nd =< k
    BY <1>7 DEF FindsPublished
  <2> QED BY <1>3, <1>5 DEF Head, Nodes, SizesAssumption
<1>10. StaysInOrder'
  BY <1>4, <1>7 DEF StaysInOrder, Nodes, SizesAssumption
<1> QED BY <1>1, <1>2, <1>6, <1>8, <1>9, <1>10, WriterWaits DEF IInv, Reader

-----------------------------------------------------------------------------

\* Every step of the writer, of memory and of the reader preserves the invariant.
LEMMA NextInv ==
  ASSUME SizesAssumption, IInv, [Next]_vars
  PROVE  IInv'
<1>0. Types /\ Reader /\ SeenList(seen, mem, ins.key)
  BY ReaderSees DEF IInv, Writer
<1>1. ASSUME NEW key \in 1..N, NEW height \in 1..MaxHeight, BeginInsert(key, height)
      PROVE  IInv'
  BY <1>1, BeginInsertStep
<1>2. CASE Insert
  BY <1>2, SetOwnLinkStep, SpliceStep, PublishStep DEF Insert
<1>3. CASE Drain
  BY <1>3, DrainStep
<1>4. ASSUME NEW t \in 1..N, Seek(t)
      PROVE  IInv'
  BY <1>4, StartStep DEF Seek, SizesAssumption
<1>5. CASE PrevEntry
  BY <1>0, <1>5, StartStep, Parts DEF PrevEntry
<1>6. CASE SeekToLast
  BY <1>6, StartStep DEF SeekToLast, Nil, SizesAssumption
<1>7. CASE Walk
  BY <1>7, WalkStep
<1>8. CASE SeekToFirst
  <2>1. Head \in Nodes /\ L(seen, Head, 0) # Garbage
    BY <1>0 DEF Head, Nodes, Levels, SeenList, SizesAssumption
  <2> QED BY <2>1, <1>8, StepStep DEF SeekToFirst
<1>9. CASE NextEntry
  <2>1. rd.node \in Nodes /\ L(seen, rd.node, 0) # Garbage
    BY <1>0, <1>9, Parts DEF NextEntry, Nil, Nodes, Reader, Reading, SizesAssumption
  <2> QED BY <2>1, <1>9, StepStep DEF NextEntry
<1>10. CASE UNCHANGED vars
  <2>1. Writer'
    BY <1>0, <1>10, WriterWaits DEF vars, IInv, Types
  <2>2. Reader'
    BY <1>0, <1>10, ReaderWaits DEF vars
  <2> QED BY <2>1, <2>2 DEF IInv
<1> QED BY <1>1, <1>2, <1>3, <1>4, <1>5, <1>6, <1>7, <1>8, <1>9, <1>10 DEF Next

\* The inductive invariant holds always.
LEMMA Invariance == ASSUME SizesAssumption PROVE Spec => []IInv
<1>1. Init => IInv
  BY InitInv
<1>2. IInv /\ [Next]_vars => IInv'
  BY NextInv
<1> QED BY <1>1, <1>2, PTL DEF Spec

\* A reader never follows a pointer that was not written, nor reaches a node that
\* is not complete, although it takes no lock: whatever the number of entries and
\* the height of the list, and in whatever order the stores between two release
\* stores of Insert reach it.
THEOREM ReadersAreNeverLost == ASSUME SizesAssumption PROVE Spec => []NeverLost
<1>1. IInv => NeverLost
  <2> SUFFICES ASSUME IInv PROVE NeverLost
    OBVIOUS
  <2>1. rd.node \in 1..(N + 1) /\ rd.pc # "lost"
    BY Parts DEF IInv, Writer, Reader, Reading
  <2> QED BY <2>1 DEF NeverLost, Garbage, SizesAssumption
<1> QED BY <1>1, Invariance, PTL

\* A reader finds every entry that was published before it began.
THEOREM ReadersFindPublished == ASSUME SizesAssumption PROVE Spec => []FindsPublished
<1>1. IInv => FindsPublished
  BY DEF IInv, Reader
<1> QED BY <1>1, Invariance, PTL

\* What a search finds is on the side of the target it asked for.
THEOREM ReadersStayInOrder == ASSUME SizesAssumption PROVE Spec => []StaysInOrder
<1>1. IInv => StaysInOrder
  BY DEF IInv, Reader
<1> QED BY <1>1, Invariance, PTL

\* What readers can reach at a level they can reach at the level below, in every
\* state of an insertion.
THEOREM ReadersSeeNestedLevels == ASSUME SizesAssumption PROVE Spec => []LevelsNest
<1>1. IInv => LevelsNest
  <2> SUFFICES ASSUME IInv, NEW i \in Levels \ {0}, NEW n \in Nodes, seen[Link(n, i)] \notin {Nil, Garbage}
               PROVE  \E p \in Nodes : seen[Link(p, i - 1)] = seen[Link(n, i)]
    BY DEF LevelsNest
  <2>1. SeenList(seen, mem, ins.key)
    BY ReaderSees DEF IInv
  <2>2. seen[Link(n, i)] \in 1..N /\ i > 0
    BY <2>1 DEF SeenList, L, Nil, Nodes, Levels, SizesAssumption
  <2> QED BY <2>1, <2>2 DEF SeenList, L
<1> QED BY <1>1, Invariance, PTL

\* All that a reader may rely on without a lock, for any number of entries and
\* any height: the four theorems together.
THEOREM ReadersAreSafe == ASSUME SizesAssumption PROVE Spec => []ReadsAreSafe
<1>1. NeverLost /\ FindsPublished /\ StaysInOrder /\ LevelsNest => ReadsAreSafe
  BY DEF ReadsAreSafe
<1> QED
  BY <1>1, ReadersAreNeverLost, ReadersFindPublished, ReadersStayInOrder,
     ReadersSeeNestedLevels, PTL

=============================================================================
