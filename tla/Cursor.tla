-------------------------------- MODULE Cursor --------------------------------
(***************************************************************************)
(* What leveldb promises of an iterator over a database: a cursor over the *)
(* keys of one state of the database.  view is that state, at the key the  *)
(* cursor is at (NoKey when it is not valid), val the value there, ok what *)
(* status() says, call the operation that was called last.                 *)
(***************************************************************************)
EXTENDS Integers

CONSTANT Keys      \* positive numbers

VARIABLES view, at, val, ok, call

vars == <<view, at, val, ok, call>>

NoKey == 0

Least(S) == IF S = {} THEN NoKey ELSE CHOOSE k \in S : \A j \in S : k =< j
Greatest(S) == IF S = {} THEN NoKey ELSE CHOOSE k \in S : \A j \in S : k >= j
Value(k) == IF k = NoKey THEN 0 ELSE view[k]

\* The cursor moves to k, or an error occurs and is kept: then nothing is
\* promised.
MoveTo(k) ==
  \/ ok /\ ok' = TRUE /\ at' = k /\ val' = Value(k)
  \/ ok' = FALSE /\ at' \in Keys \cup {NoKey} /\ val' \in Nat

Call(op, k) == call' = <<op, k>> /\ UNCHANGED view

SeekToFirst == Call("first", NoKey) /\ MoveTo(Least(DOMAIN view))
SeekToLast == Call("last", NoKey) /\ MoveTo(Greatest(DOMAIN view))
Seek(t) == Call("seek", t) /\ MoveTo(Least({k \in DOMAIN view : k >= t}))
Forward == at # NoKey /\ Call("next", NoKey) /\ MoveTo(Least({k \in DOMAIN view : k > at}))
Backward == at # NoKey /\ Call("prev", NoKey) /\ MoveTo(Greatest({k \in DOMAIN view : k < at}))

Init == at = NoKey /\ val = 0 /\ ok \in BOOLEAN /\ call = <<"new", NoKey>> /\ DOMAIN view \subseteq Keys

Next == SeekToFirst \/ SeekToLast \/ (\E t \in Keys : Seek(t)) \/ Forward \/ Backward

Spec == Init /\ [][Next]_vars

=============================================================================
