----------------------------- MODULE FieldLayout -----------------------------
(***************************************************************************)
(* Where nanopb finds the fields of a message in memory.  The macros of    *)
(* pb.h describe each field by its distance from the end of the field      *)
(* before it, and the iterator of pb_common.c adds the distances up while  *)
(* it walks.  A message is any sequence of members; the compiler lays its  *)
(* structure out.  Offsets are in bytes, relative to the structure.        *)
(***************************************************************************)
EXTENDS Integers, Sequences, FiniteSets, FiniteSetsExt

CONSTANTS
  Sizes,       \* sizes of scalars and submessages
  MaxMembers,  \* bound: members of a message
  SizeMax      \* PB_SIZE_MAX, beyond any offset (PB_FIELD_32BIT)

FieldLayoutAssumption == MaxMembers \in Nat /\ Sizes \subseteq (Nat \ {0}) /\ SizeMax \in Nat

VARIABLES
  members,     \* the message: member i has tag i
  layout,      \* where the members are in the structure
  fields,      \* their descriptions: pb_field_t
  iter,        \* pb_field_iter_t: pos, req (required_field_index), pData, pSize
  sought       \* the last pb_field_iter_find: tag, from, found

vars == <<members, layout, fields, iter, sought>>

Pointer == 8        \* sizeof(void*)
Callback == 16      \* sizeof(pb_callback_t)
Count == 4          \* sizeof(pb_size_t)
ArrayLength == 2

\* A member: how often it occurs, where it is, the size of one item, whether it
\* joins the union of the member before it.
Member(rule, alloc, size, joins) == [rule |-> rule, alloc |-> alloc, size |-> size, joins |-> joins]

Members ==
  {Member(r, "static", s, FALSE) :
     r \in {"required", "optional", "singular", "repeated", "fixcount", "oneof"}, s \in Sizes}
  \cup {Member(r, "pointer", 12, FALSE) : r \in {"required", "optional", "repeated", "oneof"}}
  \cup {Member("repeated", "callback", Callback, FALSE), Member("optional", "extension", Pointer, FALSE)}
  \cup {Member("oneof", "static", s, TRUE) : s \in Sizes} \cup {Member("oneof", "pointer", 12, TRUE)}

-----------------------------------------------------------------------------
(* The structure, as the compiler lays it out                              *)

Align(size) == Max({a \in {1, 2, 4, 8} : size % a = 0})
RoundUp(n, a) == ((n + a - 1) \div a) * a

IsStaticArray(m) == m.alloc = "static" /\ m.rule \in {"repeated", "fixcount"}

\* sizeof of a member
MemberSize(m) ==
  IF m.alloc = "pointer" THEN Pointer
  ELSE IF IsStaticArray(m) THEN ArrayLength * m.size ELSE m.size

MemberAlign(m) == IF m.alloc = "pointer" THEN Pointer ELSE Align(m.size)

\* The has_ flag, the count or the which_ tag that comes before a member; 0 when
\* it has none.
HeadSize(m) ==
  CASE m.alloc = "static" /\ m.rule = "optional" -> 1
    [] m.alloc \in {"static", "pointer"} /\ m.rule = "repeated" -> Count
    [] m.rule = "oneof" -> Count
    [] OTHER -> 0

\* The members of the union that begins at i, or i alone.
Union(i) == {j \in i..Len(members) : \A k \in (i + 1)..j : members[k].joins}

\* [head, data, end] of member i.
At[i \in 0..MaxMembers] ==
  IF i = 0 THEN [head |-> 0, data |-> 0, end |-> 0]
  ELSE IF members[i].joins THEN At[i - 1]
  ELSE LET m     == members[i]
           sizes == {MemberSize(members[j]) : j \in Union(i)}
           align == Max({MemberAlign(members[j]) : j \in Union(i)})
           head  == IF HeadSize(m) = 0 THEN At[i - 1].end ELSE RoundUp(At[i - 1].end, HeadSize(m))
           data  == RoundUp(head + HeadSize(m), align)
       IN  [head |-> head, data |-> data, end |-> data + RoundUp(Max(sizes), align)]

Layout == [i \in DOMAIN members |-> At[i]]

-----------------------------------------------------------------------------
(* The descriptions: PB_FIELD, PB_REPEATED_FIXED_COUNT, PB_ONEOF_FIELD      *)

Atype(m) == IF m.alloc = "extension" THEN "callback" ELSE m.alloc

Htype(m) ==
  CASE m.rule = "singular" -> "optional"
    [] m.rule = "fixcount" -> "repeated"
    [] OTHER -> m.rule

\* PB_DATAOFFSET_FIRST, PB_DATAOFFSET_UNION, PB_DATAOFFSET_OTHER
DataOffset(i, lay) ==
  IF i = 1 THEN lay[1].data
  ELSE IF members[i].joins THEN SizeMax
  ELSE lay[i].data - lay[i - 1].data - MemberSize(members[i - 1])

\* pb_delta from a member to its has_ flag, count or which_ tag
SizeOffset(i, lay) == IF HeadSize(members[i]) = 0 THEN 0 ELSE lay[i].head - lay[i].data

\* Allocated fields carry the size of the data, arrays that of an entry.
Field(i, lay) ==
  LET m == members[i] IN
  [atype |-> Atype(m), htype |-> Htype(m), ext |-> m.alloc = "extension",
   data_offset |-> DataOffset(i, lay), size_offset |-> SizeOffset(i, lay),
   data_size |-> m.size, array_size |-> IF IsStaticArray(m) THEN ArrayLength ELSE 0]

-----------------------------------------------------------------------------
(* pb_common.c                                                             *)

IterBegin(fs) ==
  LET d == fs[1].data_offset
  IN  [pos |-> 1, req |-> 0, pData |-> d, pSize |-> d + fs[1].size_offset]

\* Mistake: an array is as large as an entry.
PrevSize_Entry(f) == IF f.atype = "pointer" THEN Pointer ELSE f.data_size

\* The size of a field in the structure, from its description.
PrevSize(f) ==
  IF f.atype = "static" /\ f.htype = "repeated" THEN f.data_size * f.array_size
  ELSE IF f.atype = "pointer" THEN Pointer
  ELSE f.data_size

Counted(f) == f.htype = "required"

\* pb_field_iter_next; at the end of the list it begins again.
IterNext(it) ==
  LET prev == fields[it.pos]
      pos  == it.pos + 1
      f    == fields[pos]
      d    == it.pData + PrevSize(prev) + f.data_offset
  IN  IF pos > Len(fields) THEN IterBegin(fields)
      ELSE IF prev.htype = "oneof" /\ f.htype = "oneof" /\ f.data_offset = SizeMax
      THEN [it EXCEPT !.pos = pos]
      ELSE [pos |-> pos, req |-> it.req + (IF Counted(prev) THEN 1 ELSE 0),
            pData |-> d, pSize |-> d + f.size_offset]

Matches(it, tag) == it.pos = tag /\ ~fields[it.pos].ext

\* Where pb_field_iter_find is after k turns of its loop.
Turns(it) == LET f[k \in 0..MaxMembers] == IF k = 0 THEN it ELSE IterNext(f[k - 1]) IN f

\* pb_field_iter_find: from where the iterator is, once around at most.
IterFind(it, tag) ==
  LET hits == {k \in 0..(Len(fields) - 1) : Matches(Turns(it)[k], tag)}
  IN  [found |-> hits # {}, iter |-> Turns(it)[IF hits = {} THEN Len(fields) ELSE Min(hits)]]

-----------------------------------------------------------------------------

NotBegun == [pos |-> 0, req |-> 0, pData |-> 0, pSize |-> 0]
NotSought == [tag |-> 0, from |-> 0, found |-> FALSE]

\* The next member of the message; a first member joins nothing, others a union.
Declare ==
  /\ iter = NotBegun /\ Len(members) < MaxMembers
  /\ \E m \in Members :
       /\ m.joins => members # <<>> /\ members[Len(members)].rule = "oneof"
       /\ members' = Append(members, m)
  /\ UNCHANGED <<layout, fields, iter, sought>>

Begin ==
  /\ iter = NotBegun /\ members # <<>>
  /\ layout' = Layout
  /\ fields' = [i \in DOMAIN members |-> Field(i, layout')]
  /\ iter' = IterBegin(fields')
  /\ UNCHANGED <<members, sought>>

Step ==
  /\ iter # NotBegun
  /\ iter' = IterNext(iter)
  /\ sought' = NotSought
  /\ UNCHANGED <<members, layout, fields>>

Find ==
  /\ iter # NotBegun
  /\ \E tag \in 1..(MaxMembers + 1) :
       LET r == IterFind(iter, tag) IN
       /\ iter' = r.iter
       /\ sought' = [tag |-> tag, from |-> iter.pos, found |-> r.found]
  /\ UNCHANGED <<members, layout, fields>>

Init == members = <<>> /\ layout = <<>> /\ fields = <<>> /\ iter = NotBegun /\ sought = NotSought
Next == Declare \/ Begin \/ Step \/ Find
Spec == Init /\ [][Next]_vars

-----------------------------------------------------------------------------
(* Properties                                                              *)

\* Wherever the iterator is, by whatever steps, searches and wraps, pData is the
\* field's place in the structure and pSize that of its has_ flag, count or tag:
\* padding, arrays, pointers and unions of any size in front of it add up.
PointsAtField ==
  iter # NotBegun =>
    /\ iter.pData = layout[iter.pos].data
    /\ HeadSize(members[iter.pos]) # 0 => iter.pSize = layout[iter.pos].head

\* required_field_index is the bit of fields_seen by which pb_decode knows a
\* required field: how many required fields are in front.
IndexedByRequired ==
  iter # NotBegun => iter.req = Cardinality({j \in 1..(iter.pos - 1) : members[j].rule = "required"})

\* A search from any field ends at the field with that tag if the message has
\* one that is not an extension, else where it began.
FindTells ==
  sought # NotSought =>
    /\ sought.found <=> (sought.tag \in DOMAIN members /\ members[sought.tag].alloc # "extension")
    /\ iter.pos = IF sought.found THEN sought.tag ELSE sought.from
=============================================================================
