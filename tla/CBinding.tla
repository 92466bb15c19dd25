------------------------------- MODULE CBinding -------------------------------
(***************************************************************************)
(* db/c.cc: the C functions over leveldb.  What they add is ownership: a   *)
(* handle wraps an object that must go with it, strings go to the caller,  *)
(* an error replaces the string at *errptr.  The model has a heap and a    *)
(* caller who calls any function whose requirements hold: a handle is      *)
(* destroyed when nothing made from it is left, and a snapshot is not used *)
(* once it was released.  What leveldb answers is any outcome.             *)
(***************************************************************************)
EXTENDS Integers, FiniteSets, FiniteSetsExt

CONSTANTS
  Ids,            \* addresses of the heap, numbers; their number is a bound
  Messages,       \* texts of error messages
  Kinds           \* kinds of handles the caller makes; of these, databases,
                  \* iterators and snapshots there is one at a time, and two
                  \* strings: bounds

CBindingAssumption == Ids \subseteq Nat \ {0} /\ IsFiniteSet(Ids)

VARIABLES
  heap,           \* Ids -> object, or Free
  errptr,         \* *errptr: address of a string, or NULL
  newest,         \* message of the last call that failed since errptr was NULL
  answer,         \* what the last call of leveldb said and what the caller got
  owed            \* states given to comparators and policies, less the calls
                  \* of their destructors

vars == <<heap, errptr, newest, answer, owed>>

NULL == 0
Free == [kind |-> "free"]

\* Objects of C++ behind handles, and handles: rep is what the handle wraps,
\* uses the objects it points to otherwise.
Object(kind, rep, uses) == [kind |-> kind, rep |-> rep, uses |-> uses]
String(text) == [kind |-> "string", rep |-> NULL, uses |-> {}, text |-> text]

Live == {i \in Ids : heap[i] # Free}
Of(kind) == {i \in Live : heap[i].kind = kind}
Room(n) == Cardinality(Ids \ Live) >= n
First == Min(Ids \ Live)
Second == Min(Ids \ (Live \cup {First}))

\* new, delete and free.
Allocated(h, i, o) == [h EXCEPT ![i] = o]
Released(h, S) == [i \in Ids |-> IF i \in S THEN Free ELSE h[i]]

Silent == [said |-> "ok", string |-> FALSE, before |-> FALSE]

-----------------------------------------------------------------------------
(* Errors and strings                                                      *)

\* SaveError with a status that is not ok: the old string is freed.
SaveError(m, said) ==
  LET h == IF errptr = NULL THEN heap ELSE Released(heap, {errptr})
      at == Min({i \in Ids : h[i] = Free})
  IN  /\ {i \in Ids : h[i] = Free} # {}
      /\ heap' = Allocated(h, at, String(m)) /\ errptr' = at
      /\ newest' = m /\ answer' = [said |-> said, string |-> FALSE, before |-> errptr # NULL]

Says(said) == answer' = [said |-> said, string |-> FALSE, before |-> errptr # NULL] /\ UNCHANGED <<heap, errptr, newest>>

Saved == Says("ok") \/ \E m \in Messages : SaveError(m, "error")

\* leveldb_put, leveldb_delete, leveldb_write
Write == Of("db") # {} /\ Saved /\ UNCHANGED owed

\* leveldb_destroy_db, leveldb_repair_db
Maintain == Of("db") = {} /\ Of("options") # {} /\ Saved /\ UNCHANGED owed

leveldb_iter_get_error == Of("iterator") # {} /\ Saved /\ UNCHANGED owed

\* CopyString and strdup.
CopyString ==
  /\ Room(1) /\ Cardinality(Of("string")) < 2
  /\ heap' = Allocated(heap, First, String("value"))
  /\ answer' = [said |-> "found", string |-> TRUE, before |-> errptr # NULL]
  /\ UNCHANGED <<errptr, newest>>

NotFound == Says("absent")

\* leveldb_get; leveldb_property_value is one that cannot fail.
leveldb_get ==
  /\ Of("db") # {}
  /\ CopyString \/ NotFound \/ \E m \in Messages : SaveError(m, "error")
  /\ UNCHANGED owed

leveldb_property_value ==
  /\ Of("db") # {}
  /\ CopyString \/ Says("absent")
  /\ UNCHANGED owed

\* leveldb_free of a string that was returned, or of the error.
leveldb_free(i) ==
  /\ i \in Of("string")
  /\ heap' = Released(heap, {i})
  /\ errptr' = (IF i = errptr THEN NULL ELSE errptr)
  /\ newest' = (IF i = errptr THEN "none" ELSE newest)
  /\ answer' = Silent
  /\ UNCHANGED owed

-----------------------------------------------------------------------------
(* Handles                                                                 *)

Quietly == answer' = Silent /\ UNCHANGED <<errptr, newest>>

\* Made with `new` alone.
Create(kind) ==
  /\ kind \in Kinds /\ Of(kind) = {} /\ Room(1)
  /\ heap' = Allocated(heap, First, Object(kind, NULL, {}))
  /\ Quietly /\ UNCHANGED owed

\* Who points to it.
Users(i) == {j \in Live : i \in heap[j].uses}

leveldb_writebatch_create    == Create("batch")
leveldb_options_create       == Create("options")
leveldb_readoptions_create   == Create("readoptions")
leveldb_writeoptions_create  == Create("writeoptions")
leveldb_create_default_env   == Create("env")

\* Their destroy functions: the handle is deleted, and nothing behind it; the
\* default environment stays when its handle goes.
Destroy(i) ==
  /\ i \in UNION {Of(k) : k \in {"batch", "options", "readoptions", "writeoptions", "env"}}
  /\ Users(i) = {}
  /\ heap' = Released(heap, {i})
  /\ Quietly /\ UNCHANGED owed

CreateWithRep(kind) ==
  /\ kind \in Kinds /\ Of(kind) = {} /\ Room(2)
  /\ heap' = Allocated(Allocated(heap, First, Object(kind, Second, {})), Second, Object("rep", NULL, {}))
  /\ Quietly /\ UNCHANGED owed

leveldb_cache_create_lru          == CreateWithRep("cache")
leveldb_filterpolicy_create_bloom == CreateWithRep("bloom")

\* Mistake: only the handle is deleted.
WithRep_Not(i) == {i}

WithRep(i) == {i, heap[i].rep}

\* leveldb_cache_destroy, ~Wrapper
DestroyWithRep(i) ==
  /\ i \in Of("cache") \cup Of("bloom") /\ Users(i) = {}
  /\ heap' = Released(heap, WithRep(i))
  /\ Quietly /\ UNCHANGED owed

\* The caller gives a state and a destructor for it.
CreateWithState(kind) ==
  /\ kind \in Kinds /\ Of(kind) = {} /\ Room(1)
  /\ heap' = Allocated(heap, First, Object(kind, NULL, {}))
  /\ owed' = owed + 1
  /\ Quietly

leveldb_comparator_create   == CreateWithState("comparator")
leveldb_filterpolicy_create == CreateWithState("policy")

\* ~leveldb_comparator_t, ~leveldb_filterpolicy_t
Destructor == owed' = owed - 1

DestroyWithState(i) ==
  /\ i \in Of("comparator") \cup Of("policy") /\ Users(i) = {}
  /\ heap' = Released(heap, {i})
  /\ Destructor /\ Quietly

\* leveldb_options_set_comparator, _filter_policy, _env, _cache: the options
\* point to what the handle wraps, or to the handle itself.
SetOption(o, i) ==
  /\ o \in Of("options")
  /\ i \in Of("comparator") \cup Of("policy") \cup Of("bloom") \cup Of("cache") \cup Of("env")
  /\ heap' = [heap EXCEPT ![o].uses = {j \in @ : heap[j].kind # heap[i].kind} \cup {i}]
  /\ Quietly /\ UNCHANGED owed

\* leveldb_readoptions_set_snapshot
SetSnapshot(o, i) ==
  /\ o \in Of("readoptions") /\ i \in Of("snapshot") \cup {NULL}
  /\ heap' = [heap EXCEPT ![o].uses = {i} \ {NULL}]
  /\ Quietly /\ UNCHANGED owed

\* leveldb_open: on success a handle of a DB that uses what the options point
\* to, not the options.
leveldb_open(o) ==
  /\ o \in Of("options") /\ Of("db") = {}
  /\ \/ /\ Room(2)
        /\ heap' = Allocated(Allocated(heap, First, Object("db", Second, {})),
                             Second, Object("rep", NULL, heap[o].uses))
        /\ Quietly
     \/ \E m \in Messages : SaveError(m, "error")
  /\ UNCHANGED owed

\* leveldb_create_iterator, leveldb_create_snapshot
CreateIterator(d) ==
  /\ d \in Of("db") /\ Of("iterator") = {} /\ Room(2)
  /\ heap' = Allocated(Allocated(heap, First, Object("iterator", Second, {})),
                       Second, Object("rep", NULL, {heap[d].rep}))
  /\ Quietly /\ UNCHANGED owed

CreateSnapshot(d) ==
  /\ d \in Of("db") /\ Of("snapshot") = {} /\ Room(2)
  /\ heap' = Allocated(Allocated(heap, First, Object("snapshot", Second, {})),
                       Second, Object("rep", NULL, {heap[d].rep}))
  /\ Quietly /\ UNCHANGED owed

\* A snapshot is released before the database it is of is closed.
leveldb_release_snapshot(i) ==
  /\ i \in Of("snapshot") /\ Users(i) = {}
  /\ heap' = Released(heap, WithRep(i))
  /\ Quietly /\ UNCHANGED owed

\* leveldb_iter_destroy, leveldb_close
Close(i) ==
  /\ i \in Of("iterator") \cup Of("db")
  /\ Users(i) = {} /\ Users(heap[i].rep) = {}
  /\ heap' = Released(heap, WithRep(i))
  /\ Quietly /\ UNCHANGED owed

-----------------------------------------------------------------------------

Init ==
  /\ heap = [i \in Ids |-> Free]
  /\ errptr = NULL /\ newest = "none" /\ answer = Silent
  /\ owed = 0

Next ==
  \/ Write \/ Maintain \/ leveldb_iter_get_error \/ leveldb_get \/ leveldb_property_value
  \/ leveldb_writebatch_create \/ leveldb_options_create \/ leveldb_readoptions_create
  \/ leveldb_writeoptions_create \/ leveldb_create_default_env
  \/ leveldb_cache_create_lru \/ leveldb_filterpolicy_create_bloom
  \/ leveldb_comparator_create \/ leveldb_filterpolicy_create
  \/ \E i \in Ids :
       \/ leveldb_free(i) \/ Destroy(i) \/ DestroyWithRep(i) \/ DestroyWithState(i)
       \/ leveldb_open(i) \/ CreateIterator(i) \/ CreateSnapshot(i) \/ Close(i)
       \/ leveldb_release_snapshot(i) \/ SetSnapshot(i, NULL)
       \/ \E j \in Ids : SetOption(i, j) \/ SetSnapshot(i, j)

Spec == Init /\ [][Next]_vars

-----------------------------------------------------------------------------
(* Properties                                                              *)

Held == {i \in Live : heap[i].kind # "rep"}

\* What is behind a handle goes with it, so a caller who destroyed all handles
\* and freed all strings left nothing on the heap; and no live object points
\* to one that is gone.
NothingLeaksOrDangles ==
  /\ \A i \in Of("rep") : \E j \in Held : heap[j].rep = i
  /\ \A i \in Live : heap[i].uses \subseteq Live /\ heap[i].rep \in Live \cup {NULL}

\* "On failure, leveldb frees the old value of *errptr and set *errptr to a
\* malloc()ed error message": it is always that of the newest failure.
ErrorIsNewest ==
  IF errptr = NULL THEN newest = "none" ELSE heap[errptr].kind = "string" /\ heap[errptr].text = newest

\* A caller with *errptr == NULL on entry can tell a failure, an absent key
\* and a value apart; one with an old error cannot.
AnswersAreTold ==
  ~answer.before =>
    /\ (answer.said = "error") => errptr # NULL
    /\ (answer.said \in {"absent", "found"}) => errptr = NULL
    /\ (answer.said = "found") = answer.string

\* A caller's state is destroyed once, when its comparator or policy is.
StatesAreDestroyedOnce == owed = Cardinality(Of("comparator") \cup Of("policy"))
=============================================================================
