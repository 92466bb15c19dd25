------------------------------- MODULE Options -------------------------------
(***************************************************************************)
(* What a database or a repairer makes of the options it is opened with    *)
(* (db/db_impl.cc, db/repair.cc, include/leveldb/options.h): numbers are   *)
(* clipped, a cache and an information log are made where the caller gave  *)
(* none, and deleted with the object.  Several objects may be given the    *)
(* same cache and log, and an open may fail after they were made.          *)
(*                                                                         *)
(* A log or a cache is a number, 0 is NULL.  int and size_t have           *)
(* parameters for their widths.                                            *)
(***************************************************************************)
EXTENDS Integers, FiniteSets

CONSTANTS
  Handles,                  \* objects that can be opened: DBImpl, Repairer
  Repairers,                \* the ones that are repairers
  IntBits, SizeBits,        \* widths of int and size_t
  MinBuffer, MaxBuffer,     \* range of write_buffer_size
  MinFile, MaxFile,         \* range of max_file_size
  Buffers, Files,           \* what callers ask for
  MaxMade,                  \* bound: logs and caches made
  Nil

OptionsAssumption ==
  /\ Repairers \subseteq Handles /\ Nil \notin Handles
  /\ {IntBits, SizeBits} \subseteq Nat \ {0, 1} /\ IntBits =< SizeBits
  /\ {MinBuffer, MaxBuffer, MinFile, MaxFile} \subseteq 1..(2^(IntBits - 1) - 1)
  /\ MinBuffer =< MaxBuffer /\ MinFile =< MaxFile
  /\ Buffers \cup Files \subseteq 0..(2^SizeBits - 1)
  /\ MaxMade \in Nat

VARIABLES
  handles,         \* each handle's options and what it owns; Nil when there is none
  exists,          \* the logs and caches that exist
  made,            \* how many were made
  names,           \* the log whose file has the name LOG or LOG.old; 0 for no file
  lock             \* which handle holds the LOCK, or Nil

vars == <<handles, exists, made, names, lock>>

CallersLog == 1
CallersCache == 2

-----------------------------------------------------------------------------
(* Numbers                                                                 *)

\* static_cast<int> of a size_t, or what an overflowing product leaves.
ToInt(v) ==
  LET w == v % 2^IntBits IN IF w < 2^(IntBits - 1) THEN w ELSE w - 2^IntBits

\* The value is compared as an int, and kept as a size_t.
ClipToRange(v, low, high) ==
  LET w == IF ToInt(v) > high THEN high ELSE v IN IF ToInt(w) < low THEN low ELSE w

TargetFileSize(file) == ToInt(file)

\* Products of ints: too large, they wrap around in this build.
MaxGrandParentOverlapBytes(file) == ToInt(10 * TargetFileSize(file))
ExpandedCompactionByteSizeLimit(file) == ToInt(25 * TargetFileSize(file))

-----------------------------------------------------------------------------
(* Opening and closing                                                     *)

\* LOG becomes LOG.old if there is one, and log is what LOG names then.
Renamed(log) ==
  [LOG |-> log, old |-> IF names.LOG # 0 THEN names.LOG ELSE names.old]

Owns(given, used) == used # given

\* SanitizeOptions and the constructor.  log and cache are what the caller gave,
\* fails says that no file can be made for a log.
New(h, log, cache, buffer, file, fails) ==
  LET needs   == log = 0
      newLog  == IF ~needs THEN log ELSE IF fails THEN 0 ELSE made + 3
      newCache == IF cache # 0 THEN cache ELSE made + 4
  IN  /\ handles[h] = Nil
      /\ made + 2 =< MaxMade
      /\ names' = IF needs THEN Renamed(newLog) ELSE names
      /\ made' = made + 2
      /\ exists' = exists \cup ({newLog, newCache} \ {0})
      /\ handles' = [handles EXCEPT ![h] =
           [open |-> h \in Repairers, asked |-> buffer,
            log |-> newLog, cache |-> newCache,
            ownsLog |-> Owns(log, newLog), ownsCache |-> Owns(cache, newCache),
            buffer |-> ClipToRange(buffer, MinBuffer, MaxBuffer),
            file |-> ClipToRange(file, MinFile, MaxFile)]]
      /\ UNCHANGED lock

\* What the destructor deletes.
Owned(h) ==
  (IF handles[h].ownsLog THEN {handles[h].log} ELSE {})
    \cup (IF handles[h].ownsCache THEN {handles[h].cache} ELSE {})

\* The destructor: the lock is given back, what is owned is deleted.
Delete(h) ==
  /\ lock' = IF lock = h THEN Nil ELSE lock
  /\ exists' = exists \ Owned(h)
  /\ handles' = [handles EXCEPT ![h] = Nil]
  /\ UNCHANGED <<made, names>>

\* Recover takes the lock.
Open(h) ==
  /\ handles[h] # Nil /\ ~handles[h].open
  /\ lock = Nil
  /\ lock' = h
  /\ handles' = [handles EXCEPT ![h].open = TRUE]
  /\ UNCHANGED <<exists, made, names>>

\* The lock is taken, or something after it fails: DB::Open deletes the object.
OpenFails(h) == handles[h] # Nil /\ ~handles[h].open /\ Delete(h)

Close(h) == handles[h] # Nil /\ handles[h].open /\ Delete(h)

Init ==
  /\ handles = [h \in Handles |-> Nil]
  /\ exists = {CallersLog, CallersCache}
  /\ made = 0
  /\ names = [LOG |-> 0, old |-> 0]
  /\ lock = Nil

Next ==
  \E h \in Handles :
    \/ \E log \in {0, CallersLog}, cache \in {0, CallersCache}, buffer \in Buffers,
          file \in Files, fails \in BOOLEAN :
         New(h, log, cache, buffer, file, fails)
    \/ Open(h) \/ OpenFails(h) \/ Close(h)

Spec == Init /\ [][Next]_vars

-----------------------------------------------------------------------------
(* Properties                                                              *)

Present == {h \in Handles : handles[h] # Nil}

\* The log and the cache of a database exist as long as it does: closing another
\* one, or failing to open it, deletes nothing that is shared.
HeldExists ==
  \A h \in Present : handles[h].cache \in exists /\ handles[h].log \in exists \cup {0}

\* Nothing is left behind: besides the caller's two, a log or a cache exists only
\* as long as the one object that made it.
NothingLeft ==
  \A o \in exists \ {CallersLog, CallersCache} :
    Cardinality({h \in Present : o \in {handles[h].log, handles[h].cache}}) = 1

\* Clipped values are within their range and in the order of what was asked for:
\* who asks for a larger write buffer does not get a smaller one.
Reasonable ==
  /\ \A h \in Present : handles[h].buffer \in MinBuffer..MaxBuffer
  /\ \A g, h \in Present :
       handles[g].asked =< handles[h].asked => handles[g].buffer =< handles[h].buffer

\* The limits of a compaction that come from max_file_size leave room for at
\* least one file.
RoomForFile ==
  \A h \in Present :
    /\ MaxGrandParentOverlapBytes(handles[h].file) >= handles[h].file
    /\ ExpandedCompactionByteSizeLimit(handles[h].file) >= handles[h].file

\* The log that an open database writes is a file in its directory.
LogInDirectory ==
  \A h \in Present :
    lock = h /\ handles[h].ownsLog => handles[h].log \in {names.LOG, names.old}

=============================================================================
