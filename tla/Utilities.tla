----------------------------- MODULE Utilities ------------------------------
(***************************************************************************)
(* Small parts of leveldb (util/): random numbers, the hash, histograms, the *)
(* information log, statuses, the arena, the names of files (db/filename.cc) and *)
(* dumping a file (db/dumpfile.cc).  They share no state, so each is a machine of its own. *)
(***************************************************************************)
EXTENDS Integers, Sequences, FiniteSets, SequencesExt, Bitwise

-----------------------------------------------------------------------------
(***************************************************************************)
(* util/random.h: the generator from which the skip list draws heights and *)
(* reads are sampled.  M is 2^31 - 1 and A is 16807 in the code; here they *)
(* are parameters, a prime 2^Bits - 1 and a primitive root of it, smaller  *)
(* than half of it as 16807 is.                                            *)
(***************************************************************************)

CONSTANTS Bits, Multiplier

RandomAssumption == Bits \in Nat \ {0} /\ Multiplier \in 1..(2 ^ (Bits - 1))

VARIABLES seed_, first, draws     \* first seed, number of draws
randomVars == <<seed_, first, draws>>

M == 2 ^ Bits - 1

\* The constructor.
Random(s) == LET low == s % (M + 1) IN IF low \in {0, M} THEN 1 ELSE low

\* product % M by shift and mask.
Reduced(product) ==
  LET sum == product \div (M + 1) + (product % (M + 1)) IN IF sum > M THEN sum - M ELSE sum

\* Random::Next; Uniform, OneIn and Skewed take remainders of what it returns.
Draw ==
  /\ draws < M - 1
  /\ seed_' = Reduced(seed_ * Multiplier)
  /\ draws' = draws + 1
  /\ UNCHANGED first

\* Any 32-bit seed (one bit more than M has).
RandomInit ==
  /\ \E s \in 0..(2 * M + 1) : seed_ = Random(s)
  /\ first = seed_ /\ draws = 0

RandomNext == Draw
RandomSpec == RandomInit /\ [][RandomNext]_randomVars

-----------------------------------------------------------------------------

\* "seed_ will end up cycling through every number in [1,M-1]": from any seed
\* no number comes twice before M - 1 draws, and then the first one comes.
CyclesThroughAll ==
  /\ seed_ \in 1..(M - 1)
  /\ draws \in 1..(M - 2) => seed_ # first
  /\ draws = M - 1 => seed_ = first

-----------------------------------------------------------------------------
(***************************************************************************)
(* The hash of keys and blocks (util/hash.cc), with parameters for the     *)
(* width of a byte and the multiplier.  A word is four bytes.              *)
(***************************************************************************)

CONSTANTS
  ByteBits,        \* 8
  HashM, HashR,    \* the multiplier, and how far the last bytes are mixed
  Seed,
  MaxBytes         \* bound: length of the data

HashingAssumption ==
  /\ ByteBits \in Nat \ {0} /\ HashM \in Nat /\ HashM % 2 = 1
  /\ HashR \in 1..(4 * ByteBits - 1)
  /\ Seed \in 0..(2^(4 * ByteBits) - 1) /\ MaxBytes \in Nat

VARIABLE data      \* the bytes

hashVars == <<data>>

Bytes == 0..(2^ByteBits - 1)
Word(v) == v % 2^(4 * ByteBits)

-----------------------------------------------------------------------------

\* DecodeFixed32 of the four bytes after position p.
DecodeFixed32(d, p) ==
  d[p + 1] + d[p + 2] * 2^ByteBits + d[p + 3] * 2^(2 * ByteBits) + d[p + 4] * 2^(3 * ByteBits)

\* h ^= h >> k
Mix(h, k) == h ^^ shiftR(h, k)

\* The loop over words.
Words(d) ==
  LET f[i \in 0..(Len(d) \div 4)] ==
        IF i = 0 THEN Seed ^^ Word(Len(d) * HashM)
        ELSE Mix(Word(Word(f[i - 1] + DecodeFixed32(d, 4 * (i - 1))) * HashM), 2 * ByteBits)
  IN  f[Len(d) \div 4]

\* The bytes that are left, which fall through from the last to the first.
Rest(d) ==
  LET p == 4 * (Len(d) \div 4)
      byte(i) == IF p + i > Len(d) THEN 0 ELSE d[p + i]
  IN  byte(1) + byte(2) * 2^ByteBits + byte(3) * 2^(2 * ByteBits)

Hash(d) ==
  IF Len(d) % 4 = 0 THEN Words(d) ELSE Mix(Word(Word(Words(d) + Rest(d)) * HashM), HashR)

-----------------------------------------------------------------------------

HashInit == data = <<>>

HashNext == Len(data) < MaxBytes /\ \E b \in Bytes : data' = Append(data, b)

HashSpec == HashInit /\ [][HashNext]_hashVars

-----------------------------------------------------------------------------
(* Properties                                                              *)

\* Data of one length that differ in one word only, or only in the bytes left
\* after the words, have different hashes: every step can be undone.
TellsOneWord ==
  LET hash == Hash(data)
  IN  \A i \in 0..(Len(data) \div 4) :
        LET from == 4 * i + 1
            to   == IF 4 * i + 4 < Len(data) THEN 4 * i + 4 ELSE Len(data)
            With(word) == [k \in 1..Len(data) |-> IF k \in from..to THEN word[k] ELSE data[k]]
        IN  \A word \in [from..to -> Bytes] : With(word) # data => Hash(With(word)) # hash


-----------------------------------------------------------------------------
(***************************************************************************)
(* The histograms of leveldb (util/histogram.h, util/histogram.cc): values *)
(* are counted in buckets, histograms are merged, and percentiles are      *)
(* found by interpolation in a bucket.  Values are integers here; a        *)
(* quotient is a pair of a numerator and a denominator.                    *)
(***************************************************************************)

CONSTANTS
  Histograms,
  NumBuckets,      \* kNumBuckets
  Huge,            \* the last limit, 1e200
  Values,          \* what is added
  Percents,        \* percentiles that are asked for, the median among them
  MaxCount         \* bound: values in a histogram

HistogramAssumption ==
  /\ NumBuckets \in 2..26 /\ Huge \in Nat /\ Values \subseteq Nat /\ MaxCount \in Nat
  /\ \A v \in Values : v < Huge
  /\ Percents \subseteq 1..100

VARIABLES
  hist,            \* the data members of each histogram
  added            \* ghost: how often each value was put into each histogram

histogramVars == <<hist, added>>

Buckets == 0..(NumBuckets - 1)

\* The first limits of the table, and the last.
kBucketLimit(b) ==
  IF b = NumBuckets - 1 THEN Huge
  ELSE <<1, 2, 3, 4, 5, 6, 7, 8, 9, 10, 12, 14, 16, 18, 20, 25, 30, 35, 40, 45,
         50, 60, 70, 80, 90>>[b + 1]

-----------------------------------------------------------------------------

Clear ==
  [min |-> kBucketLimit(NumBuckets - 1), max |-> 0, num |-> 0, sum |-> 0, squares |-> 0,
   buckets |-> [b \in Buckets |-> 0]]

\* The first bucket whose limit is above v.
BucketOf(v) ==
  CHOOSE b \in Buckets :
    /\ b = NumBuckets - 1 \/ kBucketLimit(b) > v
    /\ \A c \in 0..(b - 1) : kBucketLimit(c) =< v

Smaller(x, y) == IF x < y THEN x ELSE y
Larger(x, y) == IF x > y THEN x ELSE y

Added(h, v) ==
  [min |-> Smaller(h.min, v), max |-> Larger(h.max, v), num |-> h.num + 1,
   sum |-> h.sum + v, squares |-> h.squares + v * v,
   buckets |-> [h.buckets EXCEPT ![BucketOf(v)] = @ + 1]]

MergedMin(h, other) == Smaller(h.min, other.min)

Merged(h, other) ==
  [min |-> MergedMin(h, other), max |-> Larger(h.max, other.max), num |-> h.num + other.num,
   sum |-> h.sum + other.sum, squares |-> h.squares + other.squares,
   buckets |-> [b \in Buckets |-> h.buckets[b] + other.buckets[b]]]

\* The sum of the buckets up to b.
UpTo(h, b) ==
  LET s[c \in Buckets] == h.buckets[c] + (IF c = 0 THEN 0 ELSE s[c - 1]) IN s[b]

\* The first bucket at which the sum reaches p percent of num.
Reached(h, p) ==
  CHOOSE b \in Buckets :
    /\ 100 * UpTo(h, b) >= h.num * p
    /\ \A c \in 0..(b - 1) : 100 * UpTo(h, c) < h.num * p

Less(x, y) == x[1] * y[2] < y[1] * x[2]

\* 100 times how far the threshold is into bucket b.
PositionIn(h, p, b) == h.num * p - 100 * (UpTo(h, b) - h.buckets[b])

Bounded(r, low, high) == IF Less(r, low) THEN low ELSE IF Less(high, r) THEN high ELSE r

\* Linear within the bucket, and no further than the smallest and largest value.
Percentile(h, p) ==
  LET b     == Reached(h, p)
      left  == IF b = 0 THEN 0 ELSE kBucketLimit(b - 1)
      right == kBucketLimit(b)
      r     == <<left * 100 * h.buckets[b] + (right - left) * PositionIn(h, p, b),
                 100 * h.buckets[b]>>
  IN  Bounded(r, <<h.min, 1>>, <<h.max, 1>>)

-----------------------------------------------------------------------------

Add(x, v) ==
  /\ hist[x].num < MaxCount
  /\ hist' = [hist EXCEPT ![x] = Added(@, v)]
  /\ added' = [added EXCEPT ![x][v] = @ + 1]

\* y may be x.
Merge(x, y) ==
  /\ hist[x].num + hist[y].num =< MaxCount
  /\ hist' = [hist EXCEPT ![x] = Merged(@, hist[y])]
  /\ added' = [added EXCEPT ![x] = [v \in Values |-> added[x][v] + added[y][v]]]

Reset(x) ==
  /\ hist' = [hist EXCEPT ![x] = Clear]
  /\ added' = [added EXCEPT ![x] = [v \in Values |-> 0]]

HistogramInit ==
  /\ hist = [x \in Histograms |-> Clear]
  /\ added = [x \in Histograms |-> [v \in Values |-> 0]]

HistogramNext ==
  \E x \in Histograms :
    \/ \E v \in Values : Add(x, v)
    \/ \E y \in Histograms : Merge(x, y)
    \/ Reset(x)

HistogramSpec == HistogramInit /\ [][HistogramNext]_histogramVars

-----------------------------------------------------------------------------
(* Properties                                                              *)

\* The values that were put into x, by Add or by Merge.
In(x) == {v \in Values : added[x][v] > 0}

\* A histogram that was merged says the same as one to which everything was
\* added: the smallest and the largest value are values that were added.
AsIfAdded ==
  \A x \in Histograms :
    hist[x].num > 0 =>
      /\ hist[x].min \in In(x) /\ \A v \in In(x) : hist[x].min =< v
      /\ hist[x].max \in In(x) /\ \A v \in In(x) : v =< hist[x].max

\* The value with half of the values at or below it is in the bucket that the
\* percentile is found in: what is told is off by no more than a bucket.
InItsBucket ==
  \A x \in Histograms : \A p \in Percents :
    hist[x].num > 0 =>
      LET low == [v \in Values |-> {w \in Values : w < v}]
          Below[S \in SUBSET Values] ==
            IF S = {} THEN 0
            ELSE LET v == CHOOSE v \in S : TRUE IN added[x][v] + Below[S \ {v}]
          exact == CHOOSE v \in In(x) :
                     /\ 100 * (Below[low[v]] + added[x][v]) >= p * hist[x].num
                     /\ 100 * Below[low[v]] < p * hist[x].num
          b == BucketOf(exact)
          r == Percentile(hist[x], p)
      IN  /\ ~Less(r, <<IF b = 0 THEN 0 ELSE kBucketLimit(b - 1), 1>>)
          /\ ~Less(<<kBucketLimit(b), 1>>, r)

\* A higher percentile is not a smaller value, and no percentile is outside of
\* what was added.
PercentilesInOrder ==
  \A x \in Histograms :
    hist[x].num > 0 =>
      /\ \A p, q \in Percents : p < q => ~Less(Percentile(hist[x], q), Percentile(hist[x], p))
      /\ \A p \in Percents :
           /\ ~Less(Percentile(hist[x], p), <<hist[x].min, 1>>)
           /\ ~Less(<<hist[x].max, 1>>, Percentile(hist[x], p))


-----------------------------------------------------------------------------
(***************************************************************************)
(* The information log of a database (util/posix_logger.h, Log in          *)
(* util/env.cc).  Threads write entries without a lock of their own: each  *)
(* is put together in a buffer of the thread, a small one first and then   *)
(* a large one, and goes to the file in one fwrite and one fflush.         *)
(*                                                                         *)
(* A text is a sequence of letters: "h" for the date and the thread, "x"   *)
(* for a message, which may end with a newline.                            *)
(***************************************************************************)

CONSTANTS
  Threads,
  Small, Large,       \* sizes of the two buffers
  Header,             \* length of the date and the thread
  LogMessages,        \* lengths of messages
  MaxEntries          \* bound

InfoLogAssumption ==
  /\ {Small, Large, Header} \subseteq Nat \ {0} /\ LogMessages \subseteq Nat
  /\ Header < Small /\ Small < Large
  /\ MaxEntries \in Nat

VARIABLES
  buffered, file,     \* entries in the buffer of stdio, and in the file
  thread,             \* what each thread has put together
  logged,             \* ghost: messages whose Logv has returned
  count

infoLogVars == <<buffered, file, thread, logged, count>>

Newline == "n"
Idle == [at |-> "idle", message |-> <<>>, text |-> <<>>, size |-> 0]

-----------------------------------------------------------------------------

\* Messages of n letters that end with a newline or not.
MessagesOf(n) ==
  {[i \in 1..n |-> "x"]} \cup (IF n = 0 THEN {} ELSE {[i \in 1..(n - 1) |-> "x"] \o <<Newline>>})

Full(message) == [i \in 1..Header |-> "h"] \o message

\* p < limit after both calls of snprintf, which count what they would write.
Fits(text, size) == Len(text) < size

BufferSize(text) == IF Fits(text, Small) THEN Small ELSE Large

Ended(text) == IF text = <<>> \/ Last(text) # Newline THEN Append(text, Newline) ELSE text

\* Cut to the space there is, and ended.
Formatted(text) ==
  Ended(IF Fits(text, BufferSize(text)) THEN text ELSE SubSeq(text, 1, BufferSize(text) - 1))

-----------------------------------------------------------------------------

\* Log with a logger, up to the end of the formatting
Format(t, message) ==
  /\ thread[t] = Idle /\ count < MaxEntries
  /\ count' = count + 1
  /\ thread' = [thread EXCEPT ![t] =
       [at |-> "write", message |-> message, text |-> Formatted(Full(message)),
        size |-> BufferSize(Full(message))]]
  /\ UNCHANGED <<buffered, file, logged>>

\* fwrite holds the lock of the FILE.
Write(t) ==
  /\ thread[t].at = "write"
  /\ buffered' = buffered \o thread[t].text
  /\ thread' = [thread EXCEPT ![t].at = "flush"]
  /\ UNCHANGED <<file, logged, count>>

Flushed == file' = file \o buffered /\ buffered' = <<>>

\* fflush, and Logv returns.
Flush(t) ==
  /\ thread[t].at = "flush"
  /\ Flushed
  /\ logged' = Append(logged, thread[t].message)
  /\ thread' = [thread EXCEPT ![t] = Idle]
  /\ UNCHANGED count

\* The process is killed; what it wrote stays.
Kill ==
  /\ buffered' = <<>>
  /\ thread' = [t \in Threads |-> Idle]
  /\ UNCHANGED <<file, logged, count>>

InfoLogInit ==
  /\ buffered = <<>> /\ file = <<>>
  /\ thread = [t \in Threads |-> Idle]
  /\ logged = <<>> /\ count = 0

InfoLogNext ==
  \/ \E t \in Threads :
       \/ \E n \in LogMessages : \E message \in MessagesOf(n) : Format(t, message)
       \/ Write(t) \/ Flush(t)
  \/ Kill

InfoLogSpec == InfoLogInit /\ [][InfoLogNext]_infoLogVars

-----------------------------------------------------------------------------
(* Properties                                                              *)

\* The lines of a text: where each starts and ends, newline included.
Lines(text) ==
  {<<i, j>> \in (1..Len(text)) \X (1..Len(text)) :
     /\ i =< j /\ text[j] = Newline
     /\ i = 1 \/ text[i - 1] = Newline
     /\ \A k \in i..(j - 1) : text[k] # Newline}

\* An entry never runs over its buffer, as the assertion after it says.
InBounds == \A t \in Threads : Len(thread[t].text) =< thread[t].size

\* The file consists of whole lines that each start with a header: entries of
\* different threads do not run into each other, and none adds an empty line.
WholeLines ==
  /\ file = <<>> \/ Last(file) = Newline
  /\ \A l \in Lines(file) : \A k \in 1..Header : file[l[1] + k - 1] = "h"

\* Every message whose call returned is in the file, after a kill too, complete
\* if it fits in the large buffer.
Kept ==
  \A i \in DOMAIN logged :
    Fits(Full(logged[i]), Large) =>
      \E l \in Lines(file) : SubSeq(file, l[1], l[2]) = Ended(Full(logged[i]))


-----------------------------------------------------------------------------
(***************************************************************************)
(* Status, the result of nearly every operation of leveldb                 *)
(* (include/leveldb/status.h, util/status.cc): a pointer to an array with  *)
(* the length of a message, a code and the message, or NULL for success.   *)
(* Statuses are returned, copied, assigned over each other and destroyed   *)
(* in any order; new may return an address that was freed.                 *)
(***************************************************************************)

CONSTANTS
  Slots,           \* the Status variables of a program
  Addresses,       \* what new[] may return: numbers from 1
  Codes,           \* error codes that occur
  StatusMessages   \* how long the messages are

StatusesAssumption ==
  /\ Addresses \subseteq Nat \ {0}
  /\ Codes \subseteq 1..5 /\ StatusMessages \subseteq Nat

VARIABLES
  slot,            \* state_ of each variable: an address, Null, or Gone
  heap,            \* the array at each address, or Free
  meant            \* ghost: what each variable was last given

statusVars == <<slot, heap, meant>>

Null == 0
Gone == -1
Free == [size |-> 0, code |-> 0, text |-> <<>>, free |-> TRUE]

Success == [code |-> 0, text |-> <<>>]

Live == {s \in Slots : slot[s] # Gone}
Unused == {a \in Addresses : heap[a].free}

-----------------------------------------------------------------------------

\* The two messages, told apart by their letters.
Letters(c, n) == [i \in 1..n |-> c]

SizeOf(n1, n2) == n1 + (IF n2 # 0 THEN 2 + n2 ELSE 0)

Joined(n1, n2) ==
  Letters("a", n1) \o (IF n2 # 0 THEN <<":", " ">> \o Letters("b", n2) ELSE <<>>)

\* The array for an error.
Array(code, n1, n2) ==
  [size |-> SizeOf(n1, n2), code |-> code, text |-> Joined(n1, n2), free |-> FALSE]

\* size + 5 bytes are copied.
CopyState(b) == [b EXCEPT !.text = SubSeq(@, 1, b.size)]

code(s) == IF slot[s] = Null THEN 0 ELSE heap[slot[s]].code

TypeName(c) ==
  CASE c = 0 -> "OK" [] c = 1 -> "NotFound: " [] c = 2 -> "Corruption: "
    [] c = 3 -> "Not implemented: " [] c = 4 -> "Invalid argument: " [] c = 5 -> "IO error: "

StatusToString(s) ==
  IF slot[s] = Null THEN <<"OK">>
  ELSE <<TypeName(code(s))>> \o SubSeq(heap[slot[s]].text, 1, heap[slot[s]].size)

-----------------------------------------------------------------------------

\* Status(), OK()
Succeed(s) ==
  /\ slot[s] = Gone
  /\ slot' = [slot EXCEPT ![s] = Null]
  /\ meant' = [meant EXCEPT ![s] = Success]
  /\ UNCHANGED heap

\* NotFound, Corruption, NotSupported, InvalidArgument, IOError
Fail(s, c, n1, n2) ==
  /\ slot[s] = Gone
  /\ \E a \in Unused :
       /\ slot' = [slot EXCEPT ![s] = a]
       /\ heap' = [heap EXCEPT ![a] = Array(c, n1, n2)]
  /\ meant' = [meant EXCEPT ![s] = [code |-> c, text |-> Joined(n1, n2)]]

\* The copy of the array at p, in memory h, goes to s.
SetTo(s, p, h) ==
  \/ p = Null /\ slot' = [slot EXCEPT ![s] = Null] /\ heap' = h
  \/ /\ p # Null
     /\ \E a \in {b \in Addresses : h[b].free} :
          /\ slot' = [slot EXCEPT ![s] = a]
          /\ heap' = [h EXCEPT ![a] = CopyState(h[p])]

Freed(p) == IF p = Null THEN heap ELSE [heap EXCEPT ![p] = Free]

\* The copy constructor
Copy(s, t) ==
  /\ slot[s] = Gone /\ slot[t] # Gone
  /\ SetTo(s, slot[t], heap)
  /\ meant' = [meant EXCEPT ![s] = meant[t]]

\* The one test that catches aliasing and two successes.
Differs(p, q) == p # q

\* operator=; t may be s.
Assign(s, t) ==
  /\ slot[s] # Gone /\ slot[t] # Gone
  /\ \/ Differs(slot[s], slot[t]) /\ SetTo(s, slot[t], Freed(slot[s]))
     \/ ~Differs(slot[s], slot[t]) /\ UNCHANGED <<slot, heap>>
  /\ meant' = [meant EXCEPT ![s] = meant[t]]

Destroy(s) ==
  /\ slot[s] # Gone
  /\ heap' = Freed(slot[s])
  /\ slot' = [slot EXCEPT ![s] = Gone]
  /\ meant' = [meant EXCEPT ![s] = Success]

StatusInit ==
  /\ slot = [s \in Slots |-> Gone]
  /\ heap = [a \in Addresses |-> Free]
  /\ meant = [s \in Slots |-> Success]

StatusNext ==
  \E s \in Slots :
    \/ Succeed(s)
    \/ \E c \in Codes, n1, n2 \in StatusMessages : Fail(s, c, n1, n2)
    \/ \E t \in Slots : Copy(s, t) \/ Assign(s, t)
    \/ Destroy(s)

StatusSpec == StatusInit /\ [][StatusNext]_statusVars

-----------------------------------------------------------------------------
(* Properties                                                              *)

\* Every array belongs to exactly one status: none is freed twice, used after
\* it was freed, or left behind, whatever was assigned to what.
OneOwner ==
  \A a \in Addresses :
    Cardinality({s \in Live : slot[s] = a}) = IF heap[a].free THEN 0 ELSE 1

\* A status says what it was made with, after any number of copies.
SaysWhatWasMeant ==
  \A s \in Live :
    StatusToString(s) = IF meant[s].code = 0 THEN <<"OK">>
                  ELSE <<TypeName(meant[s].code)>> \o meant[s].text


-----------------------------------------------------------------------------
(***************************************************************************)
(* The allocator of a memtable (util/arena.h, util/arena.cc).  Memory is   *)
(* handed out from the front of a block, and given back only as a whole.   *)
(*                                                                         *)
(* An address is the number of a block and an offset in it; new[] returns  *)
(* blocks aligned for any type, so alignment is a matter of the offset.    *)
(***************************************************************************)

CONSTANTS
  BlockSize,       \* kBlockSize
  Align,           \* align in AllocateAligned
  PointerSize,     \* sizeof(char*)
  Sizes,           \* what is asked for
  MaxRegions       \* bound: allocations

ArenaAssumption ==
  /\ BlockSize \in Nat \ {0} /\ Align \in Nat \ {0} /\ PointerSize \in Nat
  /\ Sizes \subseteq Nat \ {0}
  /\ MaxRegions \in Nat

VARIABLES
  blocks,          \* the sizes of the blocks
  cur,             \* the block alloc_ptr_ is in; 0 for NULL
  ptr,             \* alloc_ptr_ as an offset in it
  remaining,       \* alloc_bytes_remaining_
  usage,           \* memory_usage_
  regions          \* what was handed out: [block, off, len, aligned]

arenaVars == <<blocks, cur, ptr, remaining, usage, regions>>

-----------------------------------------------------------------------------

UsageWith(u, bytes) == u + bytes + PointerSize

AllocateNewBlock(bytes) == blocks' = Append(blocks, bytes) /\ usage' = UsageWith(usage, bytes)

Give(block, off, len, aligned) ==
  regions' = regions \cup {[block |-> block, off |-> off, len |-> len, aligned |-> aligned]}

\* More than a quarter of a block is allocated on its own.
Separate(bytes) == bytes > BlockSize \div 4

\* alloc_bytes_remaining_ after the first allocation of a block.
LeftOf(bytes) == BlockSize - bytes

AllocateFallback(bytes, aligned) ==
  /\ Give(Len(blocks) + 1, 0, bytes, aligned)
  /\ \/ /\ Separate(bytes)
        /\ AllocateNewBlock(bytes)
        /\ UNCHANGED <<cur, ptr, remaining>>
     \/ /\ ~Separate(bytes)
        /\ AllocateNewBlock(BlockSize)
        /\ cur' = Len(blocks) + 1 /\ ptr' = bytes /\ remaining' = LeftOf(bytes)

\* Room at the front of the current block is handed out, slop bytes are skipped.
Take(bytes, slop, aligned) ==
  /\ Give(cur, ptr + slop, bytes, aligned)
  /\ ptr' = ptr + bytes + slop /\ remaining' = remaining - (bytes + slop)
  /\ UNCHANGED <<blocks, cur, usage>>

Allocate(bytes) ==
  \/ bytes =< remaining /\ Take(bytes, 0, FALSE)
  \/ bytes > remaining /\ AllocateFallback(bytes, FALSE)

\* Bytes up to the next multiple of Align.
Slop(p) == IF p % Align = 0 THEN 0 ELSE Align - (p % Align)

AllocateAligned(bytes) ==
  \/ bytes + Slop(ptr) =< remaining /\ Take(bytes, Slop(ptr), TRUE)
  \/ bytes + Slop(ptr) > remaining /\ AllocateFallback(bytes, TRUE)

ArenaInit ==
  /\ blocks = <<>> /\ cur = 0 /\ ptr = 0 /\ remaining = 0
  /\ usage = 0
  /\ regions = {}

ArenaNext ==
  \E bytes \in Sizes :
    /\ Cardinality(regions) < MaxRegions
    /\ Allocate(bytes) \/ AllocateAligned(bytes)

ArenaSpec == ArenaInit /\ [][ArenaNext]_arenaVars

-----------------------------------------------------------------------------
(* Properties                                                              *)

\* No two entries or nodes of a memtable share memory, and each one lies in its
\* block.
NoOverlap ==
  /\ \A r \in regions : r.block \in 1..Len(blocks) /\ r.off + r.len =< blocks[r.block]
  /\ \A r, s \in regions :
       r.block = s.block /\ r # s => r.off + r.len =< s.off \/ s.off + s.len =< r.off

\* The assertion at the end of AllocateAligned.
AlignedWell == \A r \in regions : r.aligned => r.off % Align = 0

\* MemoryUsage, by which a memtable is found to be full, covers what was handed
\* out: the buffer cannot grow unnoticed.
UsageCovers ==
  LET total[S \in SUBSET regions] ==
        IF S = {} THEN 0 ELSE LET r == CHOOSE r \in S : TRUE IN r.len + total[S \ {r}]
  IN  usage >= total[regions]

\* Leaving a block wastes at most a quarter of it and what alignment needs.
WastesLittle == cur' # cur => remaining < (BlockSize \div 4) + Align


-----------------------------------------------------------------------------
(***************************************************************************)
(* The names of the files of a database (db/filename.cc) and the numbers   *)
(* in them (util/logging.cc).  A name is what comes before its digits, the *)
(* digits, and what comes after; digits are read one at a time.            *)
(***************************************************************************)

CONSTANTS
  Base,          \* 10
  MaxUint,       \* kMaxUint64
  Pad,           \* 6: digits a number is padded to
  MaxDigits      \* bound: digits of a name that somebody else has put there

VARIABLES
  prefix, digits, suffix,  \* the suffix; after is "?" while the digits are read
  parsed, parsedOk         \* ConsumeDecimalNumber

nameVars == <<prefix, digits, suffix, parsed, parsedOk>>

Plain == {"CURRENT", "LOCK", "LOG", "LOG.old"}
NameSuffixes == {".log", ".sst", ".ldb", ".dbtmp", "other", ""}

-----------------------------------------------------------------------------

\* %06llu: at least Pad digits.
Digits(n) ==
  LET Rev[x \in 0..n, w \in 0..(Pad + MaxDigits)] ==
        IF x = 0 /\ w = 0 THEN <<>>
        ELSE Append(Rev[x \div Base, IF w = 0 THEN 0 ELSE w - 1], x % Base)
  IN  Rev[n, Pad]

\* LogFileName, TableFileName, SSTTableFileName, TempFileName, DescriptorFileName
Name(type, n) ==
  CASE type = "kLogFile"        -> [before |-> "", digits |-> Digits(n), after |-> ".log"]
    [] type = "kTableFile"      -> [before |-> "", digits |-> Digits(n), after |-> ".ldb"]
    [] type = "kTempFile"       -> [before |-> "", digits |-> Digits(n), after |-> ".dbtmp"]
    [] type = "kDescriptorFile" -> [before |-> "MANIFEST-", digits |-> Digits(n), after |-> ""]

Types == {"kLogFile", "kTableFile", "kTempFile", "kDescriptorFile"}

\* Mistake: the last digit is not looked at.
Overflows_Late(x, delta) == x > MaxUint \div Base

Overflows(x, delta) == x > MaxUint \div Base \/ (x = MaxUint \div Base /\ delta > MaxUint % Base)

\* One turn of the loop of ConsumeDecimalNumber; numbers have the width of a word.
ReadDigit(delta) ==
  /\ suffix = "?" /\ prefix \notin Plain /\ Len(digits) < MaxDigits
  /\ digits' = Append(digits, delta)
  /\ parsedOk' = (parsedOk /\ ~Overflows(parsed, delta))
  /\ parsed' = IF parsedOk' THEN (parsed * Base + delta) % (MaxUint + 1) ELSE parsed
  /\ UNCHANGED <<prefix, suffix>>

\* The part of ParseFileName after the digits.
TypeOf(b, a) ==
  CASE b = "MANIFEST-" /\ a = "" -> "kDescriptorFile"
    [] b = "" /\ a = ".log" -> "kLogFile"
    [] b = "" /\ a \in {".sst", ".ldb"} -> "kTableFile"
    [] b = "" /\ a = ".dbtmp" -> "kTempFile"
    [] OTHER -> "none"

ReadSuffix(s) ==
  /\ suffix = "?" /\ (prefix \in Plain => s = "")
  /\ suffix' = s
  /\ UNCHANGED <<prefix, digits, parsed, parsedOk>>

\* What ParseFileName returns.
Parsed ==
  CASE prefix = "CURRENT" -> [type |-> "kCurrentFile", number |-> 0]
    [] prefix = "LOCK" -> [type |-> "kDBLockFile", number |-> 0]
    [] prefix \in {"LOG", "LOG.old"} -> [type |-> "kInfoLogFile", number |-> 0]
    [] OTHER -> IF parsedOk /\ digits # <<>> /\ TypeOf(prefix, suffix) # "none"
                THEN [type |-> TypeOf(prefix, suffix), number |-> parsed]
                ELSE [type |-> "none", number |-> 0]

NameInit ==
  /\ prefix \in Plain \cup {"", "MANIFEST-"}
  /\ digits = <<>> /\ suffix = "?" /\ parsed = 0 /\ parsedOk = TRUE

NameNext == (\E d \in 0..(Base - 1) : ReadDigit(d)) \/ \E s \in NameSuffixes : ReadSuffix(s)

NameSpec == NameInit /\ [][NameNext]_nameVars

-----------------------------------------------------------------------------
(* Properties                                                              *)

\* The number the digits stand for.
Denoted(ds) ==
  LET Value[i \in 0..Len(ds)] == IF i = 0 THEN 0 ELSE Value[i - 1] * Base + ds[i] IN Value[Len(ds)]

\* ConsumeDecimalNumber reads a number as what it is, or refuses it when it does not
\* fit a word: no two files of a kind are taken for the same one.
NumbersAreTrue ==
  /\ parsedOk <=> Denoted(digits) =< MaxUint
  /\ parsedOk => parsed = Denoted(digits)

\* DeleteObsoleteFiles deletes by type and number what GetChildren lists: a name the
\* database has made is recognised as the file it was made for, and a manifest's name
\* with something after it is left alone.
ReadsItsNames ==
  suffix # "?" =>
    LET made == {tn \in Types \X (0..MaxUint) :
                   Name(tn[1], tn[2]) = [before |-> prefix, digits |-> digits, after |-> suffix]}
    IN  /\ \A tn \in made : Parsed = [type |-> tn[1], number |-> tn[2]]
        /\ prefix = "MANIFEST-" /\ suffix # "" => Parsed.type = "none"


-----------------------------------------------------------------------------
(***************************************************************************)
(* DumpFile (db/dumpfile.cc): the contents of a log, a manifest or a table *)
(* as text.  The readers below it are external here (RecordLog, Batches,   *)
(* Metadata and Tables model them): a file is a sequence of items, each    *)
(* of which a reader delivers, rejects, or fails to read.                  *)
(*                                                                         *)
(* A line of text is the number of its item and what it says of it.        *)
(***************************************************************************)

CONSTANTS MaxItems, MaxPuts     \* bounds: items of a file, entries of a batch

VARIABLES
  dumpType,      \* what the name of the file says
  items,         \* the file
  dumpPos,       \* items that were read
  dumped,        \* the lines written to dst
  dumpPc,
  dumpOk         \* the result

dumpVars == <<dumpType, items, dumpPos, dumped, dumpPc, dumpOk>>

DumpTypes == {"kLogFile", "kDescriptorFile", "kTableFile", "other", "unknown"}

\* A record or an entry: puts is the number of entries of a batch, good the
\* number before the first that cannot be parsed.
Item(kind, puts, good) == [kind |-> kind, puts |-> puts, good |-> good]

Batches == {Item("batch", n, g) : n \in 0..MaxPuts, g \in 0..MaxPuts}

ItemsOf(t) ==
  {Item("damaged", 0, 0), Item("unreadable", 0, 0)} \cup
  CASE t = "kLogFile" -> {b \in Batches : b.good =< b.puts} \cup {Item("short", 0, 0)}
    [] t = "kDescriptorFile" -> {Item("edit", 0, 0), Item("noedit", 0, 0)}
    [] t = "kTableFile" -> {Item("entry", 0, 0), Item("badkey", 0, 0)}
    [] OTHER -> {}

Line(i, what) == [item |-> i, what |-> what]

-----------------------------------------------------------------------------

\* GuessType and the switch
DumpFile ==
  /\ dumpPc = "start"
  /\ \/ dumpType \in {"other", "unknown"} /\ dumpOk' = FALSE /\ dumpPc' = "done"
     \/ dumpType \notin {"other", "unknown"} /\ dumpPc' = "open" /\ UNCHANGED dumpOk
  /\ UNCHANGED <<dumpType, items, dumpPos, dumped>>

\* NewSequentialFile; GetFileSize, NewRandomAccessFile and Table::Open
Open ==
  /\ dumpPc = "open"
  /\ \/ dumpPc' = "loop" /\ UNCHANGED dumpOk
     \/ dumpOk' = FALSE /\ dumpPc' = "done"
  /\ UNCHANGED <<dumpType, items, dumpPos, dumped>>

\* WriteBatchPrinter and WriteBatchItemPrinter: the header, the entries up to
\* the first bad one, and the error.
BatchLines(i, item) ==
  <<Line(i, "header")>> \o [k \in 1..item.good |-> Line(i, "put")] \o
  (IF item.good < item.puts THEN <<Line(i, "error")>> ELSE <<>>)

\* What is written for an item; the reporter writes of what is damaged in a log.
\* A table says nothing of a block it cannot read until the end.
DumpLines(i, item) ==
  CASE item.kind = "batch" -> BatchLines(i, item)
    [] item.kind \in {"damaged", "unreadable"} /\ dumpType = "kTableFile" -> <<>>
    [] OTHER -> <<Line(i, item.kind)>>

\* A failed read ends a log; a table goes on with its next block.
EndsAt(i) == items[i].kind = "unreadable" /\ dumpType # "kTableFile"

PrintItem ==
  /\ dumpPc = "loop" /\ dumpPos < Len(items)
  /\ dumpPos' = dumpPos + 1
  /\ dumped' = dumped \o DumpLines(dumpPos + 1, items[dumpPos + 1])
  /\ dumpPc' = IF EndsAt(dumpPos + 1) THEN "end" ELSE "loop"
  /\ UNCHANGED <<dumpType, items, dumpOk>>

\* The iterator keeps the first error.
Bad == {i \in 1..dumpPos : items[i].kind \in {"damaged", "unreadable"}}

Finish ==
  /\ (dumpPc = "loop" /\ dumpPos = Len(items)) \/ dumpPc = "end"
  /\ dumped' = IF dumpType = "kTableFile" /\ Bad # {}
            THEN Append(dumped, Line(CHOOSE i \in Bad : \A j \in Bad : i =< j, "iterator error"))
            ELSE dumped
  /\ dumpOk' = TRUE /\ dumpPc' = "done"
  /\ UNCHANGED <<dumpType, items, dumpPos>>

DumpInit ==
  /\ dumpType \in DumpTypes
  /\ items \in UNION {[1..n -> ItemsOf(dumpType)] : n \in 0..MaxItems}
  /\ dumpPos = 0 /\ dumped = <<>> /\ dumpPc = "start" /\ dumpOk = TRUE

DumpNext == DumpFile \/ Open \/ PrintItem \/ Finish

DumpSpec == DumpInit /\ [][DumpNext]_dumpVars

-----------------------------------------------------------------------------
(* Properties                                                              *)

Done == dumpPc = "done"

\* A dump that returns OK has a line for every item up to where reading had to
\* stop, in the order of the file: what is damaged or rejected does not vanish.
\* Of a table, one line at the end stands for all blocks that failed.
AllAccounted ==
  Done /\ dumpOk =>
    /\ \A i \in 1..dumpPos :
         \/ \E l \in DOMAIN dumped : dumped[l].item = i
         \/ i \in Bad /\ \E l \in DOMAIN dumped : dumped[l].what = "iterator error"
    /\ dumpPos = Len(items) \/ \E l \in DOMAIN dumped : dumped[l].what = "unreadable"
    /\ \A k, l \in DOMAIN dumped :
         k < l /\ dumped[l].what # "iterator error" => dumped[k].item =< dumped[l].item

\* Entries of a batch are all shown, or an error is.
BatchesWhole ==
  Done /\ dumpOk =>
    \A i \in 1..dumpPos :
      items[i].kind = "batch" =>
        \/ Cardinality({l \in DOMAIN dumped : dumped[l] = Line(i, "put")}) = items[i].puts
        \/ \E l \in DOMAIN dumped : dumped[l] = Line(i, "error")

\* DumpFile returns OK only if the file could be read.
OkMeansRead == Done /\ dumpOk => \A i \in DOMAIN items : items[i].kind # "unreadable"

=============================================================================
