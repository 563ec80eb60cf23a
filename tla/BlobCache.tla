----------------------------- MODULE BlobCache -----------------------------
(***************************************************************************)
(* BlobCache (driver/cache/BlobCache): a cache of values by keys, bounded by   *)
(* the sum of their sizes, that evicts entries to make room and can be         *)
(* flattened to a file.                                                      *)
(*                                                                         *)
(* A cache is a record: its limits and policy, mTotalSize, entries, a function *)
(* from the keys in the cache to their values, and accesses, the same keys in   *)
(* the order of their last access, which stands for mRecency and mAccessCount.  *)
(* A value is [id, size]; keys are numbers in the order of operator<.          *)
(***************************************************************************)
EXTENDS Integers, FiniteSets, Sequences, SequencesExt, FiniteSetsExt

CONSTANTS
  KeySize,             \* KeySize[k]: the size of key k
  FileHeaderSize,      \* of a file without entries
  EntryHeaderSize      \* what an entry takes in a file beside its key and value

ASSUME BlobCacheAssumption ==
  /\ KeySize \in Seq(Nat \ {0})
  /\ FileHeaderSize \in Nat /\ EntryHeaderSize \in Nat

Selects == {"RANDOM", "LRU"}
Capacities == {"HALVE", "FIT", "FIT_HALVE"}

NewBlobCache(limits, policy) ==
  [limits |-> limits, policy |-> policy, total |-> 0, entries |-> <<>>, accesses |-> <<>>]

EntrySize(c, k) == KeySize[k] + c.entries[k].size

(* The bytes of the entries, each by its key and its place, and their number.   *)
Bytes(c) == UNION {{k} \X (1 .. EntrySize(c, k)) : k \in DOMAIN c.entries}
SizeOfEntries(c) == Cardinality(Bytes(c))

-----------------------------------------------------------------------------
(* Eviction.                                                               *)

(* What must be left at most; k is the key on whose behalf it is done.         *)
findDownTo(c, k, newEntrySize) ==
  LET oldEntrySize == IF k \in DOMAIN c.entries THEN EntrySize(c, k) ELSE 0
      fit == c.limits.total - (newEntrySize - oldEntrySize)
      half == c.limits.total \div 2
  IN CASE c.policy.capacity = "HALVE" -> half
       [] c.policy.capacity = "FIT" -> fit
       [] c.policy.capacity = "FIT_HALVE" -> Min({fit, half})

(* The mutant asks of every policy what HALVE asks.                           *)
IsOverHalf(c) == c.total > c.limits.total \div 2
isCleanable(c) == IF c.policy.capacity = "HALVE" THEN c.total > c.limits.total \div 2 ELSE c.total > 0

Without(c, k) ==
  [c EXCEPT !.total = @ - EntrySize(c, k),
            !.entries = Restrict(@, DOMAIN @ \ {k}), !.accesses = RemoveFirst(@, k)]

(* findVictim: any entry, or the one whose last access is the oldest.          *)
Victims(c) ==
  IF c.policy.select = "RANDOM" THEN DOMAIN c.entries ELSE {Head(c.accesses)}

(* The caches in which the loop of clean can end, after a round for each entry   *)
(* at most.                                                                  *)
Cleaned(c, downTo) ==
  LET clean[n \in 0 .. Len(c.accesses)] ==
        IF n = 0 THEN {c}
        ELSE UNION {IF d.total <= downTo THEN {d} ELSE {Without(d, k) : k \in Victims(d)}
                      : d \in clean[n - 1]}
  IN clean[Len(c.accesses)]

-----------------------------------------------------------------------------
(* set and get.                                                             *)

IsAdmissible(c, k, value) ==
  /\ KeySize[k] <= c.limits.key
  /\ value.size \in 1 .. c.limits.value
  /\ KeySize[k] + value.size <= c.limits.total

(* The total with value in place; the mutant counts the value it replaces.      *)
TotalWithBoth(c, k, value) ==
  c.total + value.size + (IF k \in DOMAIN c.entries THEN 0 ELSE KeySize[k])
TotalWith(c, k, value) ==
  c.total + value.size
    + (IF k \in DOMAIN c.entries THEN - c.entries[k].size ELSE KeySize[k])

Fits(c, k, value) == TotalWith(c, k, value) <= c.limits.total

Accessed(c, k) == [c EXCEPT !.accesses = Append(RemoveFirst(@, k), k)]
Stored(c, k, value) ==
  Accessed([c EXCEPT !.total = TotalWith(c, k, value),
                     !.entries = [j \in DOMAIN @ \cup {k} |-> IF j = k THEN value ELSE @[j]]], k)

(* One round of the loop of set.                                             *)
Round(caches, k, value) ==
  UNION {IF Fits(c, k, value) \/ ~ isCleanable(c) THEN {c}
         ELSE Cleaned(c, findDownTo(c, k, KeySize[k] + value.size)) : c \in caches}

(* The caches set can leave.  A second round makes no difference unless the     *)
(* first evicted the very entry it made room for, and a third never does.      *)
Set(c, k, value) ==
  IF ~ IsAdmissible(c, k, value) THEN {c}
  ELSE {IF Fits(d, k, value) THEN Stored(d, k, value) ELSE d
          : d \in Round(Round({c}, k, value), k, value)}

(* get of a key, when the caller has, or has not, a buffer for the value.       *)
IsFound(c, k) == KeySize[k] <= c.limits.key /\ k \in DOMAIN c.entries
Get(c, k, buffer) ==
  IF IsFound(c, k) /\ buffer THEN Accessed(c, k) ELSE c

-----------------------------------------------------------------------------
(* Files.  contents: the entries, which a file has in the order of the keys.    *)

FlattenedSize(contents) ==
  FoldSet(LAMBDA e, size : size + EntryHeaderSize + KeySize[e.key] + e.value.size,
          FileHeaderSize, contents)

flatten(c) == {[key |-> k, value |-> c.entries[k]] : k \in DOMAIN c.entries}

(* The caches unflatten can leave.  It empties the cache without setting        *)
(* mTotalSize, and reads nothing that another build or version wrote.         *)
Read(caches, contents, k) ==
  LET values == {e.value : e \in {e \in contents : e.key = k}}
  IN IF values = {} THEN caches ELSE UNION {Set(c, k, value) : c \in caches, value \in values}

unflatten(c, contents, sameBuild) ==
  LET empty == [c EXCEPT !.entries = <<>>, !.accesses = <<>>]
      read[n \in 0 .. Len(KeySize)] ==
        IF n = 0 THEN {empty} ELSE Read(read[n - 1], contents, n)
  IN IF sameBuild THEN read[Len(KeySize)] ELSE {empty}
=============================================================================
