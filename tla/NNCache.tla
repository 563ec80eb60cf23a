------------------------------ MODULE NNCache ------------------------------
(***************************************************************************)
(* NNCache (driver/cache/nnCache): the BlobCache of a process and its file.    *)
(* Every call holds mMutex from its first line to its last.  setBlob leaves     *)
(* the saving to a detached thread that wakes up later; terminate saves at      *)
(* once.  A save is not one step: the file is removed, created without          *)
(* permissions, written and then made readable, and the process may die         *)
(* between any two of these.                                                *)
(***************************************************************************)
EXTENDS BlobCache

CONSTANTS
  Settings,            \* [limits, policy]: what initialize is called with
  Sizes,               \* the sizes of values
  MaxSets,             \* bound: calls of setBlob in a behaviour
  MaxDeaths            \* bound: deaths of the process

ASSUME SettingsAssumption ==
  /\ \A settings \in Settings :
       /\ settings.limits \in [key : Nat, value : Nat, total : Nat]
       /\ settings.policy \in [select : Selects, capacity : Capacities]
  /\ Sizes \subseteq Nat

VARIABLES
  mInitialized, mLimits, mPolicy,
  mBlobCache,          \* NoCache or a cache of BlobCache
  mFilename,           \* whether a file name is set
  mSavePending,
  deferred,            \* the number of deferred save threads
  saving,              \* [by, at]: the save that holds mMutex, and its next step
  file,                \* the file of that name, which outlives the process
  build, deaths,       \* ro.build.id; deaths so far
  (* history, not in the code *)
  given,               \* given[n]: the key and the size of the n-th value
  unsaved              \* a value was stored after the last save began

process == << mInitialized, mLimits, mPolicy, mBlobCache, mFilename, mSavePending, deferred >>
vars == << process, saving, file, build, deaths, given, unsaved >>

NoCache == [total |-> 0]
NoSave == [by |-> "none", at |-> "none"]
NoFile == [exists |-> FALSE, readable |-> FALSE, whole |-> FALSE, build |-> 0, contents |-> {}]
NoLimits == [key |-> 0, value |-> 0, total |-> 0]
defaultPolicy == [select |-> "RANDOM", capacity |-> "HALVE"]

(* std::lock_guard<std::mutex> lock(mMutex)                                  *)
Lock == saving = NoSave

-----------------------------------------------------------------------------
(* loadBlobCacheLocked: the caches that can become of a new one.               *)

(* What is not complete does not have the CRC it says; the mutant trusts it.    *)
MagicOnly(f) == TRUE
CrcAgrees(f) == f.whole

IsLoadable(f, limits) ==
  /\ mFilename /\ f.exists /\ f.readable
  /\ FlattenedSize(f.contents) <= 2 * limits.total
  /\ CrcAgrees(f)

Loaded(f, limits, policy) ==
  LET new == NewBlobCache(limits, policy)
  IN IF IsLoadable(f, limits) THEN unflatten(new, f.contents, f.build = build) ELSE {new}

(* getBlobCacheLocked                                                       *)
BlobCaches == IF mBlobCache = NoCache THEN Loaded(file, mLimits, mPolicy) ELSE {mBlobCache}

-----------------------------------------------------------------------------
(* The calls.  setBlob and getBlob do nothing unless mInitialized.              *)

initialize(settings) ==
  /\ Lock
  /\ mInitialized' = TRUE /\ mLimits' = settings.limits /\ mPolicy' = settings.policy
  /\ UNCHANGED << mBlobCache, mFilename, mSavePending, deferred, saving, file, build, deaths,
                  given, unsaved >>

setCacheFilename ==
  /\ Lock /\ mFilename' = TRUE
  /\ UNCHANGED << mInitialized, mLimits, mPolicy, mBlobCache, mSavePending, deferred, saving,
                  file, build, deaths, given, unsaved >>

setBlob(k, size) ==
  /\ Lock /\ mInitialized /\ Len(given) < MaxSets
  /\ given' = Append(given, [key |-> k, size |-> size])
  /\ \E c \in BlobCaches : \E set \in Set(c, k, [id |-> Len(given'), size |-> size]) :
       /\ mBlobCache' = set
       /\ unsaved' = (unsaved \/ set # c)
  /\ mSavePending' = TRUE
  /\ deferred' = IF mSavePending THEN deferred ELSE deferred + 1
  /\ UNCHANGED << mInitialized, mLimits, mPolicy, mFilename, saving, file, build, deaths >>

(* Of a key that is not found too, the cache is created and loaded.            *)
getBlob(k, buffer) ==
  /\ Lock /\ mInitialized
  /\ \E c \in BlobCaches : mBlobCache' = Get(c, k, buffer)
  /\ UNCHANGED << mInitialized, mLimits, mPolicy, mFilename, mSavePending, deferred, saving,
                  file, build, deaths, given, unsaved >>

-----------------------------------------------------------------------------
(* saveBlobCacheLocked, by terminate or by the deferred thread.                *)

(* What is left to do once saveBlobCacheLocked has returned; the mutant forgets  *)
(* to take mSavePending back.                                                *)
PendingForGood == mSavePending
PendingAfterSave == FALSE
Finish(by) ==
  /\ saving' = NoSave
  /\ IF by = "terminate"
     THEN /\ mBlobCache' = NoCache /\ mInitialized' = FALSE
          /\ UNCHANGED << mSavePending, deferred >>
     ELSE /\ mSavePending' = PendingAfterSave /\ deferred' = deferred - 1
          /\ UNCHANGED << mBlobCache, mInitialized >>
  /\ UNCHANGED << mLimits, mPolicy, mFilename >>

Begin(by) ==
  /\ Lock
  /\ unsaved' = FALSE
  /\ IF mFilename /\ mBlobCache # NoCache
     THEN saving' = [by |-> by, at |-> "open"] /\ UNCHANGED process
     ELSE Finish(by)
  /\ UNCHANGED << file, build, deaths, given >>

terminate == Begin("terminate")

(* The detached thread, when its sleep is over.                               *)
DeferredSave ==
  /\ deferred > 0
  /\ IF mInitialized THEN Begin("deferred")
     ELSE Lock /\ Finish("deferred") /\ UNCHANGED << file, build, deaths, given, unsaved >>

To(at) == saving' = [saving EXCEPT !.at = at] /\ UNCHANGED process
GiveUp == Finish(saving.by)

(* open(O_CREAT | O_EXCL, 0): the file exists, is created, or neither.          *)
Open ==
  /\ saving.at = "open"
  /\ \/ file.exists /\ To("unlink") /\ UNCHANGED file
     \/ ~ file.exists /\ To("write") /\ file' = [NoFile EXCEPT !.exists = TRUE]
     \/ GiveUp /\ UNCHANGED file
  /\ UNCHANGED << build, deaths, given, unsaved >>

Unlink ==
  /\ saving.at = "unlink"
  /\ \/ To("open") /\ file' = NoFile
     \/ GiveUp /\ UNCHANGED file
  /\ UNCHANGED << build, deaths, given, unsaved >>

(* write stores all, or less than it was asked to, which goes unnoticed, or     *)
(* fails.  What a file holds that is cut short is none of the values given.     *)
Partial(contents) == {[e EXCEPT !.value.id = 0] : e \in contents}
Write ==
  /\ saving.at = "write"
  /\ LET contents == flatten(mBlobCache)
         written == [file EXCEPT !.build = build, !.contents = contents, !.whole = TRUE]
     IN \/ To("chmod") /\ file' = written
        \/ To("chmod") /\ file' = [written EXCEPT !.whole = FALSE, !.contents = Partial(contents)]
        \/ GiveUp /\ file' = NoFile
  /\ UNCHANGED << build, deaths, given, unsaved >>

Chmod ==
  /\ saving.at = "chmod"
  /\ file' = [file EXCEPT !.readable = TRUE] /\ GiveUp
  /\ UNCHANGED << build, deaths, given, unsaved >>

SaveStep == Open \/ Unlink \/ Write \/ Chmod

-----------------------------------------------------------------------------
(* The process dies, at any point; another begins, perhaps of a later build.    *)
Die ==
  /\ deaths < MaxDeaths /\ deaths' = deaths + 1
  /\ build' \in {build, build + 1}
  /\ mInitialized' = FALSE /\ mLimits' = NoLimits /\ mPolicy' = defaultPolicy /\ mBlobCache' = NoCache
  /\ mFilename' = FALSE /\ mSavePending' = FALSE /\ deferred' = 0
  /\ saving' = NoSave /\ unsaved' = FALSE
  /\ UNCHANGED << file, given >>

Init ==
  /\ mInitialized = FALSE /\ mLimits = NoLimits /\ mPolicy = defaultPolicy /\ mBlobCache = NoCache
  /\ mFilename = FALSE /\ mSavePending = FALSE /\ deferred = 0 /\ saving = NoSave
  /\ file = NoFile /\ build = 1 /\ deaths = 0 /\ given = <<>> /\ unsaved = FALSE

Call ==
  \/ \E settings \in Settings : initialize(settings)
  \/ setCacheFilename
  \/ \E k \in DOMAIN KeySize, size \in Sizes : setBlob(k, size)
  \/ \E k \in DOMAIN KeySize, buffer \in BOOLEAN : getBlob(k, buffer)
  \/ terminate

Next == Call \/ DeferredSave \/ SaveStep \/ Die

(* The detached thread wakes up and gets the lock; a save, once begun, goes on. *)
Fairness == WF_vars(DeferredSave) /\ WF_vars(SaveStep)

Spec == Init /\ [][Next]_vars /\ Fairness

-----------------------------------------------------------------------------
(* Properties.                                                              *)

(* mTotalSize is what the entries take, through all replacing, evicting and     *)
(* loading, and within the limits the cache was made with.                    *)
Accounting ==
  mBlobCache # NoCache =>
    /\ mBlobCache.total = SizeOfEntries(mBlobCache)
    /\ mBlobCache.total <= mBlobCache.limits.total
    /\ \A k \in DOMAIN mBlobCache.entries :
         /\ KeySize[k] <= mBlobCache.limits.key
         /\ mBlobCache.entries[k].size <= mBlobCache.limits.value

(* What getBlob can return is a value that was given for that key, and none     *)
(* older than the file holds: no save that was cut short is ever read.         *)
GetsWhatWasSet ==
  mBlobCache # NoCache =>
    \A k \in DOMAIN mBlobCache.entries :
      LET id == mBlobCache.entries[k].id
      IN /\ id \in DOMAIN given /\ given[id] = [key |-> k, size |-> mBlobCache.entries[k].size]
         /\ \A e \in file.contents : e.key = k => e.value.id <= id

(* With the policies that make as much room as is needed, a value within the    *)
(* limits is in the cache when setBlob returns, whatever was evicted for it,    *)
(* the value it replaces included.                                           *)
StoresWhatFits ==
  given' # given /\ mBlobCache'.policy.capacity # "HALVE" =>
    LET new == Last(given')
        value == [id |-> Len(given'), size |-> new.size]
    IN IsAdmissible(mBlobCache', new.key, value) =>
         new.key \in DOMAIN mBlobCache'.entries /\ mBlobCache'.entries[new.key] = value
FitStores == [][StoresWhatFits]_vars

(* A value that is stored is saved some time later, unless the process dies:    *)
(* an attempt to save begins after it.                                        *)
SavesEventually == unsaved ~> ~ unsaved
=============================================================================
