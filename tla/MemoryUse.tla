----------------------------- MODULE MemoryUse -----------------------------
(***************************************************************************)
(* Which bursts a Memory tells when it is destroyed.  A Memory keeps the   *)
(* bursts that used it in mUsedBy, a map from the address of the           *)
(* ExecutionBurstController to a weak pointer; the burst keeps the memory  *)
(* in its cache under the address of the Memory.  Objects of both kinds    *)
(* come and go, and an allocator may give a new object an old address.     *)
(* The burst's cache is here the map key -> memory that Burst implements   *)
(* with slots.  Objects are named by incarnation: 0 is no object.          *)
(***************************************************************************)
EXTENDS Integers, FiniteSets

CONSTANTS
    Threads,        \* application threads
    Keys,           \* addresses of Memory objects
    Addresses,      \* addresses of ExecutionBurstController objects
    ReuseAddress,   \* whether the address of a dead burst is used again
    MaxIncarnation  \* bound: objects created at one address

ASSUME MemoryUseAssumption ==
    ReuseAddress \in BOOLEAN /\ MaxIncarnation \in Nat \ {0}

VARIABLES
    memory,     \* memory[k]: the Memory object at address k
    memories,   \* memories[k]: the last one created there
    usedBy,     \* mUsedBy of memory[k]: address -> the burst pointed to weakly
    burst,      \* burst[b]: the controller object at address b
    bursts,     \* bursts[b]: the last one created there
    owned,      \* owned[b]: a BurstBuilder holds a shared_ptr to burst[b]
    cache,      \* cache[b]: what burst[b] caches, key -> memory
    thread      \* thread[t]: what thread t is doing

vars == <<memory, memories, usedBy, burst, bursts, owned, cache, thread>>

Incarnations == 1..MaxIncarnation
None == {}
Idle == [at |-> "idle", key |-> None, burst |-> None, todo |-> {}]
Without(f, x) == [y \in DOMAIN f \ {x} |-> f[y]]

Busy(k) == \E t \in Threads : thread[t].key = {k}

\* Threads that hold a shared_ptr to the burst at b.
Holders(b) == {t \in Threads : thread[t].burst = {b}}

CreateMemory(k) ==
    /\ memory[k] = 0 /\ ~Busy(k)
    /\ memories[k] < MaxIncarnation
    /\ memories' = [memories EXCEPT ![k] = @ + 1]
    /\ memory' = [memory EXCEPT ![k] = memories'[k]]
    /\ usedBy' = [usedBy EXCEPT ![k] = <<>>]
    /\ UNCHANGED <<burst, bursts, owned, cache, thread>>

CreateBurst(b) ==
    /\ burst[b] = 0
    /\ bursts[b] < (IF ReuseAddress THEN MaxIncarnation ELSE 1)
    /\ bursts' = [bursts EXCEPT ![b] = @ + 1]
    /\ burst' = [burst EXCEPT ![b] = bursts'[b]]
    /\ owned' = [owned EXCEPT ![b] = TRUE]
    /\ cache' = [cache EXCEPT ![b] = <<>>]
    /\ UNCHANGED <<memory, memories, usedBy, thread>>

\* ANeuralNetworksBurst_free; the controller lives while a thread holds it.
FreeBurst(b) ==
    /\ owned[b]
    /\ owned' = [owned EXCEPT ![b] = FALSE]
    /\ burst' = [burst EXCEPT ![b] = IF Holders(b) = {} THEN 0 ELSE @]
    /\ UNCHANGED <<memory, memories, usedBy, bursts, cache, thread>>

\* Thread t lets go of the burst at b, perhaps as the last to hold it.
Drop(t, b) ==
    burst' = [burst EXCEPT ![b] = IF owned[b] \/ Holders(b) \ {t} # {} THEN @ ELSE 0]

\* A mutant of Emplace: one entry is all there is room for.
LastOnly(f, b, object) == [x \in {b} |-> object]
\* unordered_map::emplace, which leaves an entry with that key as it is.
Emplace(f, b, object) == [x \in DOMAIN f \cup {b} |-> IF x \in DOMAIN f THEN f[x] ELSE object]

\* StepExecutor::startComputeOnDevice records the use ...
Use(t, k, b) ==
    /\ thread[t] = Idle
    /\ memory[k] # 0 /\ owned[b]
    /\ usedBy' = [usedBy EXCEPT ![k] = Emplace(@, b, burst[b])]
    /\ thread' = [thread EXCEPT ![t] = [at |-> "use", key |-> {k}, burst |-> {b}, todo |-> {}]]
    /\ UNCHANGED <<memory, memories, burst, bursts, owned, cache>>

\* ... and tryCompute then gives the memory a place in the burst's cache.
Bind(t, k, b) ==
    /\ thread[t].at = "use" /\ thread[t].key = {k} /\ thread[t].burst = {b}
    /\ cache' = [cache EXCEPT ![b] = Emplace(@, k, memory[k])]
    /\ thread' = [thread EXCEPT ![t] = Idle]
    /\ Drop(t, b)
    /\ UNCHANGED <<memory, memories, usedBy, bursts, owned>>

\* Memory::~Memory; the application destroys no memory in use.
Destroy(t, k) ==
    /\ thread[t] = Idle
    /\ memory[k] # 0 /\ ~Busy(k)
    /\ memory' = [memory EXCEPT ![k] = 0]
    /\ thread' = [thread EXCEPT ![t] =
                    [at |-> "destroy", key |-> {k}, burst |-> None, todo |-> DOMAIN usedBy[k]]]
    /\ UNCHANGED <<memories, usedBy, burst, bursts, owned, cache>>

\* The loop of ~Memory takes another entry: weakBurst.lock() gives a pointer
\* to the burst if that object still lives, and no pointer if it does not.
Expired(k, b) == usedBy[k][b] # burst[b]

Visit(t, k, b) ==
    /\ thread[t].at = "destroy" /\ thread[t].key = {k} /\ b \in thread[t].todo
    /\ thread' = [thread EXCEPT ![t].todo = @ \ {b},
                                ![t].at = IF Expired(k, b) THEN "destroy" ELSE "free",
                                ![t].burst = IF Expired(k, b) THEN None ELSE {b}]
    /\ UNCHANGED <<memory, memories, usedBy, burst, bursts, owned, cache>>

\* burst->freeMemory(getKey()), after which the pointer goes out of scope.
Free(t, k, b) ==
    /\ thread[t].at = "free" /\ thread[t].key = {k} /\ thread[t].burst = {b}
    /\ cache' = [cache EXCEPT ![b] = Without(@, k)]
    /\ thread' = [thread EXCEPT ![t].at = "destroy", ![t].burst = None]
    /\ Drop(t, b)
    /\ UNCHANGED <<memory, memories, usedBy, bursts, owned>>

Destroyed(t) ==
    /\ thread[t].at = "destroy" /\ thread[t].todo = {}
    /\ thread' = [thread EXCEPT ![t] = Idle]
    /\ UNCHANGED <<memory, memories, usedBy, burst, bursts, owned, cache>>

Init ==
    /\ memory = [k \in Keys |-> 0] /\ memories = [k \in Keys |-> 0]
    /\ usedBy = [k \in Keys |-> <<>>]
    /\ burst = [b \in Addresses |-> 0] /\ bursts = [b \in Addresses |-> 0]
    /\ owned = [b \in Addresses |-> FALSE]
    /\ cache = [b \in Addresses |-> <<>>]
    /\ thread = [t \in Threads |-> Idle]

Next ==
    \/ \E k \in Keys : CreateMemory(k)
    \/ \E b \in Addresses : CreateBurst(b) \/ FreeBurst(b)
    \/ \E t \in Threads, k \in Keys :
        \/ Destroy(t, k)
        \/ \E b \in Addresses : Use(t, k, b) \/ Bind(t, k, b) \/ Visit(t, k, b) \/ Free(t, k, b)
    \/ \E t \in Threads : Destroyed(t)

Spec == Init /\ [][Next]_vars

----------------------------------------------------------------------------
TypeOK ==
    /\ memory \in [Keys -> 0..MaxIncarnation] /\ memories \in [Keys -> 0..MaxIncarnation]
    /\ burst \in [Addresses -> 0..MaxIncarnation] /\ bursts \in [Addresses -> 0..MaxIncarnation]
    /\ owned \in [Addresses -> BOOLEAN]
    /\ \A k \in Keys : DOMAIN usedBy[k] \subseteq Addresses
                       /\ \A b \in DOMAIN usedBy[k] : usedBy[k][b] \in Incarnations
    /\ \A b \in Addresses : DOMAIN cache[b] \subseteq Keys
                            /\ \A k \in DOMAIN cache[b] : cache[b][k] \in Incarnations
    /\ \A t \in Threads : /\ thread[t].at \in {"idle", "use", "destroy", "free"}
                          /\ thread[t].key \in SUBSET Keys
                          /\ thread[t].burst \in SUBSET Addresses
                          /\ thread[t].todo \in SUBSET Addresses

\* "When this memory object is destroyed, it will automatically free this
\* memory from the bursts' memory cache" (Memory.h:68): what a live burst
\* caches for an address is the memory that lives there, unless that memory's
\* destructor is still running.
FreedFromItsBursts ==
    \A b \in Addresses : burst[b] # 0 =>
        \A k \in DOMAIN cache[b] :
            cache[b][k] = memory[k] \/ \E t \in Threads : thread[t].key = {k} /\ memory[k] = 0
=============================================================================
