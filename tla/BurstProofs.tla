---------------------------- MODULE BurstProofs ----------------------------
(***************************************************************************)
(* The burst, for any threads, keys, requests, packet sizes and failures.  *)
(* In this order: the slots of its memory cache; how calls, the worker and *)
(* teardown take turns; the types of its variables; how often a request is *)
(* run; and what it is answered, on which memories.                        *)
(***************************************************************************)
EXTENDS Burst, SequenceTheorems, TLAPS

Freeing == {"freeLock", "freeCache"}

(***************************************************************************)
(* What SlotsPartitioned needs to be inductive: types of the variables it  *)
(* depends on, its meaning element by element, and what threads use.  A    *)
(* key keeps its slot until the memory is destroyed and freed, so that a   *)
(* new memory at the same address finds no slot.                           *)
(***************************************************************************)
SlotTypes ==
    /\ pc \in [Threads -> Labels]
    /\ live \in [Keys -> BOOLEAN]
    /\ generation \in [Keys -> Nat]
    /\ request \in [Threads -> [id : Nat, keys : Seq(Keys), slots : Seq(Nat)]]
    /\ memoryIdToSlot \in [DOMAIN memoryIdToSlot -> Nat]
    /\ DOMAIN memoryIdToSlot \subseteq Keys
    /\ memoryCache \in Seq([key : Keys, gen : Nat] \cup {Invalid})
    /\ freeSlots \in Seq(Nat)
    /\ requests \in Nat

\* Of a map m, a cache of n slots and a stack f of free slots.
Partition(m, n, f) ==
    /\ \A k \in DOMAIN m : m[k] < n
    /\ \A i \in 1..Len(f) : f[i] < n
    /\ \A k, l \in DOMAIN m : m[k] = m[l] => k = l
    /\ \A i, j \in 1..Len(f) : f[i] = f[j] => i = j
    /\ \A k \in DOMAIN m, i \in 1..Len(f) : m[k] # f[i]
    /\ \A s \in 0..(n - 1) : (\E k \in DOMAIN m : m[k] = s) \/ (\E i \in 1..Len(f) : f[i] = s)

Binding == \A k \in DOMAIN memoryIdToSlot : memoryCache[memoryIdToSlot[k] + 1] = MemoryAt(k)

NamedAreLive ==
    \A t \in Threads : pc[t] \in {"lock", "slots"} =>
        \A j \in 1..Len(request[t].keys) : live[request[t].keys[j]]

FreesOneKey ==
    \A t \in Threads : pc[t] \in Freeing => \E k \in Keys : request[t].keys = <<k>>

BoundAreLive ==
    destructor = "none" =>
        \A k \in DOMAIN memoryIdToSlot :
            live[k] \/ \E t \in Threads : pc[t] \in Freeing /\ request[t].keys = <<k>>

SlotInv ==
    /\ SlotTypes
    /\ Partition(memoryIdToSlot, Len(memoryCache), freeSlots)
    /\ Binding
    /\ NamedAreLive
    /\ FreesOneKey
    /\ BoundAreLive

\* The element-wise form of the partition is what the property says.
LEMMA SlotInvImplies == SlotInv => SlotsPartitioned
<1> SUFFICES ASSUME SlotInv PROVE SlotsPartitioned
  OBVIOUS
<1> DEFINE free == {freeSlots[j] : j \in DOMAIN freeSlots}
           bound == {memoryIdToSlot[k] : k \in DOMAIN memoryIdToSlot}
           n == Len(memoryCache)
<1>1. DOMAIN freeSlots = 1..Len(freeSlots) /\ n \in Nat
  BY DEF SlotInv, SlotTypes
<1>2. /\ \A k \in DOMAIN memoryIdToSlot : memoryIdToSlot[k] \in 0..(n - 1)
      /\ \A i \in 1..Len(freeSlots) : freeSlots[i] \in 0..(n - 1)
  BY <1>1 DEF SlotInv, SlotTypes, Partition
<1>3. free \cap bound = {}
  BY <1>1 DEF SlotInv, Partition
<1>4. free \cup bound = 0..(n - 1)
  <2>1. free \subseteq 0..(n - 1) /\ bound \subseteq 0..(n - 1)
    BY <1>1, <1>2
  <2>2. ASSUME NEW s \in 0..(n - 1) PROVE s \in free \cup bound
    <3>1. \/ \E k \in DOMAIN memoryIdToSlot : memoryIdToSlot[k] = s
          \/ \E i \in 1..Len(freeSlots) : freeSlots[i] = s
      BY DEF SlotInv, Partition
    <3> QED
      BY <1>1, <3>1
  <2> QED
    BY <2>1, <2>2
<1>5. /\ \A i, j \in DOMAIN freeSlots : freeSlots[i] = freeSlots[j] => i = j
      /\ \A k, l \in DOMAIN memoryIdToSlot : memoryIdToSlot[k] = memoryIdToSlot[l] => k = l
  BY <1>1 DEF SlotInv, Partition
<1>6. \A k \in DOMAIN memoryIdToSlot : memoryCache[memoryIdToSlot[k] + 1] = MemoryAt(k)
  BY DEF SlotInv, Binding
<1> QED
  BY <1>3, <1>4, <1>5, <1>6 DEF SlotsPartitioned

\* At first there are no slots.
LEMMA SlotInvInit == Init => SlotInv
BY DEF Init, SlotInv, SlotTypes, Partition, Binding, NamedAreLive, FreesOneKey, BoundAreLive,
       Labels, Freeing

----------------------------------------------------------------------------
(* Steps that leave the slots and the Memory objects alone.                *)

\* The driver, the death handler and the queues are of no concern here.
LEMMA Elsewhere ==
  ASSUME SlotInv, UNCHANGED <<memories, pc, request, slotVars, requests>>,
         destructor' = "none" => destructor = "none"
  PROVE  SlotInv'
BY DEF SlotInv, SlotTypes, Partition, Binding, MemoryAt, NamedAreLive, FreesOneKey, BoundAreLive,
       memories, slotVars

\* A thread goes on; it names and frees no other memory than before, and it
\* leaves freeMemory only if its key has no slot.
LEMMA Moves ==
  ASSUME SlotInv, NEW t \in Threads, NEW to \in Labels,
         pc' = [pc EXCEPT ![t] = to],
         UNCHANGED <<memories, request, slotVars, destructor, requests>>,
         to \in {"lock", "slots"} => pc[t] \in {"lock", "slots"},
         to \in Freeing => pc[t] \in Freeing,
         pc[t] \in Freeing => to \in Freeing \/ request[t].keys[1] \notin DOMAIN memoryIdToSlot
  PROVE  SlotInv'
<1>1. /\ SlotTypes' /\ Binding'
      /\ Partition(memoryIdToSlot, Len(memoryCache), freeSlots)'
  BY DEF SlotInv, SlotTypes, Partition, Binding, MemoryAt, memories, slotVars
<1>2. /\ pc'[t] = to
      /\ \A u \in Threads \ {t} : pc'[u] = pc[u]
  BY DEF SlotInv, SlotTypes
<1>3. NamedAreLive' /\ FreesOneKey'
  BY <1>2 DEF SlotInv, NamedAreLive, FreesOneKey, memories
<1>4. BoundAreLive'
  BY <1>2 DEF SlotInv, BoundAreLive, FreesOneKey, memories, slotVars
<1> QED
  BY <1>1, <1>3, <1>4 DEF SlotInv

----------------------------------------------------------------------------
(* Memory objects come and go.                                             *)

\* A key that has a slot is not given to a new memory: its previous memory
\* would still be in freeMemory.
LEMMA Creates == ASSUME SlotInv, NEW k \in Keys, CreateMemory(k) PROVE SlotInv'
<1>1. k \notin DOMAIN memoryIdToSlot
  BY DEF SlotInv, BoundAreLive, CreateMemory, Freeing
<1>2. SlotTypes'
  BY DEF SlotInv, SlotTypes, CreateMemory, callerVars, slotVars, history
<1>3. Partition(memoryIdToSlot, Len(memoryCache), freeSlots)'
  BY DEF SlotInv, CreateMemory, slotVars
<1>4. Binding'
  BY <1>1 DEF SlotInv, SlotTypes, Binding, MemoryAt, CreateMemory, slotVars
<1>5. NamedAreLive' /\ FreesOneKey'
  BY DEF SlotInv, SlotTypes, NamedAreLive, FreesOneKey, CreateMemory, callerVars
<1>6. BoundAreLive'
  BY DEF SlotInv, SlotTypes, BoundAreLive, CreateMemory, callerVars, slotVars, driver, teardownVars
<1> QED
  BY <1>2, <1>3, <1>4, <1>5, <1>6 DEF SlotInv

\* No thread that is about to bind slots names the memory.
LEMMA Destroys ==
  ASSUME SlotInv, NEW t \in Threads, NEW k \in Keys, DestroyMemory(t, k) PROVE SlotInv'
<1>1. /\ pc[t] = "idle" /\ pc' = [pc EXCEPT ![t] = "freeLock"]
      /\ request' = [request EXCEPT ![t] = [id |-> 0, keys |-> <<k>>, slots |-> <<>>]]
      /\ live' = [live EXCEPT ![k] = FALSE]
      /\ UNCHANGED <<generation, slotVars, destructor, requests>>
  BY DEF DestroyMemory, Step, driver, teardownVars, history
<1>2. [id |-> 0, keys |-> <<k>>, slots |-> <<>>] \in [id : Nat, keys : Seq(Keys), slots : Seq(Nat)]
  OBVIOUS
<1>3. SlotTypes'
  BY <1>1, <1>2 DEF SlotInv, SlotTypes, slotVars, Labels
<1>4. Partition(memoryIdToSlot, Len(memoryCache), freeSlots)' /\ Binding'
  BY <1>1 DEF SlotInv, Binding, MemoryAt, slotVars
<1>5. /\ pc'[t] = "freeLock" /\ request'[t].keys = <<k>>
      /\ \A u \in Threads \ {t} : pc'[u] = pc[u] /\ request'[u] = request[u]
  BY <1>1 DEF SlotInv, SlotTypes
<1>6. NamedAreLive'
  <2> SUFFICES ASSUME NEW u \in Threads, pc'[u] \in {"lock", "slots"},
                      NEW j \in 1..Len(request'[u].keys)
               PROVE  live'[request'[u].keys[j]]
    BY DEF NamedAreLive
  <2>1. u # t /\ request'[u] = request[u] /\ pc[u] \in {"lock", "slots"}
    BY <1>5
  <2>2. request[u].keys[j] # k
    <3>1. pc[u] # "idle" /\ ~InUse(k)
      BY <2>1 DEF DestroyMemory
    <3>2. j \in DOMAIN request[u].keys
      BY <2>1 DEF SlotInv, SlotTypes
    <3> QED
      BY <3>1, <3>2 DEF InUse
  <2>3. request[u].keys[j] \in Keys
    BY <2>1 DEF SlotInv, SlotTypes
  <2> QED
    BY <1>1, <2>1, <2>2, <2>3 DEF SlotInv, SlotTypes, NamedAreLive
<1>7. FreesOneKey' /\ BoundAreLive'
  BY <1>1, <1>5 DEF SlotInv, SlotTypes, FreesOneKey, BoundAreLive, Freeing, slotVars
<1> QED
  BY <1>3, <1>4, <1>6, <1>7 DEF SlotInv

----------------------------------------------------------------------------
(* Calls that read or change the slots.                                    *)

\* A computation names memories that exist.
LEMMA Computes ==
  ASSUME SlotInv, NEW t \in Threads, NEW keys \in Arguments, Compute(t, keys)
  PROVE  SlotInv'
<1>1. keys \in Seq(Keys)
  BY BurstAssumption
<1>2. /\ pc[t] = "idle" /\ pc' = [pc EXCEPT ![t] = "lock"]
      /\ request' = [request EXCEPT ![t] = [id |-> requests + 1, keys |-> keys, slots |-> <<>>]]
      /\ UNCHANGED <<memories, slotVars, destructor>>
  BY DEF Compute, Step, driver, teardownVars
<1>3. /\ requests + 1 \in Nat /\ requests' = requests + 1
      /\ [id |-> requests + 1, keys |-> keys, slots |-> <<>>]
           \in [id : Nat, keys : Seq(Keys), slots : Seq(Nat)]
  BY <1>1 DEF Compute, SlotInv, SlotTypes
<1>4. SlotTypes'
  BY <1>2, <1>3 DEF SlotInv, SlotTypes, memories, slotVars, Labels
<1>5. Partition(memoryIdToSlot, Len(memoryCache), freeSlots)' /\ Binding'
  BY <1>2 DEF SlotInv, Binding, MemoryAt, memories, slotVars
<1>6. /\ pc'[t] = "lock" /\ request'[t].keys = keys
      /\ \A u \in Threads \ {t} : pc'[u] = pc[u] /\ request'[u] = request[u]
  BY <1>2 DEF SlotInv, SlotTypes
<1>7. NamedAreLive'
  BY <1>1, <1>2, <1>6 DEF SlotInv, NamedAreLive, Compute, memories
<1>8. FreesOneKey' /\ BoundAreLive'
  BY <1>2, <1>6 DEF SlotInv, FreesOneKey, BoundAreLive, Freeing, memories, slotVars
<1> QED
  BY <1>4, <1>5, <1>7, <1>8 DEF SlotInv

\* A slot is added to a request; the request's keys stay.
LEMMA AddsSlot ==
  ASSUME SlotInv, NEW t \in Threads, NEW slot \in Nat, AddSlot(t, slot)
  PROVE  /\ request' \in [Threads -> [id : Nat, keys : Seq(Keys), slots : Seq(Nat)]]
         /\ \A u \in Threads : request'[u].keys = request[u].keys
BY DEF SlotInv, SlotTypes, AddSlot, WithSlots

\* getSlots finds a slot for a key that the runtime already knows.
LEMMA FindsSlot == ASSUME SlotInv, NEW t \in Threads, KnownSlot(t) PROVE SlotInv'
<1>1. memoryIdToSlot[NextKey(t)] \in Nat
  BY DEF SlotInv, SlotTypes, KnownSlot
<1>2. /\ request' \in [Threads -> [id : Nat, keys : Seq(Keys), slots : Seq(Nat)]]
      /\ \A u \in Threads : request'[u].keys = request[u].keys
  BY <1>1, AddsSlot DEF KnownSlot
<1>3. UNCHANGED <<memories, pc, slotVars, destructor, requests>>
  BY DEF KnownSlot, driver, teardownVars, history
<1>4. SlotTypes'
  BY <1>2, <1>3 DEF SlotInv, SlotTypes, memories, slotVars
<1>5. Partition(memoryIdToSlot, Len(memoryCache), freeSlots)' /\ Binding'
  BY <1>3 DEF SlotInv, Partition, Binding, MemoryAt, memories, slotVars
<1>6. NamedAreLive' /\ FreesOneKey' /\ BoundAreLive'
  BY <1>2, <1>3 DEF SlotInv, NamedAreLive, FreesOneKey, BoundAreLive, memories, slotVars
<1> QED
  BY <1>4, <1>5, <1>6 DEF SlotInv

\* The slot of a freed memory goes to the free slots.
LEMMA FreesSlot == ASSUME SlotInv, NEW t \in Threads, FreeKnown(t) PROVE SlotInv'
<1> DEFINE k == request[t].keys[1]
           slot == memoryIdToSlot[k]
<1>1. /\ pc[t] = "freeCache" /\ pc' = [pc EXCEPT ![t] = "freeRemote"]
      /\ k \in DOMAIN memoryIdToSlot
      /\ memoryIdToSlot' = [x \in DOMAIN memoryIdToSlot \ {k} |-> memoryIdToSlot[x]]
      /\ memoryCache' = [memoryCache EXCEPT ![slot + 1] = Invalid]
      /\ freeSlots' = Append(freeSlots, slot)
      /\ request' = [request EXCEPT ![t] = WithSlots(@, <<slot>>)]
      /\ UNCHANGED <<memories, destructor, requests>>
  BY DEF FreeKnown, Step, driver, teardownVars, history
<1> HIDE DEF k, slot
<1>2. slot \in Nat /\ slot < Len(memoryCache) /\ slot = memoryIdToSlot[k]
  BY <1>1 DEF SlotInv, SlotTypes, Partition, slot
<1>3. /\ Len(memoryCache') = Len(memoryCache)
      /\ memoryCache' \in Seq([key : Keys, gen : Nat] \cup {Invalid})
      /\ \A s \in 1..Len(memoryCache) : s # slot + 1 => memoryCache'[s] = memoryCache[s]
  BY <1>1, <1>2 DEF SlotInv, SlotTypes
<1>4. /\ DOMAIN memoryIdToSlot' = DOMAIN memoryIdToSlot \ {k}
      /\ \A x \in DOMAIN memoryIdToSlot' : memoryIdToSlot'[x] = memoryIdToSlot[x]
      /\ memoryIdToSlot' \in [DOMAIN memoryIdToSlot' -> Nat]
  BY <1>1 DEF SlotInv, SlotTypes
<1>5. /\ freeSlots' \in Seq(Nat) /\ Len(freeSlots') = Len(freeSlots) + 1
      /\ freeSlots'[Len(freeSlots) + 1] = slot
      /\ \A i \in 1..Len(freeSlots) : freeSlots'[i] = freeSlots[i]
  BY <1>1, <1>2 DEF SlotInv, SlotTypes
<1>6. /\ request' \in [Threads -> [id : Nat, keys : Seq(Keys), slots : Seq(Nat)]]
      /\ \A u \in Threads : request'[u].keys = request[u].keys
  BY <1>1, <1>2, <<slot>> \in Seq(Nat) DEF SlotInv, SlotTypes, WithSlots
<1>7. /\ pc' \in [Threads -> Labels] /\ pc'[t] = "freeRemote"
      /\ \A u \in Threads \ {t} : pc'[u] = pc[u]
  BY <1>1 DEF SlotInv, SlotTypes, Labels
<1>8. SlotTypes'
  BY <1>1, <1>3, <1>4, <1>5, <1>6, <1>7 DEF SlotInv, SlotTypes, memories
<1>9. Partition(memoryIdToSlot, Len(memoryCache), freeSlots)'
  <2> DEFINE n == Len(memoryCache)
  <2>1. Partition(memoryIdToSlot, n, freeSlots) /\ Len(freeSlots) \in Nat /\ n \in Nat
    BY DEF SlotInv, SlotTypes
  <2>2. /\ \A i \in 1..Len(freeSlots') : freeSlots'[i] < n
        /\ \A x \in DOMAIN memoryIdToSlot' : memoryIdToSlot'[x] < n
    <3>1. /\ \A i \in 1..Len(freeSlots) : freeSlots[i] < n
          /\ \A x \in DOMAIN memoryIdToSlot : memoryIdToSlot[x] < n
      BY <2>1 DEF Partition
    <3>2. slot < n
      BY <1>2
    <3> HIDE DEF n
    <3>3. \A x \in DOMAIN memoryIdToSlot' : memoryIdToSlot'[x] < n
      BY <1>4, <3>1
    <3>4. \A i \in 1..Len(freeSlots') : freeSlots'[i] < n
      BY <1>5, <2>1, <3>1, <3>2
    <3> QED
      BY <3>3, <3>4
  <2>6. \A x, y \in DOMAIN memoryIdToSlot' : memoryIdToSlot'[x] = memoryIdToSlot'[y] => x = y
    BY <1>4, <2>1 DEF Partition
  <2>3. \A i, j \in 1..Len(freeSlots') : freeSlots'[i] = freeSlots'[j] => i = j
    BY <1>1, <1>2, <1>5, <2>1 DEF Partition
  <2>4. \A x \in DOMAIN memoryIdToSlot', i \in 1..Len(freeSlots') :
          memoryIdToSlot'[x] # freeSlots'[i]
    BY <1>1, <1>2, <1>4, <1>5, <2>1 DEF Partition
  <2>5. ASSUME NEW s \in 0..(n - 1)
        PROVE  \/ \E x \in DOMAIN memoryIdToSlot' : memoryIdToSlot'[x] = s
               \/ \E i \in 1..Len(freeSlots') : freeSlots'[i] = s
    <3>1. CASE s = slot
      BY <3>1, <1>5, <2>1
    <3>2. CASE \E x \in DOMAIN memoryIdToSlot : memoryIdToSlot[x] = s /\ s # slot
      BY <3>2, <1>2, <1>4
    <3>3. CASE \E i \in 1..Len(freeSlots) : freeSlots[i] = s
      BY <3>3, <1>5, <2>1
    <3> QED
      BY <3>1, <3>2, <3>3, <2>1 DEF Partition
  <2> QED
    BY <1>3, <2>2, <2>3, <2>4, <2>5, <2>6 DEF Partition
<1>10. Binding'
  <2> SUFFICES ASSUME NEW x \in DOMAIN memoryIdToSlot'
               PROVE  memoryCache'[memoryIdToSlot'[x] + 1] = MemoryAt(x)'
    BY DEF Binding
  <2>1. x \in DOMAIN memoryIdToSlot /\ x # k /\ memoryIdToSlot'[x] = memoryIdToSlot[x]
    BY <1>4
  <2>2. memoryIdToSlot[x] # slot /\ memoryIdToSlot[x] + 1 \in 1..Len(memoryCache)
    BY <1>1, <1>2, <2>1 DEF SlotInv, SlotTypes, Partition
  <2>3. memoryCache'[memoryIdToSlot[x] + 1] = memoryCache[memoryIdToSlot[x] + 1]
    <3>1. memoryIdToSlot[x] + 1 # slot + 1
      <4>1. memoryIdToSlot[x] \in Nat
        BY <2>1 DEF SlotInv, SlotTypes
      <4> QED
        BY <1>2, <2>2, <4>1
    <3> QED
      BY <1>3, <2>2, <3>1
  <2> QED
    BY <1>1, <2>1, <2>3 DEF SlotInv, Binding, MemoryAt, memories
<1>11. NamedAreLive' /\ FreesOneKey'
  BY <1>1, <1>6, <1>7 DEF SlotInv, NamedAreLive, FreesOneKey, Freeing, memories
<1>12. BoundAreLive'
  <2>1. \A x \in Keys : x # k => request[t].keys # <<x>>
    BY DEF k
  <2> SUFFICES ASSUME destructor' = "none", NEW x \in DOMAIN memoryIdToSlot', ~live'[x]
               PROVE  \E u \in Threads : pc'[u] \in Freeing /\ request'[u].keys = <<x>>
    BY DEF BoundAreLive
  <2>2. x \in DOMAIN memoryIdToSlot /\ x # k /\ x \in Keys /\ ~live[x] /\ destructor = "none"
    BY <1>1, <1>4 DEF SlotInv, SlotTypes, memories
  <2>3. PICK u \in Threads : pc[u] \in Freeing /\ request[u].keys = <<x>>
    BY <2>2 DEF SlotInv, BoundAreLive
  <2>4. u # t
    BY <2>1, <2>2, <2>3
  <2> QED
    BY <1>6, <1>7, <2>3, <2>4
<1> QED
  BY <1>8, <1>9, <1>10, <1>11, <1>12 DEF SlotInv

\* What a new binding does to the map, whichever slot it is given.
LEMMA Binds ==
  ASSUME SlotInv, NEW t \in Threads, NEW slot \in Nat, NewSlot(t), NEW k, k = NextKey(t),
         memoryIdToSlot' = [x \in DOMAIN memoryIdToSlot \cup {k} |->
                              IF x = k THEN slot ELSE memoryIdToSlot[x]],
         AddSlot(t, slot)
  PROVE  /\ k \in Keys /\ live[k] /\ k \notin DOMAIN memoryIdToSlot
         /\ DOMAIN memoryIdToSlot' = DOMAIN memoryIdToSlot \cup {k}
         /\ memoryIdToSlot'[k] = slot
         /\ \A x \in DOMAIN memoryIdToSlot : memoryIdToSlot'[x] = memoryIdToSlot[x]
         /\ memoryIdToSlot' \in [DOMAIN memoryIdToSlot' -> Nat]
         /\ MemoryAt(k) \in [key : Keys, gen : Nat]
         /\ request' \in [Threads -> [id : Nat, keys : Seq(Keys), slots : Seq(Nat)]]
         /\ \A u \in Threads : request'[u].keys = request[u].keys
<1>1. Len(request[t].slots) + 1 \in 1..Len(request[t].keys)
  <2>1. request[t].slots \in Seq(Nat) /\ request[t].keys \in Seq(Keys)
    BY DEF SlotInv, SlotTypes
  <2>2. Len(request[t].slots) \in Nat /\ Len(request[t].keys) \in Nat
    BY <2>1
  <2>3. Len(request[t].slots) < Len(request[t].keys)
    BY DEF NewSlot, MoreKeys
  <2> QED
    BY <2>2, <2>3
<1>2. k \in Keys /\ live[k] /\ k \notin DOMAIN memoryIdToSlot
  <2>1. request[t].keys \in Seq(Keys) /\ k = request[t].keys[Len(request[t].slots) + 1]
    BY DEF SlotInv, SlotTypes, NextKey
  <2>2. k \in Keys
    BY <1>1, <2>1, ElementOfSeq
  <2>3. live[k]
    BY <1>1, <2>1 DEF NewSlot, SlotInv, NamedAreLive
  <2>4. k \notin DOMAIN memoryIdToSlot
    BY DEF NewSlot
  <2> QED
    BY <2>2, <2>3, <2>4
<1>3. MemoryAt(k) \in [key : Keys, gen : Nat]
  BY <1>2 DEF MemoryAt, SlotInv, SlotTypes
<1>4. memoryIdToSlot' \in [DOMAIN memoryIdToSlot' -> Nat]
  BY <1>2 DEF SlotInv, SlotTypes
<1> QED
  BY <1>2, <1>3, <1>4, AddsSlot DEF SlotInv, SlotTypes

\* A slot is popped from the free slots, or the cache grows by one.
LEMMA TakesSlot == ASSUME SlotInv, NEW t \in Threads, NewSlot(t) PROVE SlotInv'
<1> DEFINE k == NextKey(t)
           n == Len(memoryCache)
           m == Len(freeSlots)
           slot == IF freeSlots # <<>> THEN freeSlots[m] ELSE n
<1>1. /\ pc[t] = "slots"
      /\ freeSlots' = IF freeSlots # <<>> THEN SubSeq(freeSlots, 1, m - 1) ELSE freeSlots
      /\ memoryCache' = IF freeSlots # <<>>
                        THEN [memoryCache EXCEPT ![slot + 1] = MemoryAt(k)]
                        ELSE Append(memoryCache, MemoryAt(k))
      /\ memoryIdToSlot' = [x \in DOMAIN memoryIdToSlot \cup {k} |->
                              IF x = k THEN slot ELSE memoryIdToSlot[x]]
      /\ AddSlot(t, slot)
      /\ UNCHANGED <<memories, pc, destructor, requests>>
  BY DEF NewSlot, FreeSlotsPopped, driver, teardownVars, history
<1>2. /\ n \in Nat /\ m \in Nat /\ freeSlots \in Seq(Nat)
      /\ memoryCache \in Seq([key : Keys, gen : Nat] \cup {Invalid})
      /\ freeSlots # <<>> => m > 0
      /\ Partition(memoryIdToSlot, n, freeSlots)
      /\ memoryIdToSlot \in [DOMAIN memoryIdToSlot -> Nat]
  BY DEF SlotInv, SlotTypes
<1>3. slot \in Nat /\ (freeSlots # <<>> => slot < n)
  BY <1>2 DEF Partition
<1>4. /\ k \in Keys /\ live[k] /\ k \notin DOMAIN memoryIdToSlot
      /\ DOMAIN memoryIdToSlot' = DOMAIN memoryIdToSlot \cup {k}
      /\ memoryIdToSlot'[k] = slot
      /\ \A x \in DOMAIN memoryIdToSlot : memoryIdToSlot'[x] = memoryIdToSlot[x]
      /\ memoryIdToSlot' \in [DOMAIN memoryIdToSlot' -> Nat]
      /\ MemoryAt(k) \in [key : Keys, gen : Nat]
      /\ request' \in [Threads -> [id : Nat, keys : Seq(Keys), slots : Seq(Nat)]]
      /\ \A u \in Threads : request'[u].keys = request[u].keys
  BY <1>1, <1>3, Binds
<1>5. ASSUME freeSlots # <<>>
      PROVE  /\ freeSlots' \in Seq(Nat)
             /\ memoryCache' \in Seq([key : Keys, gen : Nat] \cup {Invalid})
             /\ Partition(memoryIdToSlot', Len(memoryCache'), freeSlots')
             /\ Binding'
  <2>1. slot = freeSlots[m] /\ m \in 1..m
    BY <1>2, <1>5
  <2>2. /\ freeSlots' \in Seq(Nat) /\ Len(freeSlots') = m - 1
        /\ \A i \in 1..(m - 1) : freeSlots'[i] = freeSlots[i]
    <3>1. /\ freeSlots' = SubSeq(freeSlots, 1, m - 1) /\ m - 1 \in Int
          /\ \A i \in 1..(m - 1) : freeSlots[i] \in Nat
      BY <1>1, <1>2, <1>5
    <3>2. /\ SubSeq(freeSlots, 1, m - 1) \in Seq(Nat)
          /\ Len(SubSeq(freeSlots, 1, m - 1)) = IF 1 <= m - 1 THEN m - 1 - 1 + 1 ELSE 0
          /\ \A i \in 1..(m - 1 - 1 + 1) : SubSeq(freeSlots, 1, m - 1)[i] = freeSlots[1 + i - 1]
      BY <3>1, SubSeqProperties
    <3>3. Len(SubSeq(freeSlots, 1, m - 1)) = m - 1
      <4>1. m \in Nat /\ m > 0
        BY <1>2, <1>5
      <4> HIDE DEF m
      <4> DEFINE l == Len(SubSeq(freeSlots, 1, m - 1))
      <4>2. l = IF 1 <= m - 1 THEN m - 1 - 1 + 1 ELSE 0
        BY <3>2
      <4> HIDE DEF l
      <4> QED
        BY <4>1, <4>2
    <3>4. \A i \in 1..(m - 1) : i \in 1..(m - 1 - 1 + 1) /\ 1 + i - 1 = i
      BY <1>2
    <3> QED
      BY <3>1, <3>2, <3>3, <3>4
  <2> HIDE DEF slot, k
  <2>3. /\ Len(memoryCache') = n
        /\ memoryCache' \in Seq([key : Keys, gen : Nat] \cup {Invalid})
        /\ memoryCache'[slot + 1] = MemoryAt(k)
        /\ \A s \in 1..n : s # slot + 1 => memoryCache'[s] = memoryCache[s]
    BY <1>1, <1>2, <1>3, <1>4, <1>5
  <2>4. \A x, y \in DOMAIN memoryIdToSlot' : memoryIdToSlot'[x] = memoryIdToSlot'[y] => x = y
    <3> SUFFICES ASSUME NEW x \in DOMAIN memoryIdToSlot', NEW y \in DOMAIN memoryIdToSlot',
                        memoryIdToSlot'[x] = memoryIdToSlot'[y], x # y
                 PROVE  FALSE
      OBVIOUS
    <3>1. \A z \in DOMAIN memoryIdToSlot : memoryIdToSlot[z] # slot
      BY <1>2, <2>1 DEF Partition
    <3>2. CASE x = k \/ y = k
      BY <1>4, <3>1, <3>2
    <3>3. CASE x # k /\ y # k
      BY <1>2, <1>4, <3>3 DEF Partition
    <3> QED
      BY <3>2, <3>3
  <2>5. Partition(memoryIdToSlot', n, freeSlots')
    <3>1. \A s \in 0..(n - 1) : \/ \E x \in DOMAIN memoryIdToSlot' : memoryIdToSlot'[x] = s
                                \/ \E i \in 1..Len(freeSlots') : freeSlots'[i] = s
      <4> SUFFICES ASSUME NEW s \in 0..(n - 1), s # slot,
                          ~ \E x \in DOMAIN memoryIdToSlot : memoryIdToSlot[x] = s
                   PROVE  \E i \in 1..Len(freeSlots') : freeSlots'[i] = s
        <5>1. \A s \in 0..(n - 1) :
                s = slot \/ (\E x \in DOMAIN memoryIdToSlot : memoryIdToSlot[x] = s) =>
                  \E x \in DOMAIN memoryIdToSlot' : memoryIdToSlot'[x] = s
          BY <1>4, Zenon
        <5> QED
          BY <5>1, Zenon
      <4>1. PICK i \in 1..m : freeSlots[i] = s
        BY <1>2 DEF Partition
      <4>2. i # m
        BY <2>1, <4>1
      <4>3. i \in 1..(m - 1)
        BY <1>2, <4>2
      <4> QED
        BY <2>2, <4>1, <4>3
    <3>7. /\ \A i \in 1..Len(freeSlots') : i \in 1..m /\ i # m
          /\ \A i \in 1..Len(freeSlots') : freeSlots'[i] = freeSlots[i]
      <4>1. m \in Nat /\ Len(freeSlots') = m - 1
        BY <1>2, <2>2
      <4>2. \A i \in 1..(m - 1) : freeSlots'[i] = freeSlots[i]
        BY <2>2
      <4> HIDE DEF m
      <4> QED
        BY <4>1, <4>2
    <3>8. /\ \A i, j \in 1..m : freeSlots[i] = freeSlots[j] => i = j
          /\ \A i \in 1..m : freeSlots[i] < n
      BY <1>2 DEF Partition
    <3>2. \A i, j \in 1..Len(freeSlots') : freeSlots'[i] = freeSlots'[j] => i = j
      BY <3>7, <3>8, Zenon
    <3>3. \A i \in 1..Len(freeSlots') : freeSlots'[i] < n /\ freeSlots'[i] # slot
      BY <2>1, <3>7, <3>8, Zenon
    <3>4. \A x \in DOMAIN memoryIdToSlot' : memoryIdToSlot'[x] < n
      BY <1>2, <1>3, <1>4, <1>5 DEF Partition
    <3>5. \A i \in 1..Len(freeSlots') : i \in 1..m /\ freeSlots'[i] = freeSlots[i]
      BY <1>2, <2>2
    <3>6. \A x \in DOMAIN memoryIdToSlot', i \in 1..Len(freeSlots') :
            memoryIdToSlot'[x] # freeSlots'[i]
      <4>1. \A x \in DOMAIN memoryIdToSlot, i \in 1..m : memoryIdToSlot[x] # freeSlots[i]
        BY <1>2 DEF Partition
      <4> QED
        BY <1>4, <3>3, <3>5, <4>1
    <3> QED
      BY <2>4, <3>1, <3>2, <3>3, <3>4, <3>6 DEF Partition
  <2>6. Binding'
    <3>1. \A x \in DOMAIN memoryIdToSlot :
            memoryIdToSlot[x] + 1 \in 1..n /\ memoryIdToSlot[x] + 1 # slot + 1
      <4>1. \A x \in DOMAIN memoryIdToSlot : memoryIdToSlot[x] # slot
        BY <1>2, <2>1 DEF Partition
      <4>2. \A x \in DOMAIN memoryIdToSlot : memoryIdToSlot[x] \in Nat /\ memoryIdToSlot[x] < n
        BY <1>2 DEF Partition
      <4>3. n \in Nat /\ slot \in Nat
        BY <1>2, <1>3
      <4> HIDE DEF n
      <4> QED
        BY <4>1, <4>2, <4>3
    <3>2. \A x : MemoryAt(x)' = MemoryAt(x)
      BY <1>1 DEF MemoryAt, memories
    <3> QED
      BY <1>4, <2>3, <3>1, <3>2 DEF SlotInv, Binding
  <2> QED
    BY <2>2, <2>3, <2>5, <2>6
<1>6. ASSUME freeSlots = <<>>
      PROVE  /\ freeSlots' \in Seq(Nat)
             /\ memoryCache' \in Seq([key : Keys, gen : Nat] \cup {Invalid})
             /\ Partition(memoryIdToSlot', Len(memoryCache'), freeSlots')
             /\ Binding'
  <2>1. freeSlots' = freeSlots /\ m = 0 /\ slot = n
    BY <1>1, <1>6
  <2> HIDE DEF slot, k
  <2>2. /\ Len(memoryCache') = n + 1
        /\ memoryCache' \in Seq([key : Keys, gen : Nat] \cup {Invalid})
        /\ memoryCache'[n + 1] = MemoryAt(k)
        /\ \A s \in 1..n : memoryCache'[s] = memoryCache[s]
    BY <1>1, <1>2, <1>4, <1>6
  <2>3. Partition(memoryIdToSlot', n + 1, freeSlots')
    <3>1. \A s \in 0..n : \E x \in DOMAIN memoryIdToSlot' : memoryIdToSlot'[x] = s
      <4>1. \A s \in 0..(n - 1) : \E x \in DOMAIN memoryIdToSlot : memoryIdToSlot[x] = s
        BY <1>2, <2>1 DEF Partition
      <4>2. n \in Nat /\ slot = n
        BY <1>2, <2>1
      <4> HIDE DEF n
      <4>3. \A s \in 0..n : s \in 0..(n - 1) \/ s = n
        BY <4>2
      <4> QED
        BY <1>4, <4>1, <4>2, <4>3, Zenon
    <3>2. \A x, y \in DOMAIN memoryIdToSlot' : memoryIdToSlot'[x] = memoryIdToSlot'[y] => x = y
      BY <1>2, <1>4, <2>1 DEF Partition
    <3>3. \A x \in DOMAIN memoryIdToSlot' : memoryIdToSlot'[x] < n + 1
      BY <1>2, <1>4, <2>1 DEF Partition
    <3> QED
      BY <1>2, <2>1, <3>1, <3>2, <3>3 DEF Partition
  <2>4. Binding'
    <3>1. \A x \in DOMAIN memoryIdToSlot : memoryIdToSlot[x] + 1 \in 1..n
      BY <1>2 DEF Partition
    <3>2. \A x : MemoryAt(x)' = MemoryAt(x)
      BY <1>1 DEF MemoryAt, memories
    <3> QED
      BY <1>4, <2>1, <2>2, <3>1, <3>2 DEF SlotInv, Binding
  <2> QED
    BY <1>2, <2>1, <2>2, <2>3, <2>4
<1>7. /\ freeSlots' \in Seq(Nat)
      /\ memoryCache' \in Seq([key : Keys, gen : Nat] \cup {Invalid})
      /\ Partition(memoryIdToSlot, Len(memoryCache), freeSlots)' /\ Binding'
  BY <1>5, <1>6
<1> HIDE DEF k, slot
<1>8. SlotTypes'
  BY <1>1, <1>4, <1>7 DEF SlotInv, SlotTypes, memories
<1>9. NamedAreLive' /\ FreesOneKey'
  <2>1. UNCHANGED <<live, pc>> /\ \A u \in Threads : request'[u].keys = request[u].keys
    BY <1>1, <1>4 DEF memories
  <2> QED
    BY <2>1 DEF SlotInv, NamedAreLive, FreesOneKey
<1>10. BoundAreLive'
  <2> SUFFICES ASSUME destructor' = "none", NEW x \in DOMAIN memoryIdToSlot', ~live'[x]
               PROVE  \E u \in Threads : pc'[u] \in Freeing /\ request'[u].keys = <<x>>
    BY DEF BoundAreLive
  <2>1. x \in DOMAIN memoryIdToSlot /\ ~live[x] /\ destructor = "none"
    BY <1>1, <1>4 DEF memories
  <2>2. PICK u \in Threads : pc[u] \in Freeing /\ request[u].keys = <<x>>
    BY <2>1 DEF SlotInv, BoundAreLive
  <2> QED
    BY <1>1, <1>4, <2>2
<1> QED
  BY <1>7, <1>8, <1>9, <1>10 DEF SlotInv

----------------------------------------------------------------------------
(* Every step                                                              *)

\* The runtime's process goes: no thread frees or binds anything any more.
LEMMA Releases == ASSUME SlotInv, ReleaseBurst PROVE SlotInv'
<1>1. pc' = [t \in Threads |-> "gone"] /\ destructor' = "flag"
      /\ UNCHANGED <<memories, request, slotVars, requests>>
  BY DEF ReleaseBurst, history
<1> QED
  BY <1>1 DEF SlotInv, SlotTypes, Labels, Binding, MemoryAt, NamedAreLive, FreesOneKey, Freeing,
              BoundAreLive, memories, slotVars

\* Every step of a computation or of a freeMemory call keeps the invariant.
LEMMA CallsKeepSlotInv == ASSUME SlotInv, NEW t \in Threads, CallStep(t) PROVE SlotInv'
<1> USE DEF Step, Freeing, Labels, others, driver, teardownVars, history
<1>1. CASE FreeLock(t)
  BY <1>1, Moves DEF FreeLock
<1>2. CASE FreeUnknown(t)
  BY <1>2, Moves DEF FreeUnknown
<1>3. CASE FreeRemote(t)
  BY <1>3, Moves DEF FreeRemote
<1>4. CASE Lock(t)
  BY <1>4, Moves DEF Lock
<1>5. CASE SlotsDone(t)
  BY <1>5, Moves DEF SlotsDone
<1>6. CASE SendInvalid(t) \/ SendValid(t)
  BY <1>6, Moves DEF SendInvalid, SendValid, Return
<1>7. CASE \E n \in RequestSizes : WriteTooLarge(t, n) \/ Write(t, n)
  BY <1>7, Moves DEF WriteTooLarge, Write, Return
<1>8. CASE ReceiveInvalid(t)
  BY <1>8, Moves DEF ReceiveInvalid, Return
<1>9. CASE ReceiveValid(t) \/ ReadFirst(t) \/ StopSpinning(t) \/ ReadRest(t)
  BY <1>9, Moves DEF ReceiveValid, ReadFirst, StopSpinning, ReadRest
<1>10. CASE Receive(t)
  BY <1>10, Moves DEF Receive, Return
<1> QED
  BY <1>1, <1>2, <1>3, <1>4, <1>5, <1>6, <1>7, <1>8, <1>9, <1>10, FreesSlot, FindsSlot, TakesSlot
     DEF CallStep

\* The driver has no part in the runtime's map of slots.
LEMMA DriverKeepsSlotInv ==
  ASSUME SlotInv, DriverDies \/ DeathStep \/ DriverStep \/ DestructorStep PROVE SlotInv'
<1> USE DEF runtime, bystanders, callerVars, teardownVars, driver, history
<1>1. CASE DriverDies
  BY <1>1, Elsewhere DEF DriverDies
<1>2. CASE DeathStep
  BY <1>2, Elsewhere DEF DeathStep, InvalidateSender, InvalidateReceiver, UnblockReceiver
<1>3. CASE DriverStep
  <2>1. UNCHANGED bystanders /\ requests' = requests
    BY <1>3 DEF DriverStep, WorkerLoop, WorkerReceive, WorkerReadFirst, WorkerStopSpinning,
                WorkerReadRest, WorkerCheckPacket, WorkerNoPacket, WorkerEnsure,
                WorkerGetMemories, WorkerAddEntries, WorkerExecute, WorkerSend
  <2> QED
    BY <2>1, Elsewhere
<1>4. CASE DestructorStep
  BY <1>4, Elsewhere DEF DestructorStep, Teardown, TeardownChannel, UnblockWorker, Join,
                              ForceUnblock
<1> QED
  BY <1>1, <1>2, <1>3, <1>4

\* Every step of the system keeps the invariant of the slots.
LEMMA SlotInvNext == SlotInv /\ [Next]_vars => SlotInv'
<1> SUFFICES ASSUME SlotInv, [Next]_vars PROVE SlotInv'
  OBVIOUS
<1>1. CASE UNCHANGED vars
  BY <1>1, Elsewhere DEF vars, runtime, callerVars, driver, teardownVars, history
<1>2. CASE Next
  BY <1>2, Creates, Destroys, Computes, CallsKeepSlotInv, DriverKeepsSlotInv, Releases DEF Next, Environment
<1> QED
  BY <1>1, <1>2

\* The invariant behind the slots' correctness holds in every behaviour.
THEOREM SlotInvariance == Spec => []SlotInv
  BY SlotInvInit, SlotInvNext, PTL DEF Spec

\* Every slot of the runtime's cache (mMemoryIdToSlot, mMemoryCache and
\* mFreeSlots) is bound to one key or free once, and what is bound to a key is
\* the memory that now exists there.
THEOREM Slots == Spec => []SlotsPartitioned
  BY SlotInvariance, SlotInvImplies, PTL

----------------------------------------------------------------------------
(***************************************************************************)
(* The driver's executor has no lock of its own.  What keeps a freeMemory  *)
(* call out of it while the worker is in it are the runtime's mutex and    *)
(* the turns that the two sides take: as long as the driver is alive and   *)
(* the burst is in use, the worker is busy, or has something to read, only *)
(* while a thread that holds the mutex waits for its result.               *)
(***************************************************************************)
Holding == {"freeCache", "freeRemote", "slots", "send", "write", "receive", "readFirst",
            "readRest", "received"}
Waiting == {"receive", "readFirst"}
Resting == {"loop", "receive", "readFirst"}

HoldersExclude == \A t \in Threads : pc[t] \in Holding => mutex = {t}

\* The channels are valid while the driver is alive, and everybody has left
\* when the destructor runs.
Valid == /\ alive => death = "linked" /\ senderValid /\ receiverValid
         /\ destructor = "none" => ~serverTeardown /\ ~channelTeardown
         /\ destructor # "none" => \A t \in Threads : pc[t] = "gone"

Turns ==
    alive /\ destructor = "none" =>
        /\ requestChannel # <<>> \/ worker \notin Resting => \E t \in Threads : pc[t] \in Waiting
        /\ resultChannel # <<>> => /\ requestChannel = <<>> /\ worker \in Resting
                                   /\ \E t \in Threads : pc[t] \in Waiting \cup {"readRest"}
        /\ worker \notin Resting \cup {"readRest"} => requestChannel = <<>>

TurnsInv == pc \in [Threads -> Labels] /\ HoldersExclude /\ Valid /\ Turns

\* The turns say who may be in the executor: the worker, or the holder of the
\* mutex that frees a slot, and never both.
LEMMA TurnsImply == TurnsInv => ExecutorNotConcurrent
<1> SUFFICES ASSUME TurnsInv, NEW t \in Threads, alive, worker \in UsesExecutor,
                    pc[t] = "freeRemote"
             PROVE  FALSE
  BY DEF ExecutorNotConcurrent
<1>1. destructor = "none"
  BY DEF TurnsInv, Valid
<1>2. PICK u \in Threads : pc[u] \in Waiting
  BY <1>1 DEF TurnsInv, Turns, UsesExecutor, Resting
<1>3. mutex = {t} /\ mutex = {u}
  BY <1>2 DEF TurnsInv, HoldersExclude, Holding, Waiting
<1> QED
  BY <1>2, <1>3 DEF Waiting

\* At first the mutex is free, the channels are empty and the worker rests.
LEMMA TurnsInit == Init => TurnsInv
BY DEF Init, TurnsInv, HoldersExclude, Valid, Turns, Labels, Holding, Resting

\* A thread goes on outside of the exchange with the driver, and keeps, takes
\* or gives back the mutex.
LEMMA MovesAside ==
  ASSUME TurnsInv, NEW t \in Threads, NEW to \in Labels,
         pc' = [pc EXCEPT ![t] = to], pc[t] # "gone",
         pc[t] \notin Waiting \cup {"readRest"}, to # "gone",
         UNCHANGED <<validVars, channels, alive, worker, teardownVars>>,
         \/ to \in Holding /\ pc[t] \in Holding /\ mutex' = mutex
         \/ to \in Holding /\ mutex = {} /\ mutex' = {t}
         \/ to \notin Holding /\ pc[t] \in Holding /\ mutex' = mutex \ {t}
         \/ to \notin Holding /\ pc[t] \notin Holding /\ mutex' = mutex
  PROVE  TurnsInv'
<1>1. /\ pc' \in [Threads -> Labels] /\ pc'[t] = to
      /\ \A u \in Threads \ {t} : pc'[u] = pc[u]
  BY DEF TurnsInv
<1>2. HoldersExclude'
  BY <1>1 DEF TurnsInv, HoldersExclude
<1>3. Valid'
  BY <1>1 DEF TurnsInv, Valid, validVars, teardownVars
<1>4. Turns'
  BY <1>1 DEF TurnsInv, Turns, channels, teardownVars
<1> QED
  BY <1>1, <1>2, <1>3, <1>4 DEF TurnsInv

\* Nothing that the turns depend on changes.
LEMMA NoTurn ==
  ASSUME TurnsInv, UNCHANGED <<pc, mutex, validVars, channels, alive, worker, teardownVars>>
  PROVE  TurnsInv'
BY DEF TurnsInv, HoldersExclude, Valid, Turns, validVars, channels, teardownVars

\* A request is sent when nothing is under way.
LEMMA Writes ==
  ASSUME TurnsInv, NEW t \in Threads, NEW n \in RequestSizes, Write(t, n) PROVE TurnsInv'
<1>1. /\ pc[t] = "write" /\ pc' = [pc EXCEPT ![t] = "receive"]
      /\ UNCHANGED <<mutex, validVars, resultChannel, alive, worker, teardownVars>>
  BY DEF Write, Step, driver, workerVars
<1>2. /\ pc' \in [Threads -> Labels] /\ pc'[t] = "receive"
      /\ \A u \in Threads \ {t} : pc'[u] = pc[u]
  BY <1>1 DEF TurnsInv, Labels
<1>3. \A u \in Threads : pc[u] \notin Waiting \cup {"readRest"}
  BY <1>1 DEF TurnsInv, HoldersExclude, Holding, Waiting
<1>4. HoldersExclude' /\ Valid'
  BY <1>1, <1>2 DEF TurnsInv, HoldersExclude, Valid, Holding, validVars, teardownVars
<1>5. Turns'
  BY <1>1, <1>2, <1>3 DEF TurnsInv, Turns, Waiting, teardownVars
<1> QED
  BY <1>2, <1>4, <1>5 DEF TurnsInv

\* A result is read when the driver has nothing more to do.
LEMMA Reads ==
  ASSUME TurnsInv, NEW t \in Threads,
         ReceiveValid(t) \/ ReadFirst(t) \/ StopSpinning(t) \/ ReadRest(t)
  PROVE  TurnsInv'
<1> PICK from, to \in Labels :
      /\ pc[t] = from /\ pc' = [pc EXCEPT ![t] = to] /\ from \in Holding /\ to \in Holding
      /\ \/ from = "receive" /\ to = "readFirst" /\ resultChannel' = resultChannel
         \/ from = "readFirst" /\ to = "readRest" /\ resultChannel # <<>>
         \/ from = "readFirst" /\ to = "readRest" /\ ~receiverValid
         \/ from = "readRest" /\ to = "received" /\ resultChannel' = <<>>
      /\ UNCHANGED <<mutex, validVars, requestChannel, alive, worker, teardownVars>>
  BY DEF ReceiveValid, ReadFirst, StopSpinning, SpinEnds, ReadRest, Step, Labels, Holding, others,
         channels, driver, workerVars
<1>1. /\ pc' \in [Threads -> Labels] /\ pc'[t] = to
      /\ \A u \in Threads \ {t} : pc'[u] = pc[u]
  BY DEF TurnsInv
<1>2. \A u \in Threads \ {t} : pc[u] \notin Holding
  BY DEF TurnsInv, HoldersExclude
<1>3. HoldersExclude' /\ Valid'
  BY <1>1 DEF TurnsInv, HoldersExclude, Valid, Holding, validVars, teardownVars
<1>4. Turns'
  BY <1>1, <1>2 DEF TurnsInv, Turns, Valid, Waiting, Holding, teardownVars
<1> QED
  BY <1>1, <1>3, <1>4 DEF TurnsInv

\* Only a dead driver leaves a caller without the answer it has waited for.
LEMMA GivesUp ==
  ASSUME TurnsInv, NEW t \in Threads, ReceiveInvalid(t) PROVE TurnsInv'
<1>1. /\ pc[t] \in {"receive", "received"} /\ pc' = [pc EXCEPT ![t] = "idle"]
      /\ mutex' = mutex \ {t} /\ ~receiverValid
      /\ UNCHANGED <<validVars, channels, alive, worker, teardownVars>>
  BY DEF ReceiveInvalid, Return, Release, Step, others, driver, workerVars
<1>2. /\ pc' \in [Threads -> Labels] /\ pc'[t] = "idle"
      /\ \A u \in Threads \ {t} : pc'[u] = pc[u]
  BY <1>1 DEF TurnsInv, Labels
<1>3. ~alive
  BY <1>1 DEF TurnsInv, Valid
<1>4. HoldersExclude' /\ Valid' /\ Turns'
  BY <1>1, <1>2, <1>3 DEF TurnsInv, HoldersExclude, Valid, Turns, Holding, validVars, teardownVars
<1> QED
  BY <1>2, <1>4 DEF TurnsInv

\* Every step of a computation or of a freeMemory call respects the turns.
LEMMA CallsKeepTurns == ASSUME TurnsInv, NEW t \in Threads, CallStep(t) PROVE TurnsInv'
<1> USE DEF Step, Return, Acquire, Release, Labels, Holding, Waiting, others, driver, workerVars
<1>1. CASE FreeLock(t) \/ Lock(t)
  BY <1>1, MovesAside DEF FreeLock, Lock
<1>2. CASE FreeUnknown(t)
  BY <1>2, MovesAside DEF FreeUnknown
<1>3. CASE FreeKnown(t)
  BY <1>3, MovesAside DEF FreeKnown
<1>4. CASE FreeRemote(t)
  BY <1>4, MovesAside DEF FreeRemote
<1>5. CASE KnownSlot(t) \/ NewSlot(t)
  BY <1>5, NoTurn DEF KnownSlot, NewSlot
<1>6. CASE SlotsDone(t) \/ SendValid(t)
  BY <1>6, MovesAside DEF SlotsDone, SendValid
<1>7. CASE SendInvalid(t)
  BY <1>7, MovesAside DEF SendInvalid
<1>8. CASE \E n \in RequestSizes : WriteTooLarge(t, n)
  BY <1>8, MovesAside DEF WriteTooLarge
<1>9. CASE Receive(t)
  BY <1>9, MovesAside DEF Receive
<1> QED
  BY <1>1, <1>2, <1>3, <1>4, <1>5, <1>6, <1>7, <1>8, <1>9, Writes, Reads, GivesUp DEF CallStep

\* The worker takes a request, serves it and answers; nobody else moves.
LEMMA WorkerKeepsTurns == ASSUME TurnsInv, DriverStep PROVE TurnsInv'
<1>1. UNCHANGED <<pc, mutex, validVars, alive, teardownVars>>
  BY DEF DriverStep, WorkerLoop, WorkerReceive, WorkerReadFirst, WorkerStopSpinning,
         WorkerReadRest, WorkerCheckPacket, WorkerNoPacket, WorkerEnsure, WorkerGetMemories,
         WorkerAddEntries, WorkerExecute, WorkerSend, bystanders, runtime, callerVars
<1>2. HoldersExclude' /\ Valid'
  BY <1>1 DEF TurnsInv, HoldersExclude, Valid, validVars, teardownVars
<1>3. Turns'
  <2> SUFFICES ASSUME alive, destructor = "none" PROVE Turns'
    BY <1>1 DEF Turns, teardownVars
  <2> USE <1>1 DEF TurnsInv, Valid, Turns, Resting, WorkerStep, teardownVars
  <2>1. CASE WorkerLoop
    BY <2>1 DEF WorkerLoop, channels
  <2>2. CASE WorkerReceive
    BY <2>2 DEF WorkerReceive, channels
  <2>3. CASE WorkerReadFirst
    BY <2>3 DEF WorkerReadFirst
  <2>4. CASE WorkerStopSpinning
    BY <2>4 DEF WorkerStopSpinning, SpinEnds
  <2>5. CASE WorkerReadRest
    BY <2>5 DEF WorkerReadRest
  <2>6. CASE WorkerCheckPacket
    BY <2>6 DEF WorkerCheckPacket, channels
  <2>7. CASE WorkerNoPacket \/ \E n \in ResultSizes : WorkerSend(n)
    <3>1. worker \notin Resting \cup {"readRest"} /\ worker' = "loop"
          /\ requestChannel' = requestChannel
      BY <2>7 DEF WorkerNoPacket, WorkerSend
    <3> QED
      BY <3>1 DEF Waiting
  <2>8. CASE WorkerEnsure \/ WorkerGetMemories \/ WorkerAddEntries \/ WorkerExecute
    BY <2>8 DEF WorkerEnsure, WorkerGetMemories, WorkerAddEntries, WorkerExecute, channels
  <2> QED
    BY <2>1, <2>2, <2>3, <2>4, <2>5, <2>6, <2>7, <2>8 DEF DriverStep
<1> QED
  BY <1>1, <1>2, <1>3 DEF TurnsInv

\* Death is noticed after it has happened, and teardown begins when all have
\* left.
LEMMA EndsKeepTurns ==
  ASSUME TurnsInv, DriverDies \/ DeathStep \/ ReleaseBurst \/ DestructorStep PROVE TurnsInv'
<1> USE DEF TurnsInv, HoldersExclude, Valid, Turns, validVars, teardownVars
<1>1. CASE DriverDies
  BY <1>1 DEF DriverDies, runtime, callerVars
<1>2. CASE DeathStep
  BY <1>2 DEF DeathStep, InvalidateSender, InvalidateReceiver, UnblockReceiver, callerVars, driver
<1>3. CASE ReleaseBurst
  BY <1>3 DEF ReleaseBurst, Labels, Holding
<1>4. CASE DestructorStep
  BY <1>4 DEF DestructorStep, Teardown, TeardownChannel, UnblockWorker, Join, ForceUnblock,
              runtime, callerVars
<1> QED
  BY <1>1, <1>2, <1>3, <1>4

\* Every step of the system respects the turns.
LEMMA TurnsNext == TurnsInv /\ [Next]_vars => TurnsInv'
<1> SUFFICES ASSUME TurnsInv, [Next]_vars PROVE TurnsInv'
  OBVIOUS
<1> USE DEF driver, workerVars
<1>1. CASE UNCHANGED vars
  BY <1>1, NoTurn DEF vars, runtime, callerVars
<1>2. CASE \E k \in Keys : CreateMemory(k)
  BY <1>2, NoTurn DEF CreateMemory, callerVars
<1>3. CASE \E t \in Threads, k \in Keys : DestroyMemory(t, k)
  BY <1>3, MovesAside DEF DestroyMemory, Step, Labels, Holding, Waiting
<1>4. CASE \E t \in Threads, keys \in Arguments : Compute(t, keys)
  BY <1>4, MovesAside DEF Compute, Step, Labels, Holding, Waiting
<1> QED
  BY <1>1, <1>2, <1>3, <1>4, CallsKeepTurns, WorkerKeepsTurns, EndsKeepTurns DEF Next, Environment

\* The driver's executor is never entered by the worker and by a freeMemory
\* call at once (ExecutionBurstServer::freeMemory takes no lock), for any
\* number of threads, whatever the sizes of packets and whatever fails.
THEOREM NotConcurrent == Spec => []ExecutorNotConcurrent
<1>1. Spec => []TurnsInv
  BY TurnsInit, TurnsNext, PTL DEF Spec
<1> QED
  BY <1>1, TurnsImply, PTL

----------------------------------------------------------------------------
(***************************************************************************)
(* The types of a burst's variables, its queues' capacity among them.      *)
(* SlotInv gives the types of what the slots depend on; here are the       *)
(* others, in parts that steps disturb one at a time.                      *)
(***************************************************************************)

\* What an existing object, and a request being served, add to the types.
CountTypes ==
    /\ generation \in [Keys -> 0..MaxGeneration]
    /\ \A k \in Keys : live[k] => generation[k] >= 1
    /\ memoryCache \in Seq(Entries)
    /\ requests \in 0..MaxRequests

FlagTypes ==
    /\ mutex \subseteq Threads
    /\ senderValid \in BOOLEAN /\ receiverValid \in BOOLEAN /\ alive \in BOOLEAN
    /\ serverTeardown \in BOOLEAN /\ channelTeardown \in BOOLEAN
    /\ death \in {"linked", "receiver", "dummy", "done"}
    /\ destructor \in {"none", "flag", "channel", "dummy", "join", "done"}
    /\ worker \in WorkerLabels

Serving == {"ensure", "getMemories", "addEntries", "execute"}

QueueTypes ==
    /\ received \in Seq(Elements) /\ packet \in Seq(Elements)
    /\ requestChannel \in Seq(Elements) /\ Len(requestChannel) <= Capacity
    /\ resultChannel \in Seq(Elements) /\ Len(resultChannel) <= Capacity
    /\ worker \in Serving => packet # <<>>

CacheTypes == IsEntryMap(fetched) /\ IsEntryMap(serverCache)

HistoryTypes ==
    /\ DOMAIN executed = Ids /\ \A i \in Ids : executed[i] \in Seq(Seq(Entries))
    /\ DOMAIN named = Ids /\ \A i \in Ids : named[i] \in Seq(Memories)
    /\ outcome \in [Ids -> {"none", "ok", "error", "failed", "fallback"}]
    /\ answer \in [Ids -> Nat]

ModeType == mBlocking \in BOOLEAN

TypeInv ==
    SlotInv /\ ModeType /\ CountTypes /\ FlagTypes /\ QueueTypes /\ CacheTypes /\ HistoryTypes

\* The parts make up the type invariant.
LEMMA TypeInvImplies == TypeInv => TypeOK
<1> SUFFICES ASSUME TypeInv PROVE TypeOK
  OBVIOUS
<1>1. /\ live \in [Keys -> BOOLEAN] /\ pc \in [Threads -> Labels]
      /\ DOMAIN request = Threads
      /\ \A t \in Threads : /\ request[t].id \in Nat
                            /\ request[t].keys \in Seq(Keys)
                            /\ request[t].slots \in Seq(Nat)
      /\ DOMAIN memoryIdToSlot \subseteq Keys
      /\ \A k \in DOMAIN memoryIdToSlot : memoryIdToSlot[k] \in Nat
      /\ freeSlots \in Seq(Nat)
  BY DEF TypeInv, SlotInv, SlotTypes
<1> QED
  BY <1>1 DEF TypeInv, ModeType, CountTypes, FlagTypes, QueueTypes, CacheTypes, HistoryTypes, TypeOK

\* What is assumed of the constants that bound a type.
LEMMA Bounds ==
    /\ Capacity \in Nat \ {0} /\ MaxRequests \in Nat /\ MaxGeneration \in Nat \ {0}
    /\ RequestSizes \subseteq Nat \ {0, 1} /\ ResultSizes \subseteq Nat \ {0, 1}
BY BurstAssumption

\* At first everything is empty.
LEMMA TypeInit == Init => TypeInv
<1> SUFFICES ASSUME Init PROVE TypeInv
  OBVIOUS
<1>1. CountTypes
  <2>1. <<>> \in Seq(Entries)
    BY EmptySeq
  <2> QED
    BY <2>1, Bounds DEF Init, CountTypes
<1>2. FlagTypes /\ CacheTypes
  <2>1. DOMAIN <<>> = {}
    OBVIOUS
  <2>2. CacheTypes
    BY <2>1, Zenon DEF Init, CacheTypes, IsEntryMap
  <2>3. FlagTypes
    BY DEF Init, FlagTypes, WorkerLabels
  <2> QED
    BY <2>2, <2>3
<1>3. QueueTypes
  <2>1. <<>> \in Seq(Elements) /\ Len(<<>>) = 0
    BY EmptySeq
  <2> QED
    BY <2>1, Bounds DEF Init, QueueTypes, Serving
<1>4. HistoryTypes
  BY DEF Init, HistoryTypes
<1>5. ModeType
  BY BurstAssumption DEF Init, ModeType
<1> QED
  BY <1>1, <1>2, <1>3, <1>4, <1>5, SlotInvInit DEF TypeInv

\* A queue keeps the mode it was made with.
LEMMA ModeNext == ModeType /\ [Next]_vars => ModeType'
BY DEF ModeType, Next, Environment, CallStep, DeathStep, DriverStep, DestructorStep, vars

----------------------------------------------------------------------------
(* Flags and control points                                                *)

\* A thread or the driver sets flags and moves between labels, no more.
LEMMA FlagsNext == FlagTypes /\ [Next]_vars => FlagTypes'
<1> SUFFICES ASSUME FlagTypes, [Next]_vars PROVE FlagTypes'
  OBVIOUS
<1> USE DEF FlagTypes, callerVars, validVars, driver, teardownVars, workerVars, others, history,
            runtime, bystanders
<1>1. CASE UNCHANGED vars
  BY <1>1 DEF vars
<1>2. CASE \E k \in Keys : CreateMemory(k)
  BY <1>2 DEF CreateMemory
<1>3. CASE \E t \in Threads, k \in Keys : DestroyMemory(t, k)
  BY <1>3 DEF DestroyMemory
<1>4. CASE \E t \in Threads, keys \in Arguments : Compute(t, keys)
  BY <1>4 DEF Compute
<1>5. ASSUME NEW t \in Threads, CallStep(t) PROVE FlagTypes'
  <2>1. UNCHANGED <<senderValid, receiverValid, alive, serverTeardown, channelTeardown, death,
                     destructor, worker>>
    BY <1>5 DEF CallStep, FreeLock, FreeUnknown, FreeKnown, FreeRemote, Lock, KnownSlot, NewSlot,
                SlotsDone, SendInvalid, SendValid, WriteTooLarge, Write, ReceiveInvalid,
                ReceiveValid, ReadFirst, StopSpinning, ReadRest, Receive
  <2>2. mutex' \in {mutex, {t}, mutex \ {t}}
    <3>1. CASE FreeLock(t) \/ Lock(t)
      BY <3>1 DEF FreeLock, Lock, Acquire
    <3>2. CASE \/ FreeKnown(t) \/ KnownSlot(t) \/ NewSlot(t) \/ SlotsDone(t) \/ SendValid(t)
               \/ ReceiveValid(t) \/ ReadFirst(t) \/ StopSpinning(t) \/ ReadRest(t)
               \/ \E n \in RequestSizes : Write(t, n)
      BY <3>2 DEF FreeKnown, KnownSlot, NewSlot, SlotsDone, SendValid, ReceiveValid, ReadFirst,
                  StopSpinning, ReadRest, Write
    <3>3. CASE \/ FreeUnknown(t) \/ FreeRemote(t) \/ SendInvalid(t) \/ ReceiveInvalid(t)
               \/ Receive(t) \/ \E n \in RequestSizes : WriteTooLarge(t, n)
      BY <3>3 DEF FreeUnknown, FreeRemote, SendInvalid, ReceiveInvalid, Receive, WriteTooLarge,
                  Return, Release
    <3> QED
      BY <1>5, <3>1, <3>2, <3>3 DEF CallStep
  <2> QED
    BY <2>1, <2>2
<1>6. CASE DriverDies \/ DeathStep \/ ReleaseBurst \/ DestructorStep
  <2>1. CASE DriverDies \/ ReleaseBurst
    BY <2>1 DEF DriverDies, ReleaseBurst
  <2>2. CASE DeathStep
    BY <2>2 DEF DeathStep, InvalidateSender, InvalidateReceiver, UnblockReceiver, ForceUnblock
  <2>3. CASE DestructorStep
    BY <2>3 DEF DestructorStep, Teardown, TeardownChannel, ForceUnblock,
                UnblockWorker, Join
  <2> QED
    BY <1>6, <2>1, <2>2, <2>3
<1>7. CASE DriverStep
  <2>1. UNCHANGED bystanders
    BY <1>7 DEF DriverStep, WorkerLoop, WorkerReceive, WorkerReadFirst, WorkerStopSpinning,
                WorkerReadRest, WorkerCheckPacket, WorkerNoPacket, WorkerEnsure,
                WorkerGetMemories, WorkerAddEntries, WorkerExecute, WorkerSend
  <2>2. worker' \in WorkerLabels
    BY <1>7 DEF DriverStep, WorkerStep, WorkerLabels, WorkerLoop, WorkerReceive, WorkerReadFirst,
                WorkerStopSpinning, WorkerReadRest, WorkerCheckPacket, WorkerNoPacket,
                WorkerEnsure, WorkerGetMemories, WorkerAddEntries, WorkerExecute, WorkerSend
  <2> QED
    BY <2>1, <2>2
<1> QED
  BY <1>1, <1>2, <1>3, <1>4, <1>5, <1>6, <1>7 DEF Next, Environment

----------------------------------------------------------------------------
(* Counters, generations and the runtime's cache                           *)

\* What allocateSlotLocked binds to a slot is a memory that exists.
LEMMA CachesEntry ==
  ASSUME SlotInv, CountTypes, NEW t \in Threads, NewSlot(t) PROVE memoryCache' \in Seq(Entries)
<1> DEFINE k == NextKey(t)
           m == MemoryAt(k)
           s == freeSlots[Len(freeSlots)]
<1>1. k \in Keys /\ live[k]
  <2>1. request[t].keys \in Seq(Keys) /\ request[t].slots \in Seq(Nat)
    BY DEF SlotInv, SlotTypes
  <2>2. Len(request[t].slots) + 1 \in 1..Len(request[t].keys)
    BY <2>1 DEF NewSlot, MoreKeys
  <2> QED
    BY <2>1, <2>2 DEF SlotInv, NamedAreLive, NewSlot, NextKey
<1>2. m \in Entries
  BY <1>1 DEF CountTypes, MemoryAt, Entries, Memories
<1>3. CASE freeSlots # <<>>
  <2>1. s + 1 \in 1..Len(memoryCache)
    <3>1. freeSlots \in Seq(Nat) /\ Len(memoryCache) \in Nat
      BY DEF SlotInv, SlotTypes
    <3>2. Len(freeSlots) \in 1..Len(freeSlots)
      BY <1>3, <3>1
    <3>3. s \in Nat
      BY <3>1, <3>2
    <3>4. s < Len(memoryCache)
      BY <3>2 DEF SlotInv, Partition
    <3> QED
      BY <3>1, <3>3, <3>4
  <2>2. memoryCache' = [memoryCache EXCEPT ![s + 1] = m]
    BY <1>3 DEF NewSlot
  <2> QED
    BY <1>2, <2>1, <2>2, ExceptSeq DEF CountTypes
<1>4. CASE freeSlots = <<>>
  <2>1. memoryCache' = Append(memoryCache, m)
    BY <1>4 DEF NewSlot
  <2> QED
    BY <1>2, <2>1, AppendProperties DEF CountTypes
<1> QED
  BY <1>3, <1>4

\* Counters stay within their bounds, and the cache holds memories.
LEMMA CountsNext == SlotInv /\ CountTypes /\ [Next]_vars => CountTypes'
<1> SUFFICES ASSUME SlotInv, CountTypes, [Next]_vars PROVE CountTypes'
  OBVIOUS
<1> USE DEF memories, callerVars, slotVars, validVars, driver, teardownVars, workerVars, others,
            history, runtime, bystanders
<1>0. ASSUME UNCHANGED <<memories, memoryCache, requests>> PROVE CountTypes'
  BY <1>0 DEF CountTypes
<1>1. CASE UNCHANGED vars
  BY <1>0, <1>1 DEF vars
<1>2. ASSUME NEW k \in Keys, CreateMemory(k) PROVE CountTypes'
  <2>1. /\ live' = [live EXCEPT ![k] = TRUE]
        /\ generation' = [generation EXCEPT ![k] = @ + 1] /\ generation[k] < MaxGeneration
        /\ UNCHANGED <<memoryCache, requests>>
    BY <1>2 DEF CreateMemory
  <2>2. live \in [Keys -> BOOLEAN]
    BY DEF SlotInv, SlotTypes
  <2>3. generation' \in [Keys -> 0..MaxGeneration]
    BY <2>1, Bounds DEF CountTypes
  <2>4. \A j \in Keys : live'[j] => generation'[j] >= 1
    BY <2>1, <2>2 DEF CountTypes
  <2> QED
    BY <2>1, <2>3, <2>4 DEF CountTypes
<1>3. ASSUME NEW t \in Threads, NEW k \in Keys, DestroyMemory(t, k) PROVE CountTypes'
  <2>1. live' = [live EXCEPT ![k] = FALSE] /\ UNCHANGED <<generation, memoryCache, requests>>
    BY <1>3 DEF DestroyMemory
  <2> QED
    BY <2>1 DEF CountTypes, SlotInv, SlotTypes
<1>4. CASE \E t \in Threads, keys \in Arguments : Compute(t, keys)
  <2>1. requests < MaxRequests /\ requests' = requests + 1 /\ UNCHANGED <<memories, memoryCache>>
    BY <1>4 DEF Compute
  <2> QED
    BY <2>1, Bounds DEF CountTypes
<1>5. ASSUME NEW t \in Threads, CallStep(t) PROVE CountTypes'
  <2>1. UNCHANGED <<memories, requests>>
    BY <1>5 DEF CallStep, FreeLock, FreeUnknown, FreeKnown, FreeRemote, Lock, KnownSlot, NewSlot,
                SlotsDone, SendInvalid, SendValid, WriteTooLarge, Write, ReceiveInvalid,
                ReceiveValid, ReadFirst, StopSpinning, ReadRest, Receive, Return
  <2>2. CASE NewSlot(t)
    BY <2>1, <2>2, CachesEntry DEF CountTypes
  <2>3. CASE FreeKnown(t)
    <3> DEFINE s == memoryIdToSlot[request[t].keys[1]]
    <3>1. request[t].keys[1] \in DOMAIN memoryIdToSlot
          /\ memoryCache' = [memoryCache EXCEPT ![s + 1] = Invalid]
      BY <2>3 DEF FreeKnown
    <3>2. s \in Nat /\ s < Len(memoryCache) /\ Len(memoryCache) \in Nat
      BY <3>1 DEF SlotInv, SlotTypes, Partition
    <3>3. s + 1 \in 1..Len(memoryCache)
      BY <3>2
    <3>4. memoryCache' \in Seq(Entries)
      BY <3>1, <3>3, ExceptSeq DEF CountTypes, Entries
    <3> QED
      BY <2>1, <3>4 DEF CountTypes
  <2>4. CASE UNCHANGED memoryCache
    BY <1>0, <2>1, <2>4
  <2> QED
    BY <1>5, <2>2, <2>3, <2>4
       DEF CallStep, FreeLock, FreeUnknown, FreeRemote, Lock, KnownSlot, SlotsDone, SendInvalid,
           SendValid, WriteTooLarge, Write, ReceiveInvalid, ReceiveValid, ReadFirst, StopSpinning,
           ReadRest, Receive, Return
<1>6. CASE DriverDies \/ DeathStep \/ ReleaseBurst \/ DestructorStep
  BY <1>0, <1>6 DEF DriverDies, DeathStep, InvalidateSender, InvalidateReceiver, UnblockReceiver,
                    ReleaseBurst, DestructorStep, Teardown, TeardownChannel, UnblockWorker, Join
<1>7. CASE DriverStep
  BY <1>0, <1>7 DEF DriverStep, WorkerLoop, WorkerReceive, WorkerReadFirst, WorkerStopSpinning,
                    WorkerReadRest, WorkerCheckPacket, WorkerNoPacket, WorkerEnsure,
                    WorkerGetMemories, WorkerAddEntries, WorkerExecute, WorkerSend
<1> QED
  BY <1>1, <1>2, <1>3, <1>4, <1>5, <1>6, <1>7 DEF Next, Environment

----------------------------------------------------------------------------
(* The queues                                                              *)

\* A packet is a sequence of n elements.
LEMMA PacketType ==
  ASSUME NEW b \in [id : Nat, slots : Seq(Nat), status : {"ok", "error"}], NEW n \in Nat
  PROVE  Packet(b, n) \in Seq(Elements) /\ Len(Packet(b, n)) = n
<1>1. \A p \in 1..n : [body |-> b, size |-> n] \in Elements
  BY DEF Elements
<1>2. Packet(b, n) \in [1..n -> Elements]
  BY <1>1 DEF Packet
<1> QED
  BY <1>2, SeqDef

\* So is the dummy datum.
LEMMA DummyType == Dummy \in Elements
<1>1. <<>> \in Seq(Nat)
  BY EmptySeq
<1> QED
  BY <1>1 DEF Dummy, Body, Elements

\* A packet that was read has a first element.
LEMMA FirstElement == QueueTypes /\ packet # <<>> => packet[1] \in Elements
<1> SUFFICES ASSUME QueueTypes, packet # <<>> PROVE packet[1] \in Elements
  OBVIOUS
<1>1. packet \in Seq(Elements)
  BY DEF QueueTypes
<1>2. 1 \in 1..Len(packet)
  BY <1>1, EmptySeq
<1> QED
  BY <1>1, <1>2, ElementOfSeq

\* What sendPacket of the results leaves in the queue fits.
LEMMA ResultFits ==
  ASSUME QueueTypes, NEW status \in {"ok", "error"}, NEW n \in Nat, SendResult(status, n)
  PROVE  resultChannel' \in Seq(Elements) /\ Len(resultChannel') <= Capacity
<1> DEFINE full == Packet(Body(RequestId, <<>>, status), n)
           short == Packet(Body(RequestId, <<>>, "error"), 2)
           result == IF Room(resultChannel, n) THEN full ELSE short
<1>1. RequestId \in Nat
  BY FirstElement DEF RequestId, Elements
<1>2. <<>> \in Seq(Nat)
  BY EmptySeq
<1>3. /\ Body(RequestId, <<>>, status) \in [id : Nat, slots : Seq(Nat), status : {"ok", "error"}]
      /\ Body(RequestId, <<>>, "error") \in [id : Nat, slots : Seq(Nat), status : {"ok", "error"}]
  BY <1>1, <1>2 DEF Body
<1>4. result \in Seq(Elements)
  BY <1>3, PacketType
<1>5. resultChannel' = IF Room(resultChannel, Len(result)) THEN resultChannel \o result
                                                           ELSE resultChannel
  BY DEF SendResult
<1>6. CASE Room(resultChannel, Len(result))
  BY <1>4, <1>5, <1>6, ConcatProperties DEF QueueTypes, Room
<1>7. CASE ~Room(resultChannel, Len(result))
  BY <1>5, <1>7 DEF QueueTypes
<1> QED
  BY <1>6, <1>7

\* Reading leaves no more in a queue than there was, and yields elements.
LEMMA ReadTypes ==
  ASSUME NEW q \in Seq(Elements), q # <<>>, Len(q) <= Capacity
  PROVE  /\ <<Head(q)>> \in Seq(Elements)
         /\ Tail(q) \in Seq(Elements) /\ Len(Tail(q)) <= Capacity
BY HeadTailProperties, Bounds

\* The runtime's side of the queues.
LEMMA CallsKeepQueues ==
  ASSUME SlotInv, QueueTypes, NEW t \in Threads, CallStep(t) PROVE QueueTypes'
<1> USE DEF callerVars, channels, driver, workerVars, others
<1>0. UNCHANGED <<packet, worker>>
  BY DEF CallStep, FreeLock, FreeUnknown, FreeKnown, FreeRemote, Lock, KnownSlot, NewSlot,
         SlotsDone, SendInvalid, SendValid, WriteTooLarge, Write, ReceiveInvalid,
         ReceiveValid, ReadFirst, StopSpinning, ReadRest, Receive
<1>1. ASSUME NEW n \in RequestSizes, Write(t, n) PROVE QueueTypes'
  <2> DEFINE b == Body(request[t].id, request[t].slots, "ok")
  <2>1. b \in [id : Nat, slots : Seq(Nat), status : {"ok", "error"}]
    BY DEF SlotInv, SlotTypes, Body
  <2>2. Packet(b, n) \in Seq(Elements) /\ Len(Packet(b, n)) = n /\ n \in Nat
    BY <2>1, PacketType, Bounds
  <2>3. /\ requestChannel' = requestChannel \o Packet(b, n) /\ Len(requestChannel) + n <= Capacity
        /\ UNCHANGED <<received, resultChannel>>
    BY <1>1 DEF Write, Room
  <2> QED
    BY <1>0, <2>2, <2>3, ConcatProperties DEF QueueTypes
<1>2. CASE ReadFirst(t)
  <2>1. /\ resultChannel # <<>> /\ received' = <<Head(resultChannel)>>
        /\ resultChannel' = Tail(resultChannel) /\ UNCHANGED requestChannel
    BY <1>2 DEF ReadFirst
  <2> QED
    BY <1>0, <2>1, ReadTypes DEF QueueTypes
<1>3. CASE StopSpinning(t)
  <2>1. received' = <<>> /\ UNCHANGED channels
    BY <1>3 DEF StopSpinning
  <2> QED
    BY <1>0, <2>1, EmptySeq DEF QueueTypes
<1>4. CASE ReadRest(t)
  <2>1. received' = received \o resultChannel /\ resultChannel' = <<>> /\ UNCHANGED requestChannel
    BY <1>4 DEF ReadRest
  <2>2. <<>> \in Seq(Elements) /\ Len(<<>>) = 0 /\ received' \in Seq(Elements)
    BY <2>1, EmptySeq, ConcatProperties DEF QueueTypes
  <2> QED
    BY <1>0, <2>1, <2>2, Bounds DEF QueueTypes
<1>5. CASE UNCHANGED <<received, channels>>
  BY <1>0, <1>5 DEF QueueTypes
<1> QED
  BY <1>1, <1>2, <1>3, <1>4, <1>5
     DEF CallStep, FreeLock, FreeUnknown, FreeKnown, FreeRemote, Lock, KnownSlot, NewSlot,
         SlotsDone, SendInvalid, SendValid, WriteTooLarge, ReceiveInvalid, ReceiveValid, Receive,
         Return

\* The driver's side of the queues.
LEMMA DriverKeepsQueues == ASSUME QueueTypes, DriverStep PROVE QueueTypes'
<1> USE DEF channels, callerVars, runtime, bystanders, history, WorkerStep
<1>0. received' = received
  BY DEF DriverStep, WorkerLoop, WorkerReceive, WorkerReadFirst, WorkerStopSpinning,
         WorkerReadRest, WorkerCheckPacket, WorkerNoPacket, WorkerEnsure,
         WorkerGetMemories, WorkerAddEntries, WorkerExecute, WorkerSend
<1>1. CASE WorkerLoop \/ WorkerStopSpinning \/ WorkerEnsure \/ WorkerGetMemories
             \/ WorkerAddEntries \/ WorkerExecute
  <2>1. UNCHANGED <<channels, packet>> /\ (worker' \in Serving => worker \in Serving)
    BY <1>1 DEF Serving, WorkerLoop, WorkerStopSpinning, WorkerEnsure, WorkerGetMemories,
                WorkerAddEntries, WorkerExecute
  <2> QED
    BY <1>0, <2>1 DEF QueueTypes
<1>2. CASE WorkerReceive
  <2>1. packet' = <<>> /\ UNCHANGED channels /\ worker' \notin Serving
    BY <1>2 DEF WorkerReceive, Serving
  <2> QED
    BY <1>0, <2>1, EmptySeq DEF QueueTypes
<1>3. CASE WorkerReadFirst
  <2>1. /\ requestChannel # <<>> /\ packet' = <<Head(requestChannel)>>
        /\ requestChannel' = Tail(requestChannel) /\ UNCHANGED resultChannel
        /\ worker' \notin Serving
    BY <1>3 DEF WorkerReadFirst, Serving
  <2> QED
    BY <1>0, <2>1, ReadTypes DEF QueueTypes
<1>4. CASE WorkerReadRest
  <2>1. /\ packet' = packet \o requestChannel /\ requestChannel' = <<>>
        /\ UNCHANGED resultChannel /\ worker' \notin Serving
    BY <1>4 DEF WorkerReadRest, Serving
  <2>2. <<>> \in Seq(Elements) /\ Len(<<>>) = 0 /\ packet' \in Seq(Elements)
    BY <2>1, EmptySeq, ConcatProperties DEF QueueTypes
  <2> QED
    BY <1>0, <2>1, <2>2, Bounds DEF QueueTypes
<1>5. CASE WorkerCheckPacket
  <2>1. UNCHANGED <<channels, packet>> /\ (worker' \in Serving => packet # <<>>)
    BY <1>5 DEF WorkerCheckPacket, WellFormed, Serving
  <2> QED
    BY <1>0, <2>1 DEF QueueTypes
<1>6. CASE WorkerNoPacket \/ \E n \in ResultSizes : WorkerSend(n)
  <2>1. UNCHANGED <<requestChannel, packet>> /\ worker' \notin Serving
    BY <1>6 DEF WorkerNoPacket, WorkerSend, Serving
  <2>2. resultChannel' \in Seq(Elements) /\ Len(resultChannel') <= Capacity
    <3>1. \/ UNCHANGED resultChannel
          \/ \E n \in Nat, status \in {"ok", "error"} : SendResult(status, n)
      BY <1>6, Bounds DEF WorkerNoPacket, WorkerSend
    <3>2. CASE UNCHANGED resultChannel
      BY <3>2 DEF QueueTypes
    <3> QED
      BY <3>1, <3>2, ResultFits
  <2> QED
    BY <1>0, <2>1, <2>2 DEF QueueTypes
<1> QED
  BY <1>1, <1>2, <1>3, <1>4, <1>5, <1>6 DEF DriverStep

\* invalidate() of either channel writes its dummy datum when there is room.
LEMMA DummyKeepsQueues ==
  ASSUME QueueTypes, DeathStep \/ DestructorStep PROVE QueueTypes'
<1> USE DEF channels, callerVars, runtime, driver, workerVars, history
<1>0. UNCHANGED <<received, packet, worker>>
  BY DEF DeathStep, InvalidateSender, InvalidateReceiver, UnblockReceiver,
         DestructorStep, Teardown, TeardownChannel, UnblockWorker, Join
<1>1. ASSUME NEW q \in Seq(Elements), Room(q, 1)
      PROVE  Append(q, Dummy) \in Seq(Elements) /\ Len(Append(q, Dummy)) <= Capacity
  BY <1>1, DummyType, AppendProperties DEF Room
<1>2. CASE UnblockReceiver
  <2>1. /\ Room(resultChannel, 1) /\ resultChannel' = Append(resultChannel, Dummy)
        /\ UNCHANGED requestChannel
    BY <1>2 DEF UnblockReceiver
  <2> QED
    BY <1>0, <1>1, <2>1 DEF QueueTypes
<1>3. CASE UnblockWorker
  <2>1. /\ Room(requestChannel, 1) /\ requestChannel' = Append(requestChannel, Dummy)
        /\ UNCHANGED resultChannel
    BY <1>3 DEF UnblockWorker
  <2> QED
    BY <1>0, <1>1, <2>1 DEF QueueTypes
<1>4. CASE UNCHANGED channels
  BY <1>0, <1>4 DEF QueueTypes
<1> QED
  BY <1>2, <1>3, <1>4 DEF DeathStep, InvalidateSender, InvalidateReceiver, DestructorStep,
                          Teardown, TeardownChannel, Join

\* No step overfills a queue, or puts anything else than elements into it.
LEMMA QueuesNext == SlotInv /\ QueueTypes /\ [Next]_vars => QueueTypes'
<1> SUFFICES ASSUME SlotInv, QueueTypes, [Next]_vars PROVE QueueTypes'
  OBVIOUS
<1> USE DEF channels, callerVars, runtime, driver, workerVars, history
<1>1. CASE UNCHANGED <<received, packet, worker, channels>>
  BY <1>1 DEF QueueTypes
<1>2. CASE UNCHANGED vars
  BY <1>1, <1>2 DEF vars
<1>3. CASE \/ \E k \in Keys : CreateMemory(k)
           \/ \E t \in Threads, k \in Keys : DestroyMemory(t, k)
           \/ \E t \in Threads, keys \in Arguments : Compute(t, keys)
           \/ DriverDies \/ ReleaseBurst
  BY <1>1, <1>3 DEF CreateMemory, DestroyMemory, Compute, DriverDies, ReleaseBurst
<1> QED
  BY <1>2, <1>3, CallsKeepQueues, DriverKeepsQueues, DummyKeepsQueues DEF Next, Environment

----------------------------------------------------------------------------
(* The driver's cache                                                      *)

\* The slots of the request that is served.
LEMMA SlotsServed ==
  ASSUME QueueTypes, worker \in Serving
  PROVE  /\ RequestSlots \in Seq(Nat)
         /\ \A j \in DOMAIN RequestSlots : RequestSlots[j] \in Nat
         /\ UnknownSlots \subseteq Nat
<1>1. packet # <<>>
  BY DEF QueueTypes
<1>2. RequestSlots \in Seq(Nat)
  BY <1>1, FirstElement DEF RequestSlots, Elements
<1>3. \A j \in DOMAIN RequestSlots : RequestSlots[j] \in Nat
  BY <1>2
<1> QED
  BY <1>2, <1>3 DEF UnknownSlots

\* Adding entries to a cache.
LEMMA ExtendType == ASSUME NEW f, NEW g, IsEntryMap(f), IsEntryMap(g) PROVE IsEntryMap(Extend(f, g))
BY DEF IsEntryMap, Extend

\* The entries that getMemories answers and that addCacheEntry keeps.
LEMMA CachesNext == CountTypes /\ QueueTypes /\ CacheTypes /\ [Next]_vars => CacheTypes'
<1> SUFFICES ASSUME CountTypes, QueueTypes, CacheTypes, [Next]_vars PROVE CacheTypes'
  OBVIOUS
<1> USE DEF runtime, driver, workerVars, others, history, WorkerStep, Serving
<1>1. CASE UNCHANGED <<fetched, serverCache>>
  BY <1>1 DEF CacheTypes, IsEntryMap
<1>2. ASSUME NEW t \in Threads, FreeRemote(t) PROVE CacheTypes'
  <2>1. fetched' = fetched /\ serverCache' \in {RemoveCacheEntry(request[t].slots[1]), serverCache}
    BY <1>2 DEF FreeRemote
  <2> QED
    BY <2>1 DEF CacheTypes, IsEntryMap, RemoveCacheEntry
<1>3. CASE WorkerGetMemories
  <2>1. UnknownSlots \subseteq Nat
    BY <1>3, SlotsServed DEF WorkerGetMemories
  <2>2. \A s \in UnknownSlots : RuntimeMemory(s) \in Entries
    BY <2>1 DEF CountTypes, RuntimeMemory, Entries
  <2>3. DOMAIN <<>> = {}
    OBVIOUS
  <2>4. IsEntryMap(<<>>)
    BY <2>3, Zenon DEF IsEntryMap
  <2>5. IsEntryMap([s \in UnknownSlots |-> RuntimeMemory(s)])
    BY <2>1, <2>2 DEF IsEntryMap
  <2>6. /\ fetched' = [s \in UnknownSlots |-> RuntimeMemory(s)] \/ fetched' = <<>>
        /\ serverCache' = serverCache
    BY <1>3 DEF WorkerGetMemories
  <2> QED
    BY <2>4, <2>5, <2>6 DEF CacheTypes, IsEntryMap
<1>4. CASE WorkerAddEntries
  BY <1>4, ExtendType DEF WorkerAddEntries, CacheTypes, IsEntryMap
<1>5. CASE WorkerExecute
  <2> DEFINE missing == [s \in UnknownSlots |-> Invalid]
  <2>1. fetched' = fetched /\ serverCache' = Extend(serverCache, missing)
    BY <1>5 DEF WorkerExecute
  <2>2. UnknownSlots \subseteq Nat
    BY <1>5, SlotsServed DEF WorkerExecute
  <2>3. IsEntryMap(missing)
    BY <2>2 DEF IsEntryMap, Entries
  <2>4. IsEntryMap(Extend(serverCache, missing))
    BY <2>3, ExtendType DEF CacheTypes
  <2> QED
    BY <2>1, <2>4 DEF CacheTypes, IsEntryMap
<1>6. CASE \/ \E k \in Keys : CreateMemory(k)
           \/ \E t \in Threads, k \in Keys : DestroyMemory(t, k)
           \/ \E t \in Threads, keys \in Arguments : Compute(t, keys)
           \/ DriverDies \/ ReleaseBurst \/ DeathStep \/ DestructorStep
  BY <1>1, <1>6 DEF CreateMemory, DestroyMemory, Compute, DriverDies, ReleaseBurst, DeathStep,
                    InvalidateSender, InvalidateReceiver, UnblockReceiver, DestructorStep,
                    Teardown, TeardownChannel, UnblockWorker, Join
<1>7. ASSUME NEW t \in Threads, CallStep(t) PROVE CacheTypes'
  BY <1>1, <1>2, <1>7
     DEF CallStep, FreeLock, FreeUnknown, FreeKnown, Lock, KnownSlot, NewSlot, SlotsDone,
         SendInvalid, SendValid, WriteTooLarge, Write, ReceiveInvalid, ReceiveValid, ReadFirst,
         StopSpinning, ReadRest, Receive
<1>8. CASE DriverStep
  BY <1>1, <1>3, <1>4, <1>5, <1>8
     DEF DriverStep, WorkerLoop, WorkerReceive, WorkerReadFirst, WorkerStopSpinning,
         WorkerReadRest, WorkerCheckPacket, WorkerNoPacket, WorkerEnsure, WorkerSend
<1> QED
  BY <1>1, <1>6, <1>7, <1>8 DEF Next, Environment, vars

----------------------------------------------------------------------------
(* What calls are given, run on and return                                 *)

\* A call returns a status that the driver sent, or one of its own.
LEMMA ReturnsStatus ==
  ASSUME SlotInv, QueueTypes, HistoryTypes, NEW t \in Threads, NEW from, NEW of \in Nat,
         NEW what \in {"ok", "error", "failed", "fallback"}, Return(t, from, what, of)
  PROVE  HistoryTypes'
BY DEF Return, HistoryTypes, Ids

\* The lists of memories of each call keep their types.
LEMMA HistoryNext ==
  SlotInv /\ CountTypes /\ QueueTypes /\ CacheTypes /\ HistoryTypes /\ [Next]_vars => HistoryTypes'
<1> SUFFICES ASSUME SlotInv, CountTypes, QueueTypes, CacheTypes, HistoryTypes, [Next]_vars
             PROVE  HistoryTypes'
  OBVIOUS
<1>1. CASE UNCHANGED history
  BY <1>1 DEF history, HistoryTypes
<1>2. ASSUME NEW t \in Threads, NEW keys \in Arguments, Compute(t, keys) PROVE HistoryTypes'
  <2> DEFINE list == [j \in DOMAIN keys |-> MemoryAt(keys[j])]
  <2>1. keys \in Seq(Keys) /\ \A j \in DOMAIN keys : keys[j] \in Keys /\ live[keys[j]]
    <3>1. keys \in Seq(Keys)
      BY BurstAssumption
    <3>2. \A j \in DOMAIN keys : live[keys[j]]
      BY <1>2 DEF Compute
    <3> QED
      BY <3>1, <3>2
  <2>2. \A j \in DOMAIN keys : MemoryAt(keys[j]) \in Memories
    BY <2>1 DEF CountTypes, MemoryAt, Memories
  <2>3. DOMAIN keys = 1..Len(keys) /\ Len(keys) \in Nat
    BY <2>1
  <2>4. list \in [1..Len(keys) -> Memories]
    BY <2>2, <2>3
  <2>5. list \in Seq(Memories)
    BY <2>3, <2>4, SeqDef
  <2>6. named' = [named EXCEPT ![requests + 1] = list] /\ UNCHANGED <<executed, outcome, answer>>
    BY <1>2 DEF Compute
  <2> QED
    BY <2>5, <2>6 DEF HistoryTypes
<1>3. ASSUME NEW t \in Threads, CallStep(t) PROVE HistoryTypes'
  <2>1. CASE Receive(t)
    <3>1. CASE WellFormed(received)
      <4>1. received \in Seq(Elements) /\ received # <<>>
        BY <3>1 DEF QueueTypes, WellFormed
      <4>2. received[1] \in Elements
        BY <4>1, EmptySeq, ElementOfSeq
      <4>3. received[1].body.status \in {"ok", "error"} /\ received[1].body.id \in Nat
        BY <4>2 DEF Elements
      <4> QED
        BY <2>1, <3>1, <4>3, ReturnsStatus DEF Receive
    <3>2. CASE ~WellFormed(received)
      BY <2>1, <3>2, ReturnsStatus DEF Receive, LostIsFailed
    <3> QED
      BY <3>1, <3>2
  <2>2. CASE ReceiveInvalid(t)
    BY <2>2, ReturnsStatus DEF ReceiveInvalid, LostIsFailed
  <2>3. CASE SendInvalid(t)
    BY <2>3, ReturnsStatus DEF SendInvalid
  <2>4. ASSUME NEW n \in RequestSizes, WriteTooLarge(t, n) PROVE HistoryTypes'
    BY <2>4, ReturnsStatus DEF WriteTooLarge
  <2> QED
    BY <1>1, <1>3, <2>1, <2>2, <2>3, <2>4
       DEF CallStep, FreeLock, FreeUnknown, FreeKnown, FreeRemote, Lock, KnownSlot, NewSlot,
           SlotsDone, SendValid, Write, ReceiveValid, ReadFirst, StopSpinning, ReadRest
<1>4. CASE WorkerExecute
  <2> DEFINE missing == [s \in UnknownSlots |-> Invalid]
             cache == Extend(serverCache, missing)
             pools == [j \in DOMAIN RequestSlots |-> cache[RequestSlots[j]]]
  <2>1. executed' = [executed EXCEPT ![RequestId] = Append(@, pools)]
        /\ UNCHANGED <<named, outcome, answer>>
    BY <1>4 DEF WorkerExecute
  <2>2. /\ RequestSlots \in Seq(Nat) /\ UnknownSlots \subseteq Nat
        /\ \A j \in DOMAIN RequestSlots : RequestSlots[j] \in Nat
    BY <1>4, SlotsServed DEF WorkerExecute, WorkerStep, Serving
  <2>3. IsEntryMap(missing)
    BY <2>2 DEF IsEntryMap, Entries
  <2>4. IsEntryMap(cache)
    BY <2>3, ExtendType DEF CacheTypes
  <2>5. \A j \in DOMAIN RequestSlots : RequestSlots[j] \in DOMAIN cache
    BY DEF UnknownSlots, CacheEntryPresent, Extend
  <2>6. \A j \in DOMAIN RequestSlots : cache[RequestSlots[j]] \in Entries
    BY <2>4, <2>5 DEF IsEntryMap
  <2>7. DOMAIN RequestSlots = 1..Len(RequestSlots) /\ Len(RequestSlots) \in Nat
    BY <2>2
  <2>8. pools \in Seq(Entries)
    <3>1. pools \in [1..Len(RequestSlots) -> Entries]
      BY <2>6, <2>7
    <3> QED
      BY <2>7, <3>1, SeqDef
  <2>9. \A i \in Ids : Append(executed[i], pools) \in Seq(Seq(Entries))
    BY <2>8, AppendProperties DEF HistoryTypes
  <2> HIDE DEF pools
  <2> QED
    BY <2>1, <2>9 DEF HistoryTypes
<1>5. CASE DriverStep
  BY <1>1, <1>4, <1>5
     DEF DriverStep, WorkerLoop, WorkerReceive, WorkerReadFirst, WorkerStopSpinning,
         WorkerReadRest, WorkerCheckPacket, WorkerNoPacket, WorkerEnsure, WorkerGetMemories,
         WorkerAddEntries, WorkerSend
<1>6. CASE \/ \E k \in Keys : CreateMemory(k)
           \/ \E t \in Threads, k \in Keys : DestroyMemory(t, k)
           \/ DriverDies \/ ReleaseBurst \/ DeathStep \/ DestructorStep
  BY <1>1, <1>6 DEF CreateMemory, DestroyMemory, DriverDies, ReleaseBurst, DeathStep,
                    InvalidateSender, InvalidateReceiver, UnblockReceiver, DestructorStep,
                    Teardown, TeardownChannel, UnblockWorker, Join
<1> QED
  BY <1>1, <1>2, <1>3, <1>5, <1>6 DEF Next, Environment, vars

----------------------------------------------------------------------------
\* Every variable of the burst keeps its type, and no queue ever holds more
\* than kExecutionBurstChannelLength elements.
THEOREM Types == Spec => []TypeOK
<1>1. TypeInv /\ [Next]_vars => TypeInv'
  BY SlotInvNext, ModeNext, CountsNext, FlagsNext, QueuesNext, CachesNext, HistoryNext DEF TypeInv
<1> QED
  BY <1>1, TypeInit, TypeInvImplies, PTL DEF Spec

----------------------------------------------------------------------------
(***************************************************************************)
(* How often a burst runs a request: once, or not at all if the caller     *)
(* falls back.  No request is numbered in the code: what is proved here is *)
(* that the queues are empty at the right moments.                         *)
(***************************************************************************)

\* The elements of a queue or of a packet.
Elems(q) == {q[k] : k \in 1..Len(q)}

Unsent == {"lock", "slots", "send", "write"}
Computing == Unsent \cup Waiting \cup {"readRest", "received"}
Carrying == {"readRest", "read"} \cup Serving

----------------------------------------------------------------------------
(* Elements of sequences                                                   *)

\* Elements are what their positions hold.
LEMMA ElemsOf == ASSUME NEW S, NEW q \in Seq(S)
                 PROVE  Elems(q) \subseteq S /\ (q # <<>> => q[1] \in Elems(q) /\ Head(q) = q[1])
<1>1. \A k \in 1..Len(q) : q[k] \in S
  BY ElementOfSeq
<1>2. q # <<>> => 1 \in 1..Len(q)
  BY EmptySeq
<1> QED
  BY <1>1, <1>2 DEF Elems

\* Reading an element takes it out.
LEMMA TailElems == ASSUME NEW S, NEW q \in Seq(S), q # <<>>
                   PROVE  Elems(Tail(q)) \subseteq Elems(q)
<1>1. /\ Len(Tail(q)) = Len(q) - 1 /\ Len(q) \in Nat
      /\ \A k \in 1..Len(Tail(q)) : Tail(q)[k] = q[k + 1]
  BY HeadTailProperties
<1>2. \A k \in 1..Len(Tail(q)) : k + 1 \in 1..Len(q)
  BY <1>1
<1> QED
  BY <1>1, <1>2 DEF Elems

\* Reading all that is there, or writing a packet, adds its elements.
LEMMA ConcatElems == ASSUME NEW S, NEW q \in Seq(S), NEW r \in Seq(S)
                     PROVE  /\ Elems(q \o r) = Elems(q) \cup Elems(r)
                            /\ q # <<>> => q \o r # <<>> /\ (q \o r)[1] = q[1]
                            /\ q = <<>> => q \o r = r
<1>1. /\ q \o r \in Seq(S) /\ Len(q \o r) = Len(q) + Len(r) /\ Len(q) \in Nat /\ Len(r) \in Nat
      /\ \A k \in 1..(Len(q) + Len(r)) : (q \o r)[k] = IF k <= Len(q) THEN q[k] ELSE r[k - Len(q)]
  BY ConcatProperties
<1>2. Elems(q \o r) \subseteq Elems(q) \cup Elems(r)
  BY <1>1 DEF Elems
<1>3. \A k \in 1..Len(q) : k \in 1..Len(q \o r) /\ (q \o r)[k] = q[k]
  BY <1>1
<1>4. \A k \in 1..Len(r) : Len(q) + k \in 1..Len(q \o r) /\ (q \o r)[Len(q) + k] = r[k]
  BY <1>1
<1>5. Elems(q) \cup Elems(r) \subseteq Elems(q \o r)
  BY <1>3, <1>4 DEF Elems
<1>6. q # <<>> => 1 \in 1..Len(q)
  BY EmptySeq
<1>7. q # <<>> => q \o r # <<>> /\ (q \o r)[1] = q[1]
  BY <1>1, <1>3, <1>6, EmptySeq
<1>8. q = <<>> => q \o r = r
  OBVIOUS
<1> QED
  BY <1>2, <1>5, <1>7, <1>8

\* So does writing the dummy datum.
LEMMA AppendElems == ASSUME NEW S, NEW q \in Seq(S), NEW x \in S
                     PROVE  Elems(Append(q, x)) = Elems(q) \cup {x}
<1>1. /\ Len(Append(q, x)) = Len(q) + 1 /\ Len(q) \in Nat
      /\ \A k \in 1..Len(q) : Append(q, x)[k] = q[k]
      /\ Append(q, x)[Len(q) + 1] = x
  BY AppendProperties
<1> QED
  BY <1>1 DEF Elems

\* Nothing is in an empty queue, and all elements of a packet are alike.
LEMMA NoElems == Elems(<<>>) = {}
BY DEF Elems

LEMMA PacketElems ==
  ASSUME NEW b \in [id : Nat, slots : Seq(Nat), status : {"ok", "error"}], NEW n \in Nat
  PROVE  \A e \in Elems(Packet(b, n)) : e.body = b /\ e.size = n
<1>1. Len(Packet(b, n)) = n
  BY PacketType
<1> QED
  BY <1>1 DEF Elems, Packet

----------------------------------------------------------------------------
(* Who moves                                                               *)

\* A call that is under way keeps its number and its keys, and goes on.
LEMMA CallMoves ==
  ASSUME SlotTypes, NEW t \in Threads, CallStep(t)
  PROVE  /\ pc[t] \notin {"idle", "gone"} /\ pc'[t] # "gone"
         /\ \A u \in Threads \ {t} : pc'[u] = pc[u] /\ request'[u] = request[u]
         /\ request'[t].id = request[t].id /\ request'[t].keys = request[t].keys
         /\ pc'[t] \in Computing => pc[t] \in Computing
         /\ pc'[t] \in Unsent => pc[t] \in Unsent
         /\ UNCHANGED <<memories, death, senderValid, receiverValid, alive, workerVars,
                         teardownVars, requests, named, executed>>
<1> USE DEF others, driver, validVars, history, Step
<1>1. /\ pc[t] \notin {"idle", "gone"} /\ pc'[t] # "gone"
      /\ \A u \in Threads \ {t} : pc'[u] = pc[u]
      /\ pc'[t] \in Computing => pc[t] \in Computing
      /\ pc'[t] \in Unsent => pc[t] \in Unsent
  <2> USE DEF SlotTypes, Computing, Unsent, Waiting
  <2>1. CASE FreeLock(t) \/ FreeUnknown(t) \/ FreeKnown(t) \/ FreeRemote(t)
    BY <2>1 DEF FreeLock, FreeUnknown, FreeKnown, FreeRemote
  <2>2. CASE Lock(t) \/ KnownSlot(t) \/ NewSlot(t) \/ SlotsDone(t)
    BY <2>2 DEF Lock, KnownSlot, NewSlot, SlotsDone
  <2>3. CASE \/ SendInvalid(t) \/ SendValid(t)
             \/ \E n \in RequestSizes : WriteTooLarge(t, n) \/ Write(t, n)
    BY <2>3 DEF SendInvalid, SendValid, WriteTooLarge, Write, Return
  <2>4. CASE \/ ReceiveInvalid(t) \/ ReceiveValid(t)
             \/ ReadFirst(t) \/ StopSpinning(t) \/ ReadRest(t) \/ Receive(t)
    BY <2>4 DEF ReceiveInvalid, ReceiveValid, ReadFirst, StopSpinning, ReadRest, Receive, Return
  <2> QED
    BY <2>1, <2>2, <2>3, <2>4 DEF CallStep
<1>2. /\ \A u \in Threads \ {t} : request'[u] = request[u]
      /\ request'[t].id = request[t].id /\ request'[t].keys = request[t].keys
  <2>1. request' = request \/ \E slots : request' = [request EXCEPT ![t] = WithSlots(@, slots)]
    BY DEF CallStep, FreeLock, FreeUnknown, FreeKnown, FreeRemote, Lock, KnownSlot, NewSlot,
           AddSlot, SlotsDone, SendInvalid, SendValid, WriteTooLarge, Write, ReceiveInvalid,
           ReceiveValid, ReadFirst, StopSpinning, ReadRest, Receive
  <2> QED
    BY <2>1 DEF SlotTypes, WithSlots
<1>3. UNCHANGED <<memories, death, senderValid, receiverValid, alive, workerVars, teardownVars,
                   requests, named, executed>>
  BY DEF CallStep, FreeLock, FreeUnknown, FreeKnown, FreeRemote, Lock, KnownSlot, NewSlot,
         SlotsDone, SendInvalid, SendValid, WriteTooLarge, Write, ReceiveInvalid, ReceiveValid,
         ReadFirst, StopSpinning, ReadRest, Receive, Return
<1> QED
  BY <1>1, <1>2, <1>3

\* The driver's thread leaves the runtime alone.
LEMMA WorkerMoves ==
  ASSUME DriverStep
  PROVE  UNCHANGED <<bystanders, requests, named, outcome, answer>> /\ alive
BY DEF DriverStep, WorkerLoop, WorkerReceive, WorkerReadFirst, WorkerStopSpinning,
       WorkerReadRest, WorkerCheckPacket, WorkerNoPacket, WorkerEnsure, WorkerGetMemories,
       WorkerAddEntries, WorkerExecute, WorkerSend, history, WorkerStep

\* Memories come and go, the driver dies, and the burst is released: nothing
\* is sent, executed or returned.
LEMMA OthersMove ==
  ASSUME SlotTypes,
         \/ \E k \in Keys : CreateMemory(k)
         \/ \E t \in Threads, k \in Keys : DestroyMemory(t, k)
         \/ DriverDies \/ ReleaseBurst \/ DeathStep \/ DestructorStep \/ UNCHANGED vars
  PROVE  /\ \A u \in Threads : \/ pc'[u] = pc[u] /\ request'[u] = request[u]
                               \/ pc[u] = "idle" /\ pc'[u] = "freeLock"
                               \/ pc'[u] = "gone" /\ request'[u] = request[u]
         /\ UNCHANGED <<workerVars, serverCache, slotVars, received, history>>
<1> USE DEF SlotTypes, vars, runtime, driver, callerVars
<1>1. CASE \E k \in Keys : CreateMemory(k)
  BY <1>1 DEF CreateMemory
<1>2. CASE \E t \in Threads, k \in Keys : DestroyMemory(t, k)
  BY <1>2 DEF DestroyMemory, Step
<1>3. CASE DriverDies \/ ReleaseBurst
  BY <1>3 DEF DriverDies, ReleaseBurst
<1>4. CASE DeathStep
  BY <1>4 DEF DeathStep, InvalidateSender, InvalidateReceiver, UnblockReceiver
<1>5. CASE DestructorStep
  BY <1>5 DEF DestructorStep, Teardown, TeardownChannel, UnblockWorker, Join
<1>6. CASE UNCHANGED vars
  BY <1>6
<1> QED
  BY <1>1, <1>2, <1>3, <1>4, <1>5, <1>6

----------------------------------------------------------------------------
(***************************************************************************)
(* What is on its way to the driver.  Calls are numbered in the model;     *)
(* a number is given once, and what is in the queue of requests, or has    *)
(* been read by the worker, is a call's request or the dummy datum.        *)
(***************************************************************************)
IsRequest(e) == e = Dummy \/ e.body.id \in 1..requests

InTransit == Elems(requestChannel) \cup Elems(packet)

CallNumbers ==
    /\ \A t \in Threads : pc[t] \in Computing => request[t].id \in 1..requests
    /\ \A t, u \in Threads :
         pc[t] \in Computing /\ pc[u] \in Computing /\ request[t].id = request[u].id => t = u

TransitNumbers == \A e \in InTransit : IsRequest(e)

ServedNumber ==
    worker \in Serving \cup {"sendResult"} => packet # <<>> /\ packet[1].body.id \in 1..requests

NumberInv == CallNumbers /\ TransitNumbers /\ ServedNumber

\* What Write adds to the queue.
LEMMA WriteElems ==
  ASSUME SlotTypes, QueueTypes, NEW t \in Threads, NEW n \in RequestSizes, Write(t, n)
  PROVE  /\ \A e \in Elems(requestChannel') :
              \/ e \in Elems(requestChannel)
              \/ e.body = Body(request[t].id, request[t].slots, "ok") /\ e.size = n
         /\ pc[t] = "write" /\ pc' = [pc EXCEPT ![t] = "receive"]
<1> DEFINE b == Body(request[t].id, request[t].slots, "ok")
<1>1. b \in [id : Nat, slots : Seq(Nat), status : {"ok", "error"}] /\ n \in Nat
  BY Bounds DEF SlotTypes, Body
<1>2. Packet(b, n) \in Seq(Elements) /\ requestChannel \in Seq(Elements)
  BY <1>1, PacketType DEF QueueTypes
<1>3. requestChannel' = requestChannel \o Packet(b, n)
  BY DEF Write
<1>4. Elems(requestChannel') = Elems(requestChannel) \cup Elems(Packet(b, n))
  BY <1>2, <1>3, ConcatElems
<1> QED
  BY <1>1, <1>4, PacketElems DEF Write, Step

\* Only Write and the dummy datum add to what is on its way.
LEMMA TransitNext ==
  ASSUME SlotTypes, QueueTypes, [Next]_vars,
         NEW e \in InTransit', e \notin InTransit, e # Dummy
  PROVE  \E t \in Threads, n \in RequestSizes :
            /\ Write(t, n)
            /\ e.body = Body(request[t].id, request[t].slots, "ok") /\ e.size = n
<1> USE DEF InTransit
<1>1. CASE UNCHANGED <<requestChannel, packet>>
  BY <1>1
<1>2. ASSUME NEW t \in Threads, CallStep(t)
      PROVE  \E u \in Threads, n \in RequestSizes :
               /\ Write(u, n)
               /\ e.body = Body(request[u].id, request[u].slots, "ok") /\ e.size = n
  <2>1. ASSUME NEW n \in RequestSizes, Write(t, n)
        PROVE  e.body = Body(request[t].id, request[t].slots, "ok") /\ e.size = n
    BY <2>1, WriteElems DEF Write, driver, workerVars
  <2>2. CASE UNCHANGED <<requestChannel, packet>>
    BY <1>1, <2>2
  <2> QED
    BY <1>2, <2>1, <2>2
       DEF CallStep, FreeLock, FreeUnknown, FreeKnown, FreeRemote, Lock, KnownSlot, NewSlot,
           SlotsDone, SendInvalid, SendValid, WriteTooLarge, ReceiveInvalid, ReceiveValid,
           ReadFirst, StopSpinning, ReadRest, Receive, others, channels, driver, workerVars
<1>3. CASE DriverStep
  <2> USE DEF channels
  <2>1. CASE WorkerReceive
    BY <2>1, NoElems DEF WorkerReceive
  <2>2. CASE WorkerReadFirst
    <3>1. requestChannel \in Seq(Elements) /\ requestChannel # <<>>
      BY <2>2 DEF QueueTypes, WorkerReadFirst
    <3>2. Elems(<<Head(requestChannel)>>) \subseteq Elems(requestChannel)
      BY <3>1, ElemsOf DEF Elems
    <3> QED
      BY <2>2, <3>1, <3>2, TailElems DEF WorkerReadFirst
  <2>3. CASE WorkerReadRest
    BY <2>3, ConcatElems, NoElems DEF WorkerReadRest, QueueTypes
  <2>4. CASE UNCHANGED <<requestChannel, packet>>
    BY <1>1, <2>4
  <2> QED
    BY <1>3, <2>1, <2>2, <2>3, <2>4
       DEF DriverStep, WorkerLoop, WorkerStopSpinning, WorkerCheckPacket, WorkerNoPacket,
           WorkerEnsure, WorkerGetMemories, WorkerAddEntries, WorkerExecute, WorkerSend
<1>4. CASE DestructorStep
  <2>1. CASE UnblockWorker
    BY <2>1, DummyType, AppendElems DEF UnblockWorker, QueueTypes, workerVars
  <2>2. CASE UNCHANGED <<requestChannel, packet>>
    BY <1>1, <2>2
  <2> QED
    BY <1>4, <2>1, <2>2 DEF DestructorStep, Teardown, TeardownChannel, Join, channels, workerVars
<1>5. CASE \/ UNCHANGED vars \/ DeathStep \/ DriverDies \/ ReleaseBurst
           \/ \E k \in Keys : CreateMemory(k)
           \/ \E t \in Threads, k \in Keys : DestroyMemory(t, k)
           \/ \E t \in Threads, keys \in Arguments : Compute(t, keys)
  BY <1>1, <1>5 DEF vars, DeathStep, InvalidateSender, InvalidateReceiver, UnblockReceiver,
                    DriverDies, ReleaseBurst, CreateMemory, DestroyMemory, Compute, channels,
                    driver, workerVars
<1> QED
  BY <1>2, <1>3, <1>4, <1>5 DEF Next, Environment

\* At first no call has been made.
LEMMA NumberInit == Init => NumberInv
BY NoElems DEF Init, NumberInv, CallNumbers, TransitNumbers, ServedNumber, InTransit, Computing,
               Unsent, Waiting, Serving

\* A number is never used again.
LEMMA NumberNext == TypeInv /\ NumberInv /\ [Next]_vars => NumberInv'
<1> SUFFICES ASSUME TypeInv, NumberInv, [Next]_vars PROVE NumberInv'
  OBVIOUS
<1>1. SlotTypes /\ QueueTypes /\ requests \in Nat
  BY DEF TypeInv, SlotInv, SlotTypes
<1>2. requests' \in {requests, requests + 1}
  <2>1. ASSUME NEW t \in Threads, CallStep(t) PROVE requests' = requests
    BY <1>1, <2>1, CallMoves
  <2>2. CASE \E t \in Threads, keys \in Arguments : Compute(t, keys)
    BY <2>2 DEF Compute
  <2> QED
    BY <1>1, <2>1, <2>2, WorkerMoves, OthersMove DEF Next, Environment, history
<1>3. CallNumbers'
  <2>1. ASSUME \A t \in Threads :
                 pc'[t] \in Computing => pc[t] \in Computing /\ request'[t].id = request[t].id
        PROVE  CallNumbers'
    BY <1>1, <1>2, <2>1 DEF NumberInv, CallNumbers
  <2>2. ASSUME NEW t \in Threads, NEW keys \in Arguments, Compute(t, keys) PROVE CallNumbers'
    <3>1. /\ request'[t].id = requests + 1 /\ requests' = requests + 1
          /\ \A u \in Threads \ {t} : pc'[u] = pc[u] /\ request'[u] = request[u]
      BY <1>1, <2>2 DEF Compute, SlotTypes, Step
    <3> QED
      BY <1>1, <3>1 DEF NumberInv, CallNumbers
  <2>3. ASSUME NEW t \in Threads, CallStep(t) PROVE CallNumbers'
    BY <1>1, <2>1, <2>3, CallMoves
  <2>4. CASE DriverStep
    BY <2>1, <2>4, WorkerMoves DEF bystanders, runtime, callerVars
  <2>5. CASE \/ UNCHANGED vars \/ DeathStep \/ DriverDies \/ ReleaseBurst \/ DestructorStep
             \/ \E k \in Keys : CreateMemory(k)
             \/ \E t \in Threads, k \in Keys : DestroyMemory(t, k)
    BY <1>1, <2>1, <2>5, OthersMove DEF Computing, Unsent, Waiting
  <2> QED
    BY <2>2, <2>3, <2>4, <2>5 DEF Next, Environment
<1>4. TransitNumbers'
  <2> SUFFICES ASSUME NEW e \in InTransit', e # Dummy PROVE e.body.id \in 1..requests'
    BY DEF TransitNumbers, IsRequest, Dummy, Body
  <2>1. CASE e \in InTransit
    BY <1>1, <1>2, <2>1 DEF NumberInv, TransitNumbers, IsRequest
  <2>2. CASE e \notin InTransit
    <3>0. PICK t \in Threads, n \in RequestSizes :
             /\ Write(t, n)
             /\ e.body = Body(request[t].id, request[t].slots, "ok") /\ e.size = n
      BY <1>1, <2>2, TransitNext
    <3>1. pc[t] = "write" /\ e.body.id = request[t].id
      BY <3>0 DEF Write, Step, Body
    <3> QED
      BY <1>1, <1>2, <3>1 DEF NumberInv, CallNumbers, Computing, Unsent
  <2> QED
    BY <2>1, <2>2
<1>5. ServedNumber'
  <2> USE DEF Serving, ServedNumber
  <2>1. ASSUME UNCHANGED <<packet, worker>> \/ worker' \notin Serving \cup {"sendResult"} PROVE ServedNumber'
    BY <1>1, <1>2, <2>1 DEF NumberInv, CallNumbers
  <2>2. CASE DriverStep
    <3>1. CASE WorkerCheckPacket
      <4>1. CASE WellFormed(packet)
        <5>1. packet \in Seq(Elements) /\ packet # <<>> /\ packet[1].size = Len(packet)
          BY <1>1, <4>1 DEF QueueTypes, WellFormed
        <5>2. packet[1] # Dummy
          <6>1. Len(packet) # 0
            BY <5>1, EmptySeq
          <6> QED
            BY <5>1, <6>1 DEF Dummy
        <5>3. IsRequest(packet[1])
          BY <5>1, ElemsOf DEF NumberInv, TransitNumbers, InTransit
        <5> QED
          BY <1>1, <1>2, <3>1, <5>1, <5>2, <5>3 DEF WorkerCheckPacket, IsRequest
      <4>2. CASE ~WellFormed(packet)
        BY <2>1, <3>1, <4>2 DEF WorkerCheckPacket, WorkerStep
      <4> QED
        BY <4>1, <4>2
    <3>2. CASE WorkerEnsure \/ WorkerGetMemories \/ WorkerAddEntries \/ WorkerExecute
      <4>1. packet' = packet /\ worker \in Serving
        BY <3>2 DEF WorkerEnsure, WorkerGetMemories, WorkerAddEntries, WorkerExecute, WorkerStep
      <4> QED
        BY <1>1, <1>2, <4>1 DEF NumberInv
    <3> QED
      BY <2>1, <2>2, <3>1, <3>2
         DEF DriverStep, WorkerLoop, WorkerReceive, WorkerReadFirst, WorkerStopSpinning,
             WorkerReadRest, WorkerNoPacket, WorkerSend, WorkerStep
  <2>3. ASSUME NEW t \in Threads, CallStep(t) PROVE ServedNumber'
    BY <1>1, <2>1, <2>3, CallMoves DEF workerVars
  <2>4. CASE \E t \in Threads, keys \in Arguments : Compute(t, keys)
    BY <2>1, <2>4 DEF Compute, driver, workerVars
  <2> QED
    BY <1>1, <2>1, <2>2, <2>3, <2>4, OthersMove DEF Next, Environment, workerVars
<1> QED
  BY <1>3, <1>4, <1>5 DEF NumberInv

----------------------------------------------------------------------------
(***************************************************************************)
(* How often a request is run.  It is run when the worker has it; then     *)
(* nothing of it is left in the queue, and what has not been sent has      *)
(* neither been run nor is it on its way.                                  *)
(***************************************************************************)
Carried(i) ==
    \/ \E e \in Elems(requestChannel) : e.body.id = i
    \/ worker \in Carrying /\ packet # <<>> /\ packet[1].body.id = i

Fresh(i) == executed[i] = <<>> /\ outcome[i] = "none" /\ ~Carried(i)

UnsentAreFresh == \A t \in Threads : pc[t] \in Unsent => Fresh(request[t].id)
UnusedAreFresh == \A i \in Ids : i > requests => Fresh(i)
CarriedAreNew == \A i \in Ids : Carried(i) => executed[i] = <<>> /\ outcome[i] # "fallback"

\* What follows a packet that has been read is not another request.
NothingFollows ==
    /\ worker = "readFirst" => packet = <<>>
    /\ alive /\ worker \in {"read"} \cup Serving => \A e \in Elems(requestChannel) : e = Dummy

RunInv ==
    UnsentAreFresh /\ UnusedAreFresh /\ CarriedAreNew /\ RunsOnceOrFallsBack /\ NothingFollows

\* At first nothing is on its way.
LEMMA RunInit == Init => RunInv
<1> SUFFICES ASSUME Init PROVE RunInv
  OBVIOUS
<1>1. \A i : ~Carried(i)
  BY NoElems DEF Init, Carried, Carrying, Serving
<1>2. \A i \in Ids : executed[i] = <<>> /\ outcome[i] = "none"
  BY DEF Init
<1>3. RunsOnceOrFallsBack
  BY <1>2 DEF RunsOnceOrFallsBack
<1> QED
  BY <1>1, <1>2, <1>3, NoElems
     DEF Init, RunInv, UnsentAreFresh, UnusedAreFresh, CarriedAreNew, NothingFollows, Fresh,
         Unsent, Serving

\* How the queue of requests and the packet that the worker has change.
LEMMA RequestsMove ==
  ASSUME TypeInv, NothingFollows, [Next]_vars
  PROVE  /\ \A e \in Elems(requestChannel') :
              \/ e \in Elems(requestChannel) \/ e = Dummy
              \/ \E t \in Threads, n \in RequestSizes :
                    Write(t, n) /\ e.body = Body(request[t].id, request[t].slots, "ok")
         /\ worker' \in Carrying /\ packet' # <<>> =>
              \/ worker \in Carrying /\ packet # <<>> /\ packet'[1] = packet[1]
              \/ packet'[1] \in Elems(requestChannel)
<1> USE DEF Carrying, Serving
<1>1. SlotTypes /\ QueueTypes /\ packet \in Seq(Elements) /\ requestChannel \in Seq(Elements)
  BY DEF TypeInv, SlotInv, QueueTypes
<1>2. CASE UNCHANGED <<requestChannel, workerVars>>
  BY <1>2 DEF workerVars
<1>3. ASSUME NEW t \in Threads, NEW n \in RequestSizes, Write(t, n)
      PROVE  /\ \A e \in Elems(requestChannel') :
                  \/ e \in Elems(requestChannel)
                  \/ e.body = Body(request[t].id, request[t].slots, "ok")
             /\ UNCHANGED workerVars
  BY <1>1, <1>3, WriteElems DEF Write, driver
<1>4. CASE UnblockWorker
  <2>1. Elems(requestChannel') = Elems(requestChannel) \cup {Dummy} /\ UNCHANGED workerVars
    BY <1>1, <1>4, DummyType, AppendElems DEF UnblockWorker
  <2> QED
    BY <2>1 DEF workerVars
<1>5. CASE DriverStep
  <2> USE DEF WorkerStep, channels
  <2>1. CASE WorkerReadFirst
    <3>1. /\ requestChannel # <<>> /\ packet' = <<Head(requestChannel)>>
          /\ Elems(requestChannel') \subseteq Elems(requestChannel)
      BY <1>1, <2>1, TailElems DEF WorkerReadFirst
    <3>2. packet'[1] \in Elems(requestChannel)
      BY <1>1, <3>1, ElemsOf
    <3> QED
      BY <3>1, <3>2
  <2>2. CASE WorkerReadRest
    <3>1. requestChannel' = <<>> /\ packet' = packet \o requestChannel /\ worker = "readRest"
      BY <2>2 DEF WorkerReadRest
    <3>2. packet' # <<>> => \/ packet # <<>> /\ packet'[1] = packet[1]
                            \/ packet'[1] \in Elems(requestChannel)
      BY <1>1, <3>1, ConcatElems, ElemsOf
    <3> QED
      BY <3>1, <3>2, NoElems
  <2>3. CASE WorkerStopSpinning
    BY <2>3 DEF WorkerStopSpinning, NothingFollows
  <2>4. CASE /\ requestChannel' = requestChannel
             /\ worker' \in Carrying => worker \in Carrying /\ packet' = packet
    BY <2>4
  <2> QED
    BY <1>5, <2>1, <2>2, <2>3, <2>4
       DEF DriverStep, WorkerLoop, WorkerReceive, WorkerCheckPacket, WorkerNoPacket,
           WorkerEnsure, WorkerGetMemories, WorkerAddEntries, WorkerExecute, WorkerSend
<1>6. ASSUME NEW t \in Threads, CallStep(t), \A n \in RequestSizes : ~Write(t, n)
      PROVE  UNCHANGED <<requestChannel, workerVars>>
  BY <1>6
     DEF CallStep, FreeLock, FreeUnknown, FreeKnown, FreeRemote, Lock, KnownSlot, NewSlot,
         SlotsDone, SendInvalid, SendValid, WriteTooLarge, ReceiveInvalid, ReceiveValid,
         ReadFirst, StopSpinning, ReadRest, Receive, others, channels, driver
<1>7. CASE \/ UNCHANGED vars \/ DeathStep \/ DriverDies \/ ReleaseBurst
           \/ Teardown \/ TeardownChannel \/ Join
           \/ \E k \in Keys : CreateMemory(k)
           \/ \E t \in Threads, k \in Keys : DestroyMemory(t, k)
           \/ \E t \in Threads, keys \in Arguments : Compute(t, keys)
  BY <1>2, <1>7 DEF vars, DeathStep, InvalidateSender, InvalidateReceiver, UnblockReceiver,
                    DriverDies, ReleaseBurst, CreateMemory, DestroyMemory, Compute, Teardown,
                    TeardownChannel, Join, channels, driver
<1>8. CASE \E t \in Threads, n \in RequestSizes : Write(t, n)
  BY <1>3, <1>8 DEF workerVars
<1> QED
  BY <1>2, <1>4, <1>5, <1>6, <1>7, <1>8 DEF Next, Environment, DestructorStep

\* Only Write puts a call on its way.
LEMMA CarriedNext ==
  ASSUME TypeInv, NothingFollows, [Next]_vars,
         NEW i \in Nat \ {0}, Carried(i)', ~Carried(i)
  PROVE  \E t \in Threads, n \in RequestSizes : Write(t, n) /\ i = request[t].id
<1>1. PICK e \in Elems(requestChannel') : e.body.id = i /\ e \notin Elems(requestChannel)
  BY RequestsMove DEF Carried
<1>2. e # Dummy
  BY <1>1 DEF Dummy, Body
<1>3. PICK t \in Threads, n \in RequestSizes :
         Write(t, n) /\ e.body = Body(request[t].id, request[t].slots, "ok")
  BY <1>1, <1>2, RequestsMove
<1> QED
  BY <1>1, <1>3 DEF Body

\* The queue of requests is empty while the worker serves one: it is filled by
\* the holder of the mutex, who then waits.
LEMMA FollowsNext ==
  TypeInv /\ TurnsInv /\ NothingFollows /\ [Next]_vars => NothingFollows'
<1> SUFFICES ASSUME TypeInv, TurnsInv, NothingFollows, [Next]_vars PROVE NothingFollows'
  OBVIOUS
<1> USE DEF NothingFollows, Serving
<1>1. SlotTypes /\ QueueTypes /\ packet \in Seq(Elements) /\ requestChannel \in Seq(Elements)
  BY DEF TypeInv, SlotInv, QueueTypes
<1>2. CASE UNCHANGED <<requestChannel, alive, workerVars>>
  BY <1>2 DEF workerVars
<1>3. ASSUME NEW t \in Threads, NEW n \in RequestSizes, Write(t, n) PROVE NothingFollows'
  <2>1. pc[t] = "write" /\ UNCHANGED <<alive, workerVars>>
    BY <1>3 DEF Write, Step, driver
  <2>2. ~(alive /\ worker \in {"read"} \cup Serving)
    <3> SUFFICES ASSUME alive, worker \in {"read"} \cup Serving PROVE FALSE
      OBVIOUS
    <3>1. destructor = "none"
      BY <2>1 DEF TurnsInv, Valid
    <3>2. PICK u \in Threads : pc[u] \in Waiting
      BY <3>1 DEF TurnsInv, Turns, Resting
    <3>3. mutex = {t} /\ mutex = {u}
      BY <2>1, <3>2 DEF TurnsInv, HoldersExclude, Holding, Waiting
    <3> QED
      BY <2>1, <3>2, <3>3 DEF Waiting
  <2> QED
    BY <2>1, <2>2 DEF workerVars
<1>4. CASE UnblockWorker
  <2>1. Elems(requestChannel') = Elems(requestChannel) \cup {Dummy} /\ UNCHANGED <<alive, workerVars>>
    BY <1>1, <1>4, DummyType, AppendElems DEF UnblockWorker
  <2> QED
    BY <2>1 DEF workerVars
<1>5. CASE DriverStep
  <2> USE DEF WorkerStep, channels
  <2>1. CASE WorkerReceive
    BY <2>1 DEF WorkerReceive
  <2>2. CASE WorkerReadRest
    BY <2>2, NoElems DEF WorkerReadRest
  <2> QED
    BY <1>5, <2>1, <2>2, WorkerMoves
       DEF DriverStep, WorkerLoop, WorkerReadFirst, WorkerStopSpinning, WorkerCheckPacket,
           WorkerNoPacket, WorkerEnsure, WorkerGetMemories, WorkerAddEntries, WorkerExecute,
           WorkerSend, bystanders
<1>6. ASSUME NEW t \in Threads, CallStep(t), \A n \in RequestSizes : ~Write(t, n)
      PROVE  UNCHANGED <<requestChannel, alive, workerVars>>
  BY <1>6
     DEF CallStep, FreeLock, FreeUnknown, FreeKnown, FreeRemote, Lock, KnownSlot, NewSlot,
         SlotsDone, SendInvalid, SendValid, WriteTooLarge, ReceiveInvalid, ReceiveValid,
         ReadFirst, StopSpinning, ReadRest, Receive, others, channels, driver
<1>7. CASE DriverDies
  BY <1>7 DEF DriverDies, channels, workerVars
<1>8. CASE \/ UNCHANGED vars \/ DeathStep \/ ReleaseBurst
           \/ Teardown \/ TeardownChannel \/ Join
           \/ \E k \in Keys : CreateMemory(k)
           \/ \E t \in Threads, k \in Keys : DestroyMemory(t, k)
           \/ \E t \in Threads, keys \in Arguments : Compute(t, keys)
  BY <1>2, <1>8 DEF vars, DeathStep, InvalidateSender, InvalidateReceiver, UnblockReceiver,
                    ReleaseBurst, CreateMemory, DestroyMemory, Compute, Teardown,
                    TeardownChannel, Join, channels, driver
<1> QED
  BY <1>2, <1>3, <1>4, <1>5, <1>6, <1>7, <1>8 DEF Next, Environment, DestructorStep

\* The numbers that calls are given, of those there are.
LEMMA NumbersAreIds == CountTypes => /\ 1..requests \subseteq Ids
                                     /\ Ids \subseteq Nat \ {0} /\ requests \in Nat
BY Bounds DEF CountTypes, Ids

\* Steps that neither send, run nor return a call.
LEMMA RunKept ==
  ASSUME TypeInv, NumberInv, RunInv, [Next]_vars, NothingFollows',
         UNCHANGED <<requests, executed, outcome>>,
         \A t \in Threads, n \in RequestSizes : ~Write(t, n),
         \A t \in Threads :
           pc'[t] \in Unsent => pc[t] \in Unsent /\ request'[t].id = request[t].id
  PROVE  RunInv'
<1>1. \A i \in Nat \ {0} : Carried(i)' => Carried(i)
  BY CarriedNext DEF RunInv
<1>2. \A i \in Ids : i \in Nat \ {0}
  BY NumbersAreIds DEF TypeInv
<1>3. \A t \in Threads : pc[t] \in Unsent => request[t].id \in Nat \ {0}
  BY DEF NumberInv, CallNumbers, Computing
<1>4. UnsentAreFresh' /\ UnusedAreFresh' /\ CarriedAreNew'
  BY <1>1, <1>2, <1>3 DEF RunInv, UnsentAreFresh, UnusedAreFresh, CarriedAreNew, Fresh
<1>5. RunsOnceOrFallsBack'
  BY DEF RunInv, RunsOnceOrFallsBack
<1> QED
  BY <1>4, <1>5 DEF RunInv

\* A call that falls back has not been sent.
LEMMA ReturnKeepsRun ==
  ASSUME TypeInv, NumberInv, RunInv, NEW t \in Threads, CallStep(t), NothingFollows',
         \A n \in RequestSizes : ~Write(t, n),
         NEW from, NEW what, NEW of, Return(t, from, what, of),
         what \in {"ok", "error", "failed", "fallback"},
         from \in Computing, what = "fallback" => from \in Unsent
  PROVE  RunInv'
<1> DEFINE r == request[t].id
<1>1. /\ r \in 1..requests /\ r \in Ids /\ pc[t] = from
      /\ SlotTypes /\ HistoryTypes /\ requests \in Nat
  <2>1. pc[t] = from
    BY DEF Return, Step
  <2> QED
    BY <2>1, Bounds DEF TypeInv, SlotInv, CountTypes, NumberInv, CallNumbers, Ids
<1>2. /\ executed' = executed /\ requests' = requests
      /\ outcome' = [outcome EXCEPT ![r] = what]
      /\ \A u \in Threads : pc'[u] \in Unsent =>
           u # t /\ pc[u] \in Unsent /\ request'[u].id = request[u].id
  <2>1. pc'[t] = "idle"
    BY <1>1 DEF Return, Step, SlotTypes
  <2> QED
    BY <1>1, <2>1, CallMoves DEF Return, Unsent
<1>3. \A i \in Nat \ {0} : Carried(i)' => Carried(i)
  <2>1. [Next]_vars
    BY DEF Next
  <2>2. \A u \in Threads, n \in RequestSizes : ~Write(u, n)
    <3>1. ASSUME NEW u \in Threads, NEW n \in RequestSizes, Write(u, n) PROVE FALSE
      <4>1. pc'[u] = "receive" /\ u # t
        BY <1>1, <3>1 DEF Write, Step, SlotTypes
      <4> QED
        BY <1>1, <4>1, <3>1, CallMoves DEF Write, Step
    <3> QED
      BY <3>1
  <2> QED
    BY <2>1, <2>2, CarriedNext DEF RunInv
<1>4. \A i \in Ids : i \in Nat \ {0}
  BY NumbersAreIds DEF TypeInv
<1>5. \A u \in Threads : pc'[u] \in Unsent => request[u].id \in Ids /\ request[u].id # r
  BY <1>1, <1>2, Bounds DEF NumberInv, CallNumbers, Computing, TypeInv, CountTypes, Ids
<1>6. \A i \in Ids : i # r => outcome'[i] = outcome[i]
  BY <1>1, <1>2 DEF HistoryTypes
<1>7. outcome'[r] = what
  BY <1>1, <1>2 DEF HistoryTypes
<1>8. what = "fallback" => Fresh(r)
  BY <1>1 DEF RunInv, UnsentAreFresh
<1>9. UnsentAreFresh' /\ UnusedAreFresh'
  BY <1>1, <1>2, <1>3, <1>4, <1>5, <1>6 DEF RunInv, UnsentAreFresh, UnusedAreFresh, Fresh
<1>10. CarriedAreNew'
  BY <1>2, <1>3, <1>4, <1>6, <1>7, <1>8 DEF RunInv, CarriedAreNew, Fresh
<1>11. RunsOnceOrFallsBack'
  BY <1>2, <1>6, <1>7, <1>8 DEF RunInv, RunsOnceOrFallsBack, Fresh
<1> QED
  BY <1>9, <1>10, <1>11 DEF RunInv

\* What is sent has not been run.
LEMMA WriteKeepsRun ==
  ASSUME TypeInv, NumberInv, RunInv, [Next]_vars, NothingFollows',
         NEW t \in Threads, NEW n \in RequestSizes, CallStep(t), Write(t, n)
  PROVE  RunInv'
<1> DEFINE r == request[t].id
<1>1. /\ pc[t] = "write" /\ pc'[t] = "receive" /\ SlotTypes
      /\ UNCHANGED <<requests, executed, outcome, request>>
      /\ \A u \in Threads \ {t} : pc'[u] = pc[u]
  BY DEF Write, Step, history, TypeInv, SlotInv, SlotTypes
<1>2. r \in 1..requests /\ r \in Ids /\ Fresh(r)
  BY <1>1, NumbersAreIds
     DEF NumberInv, CallNumbers, Computing, RunInv, UnsentAreFresh, Unsent, TypeInv
<1>3. \A i \in Nat \ {0} : Carried(i)' => Carried(i) \/ i = r
  <2>1. \A u \in Threads, m \in RequestSizes : Write(u, m) => u = t
    BY <1>1 DEF Write, Step, SlotTypes
  <2> QED
    BY <2>1, CarriedNext DEF RunInv
<1>4. Ids \subseteq Nat \ {0} /\ requests \in Nat /\ 1..requests \subseteq Ids
  BY NumbersAreIds DEF TypeInv
<1>5. \A u \in Threads : pc'[u] \in Unsent =>
         pc[u] \in Unsent /\ request[u].id \in Ids /\ request[u].id # r
  BY <1>1, <1>4 DEF NumberInv, CallNumbers, Computing, Unsent
<1>6. UnsentAreFresh' /\ UnusedAreFresh'
  <2>1. ASSUME NEW i \in Ids, i # r, Fresh(i) PROVE Fresh(i)'
    BY <1>1, <1>3, <1>4, <2>1 DEF Fresh
  <2>2. \A i \in Ids : i > requests => i # r
    BY <1>2, <1>4
  <2> QED
    BY <1>1, <1>5, <2>1, <2>2 DEF RunInv, UnsentAreFresh, UnusedAreFresh
<1>7. CarriedAreNew' /\ RunsOnceOrFallsBack'
  BY <1>1, <1>2, <1>3, <1>4 DEF RunInv, CarriedAreNew, Fresh, RunsOnceOrFallsBack
<1> QED
  BY <1>6, <1>7 DEF RunInv

\* The request that the worker runs, and what remains of it.
LEMMA Executes ==
  ASSUME TypeInv, NumberInv, RunInv, WorkerExecute
  PROVE  LET i == packet[1].body.id
         IN  /\ i \in 1..requests /\ i \in Ids /\ RequestId = i
             /\ executed[i] = <<>> /\ outcome[i] # "fallback" /\ Carried(i) /\ ~Carried(i)'
             /\ \A t \in Threads : pc[t] \in Unsent => request[t].id # i
<1> DEFINE i == packet[1].body.id
<1>1. /\ worker = "execute" /\ worker' \in {"sendError", "sendResult"} /\ alive
      /\ UNCHANGED <<packet, requestChannel>>
  BY DEF WorkerExecute, WorkerStep, channels
<1>2. packet # <<>> /\ i \in 1..requests /\ i \in Ids /\ i # 0
  BY <1>1, NumbersAreIds DEF NumberInv, ServedNumber, Serving, TypeInv
<1>3. Carried(i)
  BY <1>1, <1>2 DEF Carried, Carrying, Serving
<1>4. \A e \in Elems(requestChannel) : e = Dummy
  BY <1>1 DEF RunInv, NothingFollows, Serving
<1>5. ~Carried(i)'
  BY <1>1, <1>2, <1>4 DEF Carried, Carrying, Serving, Dummy, Body
<1> QED
  BY <1>2, <1>3, <1>5 DEF RunInv, CarriedAreNew, UnsentAreFresh, Fresh, RequestId

\* A request is run once.
LEMMA ExecuteKeepsRun ==
  ASSUME TypeInv, NumberInv, RunInv, [Next]_vars, NothingFollows', DriverStep, WorkerExecute
  PROVE  RunInv'
<1> DEFINE i == packet[1].body.id
<1>1. PICK pools : executed' = [executed EXCEPT ![i] = Append(@, pools)]
  BY Executes DEF WorkerExecute
<1>2. UNCHANGED <<pc, request, requests, outcome, packet>>
  BY WorkerMoves DEF bystanders, runtime, callerVars, WorkerExecute
<1>3. /\ i \in 1..requests /\ i \in Ids /\ executed[i] = <<>> /\ outcome[i] # "fallback"
      /\ Carried(i) /\ ~Carried(i)'
      /\ \A t \in Threads : pc[t] \in Unsent => request[t].id # i
  BY Executes
<1>4. /\ executed'[i] = <<pools>>
      /\ \A j \in Ids : j # i => executed'[j] = executed[j]
  BY <1>1, <1>3 DEF TypeInv, HistoryTypes
<1>5. \A j \in Nat \ {0} : Carried(j)' => Carried(j) /\ j # i
  <2>1. \A t \in Threads, n \in RequestSizes : ~Write(t, n)
    BY <1>2 DEF Write, Step, TypeInv, SlotInv, SlotTypes
  <2> SUFFICES ASSUME NEW j \in Nat \ {0}, Carried(j)' PROVE Carried(j) /\ j # i
    OBVIOUS
  <2>2. Carried(j)
    BY <2>1, CarriedNext DEF RunInv
  <2>3. j # i
    BY <1>2, <1>3
  <2> QED
    BY <2>2, <2>3
<1>6. /\ Ids \subseteq Nat \ {0} /\ requests \in Nat /\ 1..requests \subseteq Ids
      /\ \A t \in Threads : pc[t] \in Unsent => request[t].id \in Ids
  BY NumbersAreIds DEF TypeInv, NumberInv, CallNumbers, Computing
<1> HIDE DEF i
<1>7. UnsentAreFresh' /\ UnusedAreFresh'
  BY <1>2, <1>3, <1>4, <1>5, <1>6 DEF RunInv, UnsentAreFresh, UnusedAreFresh, Fresh
<1>8. CarriedAreNew'
  BY <1>2, <1>4, <1>5, <1>6 DEF RunInv, CarriedAreNew
<1>9. RunsOnceOrFallsBack'
  <2>1. Len(executed'[i]) <= 1 /\ outcome'[i] # "fallback"
    BY <1>2, <1>3, <1>4
  <2>2. \A j \in Ids : j # i => executed'[j] = executed[j] /\ outcome'[j] = outcome[j]
    BY <1>2, <1>4
  <2> QED
    BY <2>1, <2>2 DEF RunInv, RunsOnceOrFallsBack
<1> QED
  BY <1>7, <1>8, <1>9 DEF RunInv

\* A new call has neither been run nor sent.
LEMMA ComputeKeepsRun ==
  ASSUME TypeInv, NumberInv, RunInv, [Next]_vars, NothingFollows',
         NEW t \in Threads, NEW keys \in Arguments, Compute(t, keys)
  PROVE  RunInv'
<1>1. /\ requests < MaxRequests /\ requests' = requests + 1
      /\ request'[t].id = requests + 1
      /\ \A u \in Threads \ {t} : pc'[u] = pc[u] /\ request'[u] = request[u]
      /\ UNCHANGED <<executed, outcome, requestChannel, packet, worker>>
  BY DEF Compute, Step, channels, driver, workerVars, TypeInv, SlotInv, SlotTypes
<1>2. \A i : Carried(i)' <=> Carried(i)
  BY <1>1 DEF Carried
<1>3. requests \in Nat /\ Ids \subseteq Nat \ {0} /\ requests + 1 \in Ids /\ requests + 1 > requests
  BY <1>1, Bounds DEF TypeInv, CountTypes, Ids
<1>4. \A i \in Ids : Fresh(i)' <=> Fresh(i)
  BY <1>1, <1>2 DEF Fresh
<1>5. \A i \in Ids : i = requests + 1 => Fresh(i)'
  BY <1>3, <1>4 DEF RunInv, UnusedAreFresh
<1>6. UnsentAreFresh'
  <2>1. Fresh(request[t].id)'
    BY <1>1, <1>3, <1>5
  <2>2. ASSUME NEW u \in Threads \ {t}, pc'[u] \in Unsent PROVE Fresh(request[u].id)'
    <3>1. pc[u] \in Unsent /\ request[u].id \in Ids
      BY <1>1, <2>2, NumbersAreIds DEF NumberInv, CallNumbers, Computing, TypeInv
    <3> QED
      BY <1>1, <1>4, <3>1 DEF RunInv, UnsentAreFresh
  <2> QED
    BY <2>1, <2>2 DEF UnsentAreFresh
<1>7. UnusedAreFresh'
  <2>1. \A i \in Ids : i > requests + 1 => i > requests
    BY <1>3
  <2> QED
    BY <1>1, <1>4, <2>1 DEF RunInv, UnusedAreFresh
<1>8. CarriedAreNew' /\ RunsOnceOrFallsBack'
  BY <1>1, <1>2 DEF RunInv, CarriedAreNew, RunsOnceOrFallsBack
<1> QED
  BY <1>6, <1>7, <1>8 DEF RunInv

\* Every step of the system runs a request at most once.
LEMMA RunNext == TypeInv /\ TurnsInv /\ NumberInv /\ RunInv /\ [Next]_vars => RunInv'
<1> SUFFICES ASSUME TypeInv, TurnsInv, NumberInv, RunInv, [Next]_vars PROVE RunInv'
  OBVIOUS
<1>0. NothingFollows' /\ SlotTypes
  BY FollowsNext DEF RunInv, TypeInv, SlotInv
<1>1. ASSUME NEW t \in Threads, CallStep(t) PROVE RunInv'
  <2>1. ASSUME NEW n \in RequestSizes, Write(t, n) PROVE RunInv'
    BY <1>0, <1>1, <2>1, WriteKeepsRun
  <2>2. ASSUME NEW from, NEW what, NEW of, Return(t, from, what, of),
               what \in {"ok", "error", "failed", "fallback"}, from \in Computing,
               what = "fallback" => from \in Unsent, from # "write" \/ what = "fallback"
        PROVE  RunInv'
    <3>1. \A n \in RequestSizes : ~Write(t, n)
      BY <1>0, <2>2 DEF Return, Write, Step, SlotTypes
    <3> QED
      BY <1>0, <1>1, <2>2, <3>1, ReturnKeepsRun
  <2>3. CASE Receive(t)
    <3>1. received # <<>> => received[1].body.status \in {"ok", "error"}
      <4>1. received \in Seq(Elements)
        BY DEF TypeInv, QueueTypes
      <4>2. received # <<>> => received[1] \in Elements
        BY <4>1, ElemsOf
      <4> QED
        BY <4>2 DEF Elements
    <3> QED
      BY <2>2, <2>3, <3>1 DEF Receive, WellFormed, LostIsFailed, Computing
  <2>4. CASE SendInvalid(t) \/ ReceiveInvalid(t) \/ \E n \in RequestSizes : WriteTooLarge(t, n)
    BY <2>2, <2>4 DEF SendInvalid, ReceiveInvalid, WriteTooLarge, LostIsFailed, Computing, Unsent,
                      Waiting
  <2>5. CASE UNCHANGED outcome /\ \A n \in RequestSizes : ~Write(t, n)
    <3>1. \A u \in Threads, n \in RequestSizes : ~Write(u, n)
      <4>1. \A u \in Threads \ {t}, n \in RequestSizes : ~Write(u, n)
        BY <1>0, <1>1, CallMoves DEF Write, Step, SlotTypes
      <4> QED
        BY <2>5, <4>1
    <3>2. /\ UNCHANGED <<requests, executed, outcome>>
          /\ \A u \in Threads : pc'[u] \in Unsent => pc[u] \in Unsent /\ request'[u].id = request[u].id
      BY <1>0, <1>1, <2>5, CallMoves
    <3> QED
      BY <1>0, <3>1, <3>2, RunKept
  <2> QED
    BY <1>1, <2>1, <2>3, <2>4, <2>5
       DEF CallStep, FreeLock, FreeUnknown, FreeKnown, FreeRemote, Lock, KnownSlot, NewSlot,
           SlotsDone, SendValid, ReceiveValid, ReadFirst, StopSpinning, ReadRest, history
<1>2. CASE DriverStep
  <2>1. CASE WorkerExecute
    BY <1>0, <1>2, <2>1, ExecuteKeepsRun
  <2>2. CASE UNCHANGED executed
    <3>1. /\ UNCHANGED <<requests, executed, outcome, pc, request>>
      BY <1>2, <2>2, WorkerMoves DEF bystanders, runtime, callerVars
    <3>2. \A u \in Threads, n \in RequestSizes : ~Write(u, n)
      BY <1>0, <3>1 DEF Write, Step, SlotTypes
    <3> QED
      BY <1>0, <3>1, <3>2, RunKept
  <2> QED
    BY <1>2, <2>1, <2>2
       DEF DriverStep, WorkerLoop, WorkerReceive, WorkerReadFirst, WorkerStopSpinning,
           WorkerReadRest, WorkerCheckPacket, WorkerNoPacket, WorkerEnsure, WorkerGetMemories,
           WorkerAddEntries, WorkerSend, history
<1>3. CASE \E t \in Threads, keys \in Arguments : Compute(t, keys)
  BY <1>0, <1>3, ComputeKeepsRun
<1>4. CASE \/ \E k \in Keys : CreateMemory(k)
           \/ \E t \in Threads, k \in Keys : DestroyMemory(t, k)
           \/ DriverDies \/ ReleaseBurst \/ DeathStep \/ DestructorStep \/ UNCHANGED vars
  <2>1. /\ UNCHANGED <<requests, executed, outcome>>
        /\ \A u \in Threads : pc'[u] # "receive" \/ pc'[u] = pc[u]
        /\ \A u \in Threads :
             pc'[u] \in Unsent => pc[u] \in Unsent /\ request'[u].id = request[u].id
    BY <1>0, <1>4, OthersMove DEF history, Unsent
  <2>2. \A u \in Threads, n \in RequestSizes : ~Write(u, n)
    BY <1>0, <2>1 DEF Write, Step, SlotTypes
  <2> QED
    BY <1>0, <2>1, <2>2, RunKept
<1> QED
  BY <1>1, <1>2, <1>3, <1>4 DEF Next, Environment

----------------------------------------------------------------------------
LastingInv == TypeInv /\ TurnsInv /\ NumberInv /\ RunInv

\* Every step keeps the types, the turns, the numbers and what has been run.
LEMMA LastingNext == LastingInv /\ [Next]_vars => LastingInv'
<1>1. TypeInv /\ [Next]_vars => TypeInv'
  BY SlotInvNext, ModeNext, CountsNext, FlagsNext, QueuesNext, CachesNext, HistoryNext DEF TypeInv
<1> QED
  BY <1>1, TurnsNext, NumberNext, RunNext DEF LastingInv

\* A request that tryCompute has sent is run at most once by the driver, and
\* never if its caller is told to take another path, then or later.
THEOREM RunsOnce == Spec => []RunsOnceOrFallsBack
<1>1. Init => LastingInv
  BY TypeInit, TurnsInit, NumberInit, RunInit DEF LastingInv
<1>2. LastingInv => RunsOnceOrFallsBack
  BY DEF LastingInv, RunInv
<1> QED
  BY <1>1, <1>2, LastingNext, PTL DEF Spec

----------------------------------------------------------------------------
(***************************************************************************)
(* What a burst answers: a call returns the answer to its own request,     *)
(* computed on the memories it named, and no execution reads a memory      *)
(* that has been freed.                                                    *)
(***************************************************************************)

\* The calls that threads at some control points have made.
CallsAt(labels) == {request[t].id : t \in {u \in Threads : pc[u] \in labels}}

(***************************************************************************)
(* Whose requests and results are under way: those of the one thread that  *)
(* holds the mutex and waits.  The death of the driver ends that, but only *)
(* after the queue of results has been invalidated.                        *)
(***************************************************************************)
RequestsAwaited ==
    alive /\ destructor = "none" =>
        /\ \A e \in Elems(requestChannel) : e.body.id \in CallsAt(Waiting)
        /\ worker \notin Resting => packet # <<>> /\ packet[1].body.id \in CallsAt(Waiting)

ResultsAwaited ==
    receiverValid /\ destructor = "none" =>
        \A e \in Elems(resultChannel) : e.body.id \in CallsAt(Waiting \cup {"readRest"})

ReceivedOwn ==
    receiverValid /\ destructor = "none" =>
        \A t \in Threads : pc[t] \in {"readRest", "received"} =>
            \A e \in Elems(received) : e.body.id = request[t].id

DeathOrder == death \in {"dummy", "done"} => ~receiverValid

ExchangeInv == RequestsAwaited /\ ResultsAwaited /\ ReceivedOwn /\ DeathOrder

\* At first nothing is under way.
LEMMA ExchangeInit == Init => ExchangeInv
BY NoElems DEF Init, ExchangeInv, RequestsAwaited, ResultsAwaited, ReceivedOwn, DeathOrder, Resting

\* A driver that has died, a channel that has been invalidated and a burst
\* that has been released stay so.
LEMMA Declines ==
  ASSUME [Next]_vars
  PROVE  /\ alive' => alive
         /\ receiverValid' => receiverValid
         /\ destructor' = "none" => destructor = "none"
<1> USE DEF vars, runtime, driver, validVars, teardownVars, others, bystanders
<1>1. ASSUME NEW t \in Threads, CallStep(t) PROVE UNCHANGED <<alive, receiverValid, destructor>>
  BY <1>1 DEF CallStep, FreeLock, FreeUnknown, FreeKnown, FreeRemote, Lock, KnownSlot, NewSlot,
              SlotsDone, SendInvalid, SendValid, WriteTooLarge, Write, ReceiveInvalid,
              ReceiveValid, ReadFirst, StopSpinning, ReadRest, Receive
<1>2. CASE DriverStep
  BY <1>2, WorkerMoves
<1>3. CASE UNCHANGED vars
  BY <1>3
<1>6. CASE Environment
  <2>1. CASE \E k \in Keys : CreateMemory(k)
    BY <2>1 DEF CreateMemory
  <2>2. CASE \E t \in Threads, k \in Keys : DestroyMemory(t, k)
    BY <2>2 DEF DestroyMemory
  <2>3. CASE \E t \in Threads, keys \in Arguments : Compute(t, keys)
    BY <2>3 DEF Compute
  <2>4. CASE DriverDies
    BY <2>4 DEF DriverDies
  <2>5. CASE ReleaseBurst
    BY <2>5 DEF ReleaseBurst
  <2> QED
    BY <1>6, <2>1, <2>2, <2>3, <2>4, <2>5 DEF Environment
<1>4. CASE DeathStep
  BY <1>4 DEF DeathStep, InvalidateSender, InvalidateReceiver, UnblockReceiver
<1>5. CASE DestructorStep
  <2>1. UNCHANGED <<alive, receiverValid>> /\ destructor # "none"
    BY <1>5 DEF DestructorStep, Teardown, TeardownChannel, UnblockWorker, Join
  <2>2. destructor' \in {"channel", "dummy", "join", "done"}
    BY <1>5 DEF DestructorStep, Teardown, TeardownChannel, UnblockWorker, Join, ForceUnblock
  <2> QED
    BY <2>1, <2>2
<1> QED
  BY <1>1, <1>2, <1>3, <1>4, <1>5, <1>6 DEF Next

\* A thread that waits goes on waiting until it reads its result, unless the
\* channel is invalid.
LEMMA WaitsOn ==
  ASSUME SlotTypes, [Next]_vars, destructor' = "none",
         NEW t \in Threads, pc[t] \in Waiting \cup {"readRest"}
  PROVE  /\ request'[t].id = request[t].id
         /\ \/ pc'[t] = pc[t] \/ ReceiveInvalid(t) \/ ReceiveValid(t)
            \/ ReadFirst(t) \/ StopSpinning(t) \/ ReadRest(t)
<1> USE DEF Waiting
<1>1. ASSUME NEW u \in Threads, CallStep(u), u # t
      PROVE  request'[t].id = request[t].id /\ pc'[t] = pc[t]
  BY <1>1, CallMoves
<1>2. CASE CallStep(t)
  <2>1. request'[t].id = request[t].id
    BY <1>2, CallMoves
  <2> QED
    BY <1>2, <2>1
       DEF CallStep, FreeLock, FreeUnknown, FreeKnown, FreeRemote, Lock, KnownSlot, NewSlot,
           SlotsDone, SendInvalid, SendValid, WriteTooLarge, Write, Receive, Return, Step
<1>3. CASE DriverStep
  BY <1>3, WorkerMoves DEF bystanders, runtime, callerVars
<1>4. ASSUME NEW u \in Threads, NEW keys \in Arguments, Compute(u, keys)
      PROVE  request'[t].id = request[t].id /\ pc'[t] = pc[t]
  BY <1>4 DEF Compute, Step, SlotTypes
<1>5. ASSUME NEW u \in Threads, NEW k \in Keys, DestroyMemory(u, k)
      PROVE  request'[t].id = request[t].id /\ pc'[t] = pc[t]
  BY <1>5 DEF DestroyMemory, Step, SlotTypes
<1>6. CASE \/ UNCHANGED vars \/ DeathStep \/ DestructorStep \/ DriverDies \/ ReleaseBurst
           \/ \E k \in Keys : CreateMemory(k)
  BY <1>6 DEF vars, runtime, callerVars, DeathStep, InvalidateSender, InvalidateReceiver,
              UnblockReceiver, DestructorStep, Teardown, TeardownChannel, UnblockWorker, Join,
              DriverDies, ReleaseBurst, CreateMemory
<1> QED
  BY <1>1, <1>2, <1>3, <1>4, <1>5, <1>6 DEF Next, Environment

\* What has been sent, or is being served, is awaited.
LEMMA RequestsAwaitedNext ==
  TypeInv /\ TurnsInv /\ RequestsAwaited /\ [Next]_vars => RequestsAwaited'
<1> SUFFICES ASSUME TypeInv, TurnsInv, RequestsAwaited, [Next]_vars, alive', destructor' = "none"
             PROVE  /\ \A e \in Elems(requestChannel') : e.body.id \in CallsAt(Waiting)'
                    /\ worker' \notin Resting =>
                         packet' # <<>> /\ packet'[1].body.id \in CallsAt(Waiting)'
  BY DEF RequestsAwaited
<1> USE DEF Resting
<1>1. /\ alive /\ destructor = "none" /\ SlotTypes
      /\ packet \in Seq(Elements) /\ requestChannel \in Seq(Elements)
  BY Declines DEF TypeInv, SlotInv, QueueTypes
<1>2. /\ \A e \in Elems(requestChannel) : e.body.id \in CallsAt(Waiting)
      /\ worker \notin Resting => packet # <<>> /\ packet[1].body.id \in CallsAt(Waiting)
  BY <1>1 DEF RequestsAwaited
<1>3. receiverValid /\ ~serverTeardown /\ ~channelTeardown
  BY <1>1 DEF TurnsInv, Valid
<1>4. ASSUME NEW i, i \in CallsAt(Waiting), \A t \in Threads : ~ReadFirst(t)
      PROVE  i \in CallsAt(Waiting)'
  <2>1. PICK t \in Threads : pc[t] \in Waiting /\ request[t].id = i
    BY <1>4 DEF CallsAt
  <2>2. request'[t].id = i /\ (pc'[t] = pc[t] \/ ReceiveValid(t))
    <3>1. ~ReceiveInvalid(t) /\ ~StopSpinning(t) /\ ~ReadRest(t)
      BY <1>3, <2>1 DEF ReceiveInvalid, StopSpinning, SpinEnds, ReadRest, Step, Waiting
    <3> QED
      BY <1>1, <1>4, <2>1, <3>1, WaitsOn
  <2>3. pc'[t] \in Waiting
    BY <1>1, <2>1, <2>2 DEF ReceiveValid, Step, Waiting, SlotTypes
  <2> QED
    BY <2>2, <2>3 DEF CallsAt
<1>5. ASSUME \A t \in Threads : ~ReadFirst(t), Elems(requestChannel') \subseteq Elems(requestChannel),
             worker' \notin Resting => packet' # <<>>
                                       /\ \/ worker \notin Resting /\ packet'[1] = packet[1]
                                          \/ packet'[1] \in Elems(requestChannel)
      PROVE  /\ \A e \in Elems(requestChannel') : e.body.id \in CallsAt(Waiting)'
             /\ worker' \notin Resting => packet' # <<>> /\ packet'[1].body.id \in CallsAt(Waiting)'
  BY <1>2, <1>4, <1>5
<1>6. CASE UNCHANGED <<requestChannel, packet, worker>> /\ \A t \in Threads : ~ReadFirst(t)
  BY <1>2, <1>5, <1>6
<1>7. ASSUME NEW t \in Threads, ReadFirst(t)
      PROVE  requestChannel' = <<>> /\ worker' \in Resting
  <2>1. resultChannel # <<>> /\ UNCHANGED <<requestChannel, worker>>
    BY <1>7 DEF ReadFirst, driver, workerVars
  <2> QED
    BY <1>1, <2>1 DEF TurnsInv, Turns
<1>8. ASSUME NEW t \in Threads, NEW n \in RequestSizes, Write(t, n)
      PROVE  /\ \A e \in Elems(requestChannel') : e.body.id \in CallsAt(Waiting)'
             /\ worker' \notin Resting => packet' # <<>> /\ packet'[1].body.id \in CallsAt(Waiting)'
  <2>1. /\ \A e \in Elems(requestChannel') :
             e \in Elems(requestChannel) \/ e.body = Body(request[t].id, request[t].slots, "ok")
        /\ pc[t] = "write" /\ pc' = [pc EXCEPT ![t] = "receive"]
        /\ UNCHANGED <<packet, worker, request, resultChannel>>
    BY <1>1, <1>8, WriteElems DEF Write, driver, workerVars, TypeInv
  <2>2. \A u \in Threads : ~ReadFirst(u)
    BY <1>1, <2>1 DEF ReadFirst, Step, SlotTypes
  <2>3. request[t].id \in CallsAt(Waiting)'
    BY <1>1, <2>1 DEF CallsAt, Waiting, SlotTypes
  <2> QED
    BY <1>2, <1>4, <2>1, <2>2, <2>3 DEF Body
<1>9. CASE DriverStep
  <2> USE DEF WorkerStep, channels
  <2>1. \A t \in Threads : ~ReadFirst(t)
    BY <1>1, <1>9, WorkerMoves DEF bystanders, runtime, callerVars, ReadFirst, Step, SlotTypes
  <2>2. CASE WorkerReadFirst
    <3>1. /\ requestChannel # <<>> /\ packet' = <<Head(requestChannel)>>
          /\ Elems(requestChannel') \subseteq Elems(requestChannel)
      BY <1>1, <2>2, TailElems DEF WorkerReadFirst
    <3>2. packet'[1] \in Elems(requestChannel) /\ packet' # <<>>
      BY <1>1, <3>1, ElemsOf
    <3> QED
      BY <1>5, <2>1, <3>1, <3>2
  <2>3. CASE WorkerReadRest
    <3>1. requestChannel' = <<>> /\ packet' = packet \o requestChannel /\ worker = "readRest"
      BY <2>3 DEF WorkerReadRest
    <3>2. packet' # <<>> /\ packet'[1] = packet[1]
      BY <1>1, <1>2, <3>1, ConcatElems
    <3> QED
      BY <1>5, <2>1, <3>1, <3>2, NoElems
  <2>4. CASE requestChannel' = requestChannel
             /\ (worker' \in Resting \/ (worker \notin Resting /\ packet' = packet))
    BY <1>2, <1>5, <2>1, <2>4
  <2>5. CASE WorkerLoop \/ WorkerReceive
    <3>1. worker' \in Resting /\ requestChannel' = requestChannel
      BY <1>3, <2>5 DEF WorkerLoop, WorkerReceive
    <3>2. \A t \in Elems(requestChannel) : t.body.id \in CallsAt(Waiting)'
      BY <1>2, <1>4, <2>1
    <3> QED
      BY <3>1, <3>2
  <2>6. ~WorkerStopSpinning
    BY <1>3 DEF WorkerStopSpinning, SpinEnds
  <2>7. CASE \/ WorkerCheckPacket \/ WorkerNoPacket \/ WorkerEnsure \/ WorkerGetMemories
             \/ WorkerAddEntries \/ WorkerExecute \/ \E n \in ResultSizes : WorkerSend(n)
    BY <2>4, <2>7
       DEF WorkerCheckPacket, WorkerNoPacket, WorkerEnsure, WorkerGetMemories, WorkerAddEntries,
           WorkerExecute, WorkerSend
  <2> QED
    BY <1>9, <2>2, <2>3, <2>5, <2>6, <2>7 DEF DriverStep
<1>10. ASSUME NEW t \in Threads, CallStep(t), ~ReadFirst(t), \A n \in RequestSizes : ~Write(t, n)
       PROVE  UNCHANGED <<requestChannel, packet, worker>> /\ \A u \in Threads : ~ReadFirst(u)
  <2>1. UNCHANGED <<requestChannel, packet, worker>>
    BY <1>10
       DEF CallStep, FreeLock, FreeUnknown, FreeKnown, FreeRemote, Lock, KnownSlot, NewSlot,
           SlotsDone, SendInvalid, SendValid, WriteTooLarge, ReceiveInvalid, ReceiveValid,
           StopSpinning, ReadRest, Receive, others, channels, driver, workerVars
  <2>2. \A u \in Threads \ {t} : ~ReadFirst(u)
    BY <1>1, <1>10, CallMoves DEF ReadFirst, Step, SlotTypes
  <2> QED
    BY <1>10, <2>1, <2>2
<1>11. CASE \/ UNCHANGED vars \/ DeathStep \/ DriverDies \/ ReleaseBurst \/ DestructorStep
            \/ \E k \in Keys : CreateMemory(k)
            \/ \E t \in Threads, k \in Keys : DestroyMemory(t, k)
  <2>1. UNCHANGED <<requestChannel, packet, worker>>
    BY <1>1, <1>11
       DEF vars, DeathStep, InvalidateSender, InvalidateReceiver, UnblockReceiver, DriverDies,
           ReleaseBurst, CreateMemory, DestroyMemory, DestructorStep, Teardown, TeardownChannel,
           UnblockWorker, Join, channels, driver, workerVars
  <2>2. UNCHANGED received
    BY <1>1, <1>11, OthersMove
  <2>3. \A u \in Threads : ~ReadFirst(u)
    BY <1>1, <1>11, OthersMove DEF ReadFirst, Step, SlotTypes
  <2> QED
    BY <1>6, <2>1, <2>3
<1>12. CASE \E t \in Threads, keys \in Arguments : Compute(t, keys)
  <2>1. UNCHANGED <<requestChannel, packet, worker>> /\ \A u \in Threads : ~ReadFirst(u)
    BY <1>1, <1>12 DEF Compute, channels, driver, workerVars, ReadFirst, Step, SlotTypes
  <2> QED
    BY <1>6, <2>1
<1> QED
  BY <1>6, <1>7, <1>8, <1>9, <1>10, <1>11, <1>12, NoElems DEF Next, Environment

\* What a result that is sent consists of.
LEMMA SendElems ==
  ASSUME QueueTypes, NEW status \in {"ok", "error"}, NEW n \in Nat, SendResult(status, n),
         NEW e \in Elems(resultChannel'), e \notin Elems(resultChannel)
  PROVE  e.body.id = RequestId /\ e.body.status \in {status, "error"}
<1> DEFINE full == Packet(Body(RequestId, <<>>, status), n)
           short == Packet(Body(RequestId, <<>>, "error"), 2)
<1>1. RequestId \in Nat /\ <<>> \in Seq(Nat)
  BY FirstElement DEF RequestId, Elements
<1>2. /\ Body(RequestId, <<>>, status) \in [id : Nat, slots : Seq(Nat), status : {"ok", "error"}]
      /\ Body(RequestId, <<>>, "error") \in [id : Nat, slots : Seq(Nat), status : {"ok", "error"}]
  BY <1>1 DEF Body
<1>3. full \in Seq(Elements) /\ short \in Seq(Elements)
  BY <1>2, PacketType
<1>4. PICK result \in {full, short} : resultChannel' \in {resultChannel \o result, resultChannel}
  BY DEF SendResult
<1>5. e \in Elems(result)
  <2>1. resultChannel' = resultChannel \o result
    BY <1>4
  <2>2. resultChannel \in Seq(Elements) /\ result \in Seq(Elements)
    BY <1>3, <1>4 DEF QueueTypes
  <2>3. Elems(resultChannel \o result) = Elems(resultChannel) \cup Elems(result)
    BY <2>2, ConcatElems
  <2> QED
    BY <2>1, <2>3
<1>6. e.body \in {Body(RequestId, <<>>, status), Body(RequestId, <<>>, "error")}
  BY <1>2, <1>4, <1>5, PacketElems
<1> QED
  BY <1>6 DEF Body

\* Nobody has been told of the driver's death when its channel is valid.
LEMMA DeathOrderNext == DeathOrder /\ [Next]_vars => DeathOrder'
<1> SUFFICES ASSUME DeathOrder, [Next]_vars PROVE DeathOrder'
  OBVIOUS
<1>1. CASE InvalidateSender \/ InvalidateReceiver \/ UnblockReceiver
  BY <1>1 DEF DeathOrder, InvalidateSender, InvalidateReceiver, UnblockReceiver
<1>2. CASE UNCHANGED validVars
  BY <1>2 DEF DeathOrder, validVars
<1>3. ASSUME NEW t \in Threads, CallStep(t) PROVE UNCHANGED validVars
  BY <1>3, CallMoves
     DEF CallStep, FreeLock, FreeUnknown, FreeKnown, FreeRemote, Lock, KnownSlot, NewSlot,
         SlotsDone, SendInvalid, SendValid, WriteTooLarge, Write, ReceiveInvalid, ReceiveValid,
         ReadFirst, StopSpinning, ReadRest, Receive, others
<1>4. CASE DriverStep
  BY <1>2, <1>4, WorkerMoves DEF bystanders, runtime
<1>5. CASE Environment \/ DestructorStep \/ UNCHANGED vars
  BY <1>2, <1>5
     DEF Environment, CreateMemory, DestroyMemory, Compute, DriverDies, ReleaseBurst,
         DestructorStep, Teardown, TeardownChannel, UnblockWorker, Join, runtime, vars
<1> QED
  BY <1>1, <1>2, <1>3, <1>4, <1>5 DEF Next, DeathStep

\* A result is for the call whose request was served.
LEMMA ResultsAwaitedNext ==
  TypeInv /\ TurnsInv /\ ExchangeInv /\ [Next]_vars => ResultsAwaited'
<1> DEFINE W == Waiting \cup {"readRest"}
<1> SUFFICES ASSUME TypeInv, TurnsInv, ExchangeInv, [Next]_vars,
                    receiverValid', destructor' = "none", NEW e \in Elems(resultChannel')
             PROVE  e.body.id \in CallsAt(W)'
  BY DEF ResultsAwaited
<1>1. /\ receiverValid /\ destructor = "none" /\ SlotTypes /\ QueueTypes
      /\ resultChannel \in Seq(Elements)
  BY Declines DEF TypeInv, SlotInv, QueueTypes
<1>2. \A x \in Elems(resultChannel) : x.body.id \in CallsAt(W)
  BY <1>1 DEF ExchangeInv, ResultsAwaited
<1>3. ASSUME NEW i, i \in CallsAt(W) PROVE i \in CallsAt(W)'
  <2>1. PICK t \in Threads : pc[t] \in W /\ request[t].id = i
    BY <1>3 DEF CallsAt
  <2>2. ~ReadRest(t)
    BY NoElems DEF ReadRest
  <2>3. request'[t].id = i /\ (pc'[t] = pc[t] \/ ReceiveValid(t) \/ ReadFirst(t))
    BY <1>1, <2>1, <2>2, WaitsOn DEF ReceiveInvalid, StopSpinning, SpinEnds
  <2>4. pc'[t] \in W
    BY <1>1, <2>1, <2>3 DEF ReceiveValid, ReadFirst, Step, Waiting, SlotTypes
  <2> QED
    BY <2>3, <2>4 DEF CallsAt
<1>4. CASE e \in Elems(resultChannel)
  BY <1>2, <1>3, <1>4
<1>5. CASE e \notin Elems(resultChannel)
  <2>1. \/ WorkerNoPacket \/ \E n \in ResultSizes : WorkerSend(n)
    <3>1. ASSUME NEW t \in Threads, CallStep(t) PROVE FALSE
      <4>1. Elems(resultChannel') \subseteq Elems(resultChannel)
        BY <1>1, <3>1, TailElems, NoElems
           DEF CallStep, FreeLock, FreeUnknown, FreeKnown, FreeRemote, Lock, KnownSlot, NewSlot,
               SlotsDone, SendInvalid, SendValid, WriteTooLarge, Write, ReceiveInvalid,
               ReceiveValid, ReadFirst, StopSpinning, ReadRest, Receive, others, channels
      <4> QED
        BY <1>5, <4>1
    <3>2. ~UnblockReceiver
      BY <1>1 DEF UnblockReceiver, ExchangeInv, DeathOrder
    <3>3. CASE DriverStep
      BY <1>5, <3>3
         DEF DriverStep, WorkerLoop, WorkerReceive, WorkerReadFirst, WorkerStopSpinning,
             WorkerReadRest, WorkerCheckPacket, WorkerEnsure, WorkerGetMemories,
             WorkerAddEntries, WorkerExecute, channels
    <3>4. ~(Environment \/ DestructorStep \/ InvalidateSender \/ InvalidateReceiver \/ UNCHANGED vars)
      BY <1>5
         DEF Environment, CreateMemory, DestroyMemory, Compute, DriverDies, ReleaseBurst,
             DestructorStep, Teardown, TeardownChannel, UnblockWorker, Join, InvalidateSender,
             InvalidateReceiver, vars, channels
    <3> QED
      BY <3>1, <3>2, <3>3, <3>4 DEF Next, DeathStep
  <2>2. alive /\ worker \notin Resting
    BY <2>1 DEF WorkerNoPacket, WorkerSend, WorkerStep, Resting
  <2>3. packet # <<>> /\ packet[1].body.id \in CallsAt(Waiting)
    BY <1>1, <2>2 DEF ExchangeInv, RequestsAwaited
  <2>4. PICK status \in {"ok", "error"}, n \in Nat : SendResult(status, n)
    <3>1. ~WorkerNoPacket \/ SendResult("error", 2)
      BY <1>5 DEF WorkerNoPacket
    <3> QED
      BY <2>1, <3>1, Bounds DEF WorkerSend
  <2>5. e.body.id = packet[1].body.id
    BY <1>1, <1>5, <2>3, <2>4, SendElems DEF RequestId
  <2> QED
    BY <1>3, <2>3, <2>5 DEF CallsAt
<1> QED
  BY <1>4, <1>5

\* What a caller reads is what it waits for.
LEMMA ReceivedOwnNext ==
  TypeInv /\ TurnsInv /\ ExchangeInv /\ [Next]_vars => ReceivedOwn'
<1> SUFFICES ASSUME TypeInv, TurnsInv, ExchangeInv, [Next]_vars, receiverValid', destructor' = "none",
                    NEW t \in Threads, pc'[t] \in {"readRest", "received"},
                    NEW e \in Elems(received')
             PROVE  e.body.id = request'[t].id
  BY DEF ReceivedOwn
<1>1. /\ receiverValid /\ destructor = "none" /\ SlotTypes
      /\ resultChannel \in Seq(Elements) /\ received \in Seq(Elements)
  BY Declines DEF TypeInv, SlotInv, QueueTypes
<1>2. \A u \in Threads : pc[u] \in Waiting \cup {"readRest", "received"} =>
                            \A v \in Threads : pc[v] \in Waiting \cup {"readRest", "received"} => u = v
  BY DEF TurnsInv, HoldersExclude, Holding, Waiting
<1>3. ASSUME NEW u \in Threads, pc[u] \in Waiting \cup {"readRest"}, NEW x \in Elems(resultChannel)
      PROVE  x.body.id = request[u].id
  <2>1. x.body.id \in CallsAt(Waiting \cup {"readRest"})
    BY <1>1 DEF ExchangeInv, ResultsAwaited
  <2> QED
    BY <1>2, <1>3, <2>1 DEF CallsAt
<1>4. ASSUME pc[t] \in {"readRest", "received"}, received' = received, request'[t].id = request[t].id
      PROVE  e.body.id = request'[t].id
  BY <1>1, <1>4 DEF ExchangeInv, ReceivedOwn
<1>5. ASSUME NEW u \in Threads, CallStep(u) PROVE e.body.id = request'[t].id
  <2>1. CASE ReadFirst(u)
    <3>1. /\ pc[u] = "readFirst" /\ resultChannel # <<>> /\ request' = request
          /\ received' = <<Head(resultChannel)>>
      BY <2>1 DEF ReadFirst, Step
    <3>2. t = u
      BY <1>2, <1>5, <3>1, <1>1, CallMoves DEF Waiting
    <3>3. e \in Elems(resultChannel)
      <4>1. e = Head(resultChannel)
        BY <3>1 DEF Elems
      <4> QED
        BY <1>1, <3>1, <4>1, ElemsOf
    <3> QED
      BY <1>3, <3>1, <3>2, <3>3 DEF Waiting
  <2>2. CASE ReadRest(u)
    <3>1. pc[u] = "readRest" /\ request' = request /\ received' = received \o resultChannel
      BY <2>2 DEF ReadRest, Step
    <3>2. t = u
      BY <1>1, <1>2, <1>5, <3>1, CallMoves DEF Waiting
    <3>3. e \in Elems(received) \/ e \in Elems(resultChannel)
      BY <1>1, <3>1, ConcatElems
    <3> QED
      BY <1>1, <1>3, <3>1, <3>2, <3>3 DEF ExchangeInv, ReceivedOwn
  <2>3. ~StopSpinning(u)
    BY <1>1 DEF StopSpinning, SpinEnds
  <2>4. CASE ~ReadFirst(u) /\ ~ReadRest(u)
    <3>1. received' = received
      BY <1>5, <2>3, <2>4
         DEF CallStep, FreeLock, FreeUnknown, FreeKnown, FreeRemote, Lock, KnownSlot, NewSlot,
             SlotsDone, SendInvalid, SendValid, WriteTooLarge, Write, ReceiveInvalid,
             ReceiveValid, Receive
    <3>2. request'[t].id = request[t].id /\ (u # t => pc'[t] = pc[t])
      BY <1>1, <1>5, CallMoves
    <3>3. u # t
      BY <1>1, <1>5, <2>3, <2>4
         DEF CallStep, FreeLock, FreeUnknown, FreeKnown, FreeRemote, Lock, KnownSlot, NewSlot,
             SlotsDone, SendInvalid, SendValid, WriteTooLarge, Write, ReceiveInvalid,
             ReceiveValid, Receive, Return, Step, SlotTypes
    <3> QED
      BY <1>4, <3>1, <3>2, <3>3
  <2> QED
    BY <2>1, <2>2, <2>4
<1>6. CASE DriverStep
  BY <1>4, <1>6, WorkerMoves DEF bystanders, runtime, callerVars
<1>7. ASSUME NEW u \in Threads, NEW keys \in Arguments, Compute(u, keys)
      PROVE  e.body.id = request'[t].id
  BY <1>1, <1>4, <1>7 DEF Compute, Step, SlotTypes
<1>8. CASE \/ UNCHANGED vars \/ DeathStep \/ DestructorStep \/ DriverDies \/ ReleaseBurst
           \/ \E k \in Keys : CreateMemory(k)
           \/ \E u \in Threads, k \in Keys : DestroyMemory(u, k)
  <2>1. /\ received' = received
        /\ pc'[t] = pc[t] /\ request'[t] = request[t]
    BY <1>1, <1>8, OthersMove
  <2> QED
    BY <1>4, <2>1
<1> QED
  BY <1>5, <1>6, <1>7, <1>8 DEF Next, Environment

\* The exchange goes on between one caller and the worker.
LEMMA ExchangeNext == TypeInv /\ TurnsInv /\ ExchangeInv /\ [Next]_vars => ExchangeInv'
BY RequestsAwaitedNext, ResultsAwaitedNext, ReceivedOwnNext, DeathOrderNext DEF ExchangeInv

----------------------------------------------------------------------------
(***************************************************************************)
(* What the slots of a call hold, from the moment they are found until the *)
(* call is run: the memories that the caller named.                        *)
(***************************************************************************)
Holds(s, m) == s < Len(memoryCache) /\ memoryCache[s + 1] = m
Found(i, slots) == \A j \in 1..Len(slots) : Holds(slots[j], named[i][j])
IsComplete(body) == Len(body.slots) = Len(named[body.id]) /\ Found(body.id, body.slots)

FreeAreInvalid == \A i \in 1..Len(freeSlots) : memoryCache[freeSlots[i] + 1] = Invalid

\* Thread t looks for the slots of its call.
Looks(t) ==
    LET r == request[t]
    IN  /\ Len(r.slots) <= Len(r.keys) /\ Len(named[r.id]) = Len(r.keys)
        /\ \A j \in 1..Len(r.keys) : named[r.id][j] = MemoryAt(r.keys[j])

NamedInv ==
    /\ FreeAreInvalid
    /\ \A t \in Threads : pc[t] = "lock" => Len(request[t].slots) = 0
    /\ \A t \in Threads : pc[t] \in {"lock", "slots"} => Looks(t)
    /\ \A t \in Threads : pc[t] \in Unsent => Found(request[t].id, request[t].slots)
    /\ \A t \in Threads : pc[t] \in {"send", "write"} =>
                            Len(request[t].slots) = Len(named[request[t].id])

CarriedInv ==
    alive =>
        /\ \A e \in Elems(requestChannel) : e # Dummy => IsComplete(e.body)
        /\ worker \in Carrying /\ packet # <<>> /\ packet[1] # Dummy => IsComplete(packet[1].body)

\* No memory is the invalid one.
LEMMA MemoriesAreValid == \A m \in Memories : m # Invalid
<1>1. ASSUME NEW m \in Memories, m = Invalid PROVE FALSE
  <2>1. m.gen \in 1..MaxGeneration /\ m.gen = 0
    BY <1>1 DEF Memories, Invalid
  <2> QED
    BY <2>1
<1> QED
  BY <1>1

\* Slots are found and freed when the driver has nothing to do.
LEMMA OneAtATime ==
  ASSUME TurnsInv, NEW t \in Threads, pc[t] \in {"slots", "freeCache"}
  PROVE  /\ destructor = "none"
         /\ \A u \in Threads \ {t} : pc[u] \notin Holding
         /\ alive => requestChannel = <<>> /\ worker \in Resting
<1>1. destructor = "none"
  BY DEF TurnsInv, Valid
<1>2. \A u \in Threads \ {t} : pc[u] \notin Holding
  BY DEF TurnsInv, HoldersExclude, Holding
<1>3. \A u \in Threads : pc[u] \notin Waiting
  BY <1>2 DEF Waiting, Holding
<1> QED
  BY <1>1, <1>2, <1>3 DEF TurnsInv, Turns

\* The slots change by finding and by freeing.
LEMMA SlotsMove ==
  ASSUME TypeInv, [Next]_vars
  PROVE  \/ UNCHANGED <<memoryCache, freeSlots>>
         \/ \E t \in Threads : (NewSlot(t) \/ FreeKnown(t)) /\ CallStep(t)
<1> USE DEF slotVars
<1>1. ASSUME NEW t \in Threads, CallStep(t)
      PROVE  UNCHANGED <<memoryCache, freeSlots>> \/ NewSlot(t) \/ FreeKnown(t)
  BY <1>1
     DEF CallStep, FreeLock, FreeUnknown, FreeRemote, Lock, KnownSlot, SlotsDone, SendInvalid,
         SendValid, WriteTooLarge, Write, ReceiveInvalid, ReceiveValid, ReadFirst, StopSpinning,
         ReadRest, Receive, others
<1>2. CASE DriverStep
  BY <1>2, WorkerMoves DEF bystanders, runtime
<1>3. CASE \E t \in Threads, keys \in Arguments : Compute(t, keys)
  BY <1>3 DEF Compute
<1>4. CASE \/ UNCHANGED vars \/ DeathStep \/ DestructorStep \/ DriverDies \/ ReleaseBurst
           \/ \E k \in Keys : CreateMemory(k)
           \/ \E t \in Threads, k \in Keys : DestroyMemory(t, k)
  BY <1>4, OthersMove DEF TypeInv, SlotInv
<1> QED
  BY <1>1, <1>2, <1>3, <1>4 DEF Next, Environment

\* What is left of a stack after a pop.
LEMMA PopProperties ==
  ASSUME NEW S, NEW q \in Seq(S), q # <<>>
  PROVE  LET p == SubSeq(q, 1, Len(q) - 1)
         IN  p \in Seq(S) /\ Len(p) = Len(q) - 1 /\ \A i \in 1..Len(p) : p[i] = q[i]
<1> DEFINE m == Len(q)
           p == SubSeq(q, 1, m - 1)
<1>1. m \in Nat /\ m > 0 /\ \A i \in 1..(m - 1) : q[i] \in S
  BY EmptySeq, ElementOfSeq
<1>2. /\ p \in Seq(S)
      /\ Len(p) = IF 1 <= m - 1 THEN m - 1 - 1 + 1 ELSE 0
      /\ \A i \in 1..(m - 1 - 1 + 1) : p[i] = q[1 + i - 1]
  BY <1>1, SubSeqProperties
<1> HIDE DEF m, p
<1>3. Len(p) = m - 1
  BY <1>1, <1>2
<1>4. \A i \in 1..Len(p) : i \in 1..(m - 1 - 1 + 1) /\ 1 + i - 1 = i
  BY <1>1, <1>3
<1>5. \A i \in 1..Len(p) : p[i] = q[i]
  BY <1>2, <1>4
<1> QED
  BY <1>2, <1>3, <1>5 DEF m, p

\* What is in an array after one of its places, counted from 0, is written.
LEMMA PutProperties ==
  ASSUME NEW S, NEW q \in Seq(S), NEW s \in Nat, s < Len(q), NEW x \in S,
         NEW r, r = [q EXCEPT ![s + 1] = x]
  PROVE  /\ r \in Seq(S) /\ Len(r) = Len(q) /\ r[s + 1] = x
         /\ \A u \in 0..(Len(q) - 1) : u # s => r[u + 1] = q[u + 1]
<1>1. /\ r \in Seq(S) /\ Len(r) = Len(q) /\ r[s + 1] = x /\ Len(q) \in Nat
      /\ \A j \in 1..Len(q) : j # s + 1 => r[j] = q[j]
  OBVIOUS
<1>2. \A u \in 0..(Len(q) - 1) : u + 1 \in 1..Len(q) /\ (u # s => u + 1 # s + 1)
  BY <1>1
<1> QED
  BY <1>1, <1>2

\* A new slot was free, or there was none: nothing that was held is lost, and
\* the slot holds the memory.
LEMMA NewSlotHolds ==
  ASSUME TypeInv, FreeAreInvalid, NEW t \in Threads, NewSlot(t)
  PROVE  /\ FreeAreInvalid'
         /\ \A s \in Nat : \A m : m # Invalid /\ Holds(s, m) => Holds(s, m)'
         /\ \E s \in Nat : /\ request'[t].slots = Append(request[t].slots, s)
                           /\ \A k : k = NextKey(t) => s < Len(memoryCache')
                                                       /\ memoryCache'[s + 1] = MemoryAt(k)'
<1> DEFINE k == NextKey(t)
           n == Len(memoryCache)
           m == Len(freeSlots)
           slot == IF freeSlots # <<>> THEN freeSlots[m] ELSE n
<1>1. /\ freeSlots' = IF freeSlots # <<>> THEN SubSeq(freeSlots, 1, m - 1) ELSE freeSlots
      /\ memoryCache' = IF freeSlots # <<>>
                        THEN [memoryCache EXCEPT ![slot + 1] = MemoryAt(k)]
                        ELSE Append(memoryCache, MemoryAt(k))
      /\ AddSlot(t, slot) /\ UNCHANGED memories
      /\ memoryIdToSlot' = [x \in DOMAIN memoryIdToSlot \cup {k} |->
                              IF x = k THEN slot ELSE memoryIdToSlot[x]]
  BY DEF NewSlot, FreeSlotsPopped
<1>2. /\ n \in Nat /\ m \in Nat /\ freeSlots \in Seq(Nat) /\ SlotInv
      /\ memoryCache \in Seq([key : Keys, gen : Nat] \cup {Invalid})
      /\ freeSlots # <<>> => m > 0
      /\ Partition(memoryIdToSlot, n, freeSlots)
      /\ request \in [Threads -> [id : Nat, keys : Seq(Keys), slots : Seq(Nat)]]
  BY DEF TypeInv, SlotInv, SlotTypes
<1>3. slot \in Nat /\ (freeSlots # <<>> => slot < n)
  BY <1>2 DEF Partition
<1>4. MemoryAt(k) \in [key : Keys, gen : Nat]
  BY <1>1, <1>2, <1>3, Binds
<1>5. request'[t].slots = Append(request[t].slots, slot)
  BY <1>1, <1>2 DEF AddSlot, WithSlots
<1>6. \A x : x = k => slot < Len(memoryCache') /\ memoryCache'[slot + 1] = MemoryAt(x)'
  <2>1. memoryIdToSlot'[k] = slot /\ k \in DOMAIN memoryIdToSlot'
    BY <1>1
  <2>2. SlotInv'
    BY <1>2, TakesSlot
  <2> HIDE DEF k
  <2>3. \A x \in DOMAIN memoryIdToSlot' :
          memoryIdToSlot'[x] < Len(memoryCache') /\ memoryCache'[memoryIdToSlot'[x] + 1] = MemoryAt(x)'
    BY <2>2 DEF SlotInv, Binding, Partition
  <2> QED
    BY <2>1, <2>3 DEF Holds
<1>7. ASSUME freeSlots # <<>>
      PROVE  FreeAreInvalid' /\ \A s \in Nat : \A x : x # Invalid /\ Holds(s, x) => Holds(s, x)'
  <2>1. /\ Len(freeSlots') = m - 1 /\ \A i \in 1..(m - 1) : freeSlots'[i] = freeSlots[i]
    <3>1. freeSlots' = SubSeq(freeSlots, 1, m - 1)
      BY <1>1, <1>7
    <3> QED
      BY <1>2, <1>7, <3>1, PopProperties
  <2>2. slot = freeSlots[m] /\ m \in 1..m /\ memoryCache[slot + 1] = Invalid
    BY <1>2, <1>7 DEF FreeAreInvalid
  <2>3. /\ Len(memoryCache') = n
        /\ \A s \in 0..(n - 1) : s # slot => memoryCache'[s + 1] = memoryCache[s + 1]
    <3>1. memoryCache' = [memoryCache EXCEPT ![slot + 1] = MemoryAt(k)]
      BY <1>1, <1>7
    <3> HIDE DEF slot, k
    <3> QED
      BY <1>2, <1>3, <1>4, <1>7, <3>1, PutProperties
  <2>4. \A i \in 1..(m - 1) : freeSlots[i] # slot /\ freeSlots[i] \in 0..(n - 1)
    <3>1. \A i \in 1..m : freeSlots[i] \in Nat /\ freeSlots[i] < n
      BY <1>2, ElementOfSeq DEF Partition
    <3>2. \A i \in 1..(m - 1) : i \in 1..m /\ i # m
      BY <1>2
    <3>3. \A i \in 1..m : freeSlots[i] = freeSlots[m] => i = m
      BY <1>2, <2>2 DEF Partition
    <3>4. \A i \in 1..m : freeSlots[i] \in 0..(n - 1)
      BY <1>2, <3>1
    <3> QED
      BY <2>2, <3>2, <3>3, <3>4
  <2> HIDE DEF slot, k
  <2>5. FreeAreInvalid'
    <3> SUFFICES ASSUME NEW i \in 1..Len(freeSlots') PROVE memoryCache'[freeSlots'[i] + 1] = Invalid
      BY DEF FreeAreInvalid
    <3>1. i \in 1..(m - 1) /\ i \in 1..m
      BY <1>2, <2>1
    <3>2. freeSlots'[i] = freeSlots[i] /\ memoryCache[freeSlots[i] + 1] = Invalid
      BY <2>1, <3>1 DEF FreeAreInvalid
    <3> QED
      BY <2>3, <2>4, <3>1, <3>2
  <2>6. ASSUME NEW s \in Nat, NEW x, x # Invalid, Holds(s, x) PROVE Holds(s, x)'
    <3>1. s < n /\ memoryCache[s + 1] = x
      BY <2>6 DEF Holds
    <3>2. s \in 0..(n - 1)
      BY <1>2, <3>1
    <3>3. s # slot
      BY <2>2, <2>6, <3>1
    <3> QED
      BY <2>3, <3>1, <3>2, <3>3 DEF Holds
  <2> QED
    BY <2>5, <2>6
<1>8. ASSUME freeSlots = <<>>
      PROVE  FreeAreInvalid' /\ \A s \in Nat : \A x : x # Invalid /\ Holds(s, x) => Holds(s, x)'
  <2>1. freeSlots' = <<>> /\ memoryCache' = Append(memoryCache, MemoryAt(k))
    BY <1>1, <1>8
  <2> HIDE DEF slot, k
  <2>2. Len(memoryCache') = n + 1 /\ \A j \in 1..n : memoryCache'[j] = memoryCache[j]
    BY <1>2, <1>4, <2>1
  <2>3. FreeAreInvalid'
    BY <2>1 DEF FreeAreInvalid
  <2>4. ASSUME NEW s \in Nat, NEW x, Holds(s, x) PROVE Holds(s, x)'
    <3>1. s + 1 \in 1..n /\ s < n /\ memoryCache[s + 1] = x
      BY <1>2, <2>4 DEF Holds
    <3> QED
      BY <1>2, <2>2, <3>1 DEF Holds
  <2> QED
    BY <2>3, <2>4
<1> QED
  BY <1>3, <1>5, <1>6, <1>7, <1>8

\* The slot of a freed memory is invalid; the others hold what they held.
LEMMA FreeKnownHolds ==
  ASSUME TypeInv, FreeAreInvalid, NEW t \in Threads, FreeKnown(t)
  PROVE  /\ FreeAreInvalid'
         /\ \E slot \in Nat : /\ request'[t].slots = <<slot>> /\ pc'[t] = "freeRemote"
                              /\ Holds(slot, Invalid)'
                              /\ \A s \in Nat \ {slot} : \A m : Holds(s, m) => Holds(s, m)'
<1> DEFINE k == request[t].keys[1]
           slot == memoryIdToSlot[k]
           n == Len(memoryCache)
<1>1. /\ k \in DOMAIN memoryIdToSlot
      /\ memoryCache' = [memoryCache EXCEPT ![slot + 1] = Invalid]
      /\ freeSlots' = Append(freeSlots, slot)
      /\ request' = [request EXCEPT ![t] = WithSlots(@, <<slot>>)]
      /\ pc' = [pc EXCEPT ![t] = "freeRemote"]
  BY DEF FreeKnown, Step
<1>2. /\ n \in Nat /\ slot \in Nat /\ slot < n /\ freeSlots \in Seq(Nat)
      /\ memoryCache \in Seq([key : Keys, gen : Nat] \cup {Invalid})
      /\ \A i \in 1..Len(freeSlots) : freeSlots[i] \in 0..(n - 1) /\ freeSlots[i] # slot
  <2>1. \A i \in 1..Len(freeSlots) : freeSlots[i] \in Nat
    BY ElementOfSeq DEF TypeInv, SlotInv, SlotTypes
  <2>2. /\ n \in Nat /\ slot \in Nat /\ freeSlots \in Seq(Nat)
        /\ memoryCache \in Seq([key : Keys, gen : Nat] \cup {Invalid})
    BY <1>1 DEF TypeInv, SlotInv, SlotTypes
  <2>3. /\ slot < n
        /\ \A i \in 1..Len(freeSlots) : freeSlots[i] < n /\ freeSlots[i] # slot
    BY <1>1 DEF TypeInv, SlotInv, Partition
  <2> HIDE DEF n, slot
  <2>4. \A i \in 1..Len(freeSlots) : freeSlots[i] \in 0..(n - 1)
    BY <2>1, <2>2, <2>3
  <2> QED
    BY <2>2, <2>3, <2>4
<1>3. request'[t].slots = <<slot>> /\ pc'[t] = "freeRemote"
  BY <1>1 DEF TypeInv, SlotInv, SlotTypes, WithSlots
<1> HIDE DEF slot, k
<1>4. Len(memoryCache') = n /\ memoryCache'[slot + 1] = Invalid
  BY <1>1, <1>2, PutProperties
<1>5. \A s \in 0..(n - 1) : s # slot => memoryCache'[s + 1] = memoryCache[s + 1]
  BY <1>1, <1>2, PutProperties
<1> HIDE DEF n
<1>6. FreeAreInvalid'
  <2>1. /\ Len(freeSlots') = Len(freeSlots) + 1 /\ freeSlots'[Len(freeSlots) + 1] = slot
        /\ \A i \in 1..Len(freeSlots) : freeSlots'[i] = freeSlots[i]
    BY <1>1, <1>2, AppendProperties
  <2> SUFFICES ASSUME NEW i \in 1..Len(freeSlots') PROVE memoryCache'[freeSlots'[i] + 1] = Invalid
    BY DEF FreeAreInvalid
  <2>2. CASE i = Len(freeSlots) + 1
    BY <1>4, <2>1, <2>2
  <2>3. CASE i \in 1..Len(freeSlots)
    BY <1>2, <1>5, <2>1, <2>3 DEF FreeAreInvalid
  <2> QED
    BY <1>2, <2>1, <2>2, <2>3
<1>7. PICK place \in Nat : place = slot
  BY <1>2
<1>8. Holds(place, Invalid)'
  BY <1>2, <1>4, <1>7 DEF Holds, n
<1>9. ASSUME NEW s \in Nat \ {place}, NEW m, Holds(s, m) PROVE Holds(s, m)'
  <2>1. s < n /\ memoryCache[s + 1] = m
    BY <1>9 DEF Holds, n
  <2>2. s \in 0..(n - 1)
    BY <1>2, <2>1
  <2> QED
    BY <1>4, <1>5, <1>7, <2>1, <2>2 DEF Holds
<1> QED
  BY <1>3, <1>6, <1>7, <1>8, <1>9

\* What a slot holds it goes on holding, until the memory is freed.
LEMMA HoldsNext ==
  ASSUME TypeInv, FreeAreInvalid, [Next]_vars
  PROVE  /\ FreeAreInvalid'
         /\ (\A t \in Threads : ~FreeKnown(t)) =>
              \A s \in Nat : \A m : m # Invalid /\ Holds(s, m) => Holds(s, m)'
<1>1. CASE UNCHANGED <<memoryCache, freeSlots>>
  BY <1>1 DEF FreeAreInvalid, Holds
<1>2. ASSUME NEW t \in Threads, NewSlot(t)
      PROVE  FreeAreInvalid' /\ \A s \in Nat : \A m : m # Invalid /\ Holds(s, m) => Holds(s, m)'
  BY <1>2, NewSlotHolds
<1>3. ASSUME NEW t \in Threads, FreeKnown(t) PROVE FreeAreInvalid'
  BY <1>3, FreeKnownHolds
<1> QED
  BY <1>1, <1>2, <1>3, SlotsMove

\* A call keeps the memories that it was made with.
LEMMA NamedKept ==
  ASSUME TypeInv, [Next]_vars, NEW i \in Nat, i <= requests
  PROVE  named'[i] = named[i]
<1>1. requests \in Nat /\ SlotTypes /\ HistoryTypes
  BY DEF TypeInv, SlotInv, SlotTypes
<1>2. ASSUME NEW t \in Threads, NEW keys \in Arguments, Compute(t, keys) PROVE named'[i] = named[i]
  <2>1. named' = [named EXCEPT ![requests + 1] = [j \in DOMAIN keys |-> MemoryAt(keys[j])]]
    BY <1>2 DEF Compute
  <2>2. i # requests + 1
    BY <1>1
  <2> QED
    BY <2>1, <2>2
<1>3. ASSUME NEW t \in Threads, CallStep(t) PROVE named' = named
  BY <1>1, <1>3, CallMoves
<1>4. CASE DriverStep
  BY <1>4, WorkerMoves
<1>5. CASE \/ UNCHANGED vars \/ DeathStep \/ DestructorStep \/ DriverDies \/ ReleaseBurst
           \/ \E k \in Keys : CreateMemory(k)
           \/ \E t \in Threads, k \in Keys : DestroyMemory(t, k)
  BY <1>1, <1>5, OthersMove DEF history
<1> QED
  BY <1>2, <1>3, <1>4, <1>5 DEF Next, Environment

\* The memories that a call named are valid.
LEMMA NamedAreMemories ==
  ASSUME TypeInv, NEW i \in 1..requests
  PROVE  /\ named[i] \in Seq(Memories)
         /\ \A j \in 1..Len(named[i]) : named[i][j] \in Memories /\ named[i][j] # Invalid
<1>1. named[i] \in Seq(Memories)
  BY NumbersAreIds DEF TypeInv, HistoryTypes
<1>2. \A j \in 1..Len(named[i]) : named[i][j] \in Memories
  BY <1>1, ElementOfSeq
<1> QED
  BY <1>1, <1>2, MemoriesAreValid

\* Slots that have been found stay so, unless memory is freed.
LEMMA FoundKept ==
  ASSUME TypeInv, FreeAreInvalid, [Next]_vars, \A t \in Threads : ~FreeKnown(t),
         NEW i \in 1..requests, NEW slots \in Seq(Nat), Len(slots) <= Len(named[i]),
         Found(i, slots)
  PROVE  Found(i, slots)'
<1>1. \A j \in 1..Len(slots) : /\ slots[j] \in Nat /\ named[i][j] # Invalid
                               /\ Holds(slots[j], named[i][j])
  <2>1. \A j \in 1..Len(slots) : j \in 1..Len(named[i])
    BY NamedAreMemories
  <2>2. \A j \in 1..Len(slots) : slots[j] \in Nat
    BY ElementOfSeq
  <2> QED
    BY <2>1, <2>2, NamedAreMemories DEF Found
<1>2. named'[i] = named[i]
  BY NamedKept, NumbersAreIds DEF TypeInv
<1>3. \A s \in Nat : \A m : m # Invalid /\ s < Len(memoryCache) /\ memoryCache[s + 1] = m =>
                            s < Len(memoryCache') /\ memoryCache'[s + 1] = m
  BY HoldsNext DEF Holds
<1> QED
  BY <1>1, <1>2, <1>3 DEF Found, Holds

\* At first no slot has been looked for.
LEMMA NamedInit == Init => NamedInv /\ CarriedInv
BY NoElems DEF Init, NamedInv, FreeAreInvalid, Unsent, CarriedInv, Carrying, Serving

\* The slots of a call that has not been sent go on holding what was found.
LEMMA UnsentKeepSlots ==
  ASSUME TypeInv, TurnsInv, NumberInv, NamedInv, [Next]_vars,
         NEW t \in Threads, pc[t] \in Unsent,
         NEW i, i = request[t].id, NEW slots, slots = request[t].slots
  PROVE  /\ i \in 1..requests /\ slots \in Seq(Nat) /\ Len(slots) <= Len(named[i])
         /\ named'[i] = named[i]
         /\ Found(i, slots)'
<1>1. i \in 1..requests /\ slots \in Seq(Nat)
  BY DEF NumberInv, CallNumbers, Computing, TypeInv, SlotInv, SlotTypes
<1>2. Len(slots) <= Len(named[i])
  <2>1. CASE pc[t] \in {"lock", "slots"}
    BY <2>1 DEF NamedInv, Looks
  <2>2. CASE pc[t] \in {"send", "write"}
    BY <1>1, <2>2 DEF NamedInv
  <2> QED
    BY <2>1, <2>2 DEF Unsent
<1>3. named'[i] = named[i]
  BY <1>1, NamedKept, NumbersAreIds DEF TypeInv
<1>4. Found(i, slots)'
  <2>1. CASE \A u \in Threads : ~FreeKnown(u)
    BY <1>1, <1>2, <2>1, FoundKept DEF NamedInv
  <2>2. CASE \E u \in Threads : FreeKnown(u)
    <3>1. pc[t] \notin Holding
      <4>1. PICK u \in Threads : pc[u] = "freeCache"
        BY <2>2 DEF FreeKnown, Step
      <4> QED
        BY <4>1, OneAtATime DEF Unsent
    <3>2. Len(slots) = 0
      BY <3>1 DEF Unsent, Holding, NamedInv
    <3> QED
      BY <3>2 DEF Found
  <2> QED
    BY <2>1, <2>2
<1> QED
  BY <1>1, <1>2, <1>3, <1>4

\* A call that stands still keeps what it named and what it found.
LEMMA StandsStill ==
  ASSUME TypeInv, TurnsInv, NumberInv, NamedInv, [Next]_vars,
         NEW t \in Threads, pc'[t] \in Unsent => pc'[t] = pc[t] /\ request'[t] = request[t],
         \A k \in Keys : live[k] => generation'[k] = generation[k]
  PROVE  /\ pc'[t] = "lock" => Len(request'[t].slots) = 0
         /\ pc'[t] \in {"lock", "slots"} => Looks(t)'
         /\ pc'[t] \in Unsent => Found(request[t].id, request[t].slots)'
         /\ pc'[t] \in {"send", "write"} => Len(request'[t].slots) = Len(named'[request'[t].id])
<1> SUFFICES ASSUME pc[t] \in Unsent, pc'[t] = pc[t], request'[t] = request[t]
             PROVE  /\ pc[t] = "lock" => Len(request'[t].slots) = 0
                    /\ pc[t] \in {"lock", "slots"} => Looks(t)'
                    /\ Found(request[t].id, request[t].slots)'
                    /\ pc[t] \in {"send", "write"} => Len(request'[t].slots) = Len(named'[request'[t].id])
  BY DEF Unsent
<1> PICK i, slots : i = request[t].id /\ slots = request[t].slots
  OBVIOUS
<1>1. i \in 1..requests /\ slots \in Seq(Nat) /\ named'[i] = named[i] /\ Found(i, slots)'
  BY UnsentKeepSlots
<1>2. Found(request[t].id, request[t].slots)'
  BY <1>1 DEF Found
<1>3. ASSUME pc[t] \in {"lock", "slots"} PROVE Looks(t)'
  <2>1. \A j \in 1..Len(request[t].keys) : generation'[request[t].keys[j]] = generation[request[t].keys[j]]
    <3>1. \A j \in 1..Len(request[t].keys) : request[t].keys[j] \in Keys
      BY ElementOfSeq DEF TypeInv, SlotInv, SlotTypes
    <3> QED
      BY <1>3, <3>1 DEF TypeInv, SlotInv, NamedAreLive
  <2>2. Looks(t)
    BY <1>3 DEF NamedInv
  <2> QED
    BY <1>1, <2>1, <2>2 DEF Looks, MemoryAt
<1> QED
  BY <1>1, <1>2, <1>3 DEF NamedInv

\* The thread that looks for slots finds the one that holds the next memory.
LEMMA FindsNext ==
  ASSUME TypeInv, TurnsInv, NumberInv, NamedInv, [Next]_vars,
         NEW t \in Threads, KnownSlot(t) \/ NewSlot(t)
  PROVE  Looks(t)' /\ Found(request[t].id, request[t].slots)'
<1> PICK i, keys, slots : i = request[t].id /\ keys = request[t].keys /\ slots = request[t].slots
  OBVIOUS
<1>1. pc[t] = "slots" /\ MoreKeys(t) /\ UNCHANGED memories
  BY DEF KnownSlot, NewSlot
<1>2. /\ i \in 1..requests /\ slots \in Seq(Nat) /\ Len(slots) <= Len(named[i])
      /\ named'[i] = named[i] /\ Found(i, slots)'
  BY <1>1, UnsentKeepSlots DEF Unsent
<1>3. /\ Len(slots) < Len(keys) /\ Len(named[i]) = Len(keys)
      /\ \A j \in 1..Len(keys) : named[i][j] = MemoryAt(keys[j])
  BY <1>1 DEF MoreKeys, NamedInv, Looks
<1>4. NextKey(t) = keys[Len(slots) + 1]
  BY DEF NextKey
<1>5. PICK s \in Nat : /\ request' = [request EXCEPT ![t] = WithSlots(@, Append(slots, s))]
                       /\ s < Len(memoryCache') /\ memoryCache'[s + 1] = MemoryAt(NextKey(t))
  <2> DEFINE k == NextKey(t)
  <2>1. CASE KnownSlot(t)
    <3>1. k \in DOMAIN memoryIdToSlot /\ AddSlot(t, memoryIdToSlot[k]) /\ UNCHANGED memoryCache
      BY <2>1 DEF KnownSlot, slotVars
    <3>2. /\ memoryIdToSlot[k] \in Nat /\ memoryIdToSlot[k] < Len(memoryCache)
          /\ memoryCache[memoryIdToSlot[k] + 1] = MemoryAt(k)
      BY <3>1 DEF TypeInv, SlotInv, SlotTypes, Partition, Binding
    <3> QED
      BY <3>1, <3>2 DEF AddSlot
  <2>2. CASE NewSlot(t)
    <3>1. PICK s \in Nat : /\ request'[t].slots = Append(request[t].slots, s)
                           /\ \A x : x = k => s < Len(memoryCache')
                                              /\ memoryCache'[s + 1] = MemoryAt(x)'
      BY <2>2, NewSlotHolds DEF NamedInv
    <3>2. PICK r : request' = [request EXCEPT ![t] = WithSlots(@, Append(slots, r))]
      BY <2>2 DEF NewSlot, AddSlot
    <3>3. Append(slots, r) = Append(slots, s)
      BY <3>1, <3>2 DEF TypeInv, SlotInv, SlotTypes, WithSlots
    <3>4. memoryCache'[s + 1] = MemoryAt(k)
      BY <1>1, <3>1 DEF MemoryAt, memories
    <3> QED
      BY <3>1, <3>2, <3>3, <3>4
  <2> QED
    BY <2>1, <2>2
<1>6. request'[t].id = i /\ request'[t].keys = keys /\ request'[t].slots = Append(slots, s)
  BY <1>5 DEF TypeInv, SlotInv, SlotTypes, WithSlots
<1>7. /\ Len(Append(slots, s)) = Len(slots) + 1 /\ Len(slots) \in Nat
      /\ \A j \in 1..Len(slots) : Append(slots, s)[j] = slots[j]
      /\ Append(slots, s)[Len(slots) + 1] = s
  BY <1>2, AppendProperties
<1>8. Len(keys) \in Nat
  BY DEF TypeInv, SlotInv, SlotTypes
<1>9. Looks(t)'
  <2>1. Len(slots) + 1 <= Len(keys)
    BY <1>3, <1>7, <1>8
  <2>2. \A x : MemoryAt(x)' = MemoryAt(x)
    BY <1>1 DEF MemoryAt, memories
  <2>3. \A j \in 1..Len(keys) : named'[i][j] = MemoryAt(keys[j])'
    BY <1>2, <1>3, <2>2
  <2>4. Len(Append(slots, s)) <= Len(keys) /\ Len(named'[i]) = Len(keys)
    BY <1>2, <1>3, <1>7, <2>1
  <2> QED
    BY <1>6, <2>3, <2>4 DEF Looks
<1>10. Found(i, Append(slots, s))'
  <2> SUFFICES ASSUME NEW j \in 1..(Len(slots) + 1)
               PROVE  /\ Append(slots, s)[j] < Len(memoryCache')
                      /\ memoryCache'[Append(slots, s)[j] + 1] = named'[i][j]
    BY <1>7 DEF Found, Holds
  <2>1. CASE j \in 1..Len(slots)
    BY <1>2, <1>7, <2>1 DEF Found, Holds
  <2>2. CASE j = Len(slots) + 1
    <3>1. j \in 1..Len(keys)
      BY <1>3, <1>7, <1>8, <2>2
    <3> QED
      BY <1>2, <1>3, <1>4, <1>5, <1>7, <2>2, <3>1
  <2> QED
    BY <1>7, <2>1, <2>2
<1> QED
  BY <1>6, <1>9, <1>10 DEF Found

\* Calls find the memories they named, one after the other.
LEMMA NamedNext ==
  TypeInv /\ TurnsInv /\ NumberInv /\ NamedInv /\ [Next]_vars => NamedInv'
<1> SUFFICES ASSUME TypeInv, TurnsInv, NumberInv, NamedInv, [Next]_vars PROVE NamedInv'
  OBVIOUS
<1> DEFINE Goal(t) ==
      /\ pc'[t] = "lock" => Len(request'[t].slots) = 0
      /\ pc'[t] \in {"lock", "slots"} => Looks(t)'
      /\ pc'[t] \in Unsent => Found(request[t].id, request[t].slots)'
      /\ pc'[t] \in {"send", "write"} => Len(request'[t].slots) = Len(named'[request'[t].id])
<1>1. FreeAreInvalid' /\ SlotTypes
  BY HoldsNext DEF NamedInv, TypeInv, SlotInv
<1> SUFFICES ASSUME NEW t \in Threads PROVE Goal(t)
  BY <1>1 DEF NamedInv
<1>2. ASSUME pc'[t] \in Unsent => pc'[t] = pc[t] /\ request'[t] = request[t],
             \A k \in Keys : live[k] => generation'[k] = generation[k]
      PROVE  Goal(t)
  BY <1>2, StandsStill
<1>3. ASSUME NEW u \in Threads, CallStep(u), u # t PROVE Goal(t)
  BY <1>1, <1>2, <1>3, CallMoves DEF memories
<1>4. ASSUME CallStep(t) PROVE Goal(t)
  <2>0. UNCHANGED memories
    BY <1>1, <1>4, CallMoves
  <2>1. CASE KnownSlot(t) \/ NewSlot(t)
    <3>1. pc'[t] = "slots"
      BY <2>1 DEF KnownSlot, NewSlot
    <3> QED
      BY <2>1, <3>1, FindsNext
  <2>2. CASE Lock(t) \/ SlotsDone(t) \/ SendValid(t)
    <3> PICK i, slots : i = request[t].id /\ slots = request[t].slots
      OBVIOUS
    <3>1. /\ request' = request /\ pc[t] \in Unsent
          /\ \/ pc[t] = "lock" /\ pc'[t] = "slots"
             \/ pc[t] = "slots" /\ pc'[t] = "send" /\ ~MoreKeys(t)
             \/ pc[t] = "send" /\ pc'[t] = "write"
      BY <1>1, <2>2 DEF Lock, SlotsDone, SendValid, Step, Unsent, SlotTypes
    <3>2. /\ i \in 1..requests /\ slots \in Seq(Nat) /\ Len(slots) <= Len(named[i])
          /\ named'[i] = named[i] /\ Found(i, slots)'
      BY <3>1, UnsentKeepSlots
    <3>3. Found(request[t].id, request[t].slots)'
      BY <3>1, <3>2 DEF Found
    <3>4. CASE pc[t] = "lock"
      <4>1. Looks(t)
        BY <3>4 DEF NamedInv
      <4>2. Looks(t)'
        BY <2>0, <3>1, <3>2, <4>1 DEF Looks, MemoryAt, memories
      <4> QED
        BY <3>1, <3>3, <3>4, <4>2
    <3>5. CASE pc[t] = "slots"
      <4>1. Looks(t) /\ ~MoreKeys(t)
        BY <3>1, <3>5 DEF NamedInv
      <4>2. Len(request[t].slots) = Len(named[i])
        BY <1>1, <3>2, <4>1 DEF Looks, MoreKeys, SlotTypes
      <4> QED
        BY <3>1, <3>2, <3>3, <3>5, <4>2
    <3>6. CASE pc[t] = "send"
      BY <3>1, <3>2, <3>3, <3>6 DEF NamedInv
    <3> QED
      BY <3>1, <3>4, <3>5, <3>6
  <2>3. CASE pc'[t] \notin Unsent
    BY <2>3 DEF Unsent
  <2> QED
    BY <1>1, <1>4, <2>1, <2>2, <2>3
       DEF CallStep, FreeLock, FreeUnknown, FreeKnown, FreeRemote, SendInvalid, WriteTooLarge,
           Write, ReceiveInvalid, ReceiveValid, ReadFirst, StopSpinning, ReadRest, Receive, Return,
           Step, SlotTypes, Unsent
<1>5. ASSUME NEW u \in Threads, NEW keys \in Arguments, Compute(u, keys) PROVE Goal(t)
  <2>1. /\ u # t => pc'[t] = pc[t] /\ request'[t] = request[t]
        /\ UNCHANGED memories
    BY <1>1, <1>5 DEF Compute, Step, SlotTypes
  <2>2. CASE u = t
    <3>1. /\ pc'[t] = "lock" /\ requests + 1 \in Ids
          /\ request'[t].id = requests + 1 /\ request'[t].keys = keys /\ request'[t].slots = <<>>
          /\ named' = [named EXCEPT ![requests + 1] = [j \in DOMAIN keys |-> MemoryAt(keys[j])]]
      BY <1>1, <1>5, <2>2, Bounds DEF Compute, Step, SlotTypes, Ids, TypeInv, CountTypes
    <3>2. DOMAIN keys = 1..Len(keys) /\ Len(keys) \in Nat
      <4>1. keys \in Seq(Keys)
        BY BurstAssumption
      <4> QED
        BY <4>1
    <3>3. named'[requests + 1] = [j \in 1..Len(keys) |-> MemoryAt(keys[j])]
      BY <3>1, <3>2 DEF TypeInv, HistoryTypes
    <3>4. Len(named'[requests + 1]) = Len(keys)
      BY <3>2, <3>3
    <3>5. Looks(t)'
      BY <2>1, <3>1, <3>2, <3>3, <3>4 DEF Looks, MemoryAt, memories
    <3> QED
      BY <3>1, <3>5 DEF Found
  <2> QED
    BY <1>2, <2>1, <2>2 DEF memories
<1>6. CASE DriverStep
  BY <1>2, <1>6, WorkerMoves DEF bystanders, runtime, callerVars, memories
<1>7. CASE \/ UNCHANGED vars \/ DeathStep \/ DestructorStep \/ DriverDies \/ ReleaseBurst
           \/ \E k \in Keys : CreateMemory(k)
           \/ \E u \in Threads, k \in Keys : DestroyMemory(u, k)
  <2>1. pc'[t] \in Unsent => pc'[t] = pc[t] /\ request'[t] = request[t]
    BY <1>1, <1>7, OthersMove DEF Unsent
  <2>2. \A k \in Keys : live[k] => generation'[k] = generation[k]
    <3>1. ASSUME NEW k \in Keys, CreateMemory(k)
          PROVE  \A l \in Keys : live[l] => generation'[l] = generation[l]
      BY <1>1, <3>1 DEF CreateMemory, SlotTypes
    <3>2. CASE \E u \in Threads, k \in Keys : DestroyMemory(u, k)
      BY <3>2 DEF DestroyMemory
    <3>3. CASE \/ UNCHANGED vars \/ DeathStep \/ DestructorStep \/ DriverDies \/ ReleaseBurst
      BY <3>3
         DEF vars, runtime, memories, DeathStep, InvalidateSender, InvalidateReceiver,
             UnblockReceiver, DestructorStep, Teardown, TeardownChannel, UnblockWorker, Join,
             DriverDies, ReleaseBurst
    <3> QED
      BY <1>7, <3>1, <3>2, <3>3
  <2> QED
    BY <1>2, <2>1, <2>2
<1> QED
  BY <1>3, <1>4, <1>5, <1>6, <1>7 DEF Next, Environment

\* A complete request stays complete, and freeing finds none.
LEMMA CompleteKept ==
  ASSUME TypeInv, FreeAreInvalid, [Next]_vars, \A t \in Threads : ~FreeKnown(t),
         NEW e \in Elements, e.body.id \in 1..requests, IsComplete(e.body)
  PROVE  IsComplete(e.body)'
<1>1. e.body.slots \in Seq(Nat)
  BY DEF Elements
<1>2. Len(e.body.slots) = Len(named[e.body.id]) /\ Found(e.body.id, e.body.slots)
  BY DEF IsComplete
<1>3. Len(named[e.body.id]) \in Nat
  BY NamedAreMemories
<1>4. Found(e.body.id, e.body.slots)'
  BY <1>1, <1>2, <1>3, FoundKept
<1>5. named'[e.body.id] = named[e.body.id]
  BY NamedKept, NumbersAreIds DEF TypeInv
<1> QED
  BY <1>2, <1>4, <1>5 DEF IsComplete

\* The slots of a request that is on its way, or that the worker has, hold the
\* memories that were named.
LEMMA CarriedInvNext ==
  TypeInv /\ TurnsInv /\ NumberInv /\ NothingFollows /\ NamedInv /\ CarriedInv /\ [Next]_vars
    => CarriedInv'
<1> SUFFICES ASSUME TypeInv, TurnsInv, NumberInv, NothingFollows, NamedInv, CarriedInv, [Next]_vars,
                    alive'
             PROVE  /\ \A e \in Elems(requestChannel') : e # Dummy => IsComplete(e.body)'
                    /\ worker' \in Carrying /\ packet' # <<>> /\ packet'[1] # Dummy =>
                         IsComplete(packet[1].body)'
  BY DEF CarriedInv, Dummy, Body
<1>1. /\ alive /\ SlotTypes /\ packet \in Seq(Elements) /\ requestChannel \in Seq(Elements)
      /\ FreeAreInvalid
  BY Declines DEF TypeInv, SlotInv, QueueTypes, NamedInv
<1>2. CASE \E t \in Threads : FreeKnown(t)
  <2>1. PICK t \in Threads : FreeKnown(t)
    BY <1>2
  <2>2. requestChannel = <<>> /\ worker \in Resting
    BY <1>1, <2>1, OneAtATime DEF FreeKnown, Step
  <2>3. UNCHANGED <<requestChannel, worker>>
    BY <2>1 DEF FreeKnown, channels, driver, workerVars
  <2> QED
    BY <2>2, <2>3, NoElems DEF Resting, Carrying, Serving
<1>3. CASE \A t \in Threads : ~FreeKnown(t)
  <2>1. ASSUME NEW e, e \in Elements, e # Dummy, e \in Elems(requestChannel)
        PROVE  IsComplete(e.body)'
    <3>1. e.body.id \in 1..requests
      BY <2>1 DEF NumberInv, TransitNumbers, InTransit, IsRequest
    <3>2. IsComplete(e.body)
      BY <1>1, <2>1 DEF CarriedInv
    <3> QED
      BY <1>1, <1>3, <2>1, <3>1, <3>2, CompleteKept
  <2>2. ASSUME NEW t \in Threads, NEW n \in RequestSizes, Write(t, n),
               NEW e \in Elems(requestChannel'),
               e.body = Body(request[t].id, request[t].slots, "ok")
        PROVE  IsComplete(e.body)'
    <3> PICK i, slots : i = request[t].id /\ slots = request[t].slots
      OBVIOUS
    <3>1. pc[t] = "write"
      BY <2>2 DEF Write, Step
    <3>2. named'[i] = named[i] /\ Found(i, slots)'
      BY <3>1, UnsentKeepSlots DEF Unsent
    <3>3. Len(slots) = Len(named[i])
      BY <3>1 DEF NamedInv
    <3>4. e.body.id = i /\ e.body.slots = slots
      BY <2>2 DEF Body
    <3> QED
      BY <3>2, <3>3, <3>4 DEF IsComplete
  <2>3. ASSUME NEW e \in Elems(requestChannel'), e # Dummy PROVE IsComplete(e.body)'
    <3>1. CASE e \in Elems(requestChannel)
      BY <1>1, <2>1, <2>3, <3>1, ElemsOf
    <3> QED
      BY <2>2, <2>3, <3>1, RequestsMove
  <2>4. ASSUME worker' \in Carrying, packet' # <<>>, packet'[1] # Dummy
        PROVE  IsComplete(packet[1].body)'
    <3> PICK e : e = packet'[1]
      OBVIOUS
    <3>1. CASE e \in Elems(requestChannel)
      <4>1. IsComplete(e.body)'
        BY <1>1, <2>1, <2>4, <3>1, ElemsOf
      <4> QED
        BY <4>1 DEF IsComplete, Found
    <3>2. CASE worker \in Carrying /\ packet # <<>> /\ packet'[1] = packet[1]
      <4>1. e \in Elements /\ e \in Elems(packet) /\ e # Dummy
        BY <1>1, <2>4, <3>2, ElemsOf
      <4>2. IsComplete(e.body)
        BY <1>1, <2>4, <3>2 DEF CarriedInv
      <4>3. e.body.id \in 1..requests
        BY <4>1 DEF NumberInv, TransitNumbers, InTransit, IsRequest
      <4>4. IsComplete(e.body)'
        BY <1>1, <1>3, <4>1, <4>2, <4>3, CompleteKept
      <4> QED
        BY <4>4 DEF IsComplete, Found
    <3> QED
      BY <2>4, <3>1, <3>2, RequestsMove
  <2> QED
    BY <2>3, <2>4
<1> QED
  BY <1>2, <1>3

----------------------------------------------------------------------------
(***************************************************************************)
(* What the driver's cache may hold: an empty entry, the memory that the   *)
(* runtime has in the slot, or a memory that is just being freed.          *)
(***************************************************************************)
Outdated(s) ==
    /\ Holds(s, Invalid)
    /\ \/ destructor # "none"
       \/ \E t \in Threads : pc[t] = "freeRemote" /\ request[t].slots = <<s>>

EntriesCurrent ==
    \A s \in DOMAIN serverCache :
        serverCache[s] = Invalid \/ Holds(s, serverCache[s]) \/ Outdated(s)

FetchedCurrent ==
    worker = "addEntries" => \A s \in DOMAIN fetched : fetched[s] # Invalid /\ Holds(s, fetched[s])

Coherent == alive => EntriesCurrent /\ FetchedCurrent

\* At first the cache is empty.
LEMMA CoherentInit == Init => Coherent
<1>1. DOMAIN <<>> = {}
  OBVIOUS
<1> QED
  BY <1>1, Zenon DEF Init, Coherent, EntriesCurrent, FetchedCurrent

\* Nothing that a cache's entries are compared with changes.
LEMMA CoherentKept ==
  ASSUME Coherent, alive, memoryCache' = memoryCache, serverCache' = serverCache,
         fetched' = fetched, worker' = "addEntries" => worker = "addEntries",
         destructor' = "none" => destructor = "none",
         destructor' = "none" =>
           \A t \in Threads : pc[t] = "freeRemote" => pc'[t] = pc[t] /\ request'[t] = request[t]
  PROVE  Coherent'
<1>1. \A s \in DOMAIN serverCache : Outdated(s) => Outdated(s)'
  BY DEF Outdated, Holds
<1>2. \A s \in DOMAIN serverCache : Holds(s, serverCache[s]) => Holds(s, serverCache[s])'
  BY DEF Holds
<1> QED
  BY <1>1, <1>2 DEF Coherent, EntriesCurrent, FetchedCurrent, Holds

\* Slots change hands when the worker rests and nobody else frees.
LEMMA SlotsKeepCoherent ==
  ASSUME TypeInv, TurnsInv, FreeAreInvalid, Coherent, NEW t \in Threads, CallStep(t),
         NewSlot(t) \/ FreeKnown(t)
  PROVE  Coherent'
<1> SUFFICES ASSUME alive' PROVE EntriesCurrent' /\ FetchedCurrent'
  BY DEF Coherent
<1>1. /\ pc[t] \in {"slots", "freeCache"} /\ UNCHANGED <<serverCache, fetched, worker, alive>>
      /\ CacheTypes
  BY DEF NewSlot, FreeKnown, Step, driver, workerVars, TypeInv
<1>2. /\ destructor = "none" /\ worker \in Resting
      /\ \A u \in Threads : pc[u] # "freeRemote"
  BY <1>1, OneAtATime DEF Holding
<1>3. FetchedCurrent'
  BY <1>1, <1>2 DEF FetchedCurrent, Resting
<1> SUFFICES ASSUME NEW s \in DOMAIN serverCache, serverCache[s] # Invalid
             PROVE  Holds(s, serverCache[s])' \/ Outdated(s)'
  BY <1>1, <1>3 DEF EntriesCurrent
<1>4. s \in Nat /\ Holds(s, serverCache[s])
  BY <1>1, <1>2 DEF Coherent, EntriesCurrent, Outdated, CacheTypes, IsEntryMap
<1>5. CASE NewSlot(t)
  BY <1>1, <1>4, <1>5, NewSlotHolds DEF Holds
<1>6. CASE FreeKnown(t)
  <2>1. PICK slot \in Nat : /\ request'[t].slots = <<slot>> /\ pc'[t] = "freeRemote"
                            /\ Holds(slot, Invalid)'
                            /\ \A x \in Nat \ {slot} : \A m : Holds(x, m) => Holds(x, m)'
    BY <1>6, FreeKnownHolds
  <2>2. CASE s = slot
    BY <2>1, <2>2 DEF Outdated
  <2>3. CASE s # slot
    BY <1>1, <1>4, <2>1, <2>3 DEF Holds
  <2> QED
    BY <2>2, <2>3
<1> QED
  BY <1>5, <1>6

\* The driver forgets the memory that is freed.
LEMMA FreeRemoteKeepsCoherent ==
  ASSUME TypeInv, TurnsInv, Coherent, NEW t \in Threads, FreeRemote(t) PROVE Coherent'
<1> SUFFICES ASSUME alive' PROVE EntriesCurrent' /\ FetchedCurrent'
  BY DEF Coherent
<1>1. /\ pc[t] = "freeRemote" /\ pc' = [pc EXCEPT ![t] = "idle"] /\ alive
      /\ serverCache' = RemoveCacheEntry(request[t].slots[1])
      /\ UNCHANGED <<request, memoryCache, fetched, worker, destructor>>
  BY DEF FreeRemote, Step, slotVars, workerVars, teardownVars
<1>2. FetchedCurrent'
  BY <1>1 DEF Coherent, FetchedCurrent, Holds
<1> SUFFICES ASSUME NEW s \in DOMAIN serverCache' PROVE
               serverCache'[s] = Invalid \/ Holds(s, serverCache[s])' \/ Outdated(s)'
  BY <1>2 DEF EntriesCurrent
<1>3. s \in DOMAIN serverCache /\ s # request[t].slots[1] /\ serverCache'[s] = serverCache[s]
  BY <1>1 DEF RemoveCacheEntry
<1>4. CASE Outdated(s)
  <2>1. destructor # "none"
    <3> SUFFICES ASSUME NEW u \in Threads, pc[u] = "freeRemote", request[u].slots = <<s>> PROVE FALSE
      BY <1>4 DEF Outdated
    <3>1. u = t
      BY <1>1 DEF TurnsInv, HoldersExclude, Holding
    <3> QED
      BY <1>3, <3>1
  <2> QED
    BY <1>1, <1>4, <2>1 DEF Outdated, Holds
<1> QED
  BY <1>1, <1>3, <1>4 DEF Coherent, EntriesCurrent, Holds

\* The worker fetches what the runtime has, and keeps it.
LEMMA WorkerKeepsCoherent ==
  ASSUME TypeInv, Coherent, DriverStep PROVE Coherent'
<1>1. /\ UNCHANGED <<memoryCache, pc, request, destructor>> /\ alive
      /\ EntriesCurrent /\ FetchedCurrent
  BY WorkerMoves DEF bystanders, runtime, callerVars, slotVars, teardownVars, Coherent
<1>2. ASSUME EntriesCurrent', FetchedCurrent' PROVE Coherent'
  BY <1>2 DEF Coherent
<1>3. ASSUME serverCache' = serverCache PROVE EntriesCurrent'
  BY <1>1, <1>3 DEF EntriesCurrent, Outdated, Holds
<1>4. CASE WorkerGetMemories
  <2>1. /\ serverCache' = serverCache
        /\ \/ /\ \A s \in UnknownSlots : RuntimeMemory(s) # Invalid
              /\ fetched' = [s \in UnknownSlots |-> RuntimeMemory(s)]
           \/ fetched' = <<>>
    BY <1>4 DEF WorkerGetMemories
  <2>2. \A s \in DOMAIN fetched' : fetched'[s] # Invalid /\ fetched'[s] = RuntimeMemory(s)
    BY <2>1
  <2>3. \A s \in DOMAIN fetched' : s < Len(memoryCache) /\ fetched'[s] = memoryCache[s + 1]
    BY <2>2 DEF RuntimeMemory
  <2> QED
    BY <1>1, <1>2, <1>3, <2>1, <2>2, <2>3 DEF FetchedCurrent, Holds
<1>5. CASE WorkerAddEntries
  <2>1. worker = "addEntries" /\ worker' = "execute" /\ serverCache' = Extend(serverCache, fetched)
    BY <1>5 DEF WorkerAddEntries, WorkerStep
  <2>2. \A s \in DOMAIN serverCache' : \/ s \in DOMAIN fetched /\ serverCache'[s] = fetched[s]
                                       \/ s \in DOMAIN serverCache /\ serverCache'[s] = serverCache[s]
    BY <2>1 DEF Extend
  <2>3. EntriesCurrent'
    BY <1>1, <2>1, <2>2 DEF EntriesCurrent, FetchedCurrent, Outdated, Holds
  <2> QED
    BY <1>2, <2>1, <2>3 DEF FetchedCurrent
<1>6. CASE WorkerExecute
  <2>1. /\ worker' # "addEntries"
        /\ serverCache' = Extend(serverCache, [s \in UnknownSlots |-> Invalid])
    BY <1>6 DEF WorkerExecute, WorkerStep
  <2>2. \A s \in DOMAIN serverCache' : \/ serverCache'[s] = Invalid
                                       \/ s \in DOMAIN serverCache /\ serverCache'[s] = serverCache[s]
    BY <2>1 DEF Extend
  <2>3. EntriesCurrent'
    BY <1>1, <2>1, <2>2 DEF EntriesCurrent, Outdated, Holds
  <2> QED
    BY <1>2, <2>1, <2>3 DEF FetchedCurrent
<1>7. CASE UNCHANGED <<serverCache, fetched>> /\ worker' # "addEntries"
  BY <1>2, <1>3, <1>7 DEF FetchedCurrent
<1> QED
  BY <1>4, <1>5, <1>6, <1>7
     DEF DriverStep, WorkerLoop, WorkerReceive, WorkerReadFirst, WorkerStopSpinning,
         WorkerReadRest, WorkerCheckPacket, WorkerNoPacket, WorkerEnsure, WorkerSend, WorkerStep

\* The driver's cache follows the runtime's.
LEMMA CoherentNext ==
  TypeInv /\ TurnsInv /\ FreeAreInvalid /\ Coherent /\ [Next]_vars => Coherent'
<1> SUFFICES ASSUME TypeInv, TurnsInv, FreeAreInvalid, Coherent, [Next]_vars, alive' PROVE Coherent'
  BY DEF Coherent
<1>1. alive /\ SlotTypes /\ (destructor' = "none" => destructor = "none")
  BY Declines DEF TypeInv, SlotInv
<1>2. ASSUME NEW t \in Threads, CallStep(t) PROVE Coherent'
  <2>1. CASE NewSlot(t) \/ FreeKnown(t)
    BY <1>2, <2>1, SlotsKeepCoherent
  <2>2. CASE FreeRemote(t)
    BY <2>2, FreeRemoteKeepsCoherent
  <2>3. CASE pc[t] # "freeRemote" /\ UNCHANGED <<memoryCache, serverCache>>
    <3>1. UNCHANGED <<fetched, worker>>
      BY <1>1, <1>2, CallMoves DEF workerVars
    <3>2. \A u \in Threads : pc[u] = "freeRemote" => pc'[u] = pc[u] /\ request'[u] = request[u]
      BY <1>1, <1>2, <2>3, CallMoves
    <3> QED
      BY <1>1, <2>3, <3>1, <3>2, CoherentKept
  <2> QED
    BY <1>2, <2>1, <2>2, <2>3
       DEF CallStep, FreeLock, FreeUnknown, Lock, KnownSlot, SlotsDone, SendInvalid, SendValid,
           WriteTooLarge, Write, ReceiveInvalid, ReceiveValid, ReadFirst, StopSpinning, ReadRest,
           Receive, Return, Step, others, slotVars, driver
<1>3. CASE DriverStep
  BY <1>3, WorkerKeepsCoherent
<1>4. CASE ReleaseBurst
  BY <1>1, <1>4, CoherentKept DEF ReleaseBurst, slotVars, workerVars
<1>5. ASSUME NEW t \in Threads, NEW keys \in Arguments, Compute(t, keys) PROVE Coherent'
  <2>1. /\ UNCHANGED <<memoryCache, serverCache, fetched, worker>> /\ pc[t] = "idle"
        /\ \A u \in Threads \ {t} : pc'[u] = pc[u] /\ request'[u] = request[u]
    BY <1>1, <1>5 DEF Compute, Step, slotVars, driver, workerVars, SlotTypes
  <2> QED
    BY <1>1, <2>1, CoherentKept
<1>6. ASSUME NEW t \in Threads, NEW k \in Keys, DestroyMemory(t, k) PROVE Coherent'
  <2>1. /\ UNCHANGED <<memoryCache, serverCache, fetched, worker>> /\ pc[t] = "idle"
        /\ \A u \in Threads \ {t} : pc'[u] = pc[u] /\ request'[u] = request[u]
    BY <1>1, <1>6 DEF DestroyMemory, Step, slotVars, driver, workerVars, SlotTypes
  <2> QED
    BY <1>1, <2>1, CoherentKept
<1>7. CASE \/ UNCHANGED vars \/ DeathStep \/ DestructorStep \/ DriverDies
           \/ \E k \in Keys : CreateMemory(k)
  <2>1. UNCHANGED <<memoryCache, serverCache, fetched, worker, pc, request>>
    BY <1>7 DEF vars, runtime, callerVars, slotVars, driver, workerVars, DeathStep,
                InvalidateSender, InvalidateReceiver, UnblockReceiver, DestructorStep, Teardown,
                TeardownChannel, UnblockWorker, Join, DriverDies, CreateMemory
  <2> QED
    BY <1>1, <2>1, CoherentKept
<1> QED
  BY <1>2, <1>3, <1>4, <1>5, <1>6, <1>7 DEF Next, Environment

----------------------------------------------------------------------------
(***************************************************************************)
(* What is answered.                                                       *)
(***************************************************************************)
\* Call i has been run, on the memories it named.
RanOn(i) == i \in Ids /\ executed[i] = <<named[i]>>

SentRan == worker = "sendResult" => RanOn(packet[1].body.id)

ResultsRan ==
    \A e \in Elems(resultChannel) \cup Elems(received) :
        e.body.status = "ok" => RanOn(e.body.id)

ResultInv == SentRan /\ ResultsRan /\ AnswersItsRequest /\ NoStaleMemory

\* At first nothing has been run.
LEMMA ResultInit == Init => ResultInv
BY NoElems DEF Init, ResultInv, SentRan, ResultsRan, AnswersItsRequest, NoStaleMemory

\* What the worker runs is complete: a slot that the driver knows holds the
\* memory that was named, and no other.
LEMMA RunsOnNamed ==
  ASSUME TypeInv, NumberInv, RunInv, NamedInv, CarriedInv, Coherent, WorkerExecute
  PROVE  LET i == packet[1].body.id
         IN  \E pools :
               /\ executed' = [executed EXCEPT ![i] = <<pools>>]
               /\ \A j \in DOMAIN pools : pools[j] \in {named[i][j], Invalid}
               /\ worker' = "sendResult" => pools = named[i]
<1> DEFINE i == packet[1].body.id
           missing == [s \in UnknownSlots |-> Invalid]
           cache == Extend(serverCache, missing)
           pools == [j \in DOMAIN RequestSlots |-> cache[RequestSlots[j]]]
<1>1. /\ alive /\ worker = "execute"
      /\ worker' = "sendError" \/ (worker' = "sendResult" /\ UnknownSlots = {})
      /\ executed' = [executed EXCEPT ![RequestId] = Append(@, pools)]
  BY DEF WorkerExecute, WorkerStep
<1>2. i \in 1..requests /\ i \in Ids /\ RequestId = i /\ executed[i] = <<>>
  BY Executes
<1>3. executed' = [executed EXCEPT ![i] = <<pools>>]
  <2>1. Append(executed[i], pools) = <<pools>>
    BY <1>2
  <2> QED
    BY <1>1, <1>2, <2>1
<1>4. packet # <<>> /\ packet[1] # Dummy /\ RequestSlots \in Seq(Nat)
  <2>1. packet # <<>>
    BY <1>1 DEF NumberInv, ServedNumber, Serving
  <2>2. packet[1] # Dummy
    BY <1>2, NumbersAreIds DEF Dummy, Body, TypeInv
  <2>3. RequestSlots \in Seq(Nat)
    BY <1>1, SlotsServed DEF TypeInv, Serving
  <2> QED
    BY <2>1, <2>2, <2>3
<1>5. Len(RequestSlots) = Len(named[i]) /\ Found(i, RequestSlots)
  BY <1>1, <1>4 DEF CarriedInv, Carrying, Serving, IsComplete, RequestSlots
<1>6. /\ named[i] \in Seq(Memories)
      /\ \A j \in 1..Len(named[i]) : named[i][j] # Invalid
  BY <1>2, NamedAreMemories
<1>7. DOMAIN RequestSlots = 1..Len(RequestSlots) /\ DOMAIN named[i] = DOMAIN RequestSlots
  BY <1>4, <1>5, <1>6
<1>8. ASSUME NEW j \in DOMAIN RequestSlots
      PROVE  /\ pools[j] \in {named[i][j], Invalid}
             /\ UnknownSlots = {} => pools[j] = named[i][j]
  <2> DEFINE s == RequestSlots[j]
  <2>1. pools[j] = cache[s]
    OBVIOUS
  <2>2. Holds(s, named[i][j]) /\ named[i][j] # Invalid
    BY <1>5, <1>6, <1>7 DEF Found
  <2>3. CASE s \in UnknownSlots
    BY <2>1, <2>3 DEF Extend
  <2>4. CASE s \notin UnknownSlots
    <3>1. s \in DOMAIN serverCache /\ serverCache[s] # Invalid
      BY <2>4 DEF UnknownSlots, CacheEntryPresent
    <3>2. Holds(s, serverCache[s]) \/ Outdated(s)
      BY <1>1, <3>1 DEF Coherent, EntriesCurrent
    <3>3. serverCache[s] = named[i][j]
      BY <2>2, <3>2 DEF Holds, Outdated
    <3>4. cache[s] = serverCache[s]
      BY <2>4, <3>1 DEF Extend
    <3> QED
      BY <2>1, <3>3, <3>4
  <2> QED
    BY <2>3, <2>4
<1>9. UnknownSlots = {} => pools = named[i]
  <2> SUFFICES ASSUME UnknownSlots = {} PROVE pools = named[i]
    OBVIOUS
  <2>1. named[i] = [j \in DOMAIN RequestSlots |-> named[i][j]]
    BY <1>6, <1>7
  <2>2. \A j \in DOMAIN RequestSlots : pools[j] = named[i][j]
    BY <1>8
  <2>3. DOMAIN pools = DOMAIN RequestSlots /\ pools = [j \in DOMAIN RequestSlots |-> pools[j]]
    OBVIOUS
  <2> HIDE DEF pools
  <2> QED
    BY <2>1, <2>2, <2>3
<1> QED
  BY <1>1, <1>3, <1>8, <1>9

\* What has been run has been run for good.
LEMMA RanOnStays ==
  ASSUME TypeInv, NumberInv, RunInv, [Next]_vars, NEW i, RanOn(i) PROVE RanOn(i)'
<1>1. i \in Ids /\ executed[i] = <<named[i]>> /\ executed[i] # <<>>
  BY DEF RanOn
<1>2. i \in Nat /\ requests \in Nat
  BY <1>1, NumbersAreIds DEF TypeInv, CountTypes
<1>3. i <= requests
  <2>1. ~Fresh(i)
    BY <1>1 DEF Fresh
  <2>2. ~(i > requests)
    BY <1>1, <2>1 DEF RunInv, UnusedAreFresh
  <2> QED
    BY <1>2, <2>2
<1>4. named'[i] = named[i]
  BY <1>2, <1>3, NamedKept
<1>5. executed'[i] = executed[i]
  <2>1. CASE WorkerExecute
    <3>1. executed[RequestId] = <<>>
      BY <2>1, Executes
    <3>2. PICK pools : executed' = [executed EXCEPT ![RequestId] = Append(@, pools)]
      BY <2>1 DEF WorkerExecute
    <3> QED
      BY <1>1, <3>1, <3>2
  <2>2. CASE executed' = executed
    BY <2>2
  <2>3. ASSUME NEW t \in Threads, CallStep(t) PROVE executed' = executed
    BY <2>3, CallMoves DEF TypeInv, SlotInv
  <2>4. CASE DriverStep
    BY <2>1, <2>2, <2>4
       DEF DriverStep, WorkerLoop, WorkerReceive, WorkerReadFirst, WorkerStopSpinning,
           WorkerReadRest, WorkerCheckPacket, WorkerNoPacket, WorkerEnsure, WorkerGetMemories,
           WorkerAddEntries, WorkerSend, history
  <2>5. CASE \E t \in Threads, keys \in Arguments : Compute(t, keys)
    BY <2>5 DEF Compute
  <2>6. CASE \/ UNCHANGED vars \/ DeathStep \/ DestructorStep \/ DriverDies \/ ReleaseBurst
             \/ \E k \in Keys : CreateMemory(k)
             \/ \E t \in Threads, k \in Keys : DestroyMemory(t, k)
    BY <2>6, OthersMove DEF history, TypeInv, SlotInv
  <2> QED
    BY <2>2, <2>3, <2>4, <2>5, <2>6 DEF Next, Environment
<1> QED
  BY <1>1, <1>4, <1>5 DEF RanOn

\* Only results that have been computed are sent as such.
LEMMA ResultsMove ==
  ASSUME TypeInv, [Next]_vars,
         NEW e \in (Elems(resultChannel) \cup Elems(received))',
         e \notin Elems(resultChannel) \cup Elems(received), e.body.status = "ok"
  PROVE  worker = "sendResult" /\ e.body.id = RequestId
<1>1. /\ QueueTypes /\ SlotTypes
      /\ resultChannel \in Seq(Elements) /\ received \in Seq(Elements)
  BY DEF TypeInv, SlotInv, QueueTypes
<1>2. e \in Elems(resultChannel') \cup Elems(received')
  OBVIOUS
<1>3. ASSUME NEW t \in Threads, CallStep(t) PROVE FALSE
  <2>1. CASE ReadFirst(t)
    <3>1. /\ resultChannel # <<>> /\ received' = <<Head(resultChannel)>>
          /\ resultChannel' = Tail(resultChannel)
      BY <2>1 DEF ReadFirst
    <3>2. Elems(resultChannel') \subseteq Elems(resultChannel)
      BY <1>1, <3>1, TailElems
    <3>3. Elems(received') \subseteq Elems(resultChannel)
      BY <1>1, <3>1, ElemsOf DEF Elems
    <3> QED
      BY <1>2, <3>2, <3>3
  <2>2. CASE ReadRest(t)
    BY <1>1, <1>2, <2>2, ConcatElems, NoElems DEF ReadRest
  <2>3. CASE StopSpinning(t)
    BY <1>2, <2>3, NoElems DEF StopSpinning, others, channels
  <2>4. CASE UNCHANGED <<resultChannel, received>>
    BY <1>2, <2>4
  <2> QED
    BY <1>3, <2>1, <2>2, <2>3, <2>4
       DEF CallStep, FreeLock, FreeUnknown, FreeKnown, FreeRemote, Lock, KnownSlot, NewSlot,
           SlotsDone, SendInvalid, SendValid, WriteTooLarge, Write, ReceiveInvalid, ReceiveValid,
           Receive, others, channels
<1>4. CASE UnblockReceiver
  <2>1. Elems(resultChannel') = Elems(resultChannel) \cup {Dummy} /\ received' = received
    BY <1>1, <1>4, DummyType, AppendElems DEF UnblockReceiver, callerVars
  <2> QED
    BY <1>2, <2>1 DEF Dummy, Body
<1>5. CASE DriverStep
  <2>1. received' = received
    BY <1>5, WorkerMoves DEF bystanders, runtime, callerVars
  <2>2. ASSUME NEW status \in {"ok", "error"}, NEW n \in Nat, SendResult(status, n)
        PROVE  e.body.id = RequestId /\ status = "ok"
    <3>1. e \in Elems(resultChannel') /\ e \notin Elems(resultChannel)
      BY <1>2, <2>1
    <3> QED
      BY <1>1, <2>2, <3>1, SendElems
  <2>3. CASE WorkerNoPacket
    BY <1>2, <2>1, <2>2, <2>3 DEF WorkerNoPacket
  <2>4. CASE \E n \in ResultSizes : WorkerSend(n)
    <3>1. PICK n \in ResultSizes : WorkerSend(n)
      BY <2>4
    <3> QED
      BY <2>2, <3>1, Bounds DEF WorkerSend, WorkerStep
  <2>5. CASE resultChannel' = resultChannel
    BY <1>2, <2>1, <2>5
  <2> QED
    BY <1>5, <2>3, <2>4, <2>5
       DEF DriverStep, WorkerLoop, WorkerReceive, WorkerReadFirst, WorkerStopSpinning,
           WorkerReadRest, WorkerCheckPacket, WorkerEnsure, WorkerGetMemories, WorkerAddEntries,
           WorkerExecute, channels
<1>6. CASE \/ UNCHANGED vars \/ InvalidateSender \/ InvalidateReceiver \/ DriverDies \/ ReleaseBurst
           \/ DestructorStep
           \/ \E k \in Keys : CreateMemory(k)
           \/ \E t \in Threads, k \in Keys : DestroyMemory(t, k)
           \/ \E t \in Threads, keys \in Arguments : Compute(t, keys)
  <2>1. UNCHANGED <<resultChannel, received>>
    BY <1>6 DEF vars, runtime, callerVars, channels, InvalidateSender, InvalidateReceiver,
                DriverDies, ReleaseBurst, DestructorStep, Teardown, TeardownChannel,
                UnblockWorker, Join, CreateMemory, DestroyMemory, Compute
  <2> QED
    BY <1>2, <2>1
<1> QED
  BY <1>3, <1>4, <1>5, <1>6 DEF Next, Environment, DeathStep

\* A caller returns the result of its own request, and no other.
LEMMA ReturnsOwn ==
  ASSUME TypeInv, TurnsInv, NumberInv, ExchangeInv, ResultInv, NEW t \in Threads, CallStep(t)
  PROVE  \A i \in Ids : /\ outcome'[i] \in {"ok", "error"} => answer'[i] = i
                        /\ outcome'[i] = "ok" => RanOn(i)
<1>1. /\ HistoryTypes /\ SlotTypes /\ received \in Seq(Elements)
      /\ \A i \in Ids : /\ outcome[i] \in {"ok", "error"} => answer[i] = i
                        /\ outcome[i] = "ok" => RanOn(i)
  BY DEF ResultInv, AnswersItsRequest, RanOn, TypeInv, SlotInv, QueueTypes
<1>2. ASSUME NEW from, NEW what, NEW of, Return(t, from, what, of),
             what \in {"ok", "error"} => of = request[t].id,
             what = "ok" => RanOn(of)
      PROVE  \A i \in Ids : /\ outcome'[i] \in {"ok", "error"} => answer'[i] = i
                            /\ outcome'[i] = "ok" => RanOn(i)
  <2>1. /\ outcome' = [outcome EXCEPT ![request[t].id] = what]
        /\ answer' = [answer EXCEPT ![request[t].id] = of]
    BY <1>2 DEF Return
  <2> SUFFICES ASSUME NEW i \in Ids
               PROVE  /\ outcome'[i] \in {"ok", "error"} => answer'[i] = i
                      /\ outcome'[i] = "ok" => RanOn(i)
    OBVIOUS
  <2>2. CASE i = request[t].id
    <3>1. outcome'[i] = what /\ answer'[i] = of
      BY <1>1, <2>1, <2>2 DEF HistoryTypes
    <3> QED
      BY <1>2, <2>2, <3>1
  <2>3. CASE i # request[t].id
    <3>1. outcome'[i] = outcome[i] /\ answer'[i] = answer[i]
      BY <1>1, <2>1, <2>3 DEF HistoryTypes
    <3> QED
      BY <1>1, <3>1
  <2> QED
    BY <2>2, <2>3
<1>3. CASE Receive(t)
  <2>1. CASE ~WellFormed(received)
    BY <1>2, <1>3, <2>1 DEF Receive, LostIsFailed
  <2>2. CASE WellFormed(received)
    <3>1. Return(t, "received", received[1].body.status, received[1].body.id) /\ receiverValid
      BY <1>3, <2>2 DEF Receive
    <3>2. pc[t] = "received" /\ destructor = "none"
      BY <3>1 DEF Return, Step, TurnsInv, Valid
    <3>3. received[1] \in Elems(received)
      BY <1>1, <2>2, ElemsOf DEF WellFormed
    <3>4. received[1].body.id = request[t].id
      BY <3>1, <3>2, <3>3 DEF ExchangeInv, ReceivedOwn
    <3>5. received[1].body.status = "ok" => RanOn(received[1].body.id)
      BY <3>3 DEF ResultInv, ResultsRan
    <3> QED
      BY <1>2, <3>1, <3>4, <3>5
  <2> QED
    BY <2>1, <2>2
<1>4. CASE SendInvalid(t) \/ ReceiveInvalid(t) \/ \E n \in RequestSizes : WriteTooLarge(t, n)
  BY <1>2, <1>4 DEF SendInvalid, ReceiveInvalid, WriteTooLarge, LostIsFailed
<1>5. CASE UNCHANGED <<outcome, answer>>
  BY <1>1, <1>5
<1> QED
  BY <1>3, <1>4, <1>5
     DEF CallStep, FreeLock, FreeUnknown, FreeKnown, FreeRemote, Lock, KnownSlot, NewSlot,
         SlotsDone, SendValid, Write, ReceiveValid, ReadFirst, StopSpinning, ReadRest, history

\* What is on its way back has been run, and so has what has been returned.
LEMMA AnswersNext ==
  TypeInv /\ TurnsInv /\ NumberInv /\ RunInv /\ ExchangeInv /\ ResultInv /\ [Next]_vars
    => ResultsRan' /\ AnswersItsRequest'
<1> SUFFICES ASSUME TypeInv, TurnsInv, NumberInv, RunInv, ExchangeInv, ResultInv, [Next]_vars
             PROVE  ResultsRan' /\ AnswersItsRequest'
  OBVIOUS
<1>1. SlotTypes /\ HistoryTypes
  BY DEF TypeInv, SlotInv
<1>2. ResultsRan'
  <2> SUFFICES ASSUME NEW e \in (Elems(resultChannel) \cup Elems(received))', e.body.status = "ok"
               PROVE  RanOn(e.body.id)'
    BY DEF ResultsRan
  <2>1. RanOn(e.body.id)
    <3>1. CASE e \in Elems(resultChannel) \cup Elems(received)
      BY <3>1 DEF ResultInv, ResultsRan
    <3>2. CASE e \notin Elems(resultChannel) \cup Elems(received)
      <4>1. worker = "sendResult" /\ e.body.id = RequestId
        BY <3>2, ResultsMove
      <4>2. packet # <<>>
        BY <4>1 DEF NumberInv, ServedNumber
      <4> QED
        BY <4>1, <4>2 DEF ResultInv, SentRan, RequestId
    <3> QED
      BY <3>1, <3>2
  <2> QED
    BY <2>1, RanOnStays
<1>3. ASSUME \A i \in Ids : /\ outcome'[i] \in {"ok", "error"} => answer'[i] = i
                            /\ outcome'[i] = "ok" => RanOn(i)
      PROVE  AnswersItsRequest'
  <2>1. \A i \in Ids : RanOn(i) => executed'[i] = <<named'[i]>>
    BY RanOnStays DEF RanOn
  <2> QED
    BY <1>3, <2>1 DEF AnswersItsRequest
<1>4. CASE UNCHANGED <<outcome, answer>>
  <2>1. \A i \in Ids : /\ outcome[i] \in {"ok", "error"} => answer[i] = i
                       /\ outcome[i] = "ok" => RanOn(i)
    BY DEF ResultInv, AnswersItsRequest, RanOn
  <2>2. outcome' = outcome /\ answer' = answer
    BY <1>4
  <2>3. \A i \in Ids : /\ outcome'[i] \in {"ok", "error"} => answer'[i] = i
                       /\ outcome'[i] = "ok" => RanOn(i)
    BY <2>1, <2>2
  <2> QED
    BY <1>2, <1>3, <2>3
<1>5. ASSUME NEW t \in Threads, CallStep(t) PROVE AnswersItsRequest'
  BY <1>3, <1>5, ReturnsOwn
<1>6. CASE \E t \in Threads, keys \in Arguments : Compute(t, keys)
  BY <1>4, <1>6 DEF Compute
<1>7. AnswersItsRequest'
  BY <1>1, <1>4, <1>5, <1>6, WorkerMoves, OthersMove DEF Next, Environment, history
<1> QED
  BY <1>2, <1>7

\* What is run is run on the memories that were named, or on none.
LEMMA RunsNext ==
  TypeInv /\ NumberInv /\ RunInv /\ NamedInv /\ CarriedInv /\ Coherent /\ ResultInv /\ [Next]_vars
    => SentRan' /\ NoStaleMemory'
<1> SUFFICES ASSUME TypeInv, NumberInv, RunInv, NamedInv, CarriedInv, Coherent, ResultInv,
                    [Next]_vars
             PROVE  SentRan' /\ NoStaleMemory'
  OBVIOUS
<1>1. SlotTypes /\ HistoryTypes /\ requests \in Nat /\ Ids \subseteq Nat \ {0}
  BY NumbersAreIds DEF TypeInv, SlotInv, SlotTypes
<1>2. ASSUME DriverStep, WorkerExecute PROVE SentRan' /\ NoStaleMemory'
  <2> PICK i : i = packet[1].body.id
    OBVIOUS
  <2>1. UNCHANGED <<packet, named>> /\ i \in Ids
    BY <1>2, WorkerMoves, Executes DEF WorkerExecute
  <2>2. PICK pools :
           /\ executed' = [executed EXCEPT ![i] = <<pools>>]
           /\ \A j \in DOMAIN pools : pools[j] \in {named[i][j], Invalid}
           /\ worker' = "sendResult" => pools = named[i]
    BY <1>2, RunsOnNamed
  <2>3. executed'[i] = <<pools>> /\ \A j \in Ids : j # i => executed'[j] = executed[j]
    BY <1>1, <2>1, <2>2 DEF HistoryTypes
  <2>4. SentRan'
    BY <2>1, <2>2, <2>3 DEF SentRan, RanOn
  <2>5. NoStaleMemory'
    <3> SUFFICES ASSUME NEW j \in Ids, NEW n \in DOMAIN executed'[j], NEW k \in DOMAIN executed'[j][n]
                 PROVE  executed'[j][n][k] \in {named'[j][k], Invalid}
      BY DEF NoStaleMemory
    <3>1. CASE j = i
      <4>1. n = 1 /\ executed'[j][n] = pools
        BY <2>3, <3>1
      <4> QED
        BY <2>1, <2>2, <3>1, <4>1
    <3>2. CASE j # i
      BY <2>1, <2>3, <3>2 DEF ResultInv, NoStaleMemory
    <3> QED
      BY <3>1, <3>2
  <2> QED
    BY <2>4, <2>5
<1>3. ASSUME worker' = "sendResult" => worker = "sendResult" /\ packet' = packet PROVE SentRan'
  <2> PICK i : i = packet[1].body.id
    OBVIOUS
  <2>1. worker' = "sendResult" => RanOn(i)
    BY <1>3 DEF ResultInv, SentRan
  <2>2. worker' = "sendResult" => RanOn(i)'
    BY <2>1, RanOnStays
  <2> QED
    BY <1>3, <2>2 DEF SentRan, RanOn
<1>4. ASSUME executed' = executed PROVE NoStaleMemory'
  <2> SUFFICES ASSUME NEW i \in Ids, NEW n \in DOMAIN executed[i]
               PROVE  \A j \in DOMAIN executed[i][n] : executed[i][n][j] \in {named'[i][j], Invalid}
    BY <1>4 DEF NoStaleMemory
  <2>1. executed[i] # <<>>
    OBVIOUS
  <2>2. i \in Nat /\ i <= requests
    BY <1>1, <2>1 DEF RunInv, UnusedAreFresh, Fresh
  <2>3. named'[i] = named[i]
    BY <2>2, NamedKept
  <2> QED
    BY <2>3 DEF ResultInv, NoStaleMemory
<1>5. CASE DriverStep
  <2>1. CASE worker' # "sendResult" /\ executed' = executed
    BY <1>3, <1>4, <2>1
  <2> QED
    BY <1>2, <1>5, <2>1
       DEF DriverStep, WorkerLoop, WorkerReceive, WorkerReadFirst, WorkerStopSpinning,
           WorkerReadRest, WorkerCheckPacket, WorkerNoPacket, WorkerEnsure, WorkerGetMemories,
           WorkerAddEntries, WorkerSend, WorkerStep, history
<1>6. ASSUME NEW t \in Threads, CallStep(t) PROVE UNCHANGED <<worker, packet, executed>>
  BY <1>1, <1>6, CallMoves DEF workerVars
<1>7. CASE \E t \in Threads, keys \in Arguments : Compute(t, keys)
  BY <1>3, <1>4, <1>7 DEF Compute, driver, workerVars
<1>8. CASE \/ UNCHANGED vars \/ DeathStep \/ DestructorStep \/ DriverDies \/ ReleaseBurst
           \/ \E k \in Keys : CreateMemory(k)
           \/ \E t \in Threads, k \in Keys : DestroyMemory(t, k)
  BY <1>1, <1>3, <1>4, <1>8, OthersMove DEF workerVars, history
<1> QED
  BY <1>3, <1>4, <1>5, <1>6, <1>7, <1>8 DEF Next, Environment

----------------------------------------------------------------------------
AnswerInv == LastingInv /\ ExchangeInv /\ NamedInv /\ CarriedInv /\ Coherent /\ ResultInv

\* All that a burst's answers rest on holds in every behaviour.
LEMMA Answering == Spec => []AnswerInv
<1>1. Init => AnswerInv
  BY TypeInit, TurnsInit, NumberInit, RunInit, ExchangeInit, NamedInit, CoherentInit, ResultInit
     DEF AnswerInv, LastingInv
<1>2. AnswerInv /\ [Next]_vars => ExchangeInv'
  BY ExchangeNext DEF AnswerInv, LastingInv
<1>3. AnswerInv /\ [Next]_vars => NamedInv' /\ CarriedInv' /\ Coherent'
  BY NamedNext, CarriedInvNext, CoherentNext DEF AnswerInv, LastingInv, RunInv, NamedInv
<1>4. AnswerInv /\ [Next]_vars => ResultInv'
  BY AnswersNext, RunsNext DEF AnswerInv, LastingInv, ResultInv
<1>5. AnswerInv /\ [Next]_vars => LastingInv'
  BY LastingNext DEF AnswerInv
<1>6. AnswerInv /\ [Next]_vars => AnswerInv'
  BY <1>2, <1>3, <1>4, <1>5 DEF AnswerInv
<1> QED
  BY <1>1, <1>6, PTL DEF Spec

\* A call of tryCompute that returns the driver's answer returns the answer to
\* its own request, and a result was computed on the memories it named.
THEOREM Answers == Spec => []AnswersItsRequest
<1>1. AnswerInv => AnswersItsRequest
  BY DEF AnswerInv, ResultInv
<1> QED
  BY <1>1, Answering, PTL

\* The driver never runs a request on a memory that was freed, although its
\* cache outlives the memories and their addresses are used again.
THEOREM NotStale == Spec => []NoStaleMemory
<1>1. AnswerInv => NoStaleMemory
  BY DEF AnswerInv, ResultInv
<1> QED
  BY <1>1, Answering, PTL
=============================================================================
