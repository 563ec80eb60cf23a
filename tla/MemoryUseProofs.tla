-------------------------- MODULE MemoryUseProofs --------------------------
(***************************************************************************)
(* A Memory that is destroyed is freed from the caches of the bursts that  *)
(* used it, for any threads, memories and bursts, as long as no burst gets *)
(* the address of a dead one.                                              *)
(***************************************************************************)
EXTENDS MemoryUse, TLAPS

(***************************************************************************)
(* There is one burst to an address, so an entry of mUsedBy is current as  *)
(* long as that burst lives.  A thread that uses or frees a memory holds   *)
(* the burst; a memory that a live burst caches either is there and knows  *)
(* the burst, or some thread is on its way to free it.                     *)
(***************************************************************************)
Stages == [at : {"idle", "use", "destroy", "free"}, key : SUBSET Keys,
           burst : SUBSET Addresses, todo : SUBSET Addresses]

Types ==
    /\ memory \in [Keys -> Nat] /\ memories \in [Keys -> Nat]
    /\ burst \in [Addresses -> {0, 1}] /\ bursts \in [Addresses -> {0, 1}]
    /\ owned \in [Addresses -> BOOLEAN]
    /\ DOMAIN usedBy = Keys /\ DOMAIN cache = Addresses
    /\ thread \in [Threads -> Stages]

OneBurst ==
    /\ \A b \in Addresses : burst[b] = 1 => bursts[b] = 1
    /\ \A b \in Addresses : owned[b] => burst[b] = 1
    /\ \A t \in Threads, b \in Addresses : thread[t].burst = {b} => burst[b] = 1

Entries ==
    \A k \in Keys : /\ DOMAIN usedBy[k] \subseteq Addresses
                    /\ \A b \in DOMAIN usedBy[k] : usedBy[k][b] = 1

\* What a thread at each label works on.
Using(s) == \E k \in Keys, b \in Addresses : /\ s.key = {k} /\ s.burst = {b} /\ memory[k] # 0
                                             /\ b \in DOMAIN usedBy[k]
Destroying(s) == \E k \in Keys : s.key = {k} /\ memory[k] = 0 /\ s.todo \subseteq DOMAIN usedBy[k]
WorksOn ==
    \A t \in Threads : /\ thread[t].at = "idle" => thread[t] = Idle
                       /\ thread[t].at = "use" => Using(thread[t])
                       /\ thread[t].at \in {"destroy", "free"} => Destroying(thread[t])
                       /\ thread[t].at = "destroy" => thread[t].burst = None

\* Thread t is on its way to free the memory at k from the burst at b.
WillFree(t, k, b) ==
    thread[t].key = {k} /\ (b \in thread[t].todo \/ thread[t].burst = {b})

Cached ==
    \A b \in Addresses : burst[b] = 1 =>
        \A k \in DOMAIN cache[b] :
            /\ k \in Keys
            /\ memory[k] # 0 => cache[b][k] = memory[k] /\ b \in DOMAIN usedBy[k]
            /\ memory[k] = 0 => \E t \in Threads : WillFree(t, k, b)

UseInv == Types /\ OneBurst /\ Entries /\ WorksOn /\ Cached

----------------------------------------------------------------------------
\* A memory that no thread is freeing is what the caches of live bursts hold.
LEMMA UseImplies == UseInv => FreedFromItsBursts
<1> SUFFICES ASSUME UseInv, NEW b \in Addresses, burst[b] # 0, NEW k \in DOMAIN cache[b],
                    cache[b][k] # memory[k]
             PROVE  \E t \in Threads : thread[t].key = {k} /\ memory[k] = 0
  BY DEF FreedFromItsBursts
<1>1. burst[b] = 1
  BY DEF UseInv, Types
<1>2. k \in Keys /\ memory[k] = 0
  BY <1>1 DEF UseInv, Cached
<1> QED
  BY <1>1, <1>2 DEF UseInv, Cached, WillFree

\* No object exists at first.
LEMMA UseInit == Init => UseInv
<1> SUFFICES ASSUME Init PROVE UseInv
  OBVIOUS
<1>1. DOMAIN <<>> = {}
  OBVIOUS
<1>2. \A t \in Threads : thread[t] = Idle /\ thread[t].at = "idle" /\ thread[t].burst = {}
  BY DEF Init, Idle, None
<1>3. Types
  BY DEF Init, Types, Stages, Idle, None
<1>4. OneBurst
  BY <1>2 DEF Init, OneBurst
<1>5. Entries
  BY <1>1 DEF Init, Entries
<1>6. WorksOn
  BY <1>2 DEF WorksOn
<1>7. Cached
  BY DEF Init, Cached
<1> QED
  BY <1>3, <1>4, <1>5, <1>6, <1>7 DEF UseInv

----------------------------------------------------------------------------
(* One lemma for each operation.                                           *)

\* CreateMemory: its address is in no thread's hands and in no live cache.
LEMMA CreateMemoryNext ==
  ASSUME UseInv, NEW k \in Keys, CreateMemory(k)  PROVE UseInv'
<1>1. /\ memory[k] = 0 /\ \A t \in Threads : thread[t].key # {k}
      /\ memory' = [memory EXCEPT ![k] = memories'[k]]
      /\ memories' = [memories EXCEPT ![k] = @ + 1]
      /\ usedBy' = [usedBy EXCEPT ![k] = <<>>]
      /\ UNCHANGED <<burst, bursts, owned, cache, thread>>
  BY DEF CreateMemory, Busy
<1>2. \A x \in Keys : x # k => memory'[x] = memory[x] /\ usedBy'[x] = usedBy[x]
  BY <1>1 DEF UseInv, Types
<1>3. Types'
  BY <1>1 DEF UseInv, Types
<1>4. OneBurst'
  BY <1>1 DEF UseInv, OneBurst
<1>5. Entries'
  <2>1. DOMAIN usedBy'[k] = {}
    BY <1>1 DEF UseInv, Types
  <2> QED
    BY <1>2, <2>1 DEF UseInv, Entries
<1>6. WorksOn'
  <2> SUFFICES ASSUME NEW t \in Threads
               PROVE  /\ thread[t].at = "idle" => thread[t] = Idle
                      /\ thread[t].at = "use" => Using(thread[t])'
                      /\ thread[t].at \in {"destroy", "free"} => Destroying(thread[t])'
                      /\ thread[t].at = "destroy" => thread[t].burst = None
    BY <1>1 DEF WorksOn
  <2>1. thread[t].at = "use" => Using(thread[t])'
    BY <1>1, <1>2 DEF UseInv, WorksOn, Using
  <2>2. thread[t].at \in {"destroy", "free"} => Destroying(thread[t])'
    BY <1>1, <1>2 DEF UseInv, WorksOn, Destroying
  <2> QED
    BY <2>1, <2>2 DEF UseInv, WorksOn
<1>7. Cached'
  <2> SUFFICES ASSUME NEW b \in Addresses, burst[b] = 1, NEW x \in DOMAIN cache[b]
               PROVE  /\ x \in Keys
                      /\ memory'[x] # 0 => cache[b][x] = memory'[x] /\ b \in DOMAIN usedBy'[x]
                      /\ memory'[x] = 0 => \E t \in Threads : WillFree(t, x, b)'
    BY <1>1 DEF Cached
  <2>1. x \in Keys /\ (memory[x] = 0 => \E t \in Threads : thread[t].key = {x})
    BY DEF UseInv, Cached, WillFree
  <2>3. x # k
    BY <1>1, <2>1
  <2>2. \A t \in Threads : WillFree(t, x, b) => WillFree(t, x, b)'
    BY <1>1 DEF WillFree
  <2> QED
    BY <1>2, <2>1, <2>2, <2>3 DEF UseInv, Cached
<1> QED
  BY <1>3, <1>4, <1>5, <1>6, <1>7 DEF UseInv

\* CreateBurst: no other burst has been there, and its cache is empty.
LEMMA CreateBurstNext ==
  ASSUME ~ReuseAddress, UseInv, NEW b \in Addresses, CreateBurst(b)  PROVE UseInv'
<1>1. /\ burst[b] = 0 /\ bursts[b] = 0
      /\ bursts' = [bursts EXCEPT ![b] = 1]
      /\ burst' = [burst EXCEPT ![b] = 1]
      /\ owned' = [owned EXCEPT ![b] = TRUE]
      /\ cache' = [cache EXCEPT ![b] = <<>>]
      /\ UNCHANGED <<memory, memories, usedBy, thread>>
  <2>1. bursts[b] = 0 /\ bursts' = [bursts EXCEPT ![b] = bursts[b] + 1]
    BY DEF CreateBurst, UseInv, Types
  <2>2. bursts'[b] = 1
    BY <2>1 DEF UseInv, Types
  <2> QED
    BY <2>1, <2>2 DEF CreateBurst
<1>2. \A c \in Addresses : c # b => burst'[c] = burst[c] /\ cache'[c] = cache[c]
  BY <1>1 DEF UseInv, Types
<1>3. Types'
  BY <1>1 DEF UseInv, Types
<1>4. OneBurst'
  BY <1>1 DEF UseInv, OneBurst, Types
<1>5. Entries'
  BY <1>1 DEF UseInv, Entries
<1>6. WorksOn'
  BY <1>1 DEF UseInv, WorksOn, Using, Destroying
<1>7. Cached'
  <2>1. DOMAIN cache'[b] = {}
    BY <1>1 DEF UseInv, Types
  <2>2. \A t \in Threads, x \in Keys, c \in Addresses : WillFree(t, x, c) => WillFree(t, x, c)'
    BY <1>1 DEF WillFree
  <2> QED
    BY <1>1, <1>2, <2>1, <2>2 DEF UseInv, Cached
<1> QED
  BY <1>3, <1>4, <1>5, <1>6, <1>7 DEF UseInv

\* FreeBurst: the burst dies only if no thread holds it.
LEMMA FreeBurstNext ==
  ASSUME UseInv, NEW b \in Addresses, FreeBurst(b)  PROVE UseInv'
<1>1. /\ owned' = [owned EXCEPT ![b] = FALSE]
      /\ burst' = [burst EXCEPT ![b] = IF Holders(b) = {} THEN 0 ELSE @]
      /\ UNCHANGED <<memory, memories, usedBy, bursts, cache, thread>>
  BY DEF FreeBurst
<1>2. \A c \in Addresses : burst'[c] \in {0, burst[c]} /\ (c # b => burst'[c] = burst[c])
  BY <1>1 DEF UseInv, Types
<1>3. Types'
  BY <1>1 DEF UseInv, Types
<1>4. OneBurst'
  <2>1. \A t \in Threads, c \in Addresses : thread'[t].burst = {c} => burst'[c] = 1
    <3> SUFFICES ASSUME NEW t \in Threads, NEW c \in Addresses, thread[t].burst = {c}
                 PROVE  burst'[c] = 1
      BY <1>1
    <3>1. burst[c] = 1 /\ t \in Holders(c)
      BY DEF UseInv, OneBurst, Holders
    <3> QED
      BY <1>1, <3>1 DEF UseInv, Types
  <2>2. \A c \in Addresses : burst'[c] = 1 => bursts'[c] = 1
    BY <1>1, <1>2 DEF UseInv, OneBurst
  <2>3. \A c \in Addresses : owned'[c] => burst'[c] = 1
    BY <1>1, <1>2 DEF UseInv, OneBurst, Types
  <2> QED
    BY <2>1, <2>2, <2>3 DEF OneBurst
<1>5. Entries'
  BY <1>1 DEF UseInv, Entries
<1>6. WorksOn'
  BY <1>1 DEF UseInv, WorksOn, Using, Destroying
<1>7. Cached'
  <2>1. \A t \in Threads, x \in Keys, c \in Addresses : WillFree(t, x, c) => WillFree(t, x, c)'
    BY <1>1 DEF WillFree
  <2>2. \A c \in Addresses : burst'[c] = 1 => burst[c] = 1
    BY <1>2
  <2> QED
    BY <1>1, <2>1, <2>2 DEF UseInv, Cached
<1> QED
  BY <1>3, <1>4, <1>5, <1>6, <1>7 DEF UseInv

\* A step of one thread leaves the labels of the others.
LEMMA OneThread ==
  ASSUME Types, NEW t \in Threads, NEW s \in Stages, thread' = [thread EXCEPT ![t] = s]
  PROVE  /\ thread' \in [Threads -> Stages]
         /\ thread'[t] = s
         /\ \A u \in Threads \ {t} : thread'[u] = thread[u]
BY DEF Types

\* A thread that lets go of a burst is the only one to notice.
LEMMA Drops ==
  ASSUME UseInv, NEW t \in Threads, NEW b \in Addresses, Drop(t, b)
  PROVE  /\ burst' \in [Addresses -> {0, 1}]
         /\ \A c \in Addresses : /\ burst'[c] = 1 => burst[c] = 1
                                 /\ owned[c] => burst'[c] = burst[c]
         /\ \A u \in Threads \ {t}, c \in Addresses : thread[u].burst = {c} => burst'[c] = 1
<1>1. burst' = [burst EXCEPT ![b] = IF owned[b] \/ Holders(b) \ {t} # {} THEN @ ELSE 0]
  BY DEF Drop
<1>2. ASSUME NEW u \in Threads \ {t}, NEW c \in Addresses, thread[u].burst = {c}
      PROVE  burst'[c] = 1
  <2>1. burst[c] = 1 /\ u \in Holders(c) \ {t}
    BY <1>2 DEF UseInv, OneBurst, Holders
  <2> QED
    BY <1>1, <2>1 DEF UseInv, Types
<1>3. burst' \in [Addresses -> {0, 1}]
  BY <1>1 DEF UseInv, Types
<1>4. \A c \in Addresses : /\ burst'[c] = 1 => burst[c] = 1
                           /\ owned[c] => burst'[c] = burst[c]
  BY <1>1 DEF UseInv, Types
<1> QED
  BY <1>2, <1>3, <1>4

\* Use: the memory knows the burst before the burst can cache it.
LEMMA UseNext ==
  ASSUME UseInv, NEW t \in Threads, NEW k \in Keys, NEW b \in Addresses, Use(t, k, b)
  PROVE  UseInv'
<1> DEFINE s == [at |-> "use", key |-> {k}, burst |-> {b}, todo |-> {}]
<1>1. /\ thread[t] = Idle /\ memory[k] # 0 /\ owned[b]
      /\ usedBy' = [usedBy EXCEPT ![k] = Emplace(usedBy[k], b, burst[b])]
      /\ thread' = [thread EXCEPT ![t] = s]
      /\ UNCHANGED <<memory, memories, burst, bursts, owned, cache>>
  BY DEF Use
<1>2. s \in Stages
  BY DEF Stages
<1>3. /\ thread' \in [Threads -> Stages] /\ thread'[t] = s
      /\ \A u \in Threads \ {t} : thread'[u] = thread[u]
  BY <1>1, <1>2, OneThread DEF UseInv
<1>4. burst[b] = 1
  BY <1>1 DEF UseInv, OneBurst
<1>5. /\ DOMAIN usedBy' = Keys
      /\ DOMAIN usedBy'[k] = DOMAIN usedBy[k] \cup {b}
      /\ \A x \in Keys : x # k => usedBy'[x] = usedBy[x]
  BY <1>1 DEF UseInv, Types, Emplace
<1>6. Types'
  BY <1>1, <1>3, <1>5 DEF UseInv, Types
<1>7. OneBurst'
  BY <1>1, <1>3, <1>4 DEF UseInv, OneBurst
<1>8. Entries'
  <2>1. \A c \in DOMAIN usedBy'[k] : usedBy'[k][c] = 1
    BY <1>1, <1>4 DEF UseInv, Types, Emplace, Entries
  <2> QED
    BY <1>5, <2>1 DEF UseInv, Entries
<1>9. \A x \in Keys : DOMAIN usedBy[x] \subseteq DOMAIN usedBy'[x]
  BY <1>5
<1>10. WorksOn'
  <2>1. Using(s)'
    BY <1>1, <1>5 DEF Using
  <2>2. \A u \in Threads : Using(thread[u]) => Using(thread[u])'
    <3> SUFFICES ASSUME NEW u \in Threads, Using(thread[u]), u # t PROVE Using(thread[u])'
      BY <1>1, <1>3, <2>1 DEF Idle
    <3> QED
      BY <1>1, <1>3, <1>9 DEF Using
  <2> QED
    BY <1>1, <1>3, <2>1, <2>2 DEF UseInv, WorksOn, Destroying
<1>11. Cached'
  <2>1. \A u \in Threads, x \in Keys, c \in Addresses : WillFree(u, x, c) => WillFree(u, x, c)'
    BY <1>1, <1>3 DEF WillFree, Idle, None
  <2> QED
    BY <1>1, <1>9, <2>1 DEF UseInv, Cached
<1> QED
  BY <1>6, <1>7, <1>8, <1>10, <1>11 DEF UseInv

\* Bind: the burst now caches a memory that knows it; a memory that it had
\* cached for the same address is this one.
LEMMA BindNext ==
  ASSUME UseInv, NEW t \in Threads, NEW k \in Keys, NEW b \in Addresses, Bind(t, k, b)
  PROVE  UseInv'
<1>1. /\ thread[t].at = "use" /\ thread[t].key = {k} /\ thread[t].burst = {b}
      /\ cache' = [cache EXCEPT ![b] = Emplace(cache[b], k, memory[k])]
      /\ thread' = [thread EXCEPT ![t] = Idle]
      /\ Drop(t, b)
      /\ UNCHANGED <<memory, memories, usedBy, bursts, owned>>
  BY DEF Bind
<1>2. Idle \in Stages
  BY DEF Stages, Idle, None
<1>3. /\ thread' \in [Threads -> Stages] /\ thread'[t] = Idle
      /\ \A u \in Threads \ {t} : thread'[u] = thread[u]
  BY <1>1, <1>2, OneThread DEF UseInv
<1>4. /\ burst' \in [Addresses -> {0, 1}]
      /\ \A c \in Addresses : /\ burst'[c] = 1 => burst[c] = 1
                              /\ owned[c] => burst'[c] = burst[c]
      /\ \A u \in Threads \ {t}, c \in Addresses : thread[u].burst = {c} => burst'[c] = 1
  BY <1>1, Drops
<1>5. Types'
  BY <1>1, <1>3, <1>4 DEF UseInv, Types
<1>6. OneBurst'
  <2>1. \A c \in Addresses : /\ burst[c] = 1 => bursts[c] = 1
                             /\ owned[c] => burst[c] = 1
    BY DEF UseInv, OneBurst
  <2>2. \A c \in Addresses : thread'[t].burst # {c}
    BY <1>3 DEF Idle, None
  <2> QED
    BY <1>1, <1>3, <1>4, <2>1, <2>2 DEF OneBurst
<1>7. Entries'
  BY <1>1 DEF UseInv, Entries
<1>8. WorksOn'
  <2>1. thread'[t].at = "idle"
    BY <1>3 DEF Idle
  <2> QED
    BY <1>1, <1>3, <2>1 DEF UseInv, WorksOn, Using, Destroying
<1>9. memory[k] # 0 /\ b \in DOMAIN usedBy[k]
  BY <1>1 DEF UseInv, WorksOn, Using
<1>10. Cached'
  <2>1. \A c \in Addresses : c # b => cache'[c] = cache[c]
    BY <1>1 DEF UseInv, Types
  <2>2. /\ DOMAIN cache'[b] = DOMAIN cache[b] \cup {k}
        /\ \A x \in DOMAIN cache'[b] : cache'[b][x] = IF x \in DOMAIN cache[b] THEN cache[b][x]
                                                     ELSE memory[k]
    BY <1>1 DEF UseInv, Types, Emplace
  <2>3. \A u \in Threads, x \in Keys, c \in Addresses :
            memory[x] = 0 /\ WillFree(u, x, c) => WillFree(u, x, c)'
    BY <1>1, <1>3, <1>9 DEF WillFree
  <2>4. ASSUME NEW x \in DOMAIN cache'[b], burst'[b] = 1
        PROVE  /\ x \in Keys
               /\ memory[x] # 0 => cache'[b][x] = memory[x] /\ b \in DOMAIN usedBy[x]
               /\ memory[x] = 0 => \E u \in Threads : WillFree(u, x, b)'
    <3>1. CASE x \in DOMAIN cache[b]
      BY <1>4, <2>2, <2>3, <2>4, <3>1 DEF UseInv, Cached
    <3>2. CASE x \notin DOMAIN cache[b]
      BY <1>9, <2>2, <3>2
    <3> QED
      BY <3>1, <3>2
  <2>5. ASSUME NEW c \in Addresses, c # b, burst'[c] = 1, NEW x \in DOMAIN cache'[c]
        PROVE  /\ x \in Keys
               /\ memory[x] # 0 => cache'[c][x] = memory[x] /\ c \in DOMAIN usedBy[x]
               /\ memory[x] = 0 => \E u \in Threads : WillFree(u, x, c)'
    BY <1>4, <2>1, <2>3, <2>5 DEF UseInv, Cached
  <2> QED
    BY <1>1, <2>4, <2>5 DEF Cached
<1> QED
  BY <1>5, <1>6, <1>7, <1>8, <1>10 DEF UseInv

\* Destroy: every burst that caches the memory is among those to visit.
LEMMA DestroyNext ==
  ASSUME UseInv, NEW t \in Threads, NEW k \in Keys, Destroy(t, k)
  PROVE  UseInv'
<1> DEFINE s == [at |-> "destroy", key |-> {k}, burst |-> None, todo |-> DOMAIN usedBy[k]]
<1>1. /\ thread[t] = Idle /\ memory[k] # 0 /\ \A u \in Threads : thread[u].key # {k}
      /\ memory' = [memory EXCEPT ![k] = 0]
      /\ thread' = [thread EXCEPT ![t] = s]
      /\ UNCHANGED <<memories, usedBy, burst, bursts, owned, cache>>
  BY DEF Destroy, Busy
<1>2. s \in Stages
  BY DEF Stages, None, UseInv, Entries
<1>3. /\ thread' \in [Threads -> Stages] /\ thread'[t] = s
      /\ \A u \in Threads \ {t} : thread'[u] = thread[u]
  BY <1>1, <1>2, OneThread DEF UseInv
<1>4. memory'[k] = 0 /\ \A x \in Keys : x # k => memory'[x] = memory[x]
  BY <1>1 DEF UseInv, Types
<1>5. Types'
  BY <1>1, <1>3 DEF UseInv, Types
<1>6. OneBurst'
  BY <1>1, <1>3 DEF UseInv, OneBurst, None
<1>7. Entries'
  BY <1>1 DEF UseInv, Entries
<1>8. WorksOn'
  <2>2. \A u \in Threads \ {t} : Using(thread[u]) => Using(thread[u])'
    BY <1>1, <1>3, <1>4 DEF Using
  <2>3. \A u \in Threads \ {t} : Destroying(thread[u]) => Destroying(thread[u])'
    BY <1>1, <1>3, <1>4 DEF Destroying
  <2>1. Destroying(thread[t])' /\ thread'[t].at = "destroy" /\ thread'[t].burst = None
    BY <1>1, <1>3, <1>4 DEF Destroying
  <2> QED
    BY <1>3, <2>1, <2>2, <2>3 DEF UseInv, WorksOn
<1>9. Cached'
  <2> SUFFICES ASSUME NEW c \in Addresses, burst[c] = 1, NEW x \in DOMAIN cache[c]
               PROVE  /\ x \in Keys
                      /\ memory'[x] # 0 => cache[c][x] = memory'[x] /\ c \in DOMAIN usedBy[x]
                      /\ memory'[x] = 0 => \E u \in Threads : WillFree(u, x, c)'
    BY <1>1 DEF Cached
  <2>1. CASE x = k
    <3>1. c \in DOMAIN usedBy[k]
      BY <1>1, <2>1 DEF UseInv, Cached
    <3>2. WillFree(t, k, c)'
      BY <1>3, <3>1 DEF WillFree
    <3> QED
      BY <1>4, <2>1, <3>2
  <2>2. CASE x # k
    <3>1. \A u \in Threads : WillFree(u, x, c) => WillFree(u, x, c)'
      BY <1>1, <1>3 DEF WillFree, Idle, None
    <3> QED
      BY <1>4, <2>2, <3>1 DEF UseInv, Cached
  <2> QED
    BY <2>1, <2>2
<1> QED
  BY <1>5, <1>6, <1>7, <1>8, <1>9 DEF UseInv

\* Visit: an entry that is not current is of a burst that is dead.
LEMMA VisitNext ==
  ASSUME UseInv, NEW t \in Threads, NEW k \in Keys, NEW b \in Addresses, Visit(t, k, b)
  PROVE  UseInv'
<1> DEFINE s == [thread[t] EXCEPT !.todo = @ \ {b},
                                  !.at = IF Expired(k, b) THEN "destroy" ELSE "free",
                                  !.burst = IF Expired(k, b) THEN None ELSE {b}]
<1>1. /\ thread[t].at = "destroy" /\ thread[t].key = {k} /\ b \in thread[t].todo
      /\ thread' = [thread EXCEPT ![t] = s]
      /\ UNCHANGED <<memory, memories, usedBy, burst, bursts, owned, cache>>
  BY DEF Visit
<1>2. /\ s \in Stages /\ s.key = {k} /\ s.todo = thread[t].todo \ {b}
      /\ s.at = IF Expired(k, b) THEN "destroy" ELSE "free"
      /\ s.burst = IF Expired(k, b) THEN None ELSE {b}
  BY <1>1 DEF UseInv, Types, Stages, None
<1>3. /\ thread' \in [Threads -> Stages] /\ thread'[t] = s
      /\ \A u \in Threads \ {t} : thread'[u] = thread[u]
  BY <1>1, <1>2, OneThread DEF UseInv
<1>4. memory[k] = 0 /\ thread[t].todo \subseteq DOMAIN usedBy[k]
  BY <1>1 DEF UseInv, WorksOn, Destroying
<1>5. Expired(k, b) <=> burst[b] = 0
  BY <1>1, <1>4 DEF Expired, UseInv, Types, Entries
<1>6. Types'
  BY <1>1, <1>3 DEF UseInv, Types
<1>7. OneBurst'
  <2>1. \A c \in Addresses : thread'[t].burst = {c} => burst[c] = 1
    BY <1>2, <1>3, <1>5 DEF UseInv, Types, None
  <2> QED
    BY <1>1, <1>3, <2>1 DEF UseInv, OneBurst
<1>8. Entries'
  BY <1>1 DEF UseInv, Entries
<1>9. WorksOn'
  <2>1. /\ Destroying(thread[t])' /\ thread'[t].at \in {"destroy", "free"}
        /\ thread'[t].at = "destroy" => thread'[t].burst = None
    BY <1>1, <1>2, <1>3, <1>4 DEF Destroying
  <2>2. \A u \in Threads \ {t} : Using(thread[u]) => Using(thread[u])'
    BY <1>1, <1>3 DEF Using
  <2>3. \A u \in Threads \ {t} : Destroying(thread[u]) => Destroying(thread[u])'
    BY <1>1, <1>3 DEF Destroying
  <2> QED
    BY <1>3, <2>1, <2>2, <2>3 DEF UseInv, WorksOn
<1>10. Cached'
  <2>1. \A c \in Addresses : burst[c] = 1 /\ WillFree(t, k, c) => WillFree(t, k, c)'
    <3> SUFFICES ASSUME NEW c \in Addresses, burst[c] = 1, WillFree(t, k, c)
                 PROVE  WillFree(t, k, c)'
      OBVIOUS
    <3>1. c \in thread[t].todo
      BY <1>1 DEF WillFree, UseInv, WorksOn, None
    <3>2. CASE c = b
      BY <1>2, <1>3, <1>5, <3>2 DEF WillFree
    <3>3. CASE c # b
      BY <1>2, <1>3, <3>1, <3>3 DEF WillFree
    <3> QED
      BY <3>2, <3>3
  <2>2. \A u \in Threads, x \in Keys, c \in Addresses :
            burst[c] = 1 /\ WillFree(u, x, c) => WillFree(u, x, c)'
    <3> SUFFICES ASSUME NEW u \in Threads, NEW x \in Keys, NEW c \in Addresses,
                        burst[c] = 1, WillFree(u, x, c)
                 PROVE  WillFree(u, x, c)'
      OBVIOUS
    <3>1. CASE u = t
      BY <1>1, <2>1, <3>1 DEF WillFree
    <3>2. CASE u # t
      BY <1>3, <3>2 DEF WillFree
    <3> QED
      BY <3>1, <3>2
  <2> QED
    BY <1>1, <2>2 DEF UseInv, Cached
<1> QED
  BY <1>6, <1>7, <1>8, <1>9, <1>10 DEF UseInv

\* Free: that burst caches the memory no more.
LEMMA FreeNext ==
  ASSUME UseInv, NEW t \in Threads, NEW k \in Keys, NEW b \in Addresses, Free(t, k, b)
  PROVE  UseInv'
<1> DEFINE s == [thread[t] EXCEPT !.at = "destroy", !.burst = None]
<1>1. /\ thread[t].at = "free" /\ thread[t].key = {k} /\ thread[t].burst = {b}
      /\ cache' = [cache EXCEPT ![b] = Without(cache[b], k)]
      /\ thread' = [thread EXCEPT ![t] = s]
      /\ Drop(t, b)
      /\ UNCHANGED <<memory, memories, usedBy, bursts, owned>>
  BY DEF Free
<1>2. /\ s \in Stages /\ s.key = {k} /\ s.todo = thread[t].todo
      /\ s.at = "destroy" /\ s.burst = None
  <2>1. thread[t] \in Stages
    BY DEF UseInv, Types
  <2> QED
    BY <1>1, <2>1 DEF Stages, None
<1>3. /\ thread' \in [Threads -> Stages] /\ thread'[t] = s
      /\ \A u \in Threads \ {t} : thread'[u] = thread[u]
  BY <1>1, <1>2, OneThread DEF UseInv
<1>4. /\ burst' \in [Addresses -> {0, 1}]
      /\ \A c \in Addresses : /\ burst'[c] = 1 => burst[c] = 1
                              /\ owned[c] => burst'[c] = burst[c]
      /\ \A u \in Threads \ {t}, c \in Addresses : thread[u].burst = {c} => burst'[c] = 1
  BY <1>1, Drops
<1>5. Types'
  BY <1>1, <1>3, <1>4 DEF UseInv, Types
<1>6. OneBurst'
  <2>1. \A c \in Addresses : thread'[t].burst # {c}
    BY <1>2, <1>3 DEF None
  <2>2. \A u \in Threads, c \in Addresses : thread'[u].burst = {c} => burst'[c] = 1
    <3> SUFFICES ASSUME NEW u \in Threads, NEW c \in Addresses, thread'[u].burst = {c}
                 PROVE  burst'[c] = 1
      OBVIOUS
    <3>1. u \in Threads \ {t} /\ thread[u].burst = {c}
      BY <1>3, <2>1
    <3> QED
      BY <1>4, <3>1
  <2> QED
    BY <1>1, <1>4, <2>2 DEF UseInv, OneBurst
<1>7. Entries'
  BY <1>1 DEF UseInv, Entries
<1>8. WorksOn'
  <2>1. Destroying(thread[t])' /\ thread'[t].at = "destroy" /\ thread'[t].burst = None
    BY <1>1, <1>2, <1>3 DEF UseInv, WorksOn, Destroying
  <2>2. \A u \in Threads \ {t} : Using(thread[u]) => Using(thread[u])'
    BY <1>1, <1>3 DEF Using
  <2>3. \A u \in Threads \ {t} : Destroying(thread[u]) => Destroying(thread[u])'
    BY <1>1, <1>3 DEF Destroying
  <2> QED
    BY <1>3, <2>1, <2>2, <2>3 DEF UseInv, WorksOn
<1>9. Cached'
  <2>1. \A c \in Addresses : /\ DOMAIN cache'[c] \subseteq DOMAIN cache[c]
                             /\ \A x \in DOMAIN cache'[c] : /\ cache'[c][x] = cache[c][x]
                                                            /\ x = k => c # b
    BY <1>1 DEF UseInv, Types, Without
  <2>2. \A u \in Threads, x \in Keys, c \in Addresses :
            WillFree(u, x, c) => WillFree(u, x, c)' \/ (x = k /\ c = b)
    <3> SUFFICES ASSUME NEW u \in Threads, NEW x \in Keys, NEW c \in Addresses,
                        WillFree(u, x, c), ~(x = k /\ c = b)
                 PROVE  WillFree(u, x, c)'
      OBVIOUS
    <3>1. CASE u = t
      BY <1>1, <1>2, <1>3, <3>1 DEF WillFree
    <3>2. CASE u # t
      BY <1>3, <3>2 DEF WillFree
    <3> QED
      BY <3>1, <3>2
  <2> SUFFICES ASSUME NEW c \in Addresses, burst'[c] = 1, NEW x \in DOMAIN cache'[c]
               PROVE  /\ x \in Keys
                      /\ memory[x] # 0 => cache'[c][x] = memory[x] /\ c \in DOMAIN usedBy[x]
                      /\ memory[x] = 0 => \E u \in Threads : WillFree(u, x, c)'
    BY <1>1 DEF Cached
  <2>3. /\ x \in Keys
        /\ memory[x] # 0 => cache[c][x] = memory[x] /\ c \in DOMAIN usedBy[x]
        /\ memory[x] = 0 => \E u \in Threads : WillFree(u, x, c)
    BY <1>4, <2>1 DEF UseInv, Cached
  <2> QED
    BY <2>1, <2>2, <2>3
<1> QED
  BY <1>5, <1>6, <1>7, <1>8, <1>9 DEF UseInv

\* Destroyed: there was nothing left to free.
LEMMA DestroyedNext ==
  ASSUME UseInv, NEW t \in Threads, Destroyed(t)  PROVE UseInv'
<1>1. /\ thread[t].at = "destroy" /\ thread[t].todo = {}
      /\ thread' = [thread EXCEPT ![t] = Idle]
      /\ UNCHANGED <<memory, memories, usedBy, burst, bursts, owned, cache>>
  BY DEF Destroyed
<1>2. Idle \in Stages /\ Idle.at = "idle" /\ Idle.burst = None
  BY DEF Stages, Idle, None
<1>3. /\ thread' \in [Threads -> Stages] /\ thread'[t] = Idle
      /\ \A u \in Threads \ {t} : thread'[u] = thread[u]
  BY <1>1, <1>2, OneThread DEF UseInv
<1>4. Types'
  BY <1>1, <1>3 DEF UseInv, Types
<1>5. OneBurst'
  BY <1>1, <1>2, <1>3 DEF UseInv, OneBurst, None
<1>6. Entries'
  BY <1>1 DEF UseInv, Entries
<1>7. WorksOn'
  <2>1. \A u \in Threads \ {t} : Using(thread[u]) => Using(thread[u])'
    BY <1>1, <1>3 DEF Using
  <2>2. \A u \in Threads \ {t} : Destroying(thread[u]) => Destroying(thread[u])'
    BY <1>1, <1>3 DEF Destroying
  <2> QED
    BY <1>2, <1>3, <2>1, <2>2 DEF UseInv, WorksOn
<1>8. Cached'
  <2>1. \A x \in Keys, c \in Addresses : ~WillFree(t, x, c)
    BY <1>1 DEF WillFree, UseInv, WorksOn, None
  <2>2. \A u \in Threads, x \in Keys, c \in Addresses : WillFree(u, x, c) => WillFree(u, x, c)'
    BY <1>3, <2>1 DEF WillFree
  <2> QED
    BY <1>1, <2>2 DEF UseInv, Cached
<1> QED
  BY <1>4, <1>5, <1>6, <1>7, <1>8 DEF UseInv

----------------------------------------------------------------------------
\* Every step keeps the invariant, while the address of a burst is its own.
LEMMA UseInvNext == ASSUME ~ReuseAddress, UseInv, [Next]_vars  PROVE UseInv'
<1>1. CASE UNCHANGED vars
  <2>1. UNCHANGED <<memory, memories, usedBy, burst, bursts, owned, cache, thread>>
    BY <1>1 DEF vars
  <2>2. Types' /\ OneBurst' /\ Entries'
    BY <2>1 DEF UseInv, Types, OneBurst, Entries
  <2>3. WorksOn'
    BY <2>1 DEF UseInv, WorksOn, Using, Destroying
  <2>4. Cached'
    BY <2>1 DEF UseInv, Cached, WillFree
  <2> QED
    BY <2>2, <2>3, <2>4 DEF UseInv
<1>2. ASSUME NEW k \in Keys, CreateMemory(k) PROVE UseInv'
  BY <1>2, CreateMemoryNext
<1>3. ASSUME NEW b \in Addresses, CreateBurst(b) \/ FreeBurst(b) PROVE UseInv'
  BY <1>3, CreateBurstNext, FreeBurstNext
<1>4. ASSUME NEW t \in Threads, NEW k \in Keys, Destroy(t, k) PROVE UseInv'
  BY <1>4, DestroyNext
<1>5. ASSUME NEW t \in Threads, NEW k \in Keys, NEW b \in Addresses,
             Use(t, k, b) \/ Bind(t, k, b) \/ Visit(t, k, b) \/ Free(t, k, b)
      PROVE  UseInv'
  BY <1>5, UseNext, BindNext, VisitNext, FreeNext
<1>6. ASSUME NEW t \in Threads, Destroyed(t) PROVE UseInv'
  BY <1>6, DestroyedNext
<1> QED
  BY <1>1, <1>2, <1>3, <1>4, <1>5, <1>6 DEF Next

\* What a live burst caches for an address is the memory that lives there,
\* unless its destructor is still running (Memory::~Memory, mUsedBy), for any
\* threads, memories and bursts.  The hypothesis is needed: a burst at the
\* address of a dead one is not recorded in mUsedBy, as TLC shows.
THEOREM Freed == ASSUME ~ReuseAddress  PROVE Spec => []FreedFromItsBursts
<1>1. Init => UseInv
  BY UseInit
<1>2. UseInv /\ [Next]_vars => UseInv'
  BY UseInvNext
<1> QED
  BY <1>1, <1>2, UseImplies, PTL DEF Spec
=============================================================================
