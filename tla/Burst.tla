------------------------------- MODULE Burst -------------------------------
(***************************************************************************)
(* A burst: the runtime's ExecutionBurstController and the driver's        *)
(* ExecutionBurstServer, joined by two fast message queues (requests and   *)
(* results), the HIDL calls getMemories (driver to runtime) and freeMemory *)
(* (runtime to driver), and the death notification of the driver.          *)
(*                                                                         *)
(* Runtime threads compute on the burst and destroy Memory objects, whose  *)
(* destructor frees the memory from the burst.  One driver thread, the     *)
(* worker, serves requests; a HIDL thread of the driver serves freeMemory. *)
(* A queue holds data elements.  A packet is published by one atomic       *)
(* write, but read in two steps: its first element, then all the rest.     *)
(***************************************************************************)
EXTENDS Integers, Sequences

CONSTANTS
    Threads,        \* runtime threads that use the burst
    Keys,           \* addresses of Memory objects, the keys of the cache
    Arguments,      \* the pools of a request: non-empty sequences of keys
    Modes,          \* the modes of the queues: TRUE to wait on a futex, FALSE to spin
    Capacity,       \* kExecutionBurstChannelLength, in elements
    RequestSizes,   \* sizes of a request packet, in elements
    ResultSizes,    \* sizes of a result packet, in elements
    Failures,       \* of "driver dies" and "release", those that happen
    MaxRequests,    \* bound: calls of tryCompute in a behaviour
    MaxGeneration   \* bound: Memory objects created at one address

ASSUME BurstAssumption ==
    /\ Modes \subseteq BOOLEAN
    /\ Capacity \in Nat \ {0}
    /\ RequestSizes \subseteq Nat \ {0, 1}
    /\ ResultSizes \subseteq Nat \ {0, 1}
    /\ Failures \subseteq {"driver dies", "release"}
    /\ MaxRequests \in Nat
    /\ MaxGeneration \in Nat \ {0}
    /\ \A a \in Arguments : a \in Seq(Keys) /\ a # <<>>

VARIABLES
    (* the application's Memory objects *)
    live,           \* live[k]: an object exists at address k
    generation,     \* generation[k]: which of the objects at address k
    (* ExecutionBurstController *)
    pc,             \* control point of a runtime thread
    mutex,          \* holders of ExecutionBurstController::mMutex
    request,        \* what a thread computes or frees
    memoryIdToSlot, \* mMemoryIdToSlot: key -> slot, a partial function
    memoryCache,    \* mMemoryCache: the memory of slot s is at s + 1
    freeSlots,      \* mFreeSlots, the top of the stack last
    senderValid,    \* RequestChannelSender::mValid
    receiverValid,  \* ResultChannelReceiver::mValid
    received,       \* elements of the result packet read so far
    death,          \* control point of the BurstContextDeathHandler
    (* the queues *)
    mBlocking,      \* whether their ends wait on a futex or spin
    requestChannel, \* elements published and not read
    resultChannel,
    (* ExecutionBurstServer *)
    alive,          \* the driver process runs
    worker,         \* control point of ExecutionBurstServer::task
    packet,         \* elements of the request packet the worker has read
    fetched,        \* what getMemories returned: slot -> memory
    serverCache,    \* the executor's cache: slot -> memory, partial
    serverTeardown, \* ExecutionBurstServer::mTeardown
    channelTeardown,\* RequestChannelReceiver::mTeardown
    destructor,     \* control point of ~ExecutionBurstServer
    (* history, not in the code *)
    requests,       \* number of tryCompute calls made so far
    named,          \* named[i]: the memories the caller passed to call i
    executed,       \* executed[i]: the memory lists call i was run on
    outcome,        \* outcome[i]: what call i returned
    answer          \* answer[i]: the call whose packet call i returned

memories == <<live, generation>>
callerVars == <<mutex, request, received, pc>>
slotVars == <<memoryIdToSlot, memoryCache, freeSlots>>
validVars == <<senderValid, receiverValid, death>>
channels == <<requestChannel, resultChannel>>
workerVars == <<worker, packet, fetched>>
teardownVars == <<serverTeardown, channelTeardown, destructor>>
driver == <<alive, workerVars, serverCache, teardownVars>>
others == <<memories, slotVars, validVars, channels, driver>>
runtime == <<memories, callerVars, slotVars, validVars>>
bystanders == <<runtime, alive, teardownVars>>
history == <<requests, named, executed, outcome, answer>>
vars == <<mBlocking, runtime, channels, driver, history>>

Ids == 1..MaxRequests
Memories == [key : Keys, gen : 1..MaxGeneration]
Invalid == [key |-> "invalid", gen |-> 0]           \* hidl_memory{}
MemoryAt(k) == [key |-> k, gen |-> generation[k]]

(***************************************************************************)
(* FMQ data.  Packet(b, n) has n elements and body b.  The first element   *)
(* of a packet announces its size; the dummy of invalidate() announces 0.  *)
(***************************************************************************)
Body(i, slots, status) == [id |-> i, slots |-> slots, status |-> status]
Packet(b, n) == [p \in 1..n |-> [body |-> b, size |-> n]]
Dummy == [body |-> Body(0, <<>>, "error"), size |-> 0]
WellFormed(elements) == elements # <<>> /\ elements[1].size = Len(elements)

\* A wrong reading of availableToWrite, for the mutant of Room.
RoomForOne(channel, n) == Len(channel) + 1 <= Capacity

Room(channel, n) == Len(channel) + n <= Capacity

\* std::lock_guard of ExecutionBurstController::mMutex, and it missing.
AcquireNothing(t) == mutex' = mutex \cup {t}
Acquire(t) == mutex = {} /\ mutex' = {t}
Release(t) == mutex' = mutex \ {t}

\* A request and the slots found for it so far.
WithSlots(r, slots) == [id |-> r.id, keys |-> r.keys, slots |-> slots]

\* invalidate() of either channel goes on to the dummy datum if a futex may
\* be waited on; the mutant forgets to.
NoUnblock(label) == label
ForceUnblock(label) == IF mBlocking THEN "dummy" ELSE label

\* A thread, or the driver's worker, moves from one control point to another.
Step(t, from, to) == pc[t] = from /\ pc' = [pc EXCEPT ![t] = to]
WorkerStep(from, to) == alive /\ worker = from /\ worker' = to

Return(t, from, what, of) ==
    /\ Step(t, from, "idle")
    /\ Release(t)
    /\ outcome' = [outcome EXCEPT ![request[t].id] = what]
    /\ answer' = [answer EXCEPT ![request[t].id] = of]
    /\ UNCHANGED <<requests, named, executed>>

----------------------------------------------------------------------------
(***************************************************************************)
(* The runtime's Memory objects.  An address is used again only after the  *)
(* destructor of the previous object there has returned, the application   *)
(* destroys no memory that a running computation names, and creates none   *)
(* for a burst that has been released.                                     *)
(***************************************************************************)
CreateMemory(k) ==
    /\ ~live[k] /\ destructor = "none"
    /\ \A t \in Threads : pc[t] \in {"freeLock", "freeCache", "freeRemote"}
                            => request[t].keys # <<k>>
    /\ generation[k] < MaxGeneration
    /\ live' = [live EXCEPT ![k] = TRUE]
    /\ generation' = [generation EXCEPT ![k] = @ + 1]
    /\ UNCHANGED <<callerVars, slotVars, validVars, channels, driver, history>>

InUse(k) == \E t \in Threads : pc[t] # "idle"
                               /\ k \in {request[t].keys[j] : j \in DOMAIN request[t].keys}

\* ~Memory calls freeMemory on each burst that has used the memory.
DestroyMemory(t, k) ==
    /\ Step(t, "idle", "freeLock")
    /\ live[k] /\ ~InUse(k)
    /\ live' = [live EXCEPT ![k] = FALSE]
    /\ request' = [request EXCEPT ![t] = [id |-> 0, keys |-> <<k>>, slots |-> <<>>]]
    /\ UNCHANGED <<generation, mutex, received, slotVars, validVars, channels, driver, history>>

----------------------------------------------------------------------------
(* ExecutionBurstController::freeMemory                                    *)

FreeLock(t) ==
    /\ Step(t, "freeLock", "freeCache")
    /\ Acquire(t)
    /\ UNCHANGED <<others, request, received, history>>

\* ExecutionBurstCallback::freeMemory of a key that has no slot.
FreeUnknown(t) ==
    /\ Step(t, "freeCache", "idle")
    /\ request[t].keys[1] \notin DOMAIN memoryIdToSlot
    /\ Release(t)
    /\ UNCHANGED <<others, request, received, history>>

\* ... of a key that has one: the runtime's entry goes, the driver's is next.
FreeKnown(t) ==
    LET k == request[t].keys[1]
        slot == memoryIdToSlot[k]
    IN  /\ Step(t, "freeCache", "freeRemote")
        /\ k \in DOMAIN memoryIdToSlot
        /\ memoryIdToSlot' = [x \in DOMAIN memoryIdToSlot \ {k} |-> memoryIdToSlot[x]]
        /\ memoryCache' = [memoryCache EXCEPT ![slot + 1] = Invalid]
        /\ freeSlots' = Append(freeSlots, slot)
        /\ request' = [request EXCEPT ![t] = WithSlots(@, <<slot>>)]
        /\ UNCHANGED <<memories, mutex, received, validVars, channels, driver, history>>

\* removeCacheEntry of the driver's executor, and it left out.
KeepCacheEntry(slot) == serverCache
RemoveCacheEntry(slot) == [s \in DOMAIN serverCache \ {slot} |-> serverCache[s]]

\* While a thread is at "freeRemote" its HIDL call runs in the driver, in
\* ExecutionBurstServer::freeMemory; a call to a dead driver just returns.
FreeRemote(t) ==
    /\ Step(t, "freeRemote", "idle")
    /\ serverCache' = IF alive THEN RemoveCacheEntry(request[t].slots[1]) ELSE serverCache
    /\ Release(t)
    /\ UNCHANGED <<memories, request, received, slotVars, validVars, channels, alive, workerVars,
                    teardownVars, history>>

----------------------------------------------------------------------------
(* ExecutionBurstController::tryCompute                                    *)

Compute(t, keys) ==
    /\ Step(t, "idle", "lock")
    /\ requests < MaxRequests
    /\ \A j \in DOMAIN keys : live[keys[j]]
    /\ requests' = requests + 1
    /\ request' = [request EXCEPT ![t] = [id |-> requests + 1, keys |-> keys, slots |-> <<>>]]
    /\ named' = [named EXCEPT ![requests + 1] = [j \in DOMAIN keys |-> MemoryAt(keys[j])]]
    /\ UNCHANGED <<memories, mutex, received, slotVars, validVars, channels, driver, executed,
                    outcome, answer>>

Lock(t) ==
    /\ Step(t, "lock", "slots")
    /\ Acquire(t)
    /\ UNCHANGED <<others, request, received, history>>

NextKey(t) == request[t].keys[Len(request[t].slots) + 1]
MoreKeys(t) == Len(request[t].slots) < Len(request[t].keys)
AddSlot(t, slot) == request' = [request EXCEPT ![t] = WithSlots(@, Append(@.slots, slot))]

\* One turn of getSlots for a key that has a slot (getSlotLocked, found).
KnownSlot(t) ==
    /\ pc[t] = "slots"
    /\ MoreKeys(t)
    /\ NextKey(t) \in DOMAIN memoryIdToSlot
    /\ AddSlot(t, memoryIdToSlot[NextKey(t)])
    /\ UNCHANGED <<memories, mutex, received, pc, slotVars, validVars, channels, driver, history>>

\* mFreeSlots.pop(), and it left out.
FreeSlotsKept == freeSlots
FreeSlotsPopped == SubSeq(freeSlots, 1, Len(freeSlots) - 1)

\* ... for a key that has none: allocateSlotLocked pops a free slot or grows
\* the cache, and the memory is bound to it.
NewSlot(t) ==
    LET k == NextKey(t)
        reuse == freeSlots # <<>>
        slot == IF reuse THEN freeSlots[Len(freeSlots)] ELSE Len(memoryCache)
    IN  /\ pc[t] = "slots"
        /\ MoreKeys(t)
        /\ k \notin DOMAIN memoryIdToSlot
        /\ freeSlots' = IF reuse THEN FreeSlotsPopped ELSE freeSlots
        /\ memoryCache' = IF reuse THEN [memoryCache EXCEPT ![slot + 1] = MemoryAt(k)]
                                   ELSE Append(memoryCache, MemoryAt(k))
        /\ memoryIdToSlot' = [x \in DOMAIN memoryIdToSlot \cup {k} |->
                                IF x = k THEN slot ELSE memoryIdToSlot[x]]
        /\ AddSlot(t, slot)
        /\ UNCHANGED <<memories, mutex, received, pc, validVars, channels, driver, history>>

SlotsDone(t) ==
    /\ Step(t, "slots", "send")
    /\ ~MoreKeys(t)
    /\ UNCHANGED <<others, mutex, request, received, history>>

\* RequestChannelSender::sendPacket of an invalidated channel.
SendInvalid(t) ==
    /\ Return(t, "send", "fallback", 0)
    /\ ~senderValid
    /\ UNCHANGED <<others, request, received>>

SendValid(t) ==
    /\ Step(t, "send", "write")
    /\ senderValid
    /\ UNCHANGED <<others, mutex, request, received, history>>

\* The packet does not fit in what availableToWrite returns.
WriteTooLarge(t, n) ==
    /\ Return(t, "write", "fallback", 0)
    /\ ~Room(requestChannel, n)
    /\ UNCHANGED <<others, request, received>>

Write(t, n) ==
    /\ Step(t, "write", "receive")
    /\ Room(requestChannel, n)
    /\ requestChannel' = requestChannel
                           \o Packet(Body(request[t].id, request[t].slots, "ok"), n)
    /\ UNCHANGED <<memories, mutex, request, received, slotVars, validVars, resultChannel,
                    driver, history>>

\* What tryCompute returns when it sent the request and got no result; the
\* mutant lets the caller fall back and so run the request again.
LostIsFallback == "fallback"
LostIsFailed == "failed"

\* ResultChannelReceiver::getPacketBlocking
ReceiveInvalid(t) ==
    /\ \E from \in {"receive", "received"} : Return(t, from, LostIsFailed, 0)
    /\ ~receiverValid
    /\ UNCHANGED <<others, request, received>>

ReceiveValid(t) ==
    /\ Step(t, "receive", "readFirst")
    /\ receiverValid
    /\ UNCHANGED <<others, mutex, request, received, history>>

ReadFirst(t) ==
    /\ Step(t, "readFirst", "readRest")
    /\ resultChannel # <<>>
    /\ received' = <<Head(resultChannel)>>
    /\ resultChannel' = Tail(resultChannel)
    /\ UNCHANGED <<memories, mutex, request, slotVars, validVars, requestChannel, driver, history>>

SpinEnds(flag) == ~mBlocking /\ flag

\* Only a spinning receiver looks at mValid while it waits.
StopSpinning(t) ==
    /\ Step(t, "readFirst", "readRest")
    /\ SpinEnds(~receiverValid)
    /\ received' = <<>>
    /\ UNCHANGED <<others, mutex, request, history>>

ReadRest(t) ==
    /\ Step(t, "readRest", "received")
    /\ received' = received \o resultChannel
    /\ resultChannel' = <<>>
    /\ UNCHANGED <<memories, mutex, request, slotVars, validVars, requestChannel, driver, history>>

\* The packet is deserialized and its contents returned.
Receive(t) ==
    /\ receiverValid
    /\ IF WellFormed(received)
       THEN Return(t, "received", received[1].body.status, received[1].body.id)
       ELSE Return(t, "received", LostIsFailed, 0)
    /\ UNCHANGED <<others, request, received>>

----------------------------------------------------------------------------
(* The driver dies, and the runtime is told of it, once, by the thread     *)
(* that runs the BurstContextDeathHandler.                                 *)

DriverDies ==
    /\ alive /\ "driver dies" \in Failures
    /\ alive' = FALSE
    /\ UNCHANGED <<runtime, channels, workerVars, serverCache, teardownVars, history>>

\* requestChannelSender->invalidate()
InvalidateSender ==
    /\ death = "linked" /\ ~alive
    /\ senderValid' = FALSE
    /\ death' = "receiver"
    /\ UNCHANGED <<memories, callerVars, slotVars, receiverValid, channels, driver, history>>

\* resultChannelReceiver->invalidate(): the flag, then the dummy datum.
InvalidateReceiver ==
    /\ death = "receiver"
    /\ receiverValid' = FALSE
    /\ death' = ForceUnblock("done")
    /\ UNCHANGED <<memories, callerVars, slotVars, senderValid, channels, driver, history>>

UnblockReceiver ==
    /\ death = "dummy"
    /\ Room(resultChannel, 1)
    /\ resultChannel' = Append(resultChannel, Dummy)
    /\ death' = "done"
    /\ UNCHANGED <<memories, callerVars, slotVars, senderValid, receiverValid, requestChannel,
                    driver, history>>

----------------------------------------------------------------------------
(* ExecutionBurstServer::task                                              *)

\* while (!mTeardown)
WorkerLoop ==
    /\ WorkerStep("loop", IF serverTeardown THEN "end" ELSE "receive")
    /\ UNCHANGED <<bystanders, channels, packet, fetched, serverCache, history>>

\* RequestChannelReceiver::getPacketBlocking
WorkerReceive ==
    /\ WorkerStep("receive", IF channelTeardown THEN "noPacket" ELSE "readFirst")
    /\ packet' = <<>>
    /\ UNCHANGED <<bystanders, channels, fetched, serverCache, history>>

WorkerReadFirst ==
    /\ WorkerStep("readFirst", "readRest")
    /\ requestChannel # <<>>
    /\ packet' = <<Head(requestChannel)>>
    /\ requestChannel' = Tail(requestChannel)
    /\ UNCHANGED <<bystanders, resultChannel, fetched, serverCache, history>>

WorkerStopSpinning ==
    /\ WorkerStep("readFirst", "readRest")
    /\ SpinEnds(channelTeardown)
    /\ UNCHANGED <<bystanders, channels, packet, fetched, serverCache, history>>

WorkerReadRest ==
    /\ WorkerStep("readRest", "read")
    /\ packet' = packet \o requestChannel
    /\ requestChannel' = <<>>
    /\ UNCHANGED <<bystanders, resultChannel, fetched, serverCache, history>>

WorkerCheckPacket ==
    /\ WorkerStep("read", IF channelTeardown \/ ~WellFormed(packet) THEN "noPacket" ELSE "ensure")
    /\ UNCHANGED <<bystanders, channels, packet, fetched, serverCache, history>>

RequestId == IF packet = <<>> THEN 0 ELSE packet[1].body.id
RequestSlots == packet[1].body.slots

\* ResultChannelSender::sendPacket: a result that does not fit is replaced
\* by an error packet of two elements, which a futex queue waits to write.
SendResult(status, n) ==
    LET result == IF Room(resultChannel, n) THEN Packet(Body(RequestId, <<>>, status), n)
                                            ELSE Packet(Body(RequestId, <<>>, "error"), 2)
        fits == Room(resultChannel, Len(result))
    IN  /\ mBlocking => fits
        /\ resultChannel' = IF fits THEN resultChannel \o result ELSE resultChannel

\* No request was received: an error is returned unless the burst goes away.
WorkerNoPacket ==
    /\ WorkerStep("noPacket", "loop")
    /\ IF serverTeardown THEN UNCHANGED resultChannel ELSE SendResult("error", 2)
    /\ UNCHANGED <<bystanders, requestChannel, packet, fetched, serverCache, history>>

CacheEntryPresent(s) == s \in DOMAIN serverCache /\ serverCache[s] # Invalid
UnknownSlots == {s \in {RequestSlots[j] : j \in DOMAIN RequestSlots} : ~CacheEntryPresent(s)}

\* ensureCacheEntriesArePresentLocked
WorkerEnsure ==
    /\ WorkerStep("ensure", IF UnknownSlots = {} THEN "execute" ELSE "getMemories")
    /\ UNCHANGED <<bystanders, channels, packet, fetched, serverCache, history>>

RuntimeMemory(s) == IF s < Len(memoryCache) THEN memoryCache[s + 1] ELSE Invalid

\* IBurstCallback::getMemories runs in the runtime under the callback's mutex,
\* which getSlots holds too; it fails when a slot is invalid or with its call.
WorkerGetMemories ==
    /\ WorkerStep("getMemories", "addEntries")
    /\ \A t \in Threads : pc[t] # "slots"
    /\ \/ /\ \A s \in UnknownSlots : RuntimeMemory(s) # Invalid
          /\ \E t \in Threads : pc[t] # "gone"
          /\ fetched' = [s \in UnknownSlots |-> RuntimeMemory(s)]
       \/ fetched' = <<>>
    /\ UNCHANGED <<bystanders, channels, packet, serverCache, history>>

Extend(f, g) == [s \in DOMAIN f \cup DOMAIN g |-> IF s \in DOMAIN g THEN g[s] ELSE f[s]]

\* addCacheEntry for every memory returned
WorkerAddEntries ==
    /\ WorkerStep("addEntries", "execute")
    /\ serverCache' = Extend(serverCache, fetched)
    /\ UNCHANGED <<bystanders, channels, packet, fetched, history>>

\* DefaultBurstExecutorWithCache::execute: operator[] creates an empty entry
\* for a slot that has none; no driver executes on an invalid memory.
WorkerExecute ==
    LET missing == [s \in UnknownSlots |-> Invalid]
        cache == Extend(serverCache, missing)
        pools == [j \in DOMAIN RequestSlots |-> cache[RequestSlots[j]]]
    IN  /\ \/ WorkerStep("execute", "sendError")
           \/ WorkerStep("execute", "sendResult") /\ UnknownSlots = {}
        /\ serverCache' = cache
        /\ executed' = [executed EXCEPT ![RequestId] = Append(@, pools)]
        /\ UNCHANGED <<bystanders, channels, packet, fetched, requests, named, outcome, answer>>

WorkerSend(n) ==
    /\ \/ WorkerStep("sendResult", "loop") /\ SendResult("ok", n)
       \/ WorkerStep("sendError", "loop") /\ SendResult("error", n)
    /\ UNCHANGED <<bystanders, requestChannel, packet, fetched, serverCache, history>>

----------------------------------------------------------------------------
(***************************************************************************)
(* The last reference to the burst goes: the runtime destroys the          *)
(* controller between calls, or its process ends at any point.  The driver *)
(* then runs ~ExecutionBurstServer.                                        *)
(***************************************************************************)
ReleaseBurst ==
    /\ "release" \in Failures
    /\ alive /\ destructor = "none"
    /\ pc' = [t \in Threads |-> "gone"]
    /\ destructor' = "flag"
    /\ UNCHANGED <<memories, mutex, request, received, slotVars, validVars, channels, alive,
                    workerVars, serverCache, serverTeardown, channelTeardown, history>>

Teardown ==
    /\ alive /\ destructor = "flag"
    /\ serverTeardown' = TRUE
    /\ destructor' = "channel"
    /\ UNCHANGED <<runtime, channels, alive, workerVars, serverCache, channelTeardown, history>>

\* mRequestChannelReceiver->invalidate(): the flag, then the dummy datum.
TeardownChannel ==
    /\ alive /\ destructor = "channel"
    /\ channelTeardown' = TRUE
    /\ destructor' = ForceUnblock("join")
    /\ UNCHANGED <<runtime, channels, alive, workerVars, serverCache, serverTeardown, history>>

UnblockWorker ==
    /\ alive /\ destructor = "dummy"
    /\ Room(requestChannel, 1)
    /\ requestChannel' = Append(requestChannel, Dummy)
    /\ destructor' = "join"
    /\ UNCHANGED <<runtime, resultChannel, alive, workerVars, serverCache, serverTeardown,
                    channelTeardown, history>>

Join ==
    /\ alive /\ destructor = "join"
    /\ worker = "end"
    /\ destructor' = "done"
    /\ UNCHANGED <<runtime, channels, alive, workerVars, serverCache, serverTeardown,
                    channelTeardown, history>>

----------------------------------------------------------------------------
Init ==
    /\ live = [k \in Keys |-> FALSE]
    /\ generation = [k \in Keys |-> 0]
    /\ pc = [t \in Threads |-> "idle"]
    /\ mutex = {}
    /\ request = [t \in Threads |-> [id |-> 0, keys |-> <<>>, slots |-> <<>>]]
    /\ memoryIdToSlot = <<>> /\ memoryCache = <<>> /\ freeSlots = <<>>
    /\ senderValid = TRUE /\ receiverValid = TRUE
    /\ received = <<>>
    /\ death = "linked"
    /\ mBlocking \in Modes /\ requestChannel = <<>> /\ resultChannel = <<>>
    /\ alive = TRUE
    /\ worker = "loop" /\ packet = <<>> /\ fetched = <<>>
    /\ serverCache = <<>>
    /\ serverTeardown = FALSE /\ channelTeardown = FALSE
    /\ destructor = "none"
    /\ requests = 0
    /\ named = [i \in Ids |-> <<>>]
    /\ executed = [i \in Ids |-> <<>>]
    /\ outcome = [i \in Ids |-> "none"]
    /\ answer = [i \in Ids |-> 0]

\* A call in progress goes on; starting one is the application's choice.
CallStep(t) ==
    /\ \/ FreeLock(t) \/ FreeUnknown(t) \/ FreeKnown(t) \/ FreeRemote(t)
       \/ Lock(t) \/ KnownSlot(t) \/ NewSlot(t) \/ SlotsDone(t)
       \/ SendInvalid(t) \/ SendValid(t)
       \/ \E n \in RequestSizes : WriteTooLarge(t, n) \/ Write(t, n)
       \/ ReceiveInvalid(t) \/ ReceiveValid(t)
       \/ ReadFirst(t) \/ StopSpinning(t) \/ ReadRest(t) \/ Receive(t)
    /\ UNCHANGED mBlocking

DeathStep ==
    (InvalidateSender \/ InvalidateReceiver \/ UnblockReceiver) /\ UNCHANGED mBlocking

DriverStep ==
    /\ \/ WorkerLoop \/ WorkerReceive \/ WorkerReadFirst \/ WorkerStopSpinning
       \/ WorkerReadRest \/ WorkerCheckPacket \/ WorkerNoPacket
       \/ WorkerEnsure \/ WorkerGetMemories \/ WorkerAddEntries \/ WorkerExecute
       \/ \E n \in ResultSizes : WorkerSend(n)
    /\ UNCHANGED mBlocking

DestructorStep ==
    (Teardown \/ TeardownChannel \/ UnblockWorker \/ Join) /\ UNCHANGED mBlocking

\* What the application and the system do of their own accord.
Environment ==
    /\ \/ \E k \in Keys : CreateMemory(k)
       \/ \E t \in Threads, k \in Keys : DestroyMemory(t, k)
       \/ \E t \in Threads, keys \in Arguments : Compute(t, keys)
       \/ DriverDies \/ ReleaseBurst
    /\ UNCHANGED mBlocking

Next ==
    \/ Environment
    \/ \E t \in Threads : CallStep(t)
    \/ DeathStep \/ DriverStep \/ DestructorStep

\* Threads, the worker, the death handler and the destructor are scheduled;
\* nothing obliges the application to call, or a process to die.
Fairness ==
    /\ \A t \in Threads : WF_vars(CallStep(t))
    /\ WF_vars(DeathStep)
    /\ WF_vars(DriverStep)
    /\ WF_vars(DestructorStep)

Spec == Init /\ [][Next]_vars
FairSpec == Spec /\ Fairness

----------------------------------------------------------------------------
(* Type invariant.                                                         *)

Labels == {"idle", "gone", "freeLock", "freeCache", "freeRemote", "lock", "slots",
           "send", "write", "receive", "readFirst", "readRest", "received"}
WorkerLabels == {"loop", "receive", "readFirst", "readRest", "read", "noPacket", "ensure",
                 "getMemories", "addEntries", "execute", "sendResult", "sendError", "end"}

Elements == [body : [id : Nat, slots : Seq(Nat), status : {"ok", "error"}], size : Nat]
Entries == Memories \cup {Invalid}
IsEntryMap(f) == DOMAIN f \subseteq Nat /\ \A s \in DOMAIN f : f[s] \in Entries

\* Every variable has its type, and no queue holds more than its capacity.
TypeOK ==
    /\ live \in [Keys -> BOOLEAN] /\ generation \in [Keys -> 0..MaxGeneration]
    /\ pc \in [Threads -> Labels] /\ mutex \subseteq Threads
    /\ DOMAIN request = Threads
    /\ \A t \in Threads : request[t].id \in Nat /\ request[t].keys \in Seq(Keys)
                          /\ request[t].slots \in Seq(Nat)
    /\ DOMAIN memoryIdToSlot \subseteq Keys
    /\ \A k \in DOMAIN memoryIdToSlot : memoryIdToSlot[k] \in Nat
    /\ memoryCache \in Seq(Entries) /\ freeSlots \in Seq(Nat)
    /\ senderValid \in BOOLEAN /\ receiverValid \in BOOLEAN
    /\ received \in Seq(Elements) /\ packet \in Seq(Elements)
    /\ death \in {"linked", "receiver", "dummy", "done"}
    /\ mBlocking \in BOOLEAN
    /\ requestChannel \in Seq(Elements) /\ Len(requestChannel) <= Capacity
    /\ resultChannel \in Seq(Elements) /\ Len(resultChannel) <= Capacity
    /\ alive \in BOOLEAN /\ worker \in WorkerLabels
    /\ IsEntryMap(fetched) /\ IsEntryMap(serverCache)
    /\ serverTeardown \in BOOLEAN /\ channelTeardown \in BOOLEAN
    /\ destructor \in {"none", "flag", "channel", "dummy", "join", "done"}
    /\ requests \in 0..MaxRequests
    /\ DOMAIN executed = Ids /\ \A i \in Ids : executed[i] \in Seq(Seq(Entries))
    /\ DOMAIN named = Ids /\ \A i \in Ids : named[i] \in Seq(Memories)
    /\ outcome \in [Ids -> {"none", "ok", "error", "failed", "fallback"}]
    /\ answer \in [Ids -> Nat]

----------------------------------------------------------------------------
(* Safety.                                                                 *)

UsesExecutor == {"ensure", "addEntries", "execute"}

\* The driver's executor is never entered by the worker and by a freeMemory
\* call at the same time, although freeMemory takes no lock in the driver
\* (ExecutionBurstServer.cpp:500): the runtime's mutex and the lock-step of
\* requests and results are all that keeps them apart.
ExecutorNotConcurrent ==
    \A t \in Threads : alive /\ worker \in UsesExecutor => pc[t] # "freeRemote"

\* Every slot of the runtime's cache is bound to exactly one key or is free
\* once, and a bound slot holds the memory that now exists at its key.
SlotsPartitioned ==
    LET free == {freeSlots[j] : j \in DOMAIN freeSlots}
        bound == {memoryIdToSlot[k] : k \in DOMAIN memoryIdToSlot}
    IN  /\ free \cap bound = {}
        /\ free \cup bound = 0..(Len(memoryCache) - 1)
        /\ \A i, j \in DOMAIN freeSlots : freeSlots[i] = freeSlots[j] => i = j
        /\ \A k, l \in DOMAIN memoryIdToSlot : memoryIdToSlot[k] = memoryIdToSlot[l] => k = l
        /\ \A k \in DOMAIN memoryIdToSlot : memoryCache[memoryIdToSlot[k] + 1] = MemoryAt(k)

\* A call that returns the driver's answer returns the answer to its own
\* request, never another call's and never the dummy datum, and a result was
\* computed on exactly the memories the caller named.
AnswersItsRequest ==
    \A i \in Ids :
        /\ outcome[i] \in {"ok", "error"} => answer[i] = i
        /\ outcome[i] = "ok" => executed[i] = <<named[i]>>

\* No execution reads a memory other than the one named for it: a memory freed
\* and replaced at the same address is never taken for the old one.
NoStaleMemory ==
    \A i \in Ids : \A n \in DOMAIN executed[i] :
        \A j \in DOMAIN executed[i][n] : executed[i][n][j] \in {named[i][j], Invalid}

\* A request runs at most once in the driver, and not at all if the caller was
\* told to fall back to another path, then or later.
RunsOnceOrFallsBack ==
    \A i \in Ids : /\ Len(executed[i]) <= 1
                   /\ outcome[i] = "fallback" => executed[i] = <<>>

----------------------------------------------------------------------------
(* Liveness.                                                               *)

\* tryCompute and freeMemory return, whether or not the driver dies and
\* wherever in the call it does, and so does the death handler, even with a
\* result left in the queue; and ~ExecutionBurstServer joins its worker.
CallsReturn ==
    /\ \A t \in Threads : pc[t] # "idle" ~> pc[t] \in {"idle", "gone"}
    /\ (death = "receiver") ~> (death = "done")
    /\ (destructor = "flag") ~> (destructor = "done" \/ ~alive)
=============================================================================
