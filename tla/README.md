# Android Neural Networks runtime: a verification project

The code (`src/nn`) is the NN API runtime, with what it shares with drivers. An
application builds a *model*, makes a *compilation* of it (the runtime splits the
model into steps, each prepared on a device), and computes *executions* of the
compilation: synchronously, asynchronously with an *event*, or in a *burst*, a
pair of queues between the runtime and a driver. Drivers are other processes;
they answer by callbacks, and they die. The CPU is the device that every model
can be run on and every failure falls back to.

TLC checks the modules on small instances and TLAPS proves some results for all
values of the constants. `PROJECT.json` lists the runs, the properties each one
checks, the source lines behind each definition, and the hazards each property
is for.

## 1. Inventory

| Component (source under `src/nn`) | State it keeps | Operations | Talks to | Hard behaviour | What makes it correct |
|---|---|---|---|---|---|
| Burst controller (`common/ExecutionBurstController.cpp`) | slots of memories, free slots, two queues, validity flags | `tryCompute`, `freeMemory`, `getMemories`, `serviceDied` | burst server by queues and HIDL calls; Memory | threads, death of the driver, queues without request numbers, reused addresses | slots partitioned; answers belong to their requests; every call returns |
| Burst server (`common/ExecutionBurstServer.cpp`) | cache slot -> memory, worker thread, teardown flags | `task`, `freeMemory`, destructor | controller | a cache that is changed without a lock; teardown against a blocked worker | executor never entered twice; teardown ends |
| Memory (`runtime/Memory.cpp`) | mapping; the bursts that used it | create, `usedBy`, destructor | burst controllers, by weak pointers | objects of both kinds come and go, addresses are reused | a destroyed memory has left every burst |
| BurstBuilder (`runtime/BurstBuilder.cpp`) | lock flag, controllers | `tryLock`, `unlock` | executions | refused calls | always released |
| Callbacks (`runtime/Callbacks.cpp`) | result, flag, mutex, condition, bound thread, finish function | `notify*`, `wait`, `get*`, `bindThread`, `setOnFinish` | drivers, executions, events | several notifiers, lost wake-ups, reads without the mutex | a result that is settled once; waits return after finish and thread |
| VersionedIDevice (`runtime/VersionedInterfaces.cpp`) | the device and its death handler, replaced on recovery | `prepareModel`, `prepareModelFromCache`, `recoverable`, `getSupportedOperations` | driver, death notification | death anywhere in a call; recovery by several threads; drivers of older versions | nobody waits in vain; an older driver sees only what it knows |
| Execution of a plan (`runtime/ExecutionBuilder.cpp`, `ExecutionPlan.cpp`) | controller with the next step; output shapes | `next`, `fallback`, `startCompute*`, `cpuFallback*` | devices, callback of the execution | failures at every point; retries; partial updates | one notification; steps in order; shapes from the executor that made the output |
| Executions and events (`runtime/ExecutionBuilder.cpp`, `NeuralNetworks.cpp`) | arguments, started, finished, timing, shapes | set*, compute, startCompute, burstCompute, queries, wait, free | plan execution, callback, burst | order of API calls; freeing in flight | queries final once told; no use after free |
| Partitioner (`runtime/ExecutionPlan.cpp`) | queues of operations per device, operand tracker, steps | `partitionTheWork`, `ExecutionStep::addOperand`, `finishSubModel` | ModelBuilder, devices | who produces an operand for whom | every operation in one step, every input made before it is used; the steps together are the model |
| Compilation and cache (`runtime/CompilationBuilder.cpp`, `ExecutionPlan.cpp`) | preferences, token, cache files of each step | `setCaching`, `finish`, `compile` | devices, file system | drivers that fail or die; stale, missing or half-written files; restart | what is prepared is the step's model; drivers cannot make it fail |
| ModelBuilder (`runtime/ModelBuilder.cpp`) | operands, operations, small and large values, memories | add*, set*, identify*, `finish` | API, partitioner | order of calls; failed `finish`; sorting into run order | values as given; refused early or not at all |
| HAL validation and utilities (`common/ValidateHal.cpp`, `Utils.cpp`) | none | `validateModel`, `validateOperation`, `compliantWith`, conversions | ModelBuilder, VersionedIDevice, CpuExecutor | the same rules in three places | the three agree |
| CpuExecutor (`common/CpuExecutor.cpp`) | run-time operands, buffers and use counts | `run`, `executeOperation` | kernels | temporaries freed after their last use; failure in the middle | none freed early, none kept |
| Kernels (`common/operations`, `OperationsUtils.cpp`) | what the loops carry: boxes in an array, states, positions | `validate`, `prepare`, `execute` | CpuExecutor | in-place algorithms, running pointers, variants | what the operation is defined to compute |
| nnCache, BlobCache (`driver/cache`) | entries, total size, deferred save, file | `initialize`, `setBlob`, `getBlob`, `terminate`, eviction, save and load | file | eviction at the limit; a save that is cut short | sizes accounted for; what is read is what was set |
| Manager (`runtime/Manager.cpp`) | devices | registration, `prepareModel` | VersionedIDevice | - | - |
| Sample drivers (`driver/sample`) | a thread per request | HAL | callbacks | - | answers once |
| TypeManager, `random`, tools, tests, vendor extensions | none that changes at run time | - | - | - | - |

Calls go from the API down (execution -> plan -> step executor -> burst or
prepared model -> driver); what comes back does so through callbacks and queues.
The threads are: the application's; one bound to each asynchronous execution;
HIDL threads that deliver callbacks and deaths; one worker per burst in the
driver; the thread of a deferred save. What the runtime keeps across a restart
are the cache files of compilations; a driver that uses nnCache keeps its file.

## 2. Modules

| Module | Models | Composes with |
|---|---|---|
| `Burst` | both sides of a burst, the queues, the two HIDL calls, the driver's death, the burst's release | the destructor of memories, which `MemoryUse` details |
| `MemoryUse` | which bursts a memory tells that it is destroyed | refers to the cache that `Burst` implements with slots |
| `OneShot` | abstract: a value settled once | |
| `ExecutionCallback` | the class, as used for events and as given to drivers | implements `OneShot` |
| `Recoverable` | prepareModel on a driver that dies, PreparedModelCallback, death handler, recovery | |
| `PlanExecution` | the steps of an execution and its fallbacks | uses callbacks as `OneShot` promises them |
| `Execution` | the API's objects around that | likewise |
| `Operands` | operand types, sizes, what the API accepts of an operand and what the HAL validation demands | |
| `OperationTable`, `KernelTable` | `validateOperation`: the signatures of every operation, those validated in `Utils.cpp` and those that bring a kernel; which types `execute` has a case for | |
| `Operations`, `HalModel` | `validateOperation`, `validateModel`, `compliantWith` over these | extends the tables, `Operands` |
| `ModelBuilder` | the calls that build a model, `finish`, `sortIntoRunOrder` | extends `HalModel` |
| `CpuExecutor` | a run of a model on the CPU: operands, buffers, use counts, NCHW conversions | extends `HalModel` |
| `CpuPath` | ModelBuilder and CpuExecutor together | |
| `Capabilities` | performance of drivers and its conversions between versions | extends `Operands` |
| `Slicer` | the slices of a model that a driver of an older version is shown | extends `HalModel` |
| `Schedule` | abstract: operations put in an order, each once, after what it needs | |
| `Partitioner` | `partitionTheWork`, OperandTracker, the queues | implements `Schedule` |
| `ExecutionStep` | the sub-models of the steps, and where arguments and temporaries are | extends `ModelBuilder` |
| `Compilation` | `finish`: which device for which operation, steps, tokens, cache files, drivers that fail, restart | extends `ExecutionStep`, `Slicer`, `Partitioner`, `Capabilities` |
| `NonMaxSuppression` | the in-place suppression of boxes, hard and soft | |
| `Detections` | the five operations of `GenerateProposals.cpp` around it | extends `NonMaxSuppression` |
| `Recurrent` | LSTM, RNN, SVDF, the quantized LSTM and the four sequence operations | |
| `Tensors` | the extents of 27 operations, and where 16 of them put each element | |
| `Runtime` | all of these from `CpuPath` to `Tensors`, one system | |
| `BlobCache`, `NNCache` | the cache of blobs; its file, the deferred save and the life of the process | |
| `BurstProofs`, `MemoryUseProofs`, `ExecutionCallbackProofs`, `RecoverableProofs`, `PlanExecutionProofs`, `ExecutionProofs`, `NNCacheProofs`, `RuntimeProofs` | proofs | each extends the module it is named for; `RuntimeProofs` extends `CpuPath`, `Partitioner` and `NonMaxSuppression`, which `Runtime` brings together |
| `MC*` | instances for TLC | |

### Burst

Each control point of a runtime thread, of the worker and of the two destructors
lies where the code may be interrupted between two accesses to shared state.
`mutex` is `ExecutionBurstController::mMutex`. A thread holds it from `Lock` to
`Return`; within, one action is one turn of `getSlots`, one check of `mValid`,
one queue operation. `getMemories` takes the callback's mutex, which `getSlots`
holds, hence the guard of `WorkerGetMemories`. `FreeRemote` is the HIDL call and
its handler in one: in the driver it is one call of `removeCacheEntry`, and
`ExecutorNotConcurrent` is the statement that this one call never meets the
worker inside the executor.

A queue is a sequence of elements. Writes publish a packet at once; reads take
the first element, blocking, and then *all* that is available, as in
`getPacketBlocking`: a packet followed by a dummy datum is read together with it
and found to be malformed. A packet is `n` copies of one element: all that
`deserialize` tells apart here is a packet of the announced length and any other.

Memory objects have a generation, so that an object and its successor at the same
address, hence with the same key, are told apart. The application is assumed not
to destroy memories that a running computation names, as the API demands.

`Modes` has the modes of the queues, futex or polling, one of which a burst is
made with. The runtime itself only makes blocking bursts
(`ExecutionPlan::makeBursts`); both classes support either.

### MemoryUse

Objects have an address and an incarnation. `usedBy[k]` maps an address to the
incarnation the weak pointer refers to; `weakBurst.lock()` succeeds if that
incarnation still lives. The controllers are made as `unique_ptr`s, so their
addresses are free again though weak pointers remain; `ReuseAddress` says whether
the allocator makes use of that.

### ExecutionCallback and OneShot

`mMutex`, `mNotified` and the other variables are the members of that name.
`Signal` is `notify_all` after the mutex is released; a notification of an object that
has been notified returns before it and wakes nobody (`NotifyAgain`). `Sleep` is the wait of the
condition variable, which releases the mutex in the same step. If `bound`, the
object is the event of an asynchronous execution (finish function, bound thread,
the thread its only notifier); if not, a callback handed to a driver, which any of
`Drivers` notifies. The two uses are not mixed: `wait` joins the thread under the
mutex, and with a second notifier the bound thread could find the mutex taken by
the very client that joins it. No caller in the runtime does that.

### Recoverable

The driver's process is numbered by its starts. `core` is the process that the
device in `mCore` refers to; `callbacks[i]` and `link[i]` are the death handler of
the device of process `i`. `Call` and `Reply` are the two halves of the HIDL call,
between which the driver may die, or answer first. Assigning a new `Core` to
`mCore` leaves the old device's death handler linked (`Moved`).

### PlanExecution and Execution

`PlanExecution` follows `asyncStartComputePartitioned` and keeps of an output's
shape whether it is open, what the CPU would compute, or something else; a driver
may report anything. `Execution` has the objects of the API, several of them,
and abstracts the plan to one device with the CPU behind it. It keeps apart the
two stores of `finish` and the sites where `mTiming` is assigned. The executions are of one
compilation (`kind`), and one output of each, any one, is followed: its dimensions, known
or not, and whether its buffer was sufficient. `Reports` are the shapes that drivers and kernels tell of it;
a report that takes back a known rank counts as a failure (`IsUpdatable`). A query for rank or
dimensions answers BAD_STATE, BAD_DATA, OUTPUT_INSUFFICIENT_SIZE or NO_ERROR, as
the code does, and `QueriesAreFinal` says which of them each outcome must get.

### Operands, OperationTable, KernelTable, Operations, HalModel

The rules of what a model may hold are in three places: the checks of each API
call (`Utils.cpp`, `ModelBuilder.cpp`), `validateModel` (`ValidateHal.cpp`), and the
`validate`, `prepare` and `execute` of each kernel. Each is modelled from its own
code, so that a disagreement would show as a violation of `NoLateRefusal` or
`AcceptedIsExecuted`. A signature is the types of the inputs and outputs, with the
HAL version from which it is valid. Scales and dimensions that rules read are part
of the signature's condition.

### ModelBuilder, CpuExecutor, CpuPath

Each call of the API is an operator from builder to builder, and an action that
applies it to any of a small set of arguments. A value is the sequence of its
bytes, named for the operand; `given` remembers what the application said last.
`finish` is one action with every early return: the copy of large values to shared
memory is kept when validation fails afterwards, and `finish` may be called again.
`CpuExecutor` takes one action per operation and outcome: `refuseOperation` (an
operand without a value, or of no elements, that the operation may not have),
`failPrepare` (the kernel's `prepare` refuses) and `executeOperation`, which
allocates, may still fail, and frees the operands that are used up; `completeRun`
ends the run. The dimensions a
kernel computes are open. `heap` counts blocks, which operands own.

### Slicer, Capabilities, Partitioner, ExecutionStep, Compilation

`Compilation` follows `CompilationBuilder::finish`: every device is asked which
operations it supports (an older one on a slice), `findBestDeviceForEachOperation`
compares performances, `Partitioner` runs as a machine of its own with one action
per call of the tracker, and each step becomes an `ExecutionStep` whose sub-model
is a `ModelBuilder`. A driver's answer to getSupportedOperations is any set of the operations it
is shown, and perhaps of one more: on a whole model an answer of another length counts as
none (`Manager.cpp:174`), on a slice it is mapped to the model first (`Remapped`), and an
operation beyond the slice ends the process (`Abort`, see the observations). Its
answer to prepareModel is a model, a failure or its death. A hash is the sequence of
what is hashed. The cache files of the steps are `files`, by token: writing them may be cut
short by death, and a restart may find an upgraded driver. A virtual hook of the
vendor's plugins is taken as not overriding.

### NonMaxSuppression, Detections, Recurrent, Tensors

Kernels whose loops have a life of their own are machines, each next to a
definition that says by coordinates what the operation computes. They run on
operands that the executor has checked, and independently of it: to `CpuExecutor`
a kernel is one step. Floats are integers (units are chosen so that divisions are
exact), functions such as the sigmoid are tables given by the configuration, and
what conversions to float16 and quantized types lose is left out.

* `NonMaxSuppression` walks the array as the code does: best to the front, discard by
  swapping with the last. One action is one comparison.
* `Detections` adds batches, classes, thresholds, the bases that move on from batch to
  batch, and the order of what is written.
* `Recurrent` computes one time step of one direction per action; states are
  overwritten in place. A cell that `prepare` refuses ends as "refused"; one that it
  accepts and that the step cannot follow ends as "unforeseen" (`IsForeseen`, below),
  and what it would compute is not said. The definition uses the weights as
  `NeuralNetworks.h` names the operands.
* `Tensors` has the extents from `prepare` and the writes of the loops as pairs of a
  position and what is stored there; an input's element is its own position, so
  what is written tells where it was read.

### BlobCache and NNCache

`BlobCache` has the cache as a record and its calls as operators; `NNCache` the
process: `mMutex` is held for whole calls, the deferred save is a thread, and a
save is up to five steps (`Open`, `Unlink` and `Open` again if there is a file,
`Write`, `Chmod`), between which the process may die. A file has a length, a
content and a mode; `write` may store less than it is given, as the code does not
check. Only death of the process is modelled, not of the machine. The loop of `set` is
two rounds: with every policy but `HALVE` a third is never needed (`SetStores`, below),
and with `HALVE` what a round leaves cannot be cleaned again. The content of a file is a set of
entries, which the code writes, and reads, in the order of the keys.

## 3. Runs

| Run | Bounds | Shows |
|---|---|---|
| `burst_memory` | 2 threads, 2 keys, 2 generations, 2 requests of 1 or 2 pools, in both orders and with a pool named twice; nothing fails | the slots stay partitioned, no stale memory is read, the executor is entered by one thread |
| `burst` | 2 threads, 1 key, 2 requests; queue of 4, packets that fit and that do not; driver dies, burst is released, anywhere; queues that sleep or spin; fair | answers belong to requests; a request runs once, or not if the caller falls back; calls, the death handler and the teardown end |
| `memory_use` | 2 threads, 2 memories and 2 bursts, 2 incarnations each of a memory, 1 of a burst | a destroyed memory is freed from every burst |
| `memory_reuse` | 1 thread, 1 address each, 2 incarnations | ... unless addresses of bursts are reused (violation) |
| `callback` | 3 clients; a bound thread or 2 notifiers; every notification | waits return, with one result, after finish and thread |
| `recover` | 2 threads, 2 starts of the driver, answers and failures in any order; fair | nobody waits in vain; prepareModel returns |
| `recover_retry` | 2 threads, 2 starts, a driver that does what it is asked | the repeated call cannot succeed (violation) |
| `plan` | a device with 2 outputs, the CPU with none, a device with 1; every report | order, one notification, no forbidden fallback, right shapes, an end |
| `execution` | 2 executions of one compilation, 1 argument, an output, 1 burst; of one of them an output may be reported as too small, of the other only what was known before; fair | final queries in all their codes, no use after free; calls return, the burst is released |
| `execution_duration` | 1 execution on the CPU or a driver | a duration of zero that nobody measured (violation) |
| `cache` | 2 keys, values of 2 sizes, 3 settings, 3 sets, 1 death | sizes are accounted for, what is read was set, a fitting value is stored, what is set is saved |
| `model` | below | what is accepted is run, on the values given; steps are the model; caches and drivers cannot spoil it; kernels compute what they are defined to |

Why these bounds suffice to show the interesting cases: two threads are enough for
every race for a mutex that is held for a whole call; two generations for a stale
memory; two keys for a slot that goes from one memory to another through the stack
of free slots; two requests for an answer that goes to the wrong one. A queue of
four elements holds one packet and a dummy datum, or is full. The second process
of the driver may die as well, in the repeated call; two threads let one recover
while the other pings. Three clients are one more than a single wake-up can serve.
The plan has a failing first step, a step in the middle that is the CPU's own
(which may not be retried alone) and one after it that needs the shapes kept.
`MaxRequests`, `MaxGeneration`, `MaxIncarnation`, `MaxInstances`, `MaxSets`,
`MaxDeaths` and `MaxRestarts` only bound the creation of objects and requests.
Deadlock is not checked: every system here comes to rest when the application has
no more to do.

### Bounds of `model`

*Building.* Six operands (one of them of unknown size, a scalar, a tensor with
scales per channel or of an extension type), four operations in any order, two of which
write the same operand and two of which form a cycle, any
order of the other calls, three identifications. `Word` is 64 where the code has
2^32, `ImmediateBytes` 4 for 128, a memory of 14 bytes with three regions: values
are immediate, large, in shared memory or outside it, and may be given again. No value is
set once there are `SmallBytes` small bytes or `LargeValues` large values. Besides, one
draft for each signature of each operation, built by a script and run; only signatures of
more than 30 inputs (BIDIRECTIONAL_SEQUENCE_LSTM) are left out (`MaxDraftInputs`).
The dimensions a kernel computes are one of four.

*Compiling.* Answers of drivers name any of the operations that are shown, and one beyond. Eight models: an operation in the middle that is new in V1_2; an output
that is also read; temporaries of unknown size; outputs in the order that is not
theirs, an operand read twice, two inputs of one type; scales and an omitted
operand; an extension; an OEM value. The devices are a driver of V1_2 with a cache,
drivers of V1_0 and V1_1, and the CPU; one restart, with or without an upgrade.

*Detections.* At most 4 boxes, scores of 3 values, 3 classes, 2 batches of different
sizes, two thresholds of overlap and limits of none, 1 and 2.

*Recurrences.* 3 times, 2 batches, 2 inputs, 2 cells; every variant: coupled gates,
peephole, normalisation, projection, clipping, auxiliary input, both layouts,
merged outputs. Besides, 249 LSTMs with an operand left out or of the wrong size, or
whose directions are of two variants: 206 are refused, 8 are computed (and are checked), 35 are unforeseen.
The quantized LSTM has the same weights for input and state, which makes their order
immaterial; with others the property is violated, as `QuantizedWeightsAreSwapped` says.

What is outside of the bounds: the 32-bit wrap of sizes (no size of a run reaches `Word`: of the
places of temporaries `StepsAreTheModel` catches only overlaps) and a packet that fills the queue exactly
(see the observations).

*Tensors.* Writes are sets of pairs, so that the same element written twice with the same value is
not seen; of the operations that use kernels of TensorFlow Lite there are only the extents.
1 to 4 dimensions of sizes to 4 (8 for blocks), axes from both ends, windows
over 1, 4 and 5 elements with filters and strides of 1 to 3, dilations of 1 and 2,
SAME, VALID and explicit paddings; slices that begin and end from -6 to 6 with
strides of -3 to 3; refused operands.

*Limits chosen in `cache`.* Totals 7 (random and halving, or LRU and fitting) and 5 (LRU, fit or
halve), keys of sizes 1 and 2, values of 1 and 4, headers of 2 and 3: the larger value
evicts the smaller, does not fit the second setting at all, and what fits there
makes a file that is refused when it is loaded.

A model is either run on the CPU or compiled, and a kernel runs on its own: the three
parts of `Runtime` share the definitions of operands, operations and models, but a
behaviour takes one way. This keeps the state space a sum and not a product; what
it leaves out (two compilations of one model at a time) the code leaves without shared
state.

`MCRuntime` also has TLC evaluate, as an assumption, that capabilities converted to a
newer version and back are what they were, and `MCRecurrent` the difference between the quantized LSTM
and its documentation (`QuantizedWeightsAreSwapped`).

### Fairness

Weak fairness of each thread that is in a call, of the worker, of the destructors
and of the thread that runs a death handler: they are threads of a scheduler and
wait only on what the model's guards say. Nothing is assumed of the application
(it need not start a call), nor that a driver dies or restarts. In `Recoverable`
a driver that has received a request answers it or dies, and a death is told
(the runtime relies on `linkToDeath` for that and says so in
`VersionedInterfaces.cpp`). In `ExecutionCallback` one of the notifiers does call
notify ("must immediately call notify", `Callbacks.h`); no particular one must.
In `NNCache` the thread of the deferred save wakes up, and a save that has begun
goes on or its process dies. Mutexes need no strong fairness in the models, where
finitely many calls contend for each; with endlessly many, a thread's return rests
on the mutex being fair. `Runtime` states no fairness: its properties are of safety.

### Disagreements found

* `memory_reuse`: `Memory::usedBy` uses `emplace`, which keeps the expired pointer of
  a dead burst at the same address; against `Memory.h:68`.
* `recover_retry`: `recoverable` repeats a call with a callback that has been
  notified of the first failure; against `VersionedInterfaces.h:583`. Calls without
  a callback recover as promised.
* `execution_duration`: an asynchronous execution on the CPU reports 0 rather than
  `UINT64_MAX`; against `NeuralNetworks.h:5718`.
* Without a run of its own: `QUANTIZED_16BIT_LSTM` concatenates the input before the output
  state (`QuantizedLSTM.cpp:88`), and the recurrent weights before those of the input
  (`QuantizedLSTM.cpp:338`, `:351-358`). So the "input-to-input weights", operand 1, are applied to the
  output state; against `NeuralNetworks.h:3882-3928` and the diagram next to the code. If the
  sizes of input and output differ, elements are paired across the border.
  `Recurrent!Connected` is the code; the gates by the documentation are
  `Weights`. TLC evaluates the assumption `QuantizedWeightsAreSwapped` in the run `model`: the two differ,
  and agree if the operands are exchanged. A quantized cell of different weights
  (`QuantizedOf(GivenWeights)`) among `MCCells` violates `ComputesTheRecurrence`.
* Without a run of its own: `getSupportedOperations` says of an answer of another length that none is supported
  (`Manager.cpp:174-182`), but an answer on a slice never gets there: `remappedResult`
  (`VersionedInterfaces.cpp:497`) makes a vector of the model's length first. A short answer is accepted; one
  that is too long and supports an operation beyond the slice throws out of `at` (`ExecutionPlan.cpp:1203`),
  which nothing catches. `DriversCannotFailIt` allows the process to end there, and
  nowhere else.

### Observations

What was met while reading, and is in the models as the code has it, or is kept out
of the runs as said:

* Executions. `ANeuralNetworksExecution_free` deletes an execution in flight at once;
  a TODO there says that the documentation promises more. `Execution` takes the
  application to wait first, and shows that a wait is late enough.
* Burst. The dummy datum of `invalidate()` is written with `writeBlocking`; with a packet
  that fills the queue exactly and is not read, the death handler would not
  return. The sizes in the run are below that, as they are in practice (1024).
* Models. `identifyInputsAndOutputs` that is refused has changed the operands before.
  `setOperandValueFromMemory` after a large value of the same operand leaves the old
  one in the list, and so does omitting the value (kept out by `IsLarge`, of the
  theorems too). A TENSOR_INT32 with a negative scale is refused only by `finish`. A cycle
  of operations, which `NeuralNetworks.h:5060` forbids and `ValidateHal.cpp:432` leaves to
  do, is not refused: the sort never gets to the operations that wait for it, `finish` drops them and succeeds, and a run leaves what they should have
  written as it was. `Memory.cpp:47` adds offset and length in 32 bits.
* Compilations. Tokens are joined without separators. `getPerformanceInfo` reads the type
  of the first input only, and `lookup` may return the entry of the next type.
  Slices of V1_1 lose the relaxed flag. An OEM constant of more than 128 bytes
  that goes into a step makes the compilation fail without a fallback.
* nnCache. A second `initialize` keeps the limits of the first. With `HALVE` a value
  within the limits may not be in the cache after `set`, against the comment in `BlobCache.h:79`.
  `unflatten` clears the entries but not `mTotalSize`. A file of more than twice the
  limit is never loaded again. Order of access is lost by a restart. A file without
  permissions stays unreadable after a death in `save` (for a process without special
  capabilities); a file shorter than its header is not modelled.
* Detections. `boxWithNmsLimitFloat32Compute` checks only the first of the boxes of a
  batch for being malformed. With the Gaussian kernel and a threshold of 0 nothing
  is dropped; boxes without area are NaN in the soft kernels, which are not run on them. Limits
  are compared as unsigned.
* Recurrences. RNN's loop over the auxiliary input is bounded by the size of the input.
  The bidirectional LSTM writes its states into its input operands. LSTM transposes the auxiliary
  input with the size of the input. The instances have the sizes that agree.
  `prepare` of LSTMs accepts operands that the step cannot follow (`IsForeseen`): directions of two
  variants, while both use the parameters of the check made last
  (`BidirectionalSequenceLSTM.cpp:228-236`); an auxiliary input without its weights, or without those
  of the input gate though the gates are not coupled (`:192-204`, which does not look at them, against
  `LSTM.cpp:808`); states of another size; no projection and an output that is not of the
  size of the cell (`LSTM.cpp:946`). Null pointers and rows that are too short are then read.
* Tensors. MEAN with `keepDims` passes over an axis that does not exist, without it refuses
  it. TRANSPOSE_CONV with SAME padding gives the size that is wanted only for
  inputs of the matching size, which is not checked. HASHTABLE_LOOKUP does not compare
  the number of keys with the number of rows. Among equal values TOPK_V2 gives the greatest
  index first. Not enumerated: images smaller than the filter (the extent is
  negative and stored as unsigned), negative explicit paddings of depthwise
  and grouped convolutions, and sizes of 0 with negative indices.

## 4. Proofs

`BurstProofs` proves, with no assumption but `BurstAssumption`:

* `Slots`: `Spec => []SlotsPartitioned`. The property is not inductive: a step that
  frees a slot needs to know that its key is the one at the head of the request,
  and one that binds a slot that the memory exists. `SlotInv` adds the types of the
  maps (`SlotTypes`), that slots of the map and of the stack together are the
  indices of the cache (`Partition`), that each bound slot holds the memory of its
  key (`Binding`), that the memories a computation names live while it may bind
  them (`NamedAreLive`), that a freeing thread frees one key (`FreesOneKey`), and
  that bound keys are live ones or being freed (`BoundAreLive`), without which a
  new memory at an old address would find the binding of its predecessor.
* `NotConcurrent`: `Spec => []ExecutorNotConcurrent`. `TurnsInv` says who may move:
  all points between `Lock` and `Return` are held by one thread (`HoldersExclude`);
  the channels are valid while the driver lives, and the burst is released with no
  thread left in it (`Valid`); and (`Turns`) the worker is busy, or has a request,
  only while the holder waits for its result, and a result is there only when the
  worker rests. A thread at `freeRemote` holds the mutex and does not wait, so the
  worker rests.

* `Types`: `Spec => []TypeOK`, the bound on both queues included, from `SlotInv` and
  four more parts that different steps disturb (`TypeInv`): what an existing memory
  adds to the types (`CountTypes`: its generation is not 0), flags and control
  points, the queues (`QueueTypes`: while the worker serves a request, its packet is
  not empty, which `packet[1]` relies on), the driver's cache, and the histories.
* `RunsOnce`: `Spec => []RunsOnceOrFallsBack`. Calls are numbered in the model, so
  `NumberInv` first says that a number is given once and that everything on its way
  to the driver, in the queue or in the worker's hands, is the dummy datum or a call
  that was made. `RunInv` follows a call: until it is written it is fresh
  (`UnsentAreFresh`, `UnusedAreFresh`: not run, not answered, not carried); while it is
  carried it has not been run and its caller has not fallen back (`CarriedAreNew`); and
  what follows the first element of a packet is not another request
  (`NothingFollows`), so that a request is carried in one place only.
* `Answers` and `NotStale`: `Spec => []AnswersItsRequest`, `Spec => []NoStaleMemory`.
  Results have no number, so that they belong to the right call is a matter of who
  waits: `ExchangeInv` says that the queue of requests, the worker, the queue of
  results and what the caller has read of it hold the call of the waiting thread
  only, as long as the channel is valid, and that the dummy datum of a death comes
  after the queue of results was invalidated (`DeathOrder`). On the memories:
  `NamedInv` and `CarriedInv` say that each slot of a call holds the memory its caller
  named, from the moment it is found to the moment the call is run; `Coherent`
  that an entry of the driver's cache is what the runtime has in that slot, except
  while the memory of the slot is being freed. So a call is run on what it named, or
  on a slot that has no memory, which makes it fail; and (`ResultInv`) a result that
  says "ok" has been run on what it named, and stays so.

`MemoryUseProofs` proves `Freed`: with no reuse of addresses (`~ReuseAddress`)
`Spec => []FreedFromItsBursts`. There is then one burst to an address, so that an
entry of `mUsedBy` is current while its burst lives (`OneBurst`, `Entries`); what a live
burst caches is a memory that is there and knows the burst, or one that some thread
is on its way to free (`Cached`, `WillFree`). The hypothesis cannot be left out: the run
`memory_reuse` violates the property without it.

`RecoverableProofs` proves, from `RecoverableAssumption`:

* `NobodyOrphaned`: `Spec => []NoOrphanedWait`. The processes of a driver are numbered as
  they start and a dead one never comes back (`Processes`); the death handler has the
  callback of a call before the call is made (`Registered`); a process that has
  taken a request owes the answer as long as it lives (`Owing`).
* `Renews`: `Spec => Renewed`, an action property: `mCore` is only replaced by the device of
  a later process. `Locked`: the thread between `ping` and the new `Core` is the one that
  has the lock, and the service it found is newer than `mCore`; the `ping`
  under the lock is what makes this true of all threads that find the driver dead.

`PlanExecutionProofs` proves `InOrder`, `NoFallbackUnallowed` and `ProducersShapes` for any
plan that meets `PlanAssumption`, which says that a step names an output once
(`ExecutionStep::addOperand` asserts as much). `Position` relates the controller's next step
to the steps that have completed, before and after `fallback`; `Gathered` says that while
a step runs, only its own outputs can differ from what their producers reported, so
that what a failed attempt has stored is overwritten by the attempt that succeeds;
`Kept` that no dimension that was given has been changed, which is what `Updates` checks
against; `Allowed` that nobody is on a path of failure who may not fall back.

`ExecutionProofs` proves `Alive`, `QueriesFinal` and `Exclusive`, for any executions,
arguments and reports. `LifeInv`: the application learns from the callback only that a computation is
over, and the calls that need the object keep it from being freed; `FinishInv`: which of
the two stores of `finish` have been made at each point; `BurstInv`: the flag of the
burst is up exactly while one call is in it. `Exclusive` (`OneInBurst`) is stated
in `ExecutionProofs` and not checked by a run.

`ExecutionCallbackProofs` proves, from `CallbackAssumption`:

* `Refinement`: `Spec => ImplementsOneShot`. `Inductive` says that a notifier in its
  finish function holds the mutex, and that a client past its wait finds the object
  notified and no finish function running; so the unlocked reads are stable.
* `ThreadEnded` and `Finished`, with `Bindings` (bound before the hand-over, joined
  before anybody leaves) and `FinishOnce`.

`RuntimeProofs` proves `Refinement`: `PartitionSpec => ImplementsSchedule`, for any
set of graphs and any number of devices (`GraphAssumption`; a graph is acyclic, which
`sortIntoRunOrder` ensures). The invariant has five parts: `PartitionTypes`; what the steps
hold (`StepsInv`: operations of the step's own device); that an operation in a queue
has no unknown input, is there once, and has not been added yet (`QueueInv`); that
every operation counted so far without an unknown input is in a queue or added
(`ReadyInv`); and that an input is unknown to an operation from the count until the
operation that writes it is added and its outputs are gone through (`UnknownInv`),
from which it follows that an operation joins a queue exactly when its last input
becomes known. That the loop ends with every
operation in a step (`Complete`) is where acyclicity is used: of the operations left,
one follows none of the others, hence is in a queue. `Runtime` uses
`Partitioner` as part of a larger behaviour; there the run `model` checks the same property.

It proves `RunOrder`, `HeapOwned`, `ReadsAlive` and `ValuesKept` too:
`PathSpec => []InRunOrder`, and the same for `HeapIsOwned`, `ReadsLiveBuffers` and
`ValuesAsGiven`, for any operands, operations, values, requests and outcomes of kernels, and
any model that the calls of the API build from nothing (`CandidatesAssumption`,
`IdentificationsAssumption`, `MemoryAssumption`: what the application names are lists of
numbers, offsets and lengths; `DeclarationsAssumption`: the types are types). The argument
has five parts.

* The builder (`BuilderStep`): whatever calls are made and refused, an operand is an input
  or output of the model only if it is listed as one, and in a finished model exactly
  then (`IsBuilder`), though a refused `identifyInputsAndOutputs` has changed operands. The
  executor relies on it: `initializeRunTimeInfo` gives a buffer to what is listed, and
  takes what is not listed by its lifetime (`BeginInfos`).
* An operand of the run (`IsInfo`): only a temporary is on the heap or counted, and what is neither
  a temporary nor omitted has a buffer from the start. This is why `output_tmp`, which
  `NhwcKernel` makes a temporary of a copy of an output, allocates for temporaries only
  (`NhwcLeaves`). `Leaves` says what any kernel leaves behind, successful or not: the operands
  of others untouched, and every new block in an operand, or the operands as they were.
* The run (`HeapInv`): the blocks are those of the operands and the leaked ones; the uses left of
  a temporary are at least the reads still to come, counted with their repetitions; and
  a temporary whose writer has run and that has uses left is there (`Running`).
  `OneOperationLess` takes the reads of one operation from the count.
* What finish owes the executor (`RunsInOrder`, part of `IsBuilder`): operations read operands
  of the model and follow those that write what they read, and no count of consumers is too
  small. Until finish the counts are exact (`IsCounted`: `OneOperationMore` for a call of
  `addOperation`). `sortIntoRunOrder` is two loops, written as recursive functions over a
  number; `RoundByRound` says that such a function exists and that what each step keeps, all of it
  keeps. The invariant of both loops is `IsSort`: the count of an operation is of its
  computed inputs that nothing in the order writes (`Missing`), the operations on the stack and
  in the order are there once and miss nothing, and all the others miss something. The
  inner loop takes one written operand at a time (`KnownSorts`: the operation is pushed exactly
  when its last missing operand is known, which holds because no operand is written twice,
  `ValidWritesOnce`, the one thing it needs of `validateModel`); the outer one moves an operation
  that misses nothing to the order, hence behind its writers (`RunNextSorts`, `SortedOrder`).
  Operations of a cycle always miss something and are lost: `ReorderedRuns` shows that
  this only lowers the number of reads below the counts.
* The values (`HoldsValues`): an operand has a lifetime of constants exactly if it was given a
  value, its length is that of the value, and the value is where its location says, at once for
  those in the model's own bytes or in the application's memory (`IsStored`), and
  only when the model is finished for a large one, which until then is the operand's last in the
  list that `finish` copies (`IsLargeValue`). Each call is one lemma, from `AddOperandHolds` to
  `FinishHolds`: what is appended moves nothing that is there (`StaysAt`), with padding
  or not (`WrittenBehind`); the memory that `finish` makes holds every large
  value at the offset of its turn (`MemoryHolds`, by `RoundByRound` over the list); and a `finish` that
  could not create it has changed offsets of large values only (`PlacedHolds`), which the next
  one sets again. That becoming an input or an output does not touch a constant
  (`ArgumentsKeepValues`) is `identifyInputsAndOutputs` refusing what is not a temporary.
  `ReadBack` ends it: what the run cuts out of a pool at the location is the value (`ComputeReads`),
  and no kernel changes it (`ConstantsStay`).

The same module proves `Suppression`: `NmsSpec => []KeepsTheBest`, for the hard
kernel and any boxes, scores, thresholds and limits (`CallsAssumption`). Its invariant says
that no box is lost from the array (`Permuted`), that what is left in it
overlaps none of the kept boxes it has been compared with (`Apart`: the box of the
current round only up to the position `compared`), that a kept box is no worse than
those after it (`Sorted`), and that each discarded box overlaps a kept one that is no
worse (`Reasons`). The swap in the middle of the walk is why `Apart` must speak of positions.

`NNCacheProofs` proves `SizesAccounted`, `ReadsWhatWasGiven` and `RoomIsMade`:
`Spec => []Accounting`, `Spec => []GetsWhatWasSet` and `Spec => FitStores`, for any keys
and sizes, settings, values given and deaths (`BlobCacheAssumption`: a key has a byte at least;
`SettingsAssumption`: the settings are settings).

* A cache (`Caches`): the accesses are its keys, each once; its total is the number of bytes of
  its entries (`Bytes`), and within its limits, and so is each entry; and its entries are
  among those of a given set, which `ReadsWhatWasGiven` chooses. The size is
  stated as a number of bytes, so that one entry more or less is a set of bytes
  more or less (`Changes`), with no sum to unfold.
* `clean` (`EvictsOnce`, `CleansUp`): a round takes one entry away and keeps all else; as
  many rounds as there are entries leave a total of at most `downTo`, or nothing.
* `set` (`MakesRoom`, `SetStores`): with the FIT policies a round of eviction makes enough
  room unless it evicts the value on whose behalf it is made, which was counted
  as room already; then the key is not in the cache, and the next round cannot be in vain.
* The process (`IInv`): the file has one entry per key at most, with numbers of values given, and, if
  it is whole, values given; an entry of the cache is given and not older than
  what the file has for its key (`Fresh`); a save in progress has a cache to save. A file is
  replaced by what is in the cache (`WrittenIsSound`) and a cache is made from nothing but a
  whole file (`BlobCachesAre`), so neither gets ahead of the other.

The invariants were checked by TLC before they were proved.

Only model-checked: all liveness (TLAPS does not reason about fairness or ENABLED
here), the type invariants of the other modules, and every property not named above.
The library's induction takes an operator as a parameter, which the installed provers cannot
instantiate. `RuntimeProofs` and `NNCacheProofs` go without it: that a nonempty set of naturals has a least
element (`LeastNatural`) gives `UpTo` and `RoundByRound` (`Loop` in `NNCacheProofs`), induction for a property given
as a set and for a function defined along a number, and the loops that are proved about
are written as such functions. What the folds of the library compute, which run over sets and
sequences, stays out of reach: so the folds of `Recurrent` and `Tensors` are checked against
definitions that are not recursive. `Tensors` has recursive
operators, so it, and `Runtime`, which extends it, have no theorems.

## 5. Not modelled

* The arithmetic of kernels that work element by element, the kernels taken over from
  TensorFlow Lite, random numbers, and the loss of precision in float16 and
  quantized types.
* Contents of packets and requests, timing values, tracing and the vendor's profiler
  hooks: no property depends on them.
* Mapping of memories to addresses, descriptors and files; the MemoryTracker.
* The validation of an execution's arguments and their locations, and the mapping of
  arguments to the operands of a step in an execution (their places in the plan are
  `StepsAreTheModel`'s).
* TypeManager, registration of devices, GraphDump: filled once, or text.
* Sample drivers, tools, generated tests: examples and code that is not in the product.
* Misuse that the API forbids: two threads on one execution, destroying a memory
  or a compilation in use.
* A large part of the repository's lines is documentation in headers
  (`NeuralNetworks.h` alone has 6434 lines), generated tests, and arithmetic.

## 6. Plan

Done: the burst, memories, callbacks, recovery, executions and their plans; models,
their validation, the CPU, the partitioner with its refinement, compilations and their cache;
detections, recurrences, and the operations that move elements; nnCache.

Next, in this order:

1. Arguments of executions: dimensions and locations set by failed calls
   (`setFromMemory`), sizes in 32 bits, and their way through the steps of a plan
   into requests; then `PlanExecution` composed with the plans of `Compilation`.
2. The element-by-element kernels with broadcasting, as one module over
   `Tensors`' IndexedShapeWrapper.
3. Driver-side asynchronous answers (sample driver) as an implementation of the
   driver that `Recoverable` assumes.

Next theorems: `Compilation`'s `CachedIsSame`, for which the tokens need an
abstraction; `Partitioner`'s result carried into `Compilation`.
