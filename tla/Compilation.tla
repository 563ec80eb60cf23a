---------------------------- MODULE Compilation ----------------------------
(***************************************************************************)
(* CompilationBuilder::finish (runtime/CompilationBuilder.cpp): the model is   *)
(* shown to every device, each operation goes to the device that is best for  *)
(* it, Partitioner makes steps of them, and each step is prepared by its       *)
(* driver, from the cache if it can be.  What drivers do wrong must end in a   *)
(* compilation on the CPU.                                                   *)
(*                                                                         *)
(* A device is [name, version, hal, caches, caps]; name and version are        *)
(* sequences of letters, hal is 0 for V1_0 to 2 for V1_2 and 3 for the CPU.    *)
(* The files of the cache outlive the process, which may die at any step;      *)
(* the application then compiles the same model again.                        *)
(***************************************************************************)
EXTENDS ExecutionStep, Slicer, Partitioner, Capabilities

CONSTANTS
  CpuDevice,       \* DeviceManager::getCpuDevice
  MaxRestarts,     \* bound: how often the process is started again
  Upgrades(_),     \* the devices a restarted process may find, given those before
  Preferences      \* the preferences it may have then

VARIABLES
  compilation,     \* CompilationBuilder: settings, phase, result
  shown,           \* the model a driver was last given: [model, hal]
  canDo,           \* of each device asked so far, the operations it can do
  steps,           \* mPlan's steps; a simple plan is one whose sub-model is the model
  prepared,        \* of each step finished so far, what was prepared for it
  files            \* the cache: the content of the file of each token

compilationVars == << compilation, shown, canDo, steps, prepared, files, partitionVars >>

CPU_ONLY == 3

kPartitioningNo == 0
kPartitioningWithFallback == 1
kPartitioningWithoutFallback == 2

PREFER_LOW_POWER == 0

NotShown == [model |-> <<>>, hal |-> 2]
NoCompilation == [phase |-> "none"]

(* Settings: devices, preference, partitioning and token, << >> when there is  *)
(* no cache.                                                                *)
Created(settings) ==
  [devices |-> settings.devices, preference |-> settings.preference,
   partitioning |-> settings.partitioning, token |-> settings.token,
   phase |-> "created", result |-> "", compound |-> FALSE, fallback |-> FALSE, restarts |-> 0]

HasOperation(type) == \E o \in DOMAIN builder.operations : builder.operations[o].type = type
hasOEMOperation == HasOperation(OEM)
hasExtensionOperation == HasOperation(EXTENSION)

Whole == HidlModel(builder)
devices == compilation.devices

-----------------------------------------------------------------------------
(* How a compilation ends.  BAD_DATA is the application's error and is         *)
(* returned as it is; after any other the CPU may compile the whole model.     *)

simpleStep(device) == << [NewStep(device) EXCEPT !.sub = builder] >>

(* A mutant: a compilation that falls back keeps the steps it has.             *)
KeepSteps(device, fallback) ==
  /\ IF fallback /\ steps # <<>> THEN UNCHANGED << steps, prepared >>
     ELSE steps' = simpleStep(device) /\ prepared' = <<>>
  /\ compilation' = [compilation EXCEPT !.phase = "preparing", !.compound = FALSE,
                                        !.fallback = fallback]

BecomeSingleStep(device, fallback) ==
  /\ steps' = simpleStep(device) /\ prepared' = <<>>
  /\ compilation' = [compilation EXCEPT !.phase = "preparing", !.compound = FALSE,
                                        !.fallback = fallback]

Return(result) ==
  /\ compilation' = [compilation EXCEPT !.phase = "done", !.result = result]
  /\ UNCHANGED << steps, prepared >>

FallsBack ==
  /\ ~ compilation.fallback
  /\ compilation.partitioning = kPartitioningWithFallback
  /\ ~ hasOEMOperation /\ ~ hasExtensionOperation

(* Any error but BAD_DATA.  prepareModel on the CPU only looks at the model.    *)
Fail == IF FallsBack THEN BecomeSingleStep(CpuDevice, TRUE) ELSE Return("OP_FAILED")

finishCompilation ==
  /\ compilation.phase = "created"
  /\ IF compilation.partitioning # kPartitioningNo
     THEN compilation' = [compilation EXCEPT !.phase = "asking"] /\ UNCHANGED << steps, prepared >>
     ELSE BecomeSingleStep(CpuDevice, TRUE)
  /\ UNCHANGED << shown, canDo, files, partitionVars >>

-----------------------------------------------------------------------------
(* findBestDeviceForEachOperation                                            *)

cpuSupports ==
  {o \in DOMAIN builder.operations : builder.operations[o].type \notin {EXTENSION, OEM}}

(* The process ends, and all it has with it but the files.                    *)
Abort == compilation' = [compilation EXCEPT !.phase = "aborted"] /\ UNCHANGED canDo

(* A driver says of each operation it is shown, by its number, whether it can   *)
(* do it; the number after the last stands for all that are too large.  One     *)
(* that fails or dies can do none, nor can one whose answer on a whole model    *)
(* has another length.  An answer on a slice is mapped back to the model before *)
(* its length is compared: the operations it leaves out are taken for none it   *)
(* can do, and an operation beyond the slice is looked up with at(), which      *)
(* throws.                                                                  *)
Answered(asked, answer, sliced) ==
  \/ /\ answer \subseteq DOMAIN asked.orig
     /\ canDo' = Append(canDo, Remapped(asked, answer)) /\ UNCHANGED compilation
  \/ /\ ~ answer \subseteq DOMAIN asked.orig
     /\ IF sliced THEN Abort ELSE canDo' = Append(canDo, {}) /\ UNCHANGED compilation

getSupportedOperations ==
  /\ compilation.phase = "asking" /\ Len(canDo) < Len(devices)
  /\ LET device == devices[Len(canDo) + 1]
     IN \/ /\ device.hal = CPU_ONLY
           /\ canDo' = Append(canDo, cpuSupports)
           /\ UNCHANGED << compilation, shown >>
        \/ /\ device.hal # CPU_ONLY
           /\ \E asked \in {Shown(Whole, device.hal)} :
                \/ /\ asked = Nothing
                   /\ canDo' = Append(canDo, {}) /\ shown' = NotShown
                   /\ UNCHANGED compilation
                \/ /\ asked # Nothing
                   /\ shown' = [model |-> asked.model, hal |-> device.hal]
                   /\ \E answer \in SUBSET (1 .. Len(asked.orig) + 1) :
                        Answered(asked, answer, ~ CompliantWith(Whole, device.hal))
  /\ UNCHANGED << steps, prepared, files, partitionVars >>

(* The type of an operation is that of its first input.                       *)
Performance(d, o) ==
  LET operation == builder.operations[o]
      perf == PerformanceOf(devices[d].caps, builder.operands[operation.ins[1]].type, builder.relaxed)
  IN IF compilation.preference = PREFER_LOW_POWER THEN perf.powerUsage ELSE perf.execTime

(* The first of the fastest, but the CPU before them.                         *)
BetterDevice(o, d, e) ==
  \/ Performance(d, o) < Performance(e, o)
  \/ /\ Performance(d, o) = Performance(e, o)
     /\ devices[d].hal = CPU_ONLY \/ (d < e /\ devices[e].hal # CPU_ONLY)

CanDo(o) == {d \in DOMAIN devices : o \in canDo[d]}
BestDevice(o) == CHOOSE d \in CanDo(o) : \A e \in CanDo(o) \ {d} : BetterDevice(o, d, e)

GraphOf(b) ==
  [count |-> Len(b.operations),
   needs |-> [o \in DOMAIN b.operations |->
                {i \in Range(b.operations[o].ins) : Computed(b.operands[i])}],
   outs |-> [o \in DOMAIN b.operations |-> b.operations[o].outs]]

findBestDeviceForEachOperation ==
  /\ compilation.phase = "asking" /\ Len(canDo) = Len(devices)
  /\ canDo' = <<>> /\ shown' = NotShown
  /\ LET best == [o \in DOMAIN builder.operations |-> BestDevice(o)]
     IN \/ /\ \E o \in DOMAIN builder.operations : CanDo(o) = {}
           /\ Return("BAD_DATA")
           /\ UNCHANGED partitionVars
        \/ /\ \A o \in DOMAIN builder.operations : CanDo(o) # {}
           /\ Cardinality(Range(best)) = 1
           /\ BecomeSingleStep(devices[best[1]], FALSE)
           /\ UNCHANGED partitionVars
        \/ /\ \A o \in DOMAIN builder.operations : CanDo(o) # {}
           /\ Cardinality(Range(best)) > 1
           /\ Start(GraphOf(builder), best)
           /\ compilation' = [compilation EXCEPT !.phase = "partitioning", !.compound = TRUE]
           /\ UNCHANGED << steps, prepared >>
  /\ UNCHANGED files

-----------------------------------------------------------------------------
(* partitionTheWork: Partitioner's loops, with the steps they fill.           *)

partition ==
  /\ compilation.phase = "partitioning"
  /\ \/ /\ Loop
        /\ steps' = IF Len(stepDevices') = Len(steps) THEN steps
                    ELSE Append(steps, NewStep(devices[stepDevices'[Len(stepDevices')]]))
        /\ UNCHANGED << compilation, prepared >>
     \/ \E o \in AllOperations :
          /\ IsNextInQueue(o)
          /\ \E step \in {AddOperationToStep(Last(steps), builder, o)} :
               \/ /\ step.ok
                  /\ assignOperation(o)
                  /\ steps' = Append(Front(steps), step)
                  /\ UNCHANGED << compilation, prepared >>
               \/ /\ ~ step.ok
                  /\ Abandon
                  /\ Return("BAD_DATA")
  /\ UNCHANGED << shown, canDo, files >>

finishPlan ==
  /\ compilation.phase = "partitioning" /\ mode = "done"
  /\ steps' = findTempsAsSubModelOutputs(steps)
  /\ compilation' = [compilation EXCEPT !.phase = "preparing"]
  /\ UNCHANGED << shown, canDo, prepared, files, partitionVars >>

-----------------------------------------------------------------------------
(* compile                                                                  *)

(* What the driver prepares is known by what it was given.                    *)
Content(step) == [model |-> HidlModel(step.sub), device |-> step.device.name,
                  version |-> step.device.version, preference |-> compilation.preference]

(* A mutant: the operations are left out.                                     *)
TokenOfModel(step) ==
  compilation.token \o step.device.name \o step.device.version \o << compilation.preference >>

(* The bytes that are hashed, one after the other: the application's token,    *)
(* the operations of the step, the name and the version, the preference.       *)
Token(step) ==
  compilation.token \o step.operations \o step.device.name \o step.device.version
    \o << compilation.preference >>

Unusable == [model |-> <<>>]    \* a file that is empty or half written
UsesCache(step) == step.device.hal # CPU_ONLY /\ step.device.caches /\ compilation.token # <<>>

(* The step that is next, with its sub-model finished.                        *)
NextStep == Len(prepared) + 1
Finished ==
  IF compilation.compound THEN FinishSubModel(steps[NextStep], builder) ELSE steps[NextStep]

(* The end of CompoundBody::finish comes after the last step is prepared.      *)
Prepared(step, content) ==
  /\ prepared' = Append(prepared, content)
  /\ steps' = [steps EXCEPT ![NextStep] = step]
  /\ UNCHANGED compilation

compileFromCache(step) ==
  /\ UsesCache(step) /\ Token(step) \in DOMAIN files
  /\ files[Token(step)] # Unusable
  /\ Prepared(step, files[Token(step)])
  /\ UNCHANGED << shown, canDo, files, partitionVars >>

cpuPrepares(step) ==
  /\ step.device.hal = CPU_ONLY
  /\ IF ValidateModel(HidlModel(step.sub), 2) THEN Prepared(step, Content(step)) ELSE Fail
  /\ shown' = NotShown
  /\ UNCHANGED << canDo, files, partitionVars >>

(* What may become of the files: they cannot be made, or are made and then     *)
(* written, half written or not written.                                     *)
FilesAfter(step, contents) ==
  {files} \cup IF UsesCache(step) THEN {(Token(step) :> c) @@ files : c \in contents} ELSE {}

Understands(step) == CompliantWith(HidlModel(step.sub), step.device.hal)

driverPrepares(step) ==
  /\ step.device.hal # CPU_ONLY /\ Understands(step)
  /\ Prepared(step, Content(step))
  /\ files' \in FilesAfter(step, {Unusable, Content(step)})
  /\ shown' = [model |-> ConvertTo(HidlModel(step.sub), step.device.hal), hal |-> step.device.hal]
  /\ UNCHANGED << canDo, partitionVars >>

(* The driver failed, died or gave no model, or could not be given this one.   *)
driverFails(step) ==
  /\ step.device.hal # CPU_ONLY
  /\ Fail
  /\ files' \in FilesAfter(step, {Unusable})
  /\ shown' = IF Understands(step)
              THEN [model |-> ConvertTo(HidlModel(step.sub), step.device.hal), hal |-> step.device.hal]
              ELSE NotShown
  /\ UNCHANGED << canDo, partitionVars >>

planFinished ==
  /\ compilation.phase = "preparing" /\ NextStep \notin DOMAIN steps
  /\ shown' = NotShown
  /\ IF compilation.compound /\ \E k \in DOMAIN steps : HasOutputOfUnknownSize(steps[k])
     THEN Fail
     ELSE Return("NO_ERROR")
  /\ UNCHANGED << canDo, files, partitionVars >>

(* finishSubModel of one step after the other, or SimpleBody::finish.  A sub-   *)
(* model that is refused is BAD_DATA.                                        *)
prepareStep ==
  /\ compilation.phase = "preparing" /\ NextStep \in DOMAIN steps
  /\ \E step \in {Finished} :
        IF step.sub.completed
        THEN compileFromCache(step) \/ cpuPrepares(step) \/ driverPrepares(step) \/ driverFails(step)
        ELSE Return("BAD_DATA") /\ UNCHANGED << shown, canDo, files, partitionVars >>

(* The process dies, in the middle or at the end, and compiles again.          *)
restart ==
  /\ compilation.phase # "none" /\ compilation.restarts < MaxRestarts /\ compilation.token # <<>>
  /\ \E found \in Upgrades(devices), preference \in Preferences :
       compilation' = [Created(compilation) EXCEPT
         !.restarts = compilation.restarts + 1, !.devices = found, !.preference = preference]
  /\ shown' = NotShown /\ canDo' = <<>> /\ steps' = <<>> /\ prepared' = <<>>
  /\ Forget
  /\ UNCHANGED files

CompilationInit ==
  /\ shown = NotShown /\ canDo = <<>> /\ steps = <<>> /\ prepared = <<>> /\ files = <<>>
  /\ PartitionInit

CompilationNext ==
  \/ finishCompilation \/ getSupportedOperations \/ findBestDeviceForEachOperation
  \/ partition \/ finishPlan \/ prepareStep \/ planFinished \/ restart

-----------------------------------------------------------------------------
(* Properties.                                                              *)

Compound == compilation.phase = "done" /\ compilation.result = "NO_ERROR" /\ compilation.compound

(* An operation of a sub-model, in the operands of the model.                  *)
InModel(step, operation) ==
  LET back(list) == [n \in DOMAIN list |-> step.from[list[n]]]
  IN [type |-> operation.type, ins |-> back(operation.ins), outs |-> back(operation.outs)]

SameOperations(step) ==
  /\ \A n \in DOMAIN step.sub.operations :
        InModel(step, step.sub.operations[n]) = builder.operations[step.operations[step.sub.sorted[n]]]
  /\ \A to \in DOMAIN step.from :
        LET i == step.from[to]
        IN /\ InputType(step.sub.operands[to]) = InputType(builder.operands[i])
           /\ step.sub.given[to] = builder.given[i]

InputsAreWritten ==
  LET written(k) == UNION {Range(SubModelOutputs(steps[j])) : j \in 1 .. k - 1}
  IN /\ \A k \in DOMAIN steps :
          /\ Range(SubModelInputs(steps[k])) \subseteq Range(builder.inputIndexes) \cup written(k)
          /\ Range(SubModelOutputs(steps[k])) \cap written(k) = {}
     /\ Range(builder.outputIndexes) \subseteq written(Len(steps) + 1)

TemporariesAreApart ==
  LET layout == TemporariesLayout(steps, builder)
      ends(n) == layout.places[n].offset + layout.places[n].length
  IN \A n, o \in DOMAIN layout.places :
       /\ ends(n) <= layout.size
       /\ n < o => /\ ends(n) <= layout.places[o].offset
                   /\ layout.places[n].operand # layout.places[o].operand

(* Each argument of a sub-model is where the operand of the model is that it   *)
(* stands for.                                                              *)
ArgumentsAreTheirs ==
  LET layout == TemporariesLayout(steps, builder)
      operandAt(place) ==
        CASE place.at = "input" -> builder.inputIndexes[place.index]
          [] place.at = "output" -> builder.outputIndexes[place.index]
          [] place.at = "temporary" -> layout.places[place.index].operand
      match(step, indexes, places) ==
        /\ Len(indexes) = Len(places)
        /\ \A n \in DOMAIN indexes : step.from[indexes[n]] = operandAt(places[n])
  IN \A k \in DOMAIN steps :
       /\ match(steps[k], steps[k].sub.inputIndexes, StepInputs(steps[k], layout, builder))
       /\ match(steps[k], steps[k].sub.outputIndexes, StepOutputs(steps[k], layout, builder))

(* The steps of a compound plan, one after the other, are the model: each sub- *)
(* model has the operations, types and constants of the model, what it takes   *)
(* from outside is an input of the model or an output of an earlier step, no   *)
(* operand is written twice, all outputs of the model are written, each        *)
(* argument is where its operand is, and the temporaries do not overlap.       *)
StepsAreTheModel ==
  Compound => /\ \A k \in DOMAIN steps : SameOperations(steps[k])
              /\ InputsAreWritten
              /\ TemporariesAreApart
              /\ ArgumentsAreTheirs

(* A driver of an older version is only shown models that are valid in that    *)
(* version, and is only assigned what it can be shown.                        *)
OlderDriversUnderstand ==
  /\ shown # NotShown => ValidateModel(shown.model, shown.hal)
  /\ compilation.phase = "preparing" /\ NextStep \in DOMAIN steps
     /\ steps[NextStep].device.hal < 2 => Understands(steps[NextStep])

(* What is prepared for a step, from the cache or not, was made of the very     *)
(* sub-model, by this version of the driver, for this preference.              *)
CachedIsSame ==
  compilation.phase # "none" =>
    \A k \in DOMAIN prepared : prepared[k] = Content(steps[k])

(* Where the application leaves the choice of devices to the runtime, a model   *)
(* without OEM or extension operations is compiled whatever the drivers do, and *)
(* it is prepared for every step, unless the process ends first.  A driver can  *)
(* end it only by an answer on a slice, so only one of an older version.        *)
DriversCannotFailIt ==
  /\ compilation.phase = "done" =>
       /\ \/ compilation.result = "NO_ERROR"
          \/ compilation.partitioning = kPartitioningWithoutFallback
          \/ hasOEMOperation \/ hasExtensionOperation
       /\ compilation.result = "NO_ERROR" => Len(prepared) = Len(steps)
  /\ compilation.phase = "aborted" =>
       devices[Len(canDo) + 1].hal < 2 /\ ~ CompliantWith(Whole, devices[Len(canDo) + 1].hal)
=============================================================================
