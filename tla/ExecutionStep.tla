--------------------------- MODULE ExecutionStep ---------------------------
(***************************************************************************)
(* ExecutionStep (runtime/ExecutionPlan.cpp): the part of a model that one     *)
(* device is given.  The step copies to a sub-model, a ModelBuilder of its     *)
(* own, the operations it is given and the operands they use; what it needs   *)
(* from other steps becomes an input of the sub-model, what they need from it *)
(* an output.                                                               *)
(*                                                                         *)
(* from is mOperandMap: the operand of the model that each operand of the      *)
(* sub-model stands for.  The other lists hold operands of the model.         *)
(***************************************************************************)
EXTENDS ModelBuilder

NewStep(device) ==
  [device |-> device, sub |-> Empty, from |-> <<>>, operations |-> <<>>, ok |-> TRUE,
   modelInputs |-> <<>>, modelOutputs |-> <<>>, tempsAsSubModelInputs |-> <<>>,
   outputsAsSubModelInputs |-> <<>>, tempsDefined |-> <<>>, tempsAsSubModelOutputs |-> <<>>]

SubOperand(step, i) == SelectInSeq(step.from, LAMBDA j : j = i)

TypeOfOperand(operand) ==
  [type |-> operand.type, dims |-> operand.dims, scale |-> operand.scale,
   zeroPoint |-> operand.zeroPoint]

(* A call on the sub-model that is refused leaves it as it was.                *)
copyOperandExtraParams(sub, to, operand) ==
  CASE to \in DOMAIN sub.operands /\ operand.extra.kind = "channelQuant" ->
         SetOperandSymmPerChannelQuantParams(sub, to,
           [channelDim |-> operand.extra.channelDim, scales |-> operand.extra.scales])
    [] to \in DOMAIN sub.operands /\ operand.extra.kind = "extension" ->
         SetOperandExtensionData(sub, to, operand.extra.data)
    [] OTHER -> sub

copyValue(sub, to, b, operand) ==
  LET location == operand.location
  IN CASE operand.lifetime = "CONSTANT_COPY" /\ to \in DOMAIN sub.operands ->
            SetOperandValue(sub, to, SubSeq(b.small, location.offset + 1,
                                            location.offset + location.length))
       [] operand.lifetime = "CONSTANT_REFERENCE" /\ to \in DOMAIN sub.operands ->
            SetOperandValueFromMemory(sub, to, b.pools[location.pool + 1], location.offset,
                                      location.length)
       [] operand.lifetime = "NO_VALUE" /\ to \in DOMAIN sub.operands -> OmitOperandValue(sub, to)
       [] OTHER -> sub

CopyOperand(sub, to, b, operand) ==
  copyValue(copyOperandExtraParams(AddOperand(sub, TypeOfOperand(operand)), to, operand),
            to, b, operand)

HasValue(operand) == isConstant(operand) \/ operand.lifetime = "NO_VALUE"
IsCopied(sub, to, operand) ==
  /\ to \in DOMAIN sub.operands
  /\ sub.operands[to].extra = operand.extra
  /\ HasValue(sub.operands[to]) <=> HasValue(operand)

Take(step, sub, i, operand, kind) ==
  LET note(list, lifetime, kinds) ==
        IF operand.lifetime = lifetime /\ kind \in kinds THEN Append(list, i) ELSE list
  IN [step EXCEPT
        !.sub = sub, !.from = Append(@, i),
        !.ok = IsCopied(sub, Len(step.from) + 1, operand),
        !.modelInputs = note(@, "MODEL_INPUT", {"INPUT"}),
        !.modelOutputs = note(@, "MODEL_OUTPUT", {"OUTPUT"}),
        !.outputsAsSubModelInputs = note(@, "MODEL_OUTPUT", {"INPUT"}),
        !.tempsAsSubModelInputs = note(@, "TEMPORARY_VARIABLE", {"INPUT"}),
        !.tempsDefined = note(@, "TEMPORARY_VARIABLE", {"OUTPUT"})]

(* ExecutionStep::addOperand.                                                *)
addOperandOf(step, b, i, kind) ==
  IF i \in Range(step.from) \/ ~ step.ok THEN step
  ELSE Take(step, CopyOperand(step.sub, Len(step.from) + 1, b, b.operands[i]),
            i, b.operands[i], kind)

addOperands(step, b, list, kind) ==
  FoldLeft(LAMBDA s, i : addOperandOf(s, b, i, kind), step, list)

Put(step, operation, o) ==
  LET subOperands(list) == [n \in DOMAIN list |-> SubOperand(step, list[n])]
      sub == AddOperation(step.sub, [type |-> operation.type, ins |-> subOperands(operation.ins),
                                     outs |-> subOperands(operation.outs)])
  IN IF ~ step.ok THEN step
     ELSE [step EXCEPT !.sub = sub, !.ok = Len(sub.operations) > Len(step.operations),
                       !.operations = Append(@, o)]

(* ExecutionStep::addOperation; ok is FALSE in what it returns when it failed.  *)
AddOperationToStep(step, b, o) ==
  LET operation == b.operations[o]
  IN Put(addOperands(addOperands(step, b, operation.ins, "INPUT"), b, operation.outs, "OUTPUT"),
         operation, o)

(* A mutant: no step hands a temporary on.                                  *)
NoTempsAsSubModelOutputs(steps) ==
  [k \in DOMAIN steps |-> [steps[k] EXCEPT !.tempsAsSubModelOutputs = <<>>]]

(* Each temporary that a step needs is an output of the step that defines it;  *)
(* mTempsAsSubModelOutputs is a set, in the order of the operands.            *)
findTempsAsSubModelOutputs(steps) ==
  LET needed == UNION {Range(steps[k].tempsAsSubModelInputs) : k \in DOMAIN steps}
  IN [k \in DOMAIN steps |->
        [steps[k] EXCEPT !.tempsAsSubModelOutputs =
           SetToSortSeq(needed \cap Range(steps[k].tempsDefined), <)]]

SubModelInputs(step) ==
  step.modelInputs \o step.tempsAsSubModelInputs \o step.outputsAsSubModelInputs
SubModelOutputs(step) == step.modelOutputs \o step.tempsAsSubModelOutputs

(* The lists by which the executor of the step finds the arguments.           *)
indexesInModel(list, indexes) ==
  [n \in DOMAIN list |-> SelectInSeq(indexes, LAMBDA i : i = list[n])]
InputIndexSubModelToFromModel(step, b) == indexesInModel(step.modelInputs, b.inputIndexes)
OutputIndexSubModelToFromModel(step, b) == indexesInModel(step.modelOutputs, b.outputIndexes)
OutputsAsSubModelInputsIndexToFromModel(step, b) ==
  indexesInModel(step.outputsAsSubModelInputs, b.outputIndexes)

HasOutputOfUnknownSize(step) ==
  \E n \in DOMAIN step.tempsAsSubModelOutputs :
     hasUnspecifiedDimensions(
       step.sub.operands[SubOperand(step, step.tempsAsSubModelOutputs[n])].dims)

FinishSubModel(step, b) ==
  LET subOperands(list) == [n \in DOMAIN list |-> SubOperand(step, list[n])]
      identified == IdentifyInputsAndOutputs(RelaxComputation(step.sub, b.relaxed),
                      subOperands(SubModelInputs(step)), subOperands(SubModelOutputs(step)))
  IN [step EXCEPT !.sub = Finish(identified, TRUE)]

(* makeController: where each temporary that crosses steps is in the memory    *)
(* for them.  The whole size is a 32-bit number.                             *)
TemporariesLayout(steps, b) ==
  LET temps == FlattenSeq([k \in DOMAIN steps |-> steps[k].tempsAsSubModelOutputs])
      place(s, i) ==
        LET size == SizeOf(b.operands[i])
            offset == s.size + AlignBytesNeeded(s.size, size)
        IN [size |-> (offset + size) % Word,
            places |-> Append(s.places, [operand |-> i, offset |-> offset, length |-> size])]
  IN FoldLeft(place, [size |-> 0, places |-> <<>>], temps)

(* next: what the executor of a step is told its arguments are, an input or an *)
(* output of the execution, or a place in the memory for temporaries.          *)
MappedTo(kind, indexes) == [n \in DOMAIN indexes |-> [at |-> kind, index |-> indexes[n]]]
InTemporaries(list, layout) ==
  [n \in DOMAIN list |->
     [at |-> "temporary",
      index |-> SelectInSeq(layout.places, LAMBDA p : p.operand = list[n])]]

StepInputs(step, layout, b) ==
  MappedTo("input", InputIndexSubModelToFromModel(step, b))
    \o InTemporaries(step.tempsAsSubModelInputs, layout)
    \o MappedTo("output", OutputsAsSubModelInputsIndexToFromModel(step, b))
StepOutputs(step, layout, b) ==
  MappedTo("output", OutputIndexSubModelToFromModel(step, b))
    \o InTemporaries(step.tempsAsSubModelOutputs, layout)
=============================================================================
