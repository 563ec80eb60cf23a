------------------------------- MODULE Slicer -------------------------------
(***************************************************************************)
(* PlanModelSlicer (runtime/ExecutionPlan.cpp) and the question it is for     *)
(* (VersionedIDevice::getSupportedOperations): a driver of an older version    *)
(* cannot be shown a model with operations it does not know.  It is shown a    *)
(* slice, a model of the other operations, in which all inputs of one type    *)
(* are one; its answer is read back in the numbers of the whole model.        *)
(***************************************************************************)
EXTENDS HalModel

(* convertToV1_0, convertToV1_1: the operands of V1_0 have no extraParams.     *)
ConvertTo(model, version) ==
  IF version >= 2 THEN model
  ELSE [model EXCEPT !.operands = [i \in DOMAIN @ |-> Downgrade(@[i])]]

(* What tells two inputs of the slice apart.                                  *)
InputType(operand) ==
  << operand.type, operand.dims, operand.scale, operand.zeroPoint, operand.extra >>

Extended(s, operand, i) ==
  [s EXCEPT !.operands = Append(@, operand), !.at = @ @@ (i :> Len(s.operands) + 1)]

(* OrigOperandToSlicedInputOperandIndex::getIndex.                           *)
AsInput(s, operand, i) ==
  LET same == {e \in DOMAIN s.inputs : s.inputs[e].key = InputType(operand)}
      input == [Downgrade(operand) EXCEPT !.consumers = 0, !.lifetime = "MODEL_INPUT",
                                          !.location = NoLocation]
  IN IF same # {}
     THEN [s EXCEPT !.at = @ @@ (i :> s.inputs[CHOOSE e \in same : TRUE].index)]
     ELSE [Extended(s, input, i) EXCEPT
             !.inputs = Append(@, [key |-> InputType(operand), index |-> Len(s.operands) + 1])]

(* at maps the operands of the model to the slice's, orig the operations back. *)
SliceOf(model, noncompliant) ==
  LET operands == model.operands
      all == [o \in DOMAIN model.operations |-> o]
      compliant == SelectSeq(all, LAMBDA o : o \notin noncompliant)
      usedInOrder == FlattenSeq([n \in DOMAIN compliant |-> model.operations[compliant[n]].ins])
      used == Range(usedInOrder)
      valued(s, i) ==
        IF i \notin DOMAIN s.at /\ (isConstant(operands[i]) \/ operands[i].lifetime = "NO_VALUE")
        THEN Extended(s, [Downgrade(operands[i]) EXCEPT !.consumers = 0], i) ELSE s
      input(s, i) == IF i \in used THEN AsInput(s, operands[i], i) ELSE s
      becomesOutput(i) ==
        operands[i].lifetime = "MODEL_OUTPUT" \/ (i \notin used /\ operands[i].consumers > 0)
      output(s, i) ==
        LET copy == [Downgrade(operands[i]) EXCEPT !.consumers = 0]
        IN IF becomesOutput(i)
           THEN [Extended(s, [copy EXCEPT !.lifetime = "MODEL_OUTPUT"], i) EXCEPT
                   !.outputs = Append(@, Len(s.operands) + 1)]
           ELSE Extended(s, copy, i)
      left(s, o) ==
        FoldLeft(LAMBDA t, i : IF i \in used THEN AsInput(t, operands[i], i) ELSE t,
                 s, model.operations[o].outs)
      kept(s, o) ==
        LET ins == [n \in DOMAIN model.operations[o].ins |-> s.at[model.operations[o].ins[n]]]
            consumed == [s EXCEPT !.operands = [i \in DOMAIN @ |->
                           [@[i] EXCEPT !.consumers = @ + Len(SelectSeq(ins, LAMBDA j : j = i))]]]
            done == FoldLeft(output, consumed, model.operations[o].outs)
        IN [done EXCEPT !.orig = Append(@, o),
                        !.operations = Append(@,
              [type |-> model.operations[o].type, ins |-> ins,
               outs |-> [n \in DOMAIN model.operations[o].outs |->
                           done.at[model.operations[o].outs[n]]]])]
      empty == [operands |-> <<>>, operations |-> <<>>, inputs |-> <<>>, outputs |-> <<>>,
                at |-> <<>>, orig |-> <<>>]
      constants == FoldLeft(valued, empty, usedInOrder)
      withInputs == FoldLeft(input, constants, model.inputIndexes)
      slice == FoldLeft(LAMBDA s, o : IF o \in noncompliant THEN left(s, o) ELSE kept(s, o),
                        withInputs, all)
  IN [model |-> [operands |-> slice.operands, operations |-> slice.operations,
                 inputIndexes |-> [n \in DOMAIN slice.inputs |-> slice.inputs[n].index],
                 outputIndexes |-> slice.outputs,
                 values |-> model.values, pools |-> model.pools],
      orig |-> slice.orig]

(* PlanModelSlicer::invalid.  A slice that validateModel refuses is not sent.  *)
InvalidSlice(model, version) ==
  model.operations = <<>> \/ model.outputIndexes = <<>> \/ ~ ValidateModel(model, version)

Nothing == [model |-> <<>>, orig |-> <<>>]
ValidSlice(slice, version) == IF InvalidSlice(slice.model, version) THEN Nothing ELSE slice

(* A mutant: the answer on a slice is taken for one on the model.             *)
SliceWithoutMap(model, noncompliant, version) ==
  IF noncompliant = {} THEN [model |-> ConvertTo(model, version),
                             orig |-> [o \in DOMAIN model.operations |-> o]]
  ELSE LET slice == SliceOf(model, noncompliant)
       IN ValidSlice([slice EXCEPT !.orig = [n \in DOMAIN @ |-> n]], version)

(* What a driver is shown of a model: the model, or a slice of it, or nothing, *)
(* and the model's numbers of the operations it is shown.                     *)
Show(model, noncompliant, version) ==
  IF noncompliant = {} THEN [model |-> ConvertTo(model, version),
                             orig |-> [o \in DOMAIN model.operations |-> o]]
  ELSE ValidSlice(SliceOf(model, noncompliant), version)

Shown(model, version) == Show(model, NoncompliantOperations(model, version), version)

(* What an answer on what was shown is on the model.                          *)
Remapped(asked, answer) == {asked.orig[n] : n \in answer}
=============================================================================
