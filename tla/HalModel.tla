------------------------------ MODULE HalModel ------------------------------
(***************************************************************************)
(* A model as it crosses the HAL: what validateModel demands of it            *)
(* (common/ValidateHal.cpp), and which of its operations a driver of an older *)
(* version can be asked about (compliantWith, common/Utils.cpp).             *)
(*                                                                         *)
(* A model is a record: operands, operations, inputIndexes, outputIndexes,    *)
(* values (the bytes of operandValues) and pools (each [name, bytes]).       *)
(***************************************************************************)
EXTENDS Operations

PoolSizes(model) == [n \in DOMAIN model.pools |-> Len(model.pools[n].bytes)]

ValidatePool(pool, version) ==
  pool.name \in {"ashmem", "mmap_fd"}
    \cup IF version >= 2 THEN {"hardware_buffer_blob", "hardware_buffer"} ELSE {}

ValidateOperands(model, version) ==
  \A i \in DOMAIN model.operands :
     ValidateOperand(model.operands[i], version, Len(model.values), PoolSizes(model))

(* The operand that each output of each operation writes: a write is           *)
(* << operation, which of its outputs >>.                                    *)
Written(model) ==
  [w \in UNION {{o} \X DOMAIN model.operations[o].outs : o \in DOMAIN model.operations} |->
     model.operations[w[1]].outs[w[2]]]

Computed(operand) == operand.lifetime \in {"TEMPORARY_VARIABLE", "MODEL_OUTPUT"}

ValidateOperations(model, version) ==
  LET operands == model.operands
      written == Written(model)
  IN /\ \A o \in DOMAIN model.operations :
           /\ ValidateOperation(model.operations[o], operands, version)
           /\ \A i \in Range(model.operations[o].outs) : Computed(operands[i])
     /\ IsInjective(written)
     /\ \A i \in DOMAIN operands : Computed(operands[i]) => i \in Range(written)

ValidateModelInputOutputs(indexes, operands, lifetime) ==
  /\ \A n \in DOMAIN indexes :
        indexes[n] \in DOMAIN operands /\ operands[indexes[n]].lifetime = lifetime
  /\ IsInjective(indexes)

ValidateModel(model, version) ==
  /\ model.operations # <<>> /\ model.operands # <<>>
  /\ ValidateOperands(model, version)
  /\ ValidateOperations(model, version)
  /\ ValidateModelInputOutputs(model.inputIndexes, model.operands, "MODEL_INPUT")
  /\ ValidateModelInputOutputs(model.outputIndexes, model.operands, "MODEL_OUTPUT")
  /\ \A n \in DOMAIN model.pools : ValidatePool(model.pools[n], version)

-----------------------------------------------------------------------------
(* V1_0 and V1_1 share their operands; the version tells the operations and   *)
(* the pools apart.                                                         *)

OperandIsCompliant(model, i, version) ==
  LET op == model.operands[i]
  IN /\ CompliantOperand(op)
     /\ op.lifetime = "CONSTANT_REFERENCE" =>
          ValidatePool(model.pools[op.location.pool + 1], version)

OperationIsCompliant(model, o, version) ==
  LET operation == model.operations[o]
  IN /\ \A n \in DOMAIN operation.ins : OperandIsCompliant(model, operation.ins[n], version)
     /\ \A n \in DOMAIN operation.outs : OperandIsCompliant(model, operation.outs[n], version)
     /\ ValidateOperation(operation, model.operands, version)

NoncompliantOperations(model, version) ==
  IF version >= 2 THEN {}
  ELSE {o \in DOMAIN model.operations : ~ OperationIsCompliant(model, o, version)}

CompliantWith(model, version) == NoncompliantOperations(model, version) = {}
=============================================================================
