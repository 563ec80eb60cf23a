---------------------------- MODULE CpuExecutor -----------------------------
(***************************************************************************)
(* CpuExecutor (common/CpuExecutor.cpp): a model run on the CPU, operation by  *)
(* operation, in the order of the model.  Its state is a RunTimeOperandInfo    *)
(* per operand: the temporaries are allocated when they are written, freed    *)
(* when the last operation that reads them has run, or at the end.            *)
(*                                                                         *)
(* A kernel's prepare computes the dimensions of its outputs from data this   *)
(* module does not have: any of OutputDims, or a failure.  The type and the    *)
(* scale it computes are compared with those of a model output; that they     *)
(* differ is counted among the failures of prepare.                          *)
(***************************************************************************)
EXTENDS HalModel

CONSTANT OutputDims             \* the dimensions a kernel may compute; of several outputs, all
                                \* but the last have the same

VARIABLES
  model,         \* the model that is run, or NoModel
  mOperands,     \* its RunTimeOperandInfos
  next,          \* the operation to execute
  status,        \* idle, running, or the result code of run
  mOutputShapes, \* what is reported of the outputs
  heap,          \* the blocks that are allocated
  leaked         \* the blocks nobody can free any more

cpuVars == << model, mOperands, next, status, mOutputShapes, heap, leaked >>

NoModel == [operands |-> <<>>, operations |-> <<>>]

(* A buffer is nowhere, the user's, part of the model, or on the heap.        *)
Null == [at |-> "null"]
Argument == [at |-> "argument"]
Heap == [at |-> "heap"]

ConstantBytes(m, location, lifetime) ==
  LET bytes == IF lifetime = "CONSTANT_COPY" THEN m.values ELSE m.pools[location.pool + 1].bytes
  IN SubSeq(bytes, location.offset + 1, location.offset + location.length)

SizeOfInfo(info) == IF isExtension(info.type) THEN 0 ELSE SizeOfData(info.type, info.dims)
isSufficient(info) == info.length >= SizeOfInfo(info)

(* An argument is [dims, length, omitted]; dims is empty where the call said   *)
(* nothing of them.                                                         *)
WithArgument(info, argument) ==
  [info EXCEPT
     !.dims = IF argument.dims # <<>> THEN argument.dims ELSE @,
     !.lifetime = IF argument.omitted THEN "NO_VALUE" ELSE @,
     !.length = IF argument.omitted THEN 0 ELSE argument.length,
     !.buffer = IF argument.omitted THEN Null ELSE Argument]

initializeRunTimeInfo(m, request) ==
  LET from(i) ==
        LET op == m.operands[i]
        IN [type |-> op.type, dims |-> op.dims, lifetime |-> op.lifetime,
            length |-> op.location.length,
            buffer |-> IF isConstant(op)
                       THEN [at |-> "model",
                             bytes |-> ConstantBytes(m, op.location, op.lifetime)]
                       ELSE Null,
            uses |-> IF op.lifetime = "TEMPORARY_VARIABLE" THEN op.consumers ELSE 0]
      lists == m.inputIndexes \o m.outputIndexes
      arguments == request.inputs \o request.outputs
      given(i) == SelectLastInSeq(lists, LAMBDA j : j = i)
  IN [i \in DOMAIN m.operands |->
        IF i \notin Range(lists) THEN from(i) ELSE WithArgument(from(i), arguments[given(i)])]

-----------------------------------------------------------------------------
(* setInfoAndAllocateIfNeeded.                                               *)

Combinable(lhs, rhs) ==
  \/ lhs = <<>> \/ rhs = <<>>
  \/ /\ Len(lhs) = Len(rhs)
     /\ \A k \in DOMAIN lhs : lhs[k] = rhs[k] \/ lhs[k] = 0 \/ rhs[k] = 0

combineDimensions(lhs, rhs) ==
  IF lhs = <<>> \/ rhs = <<>> THEN lhs \o rhs
  ELSE [k \in DOMAIN lhs |-> IF lhs[k] = 0 THEN rhs[k] ELSE lhs[k]]

Allocated(info) ==
  IF /\ info.lifetime = "TEMPORARY_VARIABLE" /\ info.buffer = Null
     /\ ~ isExtension(info.type) /\ SizeOfInfo(info) > 0
  THEN [info EXCEPT !.buffer = Heap, !.length = SizeOfInfo(info)] ELSE info

(* What becomes of an operand, and the result.                                *)
setInfoAndAllocateIfNeeded(info, dims) ==
  LET combined == [info EXCEPT !.dims = combineDimensions(dims, @)]
      allocated == Allocated(combined)
  IN CASE ~ Combinable(dims, info.dims) -> << info, "OP_FAILED" >>
       [] Combinable(dims, info.dims) /\ info.lifetime = "TEMPORARY_VARIABLE"
            /\ info.buffer = Null /\ isExtension(info.type) -> << combined, "OP_FAILED" >>
       [] OTHER -> << allocated,
                      IF isSufficient(allocated) THEN "NO_ERROR" ELSE "INSUFFICIENT_SIZE" >>

Blocks(infos) == Cardinality({i \in DOMAIN infos : infos[i].buffer = Heap})

(* The outputs of an operation, which are distinct, one after the other until  *)
(* one fails.                                                               *)
PrepareOutputs(outs, dims) ==
  LET set == [n \in DOMAIN outs |-> setInfoAndAllocateIfNeeded(mOperands[outs[n]], dims[n])]
      failed == {n \in DOMAIN outs : set[n][2] # "NO_ERROR"}
      done == IF failed = {} THEN Len(outs) ELSE Min(failed)
      reached(i) == {n \in DOMAIN outs : n <= done /\ outs[n] = i}
      infos == [i \in DOMAIN mOperands |->
                  IF reached(i) = {} THEN mOperands[i] ELSE set[CHOOSE n \in reached(i) : TRUE][1]]
  IN [infos |-> infos, heap |-> heap + Blocks(infos) - Blocks(mOperands),
      result |-> IF failed = {} THEN "NO_ERROR" ELSE set[done][2]]

-----------------------------------------------------------------------------
(* executeOperation                                                         *)

Omitted(i) == mOperands[i].lifetime = "NO_VALUE"
SomeOmitted(operation) == \E i \in Range(operation.ins) \cup Range(operation.outs) : Omitted(i)
SomeZeroSized(operation) == \E i \in Range(operation.ins) : Contains(mOperands[i].dims, 0)

RequiredOuts(type) == IF type \in {"QUANTIZED_16BIT_LSTM", "TOPK_V2"} THEN 2 ELSE 1

(* What refuses an operation before its kernel is prepared: BAD_DATA from      *)
(* allParametersPresent, OP_FAILED from the flags of a registration, from an   *)
(* operation that is not registered, and from a tensor that is not 4-D.        *)
Refusal(operation) ==
  CASE operation.type \in {OEM, EXTENSION} -> "OP_FAILED"
    [] operation.type \in KernelOps ->
         IF \/ operation.type \notin allowOmittedOperand /\ SomeOmitted(operation)
            \/ operation.type \notin allowZeroSizedInput /\ SomeZeroSized(operation)
         THEN "OP_FAILED" ELSE "none"
    [] operation.type \in TableOps \ UncheckedOps ->
         CASE \/ Len(operation.outs) # RequiredOuts(operation.type)
              \/ SomeOmitted(operation) \/ SomeZeroSized(operation) -> "BAD_DATA"
           [] /\ Len(operation.outs) = RequiredOuts(operation.type)
              /\ ~ SomeOmitted(operation) /\ ~ SomeZeroSized(operation)
              /\ operation.type \in NhwcOps /\ Len(mOperands[operation.ins[1]].dims) # 4 -> "OP_FAILED"
           [] OTHER -> "none"
    [] operation.type = "SQUEEZE" ->
         IF Omitted(operation.ins[1]) \/ Omitted(operation.outs[1]) THEN "BAD_DATA" ELSE "none"
    [] OTHER -> "none"

HasCase(operation) ==
  mOperands[operation.ins[SwitchedInput(operation.type)]].type \in Executes(operation.type)

(* A kernel that computes dims for its outputs and then evaluates, or fails.   *)
Kernel(operation, dims, evaluates) ==
  LET s == PrepareOutputs(operation.outs, dims)
  IN IF s.result = "NO_ERROR" /\ ~ evaluates THEN [s EXCEPT !.result = "OP_FAILED"] ELSE s

(* The same for NhwcOps when the data is NHWC already: output_tmp borrows or   *)
(* allocates the buffer, which becomes the output's once the kernel is done.   *)
NhwcKernel(operation, dims, evaluates) ==
  LET i == operation.outs[1]
      tmp == Allocated([mOperands[i] EXCEPT !.lifetime = "TEMPORARY_VARIABLE", !.dims = dims[1]])
      blocks == IF tmp.buffer # mOperands[i].buffer THEN 1 ELSE 0
      output == [mOperands[i] EXCEPT !.buffer = tmp.buffer, !.length = tmp.length]
      set == setInfoAndAllocateIfNeeded(output, dims[1])
      more == IF set[1].buffer # tmp.buffer THEN 1 ELSE 0
  IN CASE ~ isSufficient(tmp) ->
            [infos |-> [mOperands EXCEPT ![i].dims = dims[1]], heap |-> heap,
             result |-> "INSUFFICIENT_SIZE"]
       [] isSufficient(tmp) /\ ~ evaluates ->
            [infos |-> mOperands, heap |-> heap + blocks, result |-> "OP_FAILED"]
       [] OTHER ->
            [infos |-> [mOperands EXCEPT ![i] = set[1]], heap |-> heap + blocks + more,
             result |-> set[2]]

(* The same when it is NCHW: the kernel works on a block of its own, and the   *)
(* output is only prepared if it succeeds.                                   *)
NchwKernel(operation, dims, evaluates) ==
  IF evaluates THEN PrepareOutputs(operation.outs, dims)
  ELSE [infos |-> mOperands, heap |-> heap, result |-> "OP_FAILED"]

MayBeNchw(operation) == \E i \in Range(operation.ins) : mOperands[i].type = "BOOL"

Outcomes(operation, dims, evaluates) ==
  IF operation.type \in NhwcOps
  THEN {NhwcKernel(operation, dims, evaluates)}
         \cup (IF MayBeNchw(operation) THEN {NchwKernel(operation, dims, evaluates)} ELSE {})
  ELSE {Kernel(operation, dims, evaluates)}

ComputedDims(count) ==
  {[n \in 1 .. count |-> IF n < count THEN d ELSE e] : d, e \in OutputDims}

(* Every occurrence of an operand takes one from its uses; at none it is freed. *)
freeNoLongerUsedOperands(infos, ins) ==
  LET used(i) == Cardinality({n \in DOMAIN ins : ins[n] = i})
      use(i) == IF used(i) < infos[i].uses THEN [infos[i] EXCEPT !.uses = @ - used(i)]
                ELSE [infos[i] EXCEPT !.uses = 0, !.buffer = Null]
  IN [i \in DOMAIN infos |-> IF infos[i].uses = 0 THEN infos[i] ELSE use(i)]

(* delete[] of what is not a block of its own would show as a missing block.   *)
Deleted(before, after) ==
  Cardinality({i \in DOMAIN before : before[i].buffer # Null /\ after[i].buffer = Null})

(* The mutant leaves the buffers to nobody.                                   *)
Abandoned(infos) == infos

Released(infos) ==
  [i \in DOMAIN infos |-> IF infos[i].lifetime = "TEMPORARY_VARIABLE"
                          THEN [infos[i] EXCEPT !.buffer = Null] ELSE infos[i]]

ReportedShapes(m, infos, result) ==
  IF result \in {"NO_ERROR", "INSUFFICIENT_SIZE"}
  THEN [n \in DOMAIN m.outputIndexes |->
          [dims |-> infos[m.outputIndexes[n]].dims,
           sufficient |-> isSufficient(infos[m.outputIndexes[n]])]]
  ELSE <<>>

cpuFinish(infos, blocks, result) ==
  /\ mOperands' = Released(infos)
  /\ heap' = blocks - Deleted(infos, Released(infos))
  /\ mOutputShapes' = ReportedShapes(model, infos, result)
  /\ status' = result
  /\ UNCHANGED << model, next >>

Begin(m, request) ==
  /\ status = "idle"
  /\ model' = m
  /\ mOperands' = initializeRunTimeInfo(m, request)
  /\ next' = 1
  /\ status' = "running"
  /\ UNCHANGED << mOutputShapes, heap, leaked >>

RunningOperation(operation) ==
  status = "running" /\ next \in DOMAIN model.operations /\ operation = model.operations[next]

refuseOperation ==
  \E operation \in Range(model.operations) :
     /\ RunningOperation(operation)
     /\ Refusal(operation) # "none"
     /\ cpuFinish(mOperands, heap, Refusal(operation))
     /\ UNCHANGED leaked

failPrepare ==
  \E operation \in Range(model.operations) :
     /\ RunningOperation(operation)
     /\ Refusal(operation) = "none"
     /\ \/ cpuFinish(mOperands, heap, "OP_FAILED")
        \/ operation.type = "SPLIT" /\ cpuFinish(mOperands, heap, "BAD_DATA")
     /\ UNCHANGED leaked

executeOperation ==
  \E operation \in Range(model.operations) :
     /\ RunningOperation(operation)
     /\ Refusal(operation) = "none"
     /\ \E dims \in ComputedDims(Len(operation.outs)), evaluates \in BOOLEAN :
          /\ evaluates => HasCase(operation)
          /\ operation.type \in NhwcOps => \A n \in DOMAIN dims : Len(dims[n]) = 4
          /\ \E s \in Outcomes(operation, dims, evaluates) :
               IF s.result = "NO_ERROR"
               THEN /\ mOperands' = freeNoLongerUsedOperands(s.infos, operation.ins)
                    /\ heap' = s.heap - Deleted(s.infos, mOperands')
                    /\ next' = next + 1
                    /\ UNCHANGED << model, status, mOutputShapes, leaked >>
               ELSE /\ cpuFinish(s.infos, s.heap, s.result)
                    /\ leaked' = leaked + (IF s.infos = mOperands THEN s.heap - heap ELSE 0)

completeRun ==
  /\ status = "running" /\ next > Len(model.operations)
  /\ cpuFinish(mOperands, heap, "NO_ERROR")
  /\ UNCHANGED leaked

CpuNext == refuseOperation \/ failPrepare \/ executeOperation \/ completeRun
=============================================================================
