------------------------------- MODULE CpuPath ------------------------------
(***************************************************************************)
(* From the calls that build a model to its run on the CPU: ModelBuilder and   *)
(* CpuExecutor composed.  What the one accepts, the other must be able to run; *)
(* the order and the consumer counts the one leaves in the model decide what   *)
(* the other reads and frees.                                               *)
(*                                                                         *)
(* The application starts from nothing, or from one of Drafts: operations of   *)
(* every signature, each alone in a model of its own.                        *)
(***************************************************************************)
EXTENDS ModelBuilder, CpuExecutor

CONSTANTS
  OutputLengths,       \* the sizes of the buffers a request may bring
  Drafts               \* [type, signature, dims, outputDims]

-----------------------------------------------------------------------------
(* A model of one operation, by a script of calls: tensors are inputs of the   *)
(* model, scalars are constants.                                             *)

Quantized == {Q8, Q8S, Q16, Q16A}

DraftType(type, dims) ==
  [type |-> type, dims |-> IF isScalar(type) THEN <<>> ELSE dims,
   scale |-> IF type \in Quantized THEN 1 ELSE 0, zeroPoint |-> 0]

WithValue(b, i) ==
  CASE isScalar(b.operands[i].type) -> SetOperandValue(b, i, Bytes(i, SizeOf(b.operands[i])))
    [] b.operands[i].type = PerChannel ->
         SetOperandSymmPerChannelQuantParams(b, i,
           [channelDim |-> 0, scales |-> Repeat(1, b.operands[i].dims[1])])
    [] OTHER -> b

Draft(d) ==
  LET inCount == Len(d.signature.in)
      count == inCount + Len(d.signature.out)
      type(i) == IF i <= inCount THEN DraftType(d.signature.in[i], d.dims)
                 ELSE DraftType(d.signature.out[i - inCount], d.outputDims)
      ins == [n \in 1 .. inCount |-> n]
      outs == [n \in 1 .. count - inCount |-> inCount + n]
      declared == FoldLeft(LAMBDA b, i : WithValue(AddOperand(b, type(i)), i),
                           Empty, [i \in 1 .. count |-> i])
      added == AddOperation(declared, [type |-> d.type, ins |-> ins, outs |-> outs])
      tensors == SelectSeq(ins, LAMBDA i : ~ isScalar(d.signature.in[i]))
  IN Finish(RelaxComputation(IdentifyInputsAndOutputs(added, tensors, outs), TRUE), TRUE)

-----------------------------------------------------------------------------
(* What ExecutionBuilder sends: inputs that are fully specified; outputs that  *)
(* need not be, with a buffer of any size where the size is unknown; at most   *)
(* one argument omitted, the first or the last.  An operation that does not    *)
(* look for omitted operands is not given one.                               *)

Specified(dims) == [k \in DOMAIN dims |-> IF dims[k] = 0 THEN 2 ELSE dims[k]]

MayOmit(m, i) ==
  \A o \in DOMAIN m.operations :
     m.operations[o].type \in UncheckedOps =>
       i \notin Range(m.operations[o].ins) \cup Range(m.operations[o].outs)

Requests(m) ==
  LET input(i, omitted) ==
        LET dims == Specified(m.operands[i].dims)
        IN [dims |-> dims, length |-> SizeOf([m.operands[i] EXCEPT !.dims = dims]),
            omitted |-> i = omitted]
      output(i, omitted, length) ==
        LET size == SizeOf(m.operands[i])
        IN [dims |-> <<>>, length |-> IF size # 0 THEN size ELSE length, omitted |-> i = omitted]
      arguments == {m.inputIndexes[n] : n \in DOMAIN m.inputIndexes \cap {1}}
                     \cup {m.outputIndexes[n] : n \in DOMAIN m.outputIndexes \cap {Len(m.outputIndexes)}}
  IN {[inputs |-> [n \in DOMAIN m.inputIndexes |-> input(m.inputIndexes[n], omitted)],
       outputs |-> [n \in DOMAIN m.outputIndexes |-> output(m.outputIndexes[n], omitted, length)]]
        : length \in OutputLengths, omitted \in {0} \cup {i \in arguments : MayOmit(m, i)}}

compute ==
  /\ builder.completed
  /\ \E request \in Requests(HidlModel(builder)) : Begin(HidlModel(builder), request)
  /\ UNCHANGED builder

CpuInit ==
  /\ model = NoModel /\ mOperands = <<>> /\ next = 0 /\ status = "idle"
  /\ mOutputShapes = <<>> /\ heap = 0 /\ leaked = 0

PathNext ==
  \/ BuilderNext /\ UNCHANGED cpuVars
  \/ compute
  \/ CpuNext /\ UNCHANGED builder

pathVars == << builder, cpuVars >>
PathSpec == builder = Empty /\ CpuInit /\ [][PathNext]_pathVars

-----------------------------------------------------------------------------
(* Properties.                                                              *)

Ended == status \notin {"idle", "running"}

(* What finish makes of the operations it accepts: each still reads operands   *)
(* and writes computed ones, it follows those that write what it reads, and an *)
(* operand is counted for every time it is read.  The count is greater where   *)
(* the sort dropped operations, which are those that wait for a cycle.        *)
ReadsOf(m, i) == {u \in UNION {{o} \X DOMAIN m.operations[o].ins : o \in DOMAIN m.operations} :
                    m.operations[u[1]].ins[u[2]] = i}

RunsInOrder(m) ==
  /\ m.operations \in Seq(Range(m.operations))
  /\ \A o \in DOMAIN m.operations :
       /\ m.operations[o].ins \in Seq(DOMAIN m.operands)
       /\ m.operations[o].outs \in Seq({i \in DOMAIN m.operands : Computed(m.operands[i])})
       /\ \A i \in Range(m.operations[o].ins) : Computed(m.operands[i]) =>
            \E p \in 1 .. o - 1 : i \in Range(m.operations[p].outs)
  /\ \A i \in DOMAIN m.operands :
       m.operands[i].consumers \in Nat /\ m.operands[i].consumers >= Cardinality(ReadsOf(m, i))

InRunOrder == builder.completed => RunsInOrder(HidlModel(builder))

(* finish refuses a model only for what no earlier call could see: an empty    *)
(* model, an operand that is written twice or never, a constant or an input   *)
(* that is written, a tensor whose channels got no scales, or got them, after  *)
(* it was used, for another dimension, or lists of inputs and outputs left half *)
(* made.  What addOperand, setOperandValue and addOperation accept,            *)
(* validateModel, which is written apart from them, accepts too.  What it      *)
(* accepts it leaves in an order that can be run.                             *)
NoLateRefusal ==
  LET writes(i) == {w \in DOMAIN Written(builder) : Written(builder)[w] = i}
      operand(i) == builder.operands[i]
  IN InRunOrder /\
     (builder.invalid =>
       \/ builder.operations = <<>>
       \/ \E i \in DOMAIN builder.operands :
            IF Computed(operand(i)) THEN Cardinality(writes(i)) # 1 ELSE writes(i) # {}
       \/ \E i \in DOMAIN builder.operands :
            /\ operand(i).type = PerChannel
            /\ operand(i).extra.kind = "none" \/ operand(i).extra.channelDim # 0
       \/ ~ IsInjective(builder.inputIndexes \o builder.outputIndexes)
       \/ \E n \in DOMAIN builder.inputIndexes :
            operand(builder.inputIndexes[n]).lifetime # "MODEL_INPUT"
       \/ \E n \in DOMAIN builder.outputIndexes :
            operand(builder.outputIndexes[n]).lifetime # "MODEL_OUTPUT")

(* In a finished model every constant is, byte by byte, what the application   *)
(* gave last, whether it was copied at once, copied by finish to the shared   *)
(* memory or left in the application's memory, however often finish failed.   *)
ValuesAsGiven ==
  status = "running" =>
    \A i \in DOMAIN builder.given :
       /\ isConstant(builder.operands[i]) <=> builder.given[i] # <<>>
       /\ builder.given[i] # <<>> => mOperands[i].buffer = [at |-> "model", bytes |-> builder.given[i][1]]

(* No operation reads a temporary that is not written yet or is freed already, *)
(* in the order finish sorted the operations into.                           *)
ReadsLiveBuffers ==
  status = "running" /\ next \in DOMAIN model.operations =>
    \A i \in Range(model.operations[next].ins) :
       mOperands[i].buffer = Null => Omitted(i) \/ ~ SizeOfInfo(mOperands[i]) > 0

(* The kernel of every operation that a model may hold has code for the types *)
(* its operands were accepted with.                                          *)
AcceptedIsExecuted ==
  status = "running" /\ next \in DOMAIN model.operations /\ model.operations[next].type \in BuiltinOps
    => HasCase(model.operations[next])

(* Every block that is allocated belongs to exactly one operand, nothing but   *)
(* such blocks is deleted, and none is left at the end.  leaked counts the     *)
(* exception: output_tmp of an NhwcOps whose kernel fails.                    *)
HeapIsOwned == heap = Blocks(mOperands) + leaked /\ (Ended => heap = leaked)
=============================================================================
