---------------------------- MODULE ModelBuilder ----------------------------
(***************************************************************************)
(* ModelBuilder (runtime/ModelBuilder.cpp): the calls of an application that   *)
(* build a model, in any order, and finish, which copies the large constants  *)
(* to shared memory, validates the model and sorts its operations into an     *)
(* order in which they can run.                                             *)
(*                                                                         *)
(* Every call is an operator from a builder to a builder, so that a module    *)
(* may also build a model by a script of calls; the actions apply them.  A    *)
(* call that is refused changes nothing, except identifyInputsAndOutputs,     *)
(* which stops where it meets the operand it refuses.                        *)
(*                                                                         *)
(* given is history: what the application said the value of an operand is, in  *)
(* a list that is empty if it said nothing.                                  *)
(***************************************************************************)
EXTENDS HalModel

CONSTANTS
  Declarations,     \* the types the application may give its n-th operand
  Candidates,       \* the operations it may add, each at most once
  Constants,        \* the operands it may give a value
  Identifications,  \* the lists of inputs and outputs it may name
  Regions,          \* what it may say of its memory: [offset, length]
  Channels,         \* the scales it may give: [channelDim, scales]
  ImmediateBytes,   \* values up to this size are copied at once
  MemoryBytes,      \* the size of the application's memory
  SmallBytes,       \* bound: no value is set once so many bytes are copied
  LargeValues       \* bound: or so many values are to be copied by finish

(* Dimensions, and the indexes of operands, are arrays of uint32_t.            *)
ASSUME DeclarationsAssumption ==
  /\ Declarations \in Seq(Range(Declarations))
  /\ \A t \in UNION Range(Declarations) :
       t.type \in Range(AllTypes) \cup ExtensionTypes /\ t.dims \in Seq(Nat)
ASSUME MemoryAssumption == MemoryBytes \in Nat /\ Regions \subseteq [offset : Nat, length : Nat]
ASSUME CandidatesAssumption == \A o \in Candidates : o.ins \in Seq(Nat) /\ o.outs \in Seq(Nat)
ASSUME IdentificationsAssumption == Identifications \subseteq [ins : Seq(Nat), outs : Seq(Nat)]

VARIABLE builder

(* A byte is << whose value it is part of, its number >>.                     *)
Padding == << -1, 0 >>
Bytes(value, n) == [k \in 1 .. n |-> << value, k >>]
AppMemory == [name |-> "ashmem", bytes |-> Bytes(0, MemoryBytes)]

Empty == [operands |-> <<>>, operations |-> <<>>, inputIndexes |-> <<>>, outputIndexes |-> <<>>,
          small |-> <<>>, large |-> <<>>, pools |-> <<>>, sorted |-> <<>>, relaxed |-> FALSE,
          completed |-> FALSE, invalid |-> FALSE, given |-> <<>>]

BadState(b) == b.completed \/ b.invalid

(* An extension type here is a tensor of one-byte elements.                   *)
SizeOf(op) == IF isExtension(op.type)
              THEN IF op.dims = <<>> THEN 0 ELSE SizeTimes(1, op.dims)
              ELSE SizeOfData(op.type, op.dims)
Unspecified(op) == ~ isScalar(op.type) /\ hasUnspecifiedDimensions(op.dims)

AddOperand(b, t) ==
  IF BadState(b) \/ ~ ValidateOperandType(t, IF isExtension(t.type) THEN "tensor" ELSE "none", TRUE)
  THEN b
  ELSE [b EXCEPT !.operands = Append(@, [type |-> t.type, dims |-> t.dims, scale |-> t.scale,
                                         zeroPoint |-> t.zeroPoint, consumers |-> 0,
                                         lifetime |-> "TEMPORARY_VARIABLE",
                                         location |-> NoLocation, extra |-> [kind |-> "none"]]),
                 !.given = Append(@, <<>>)]

(* The pool and the offset of a large value are set when the model is finished. *)
Unset == -1

OmitOperandValue(b, i) ==
  IF BadState(b) THEN b
  ELSE [b EXCEPT !.operands[i].lifetime = "NO_VALUE", !.operands[i].location = NoLocation,
                 !.given[i] = <<>>]

SetOperandValue(b, i, buffer) ==
  LET op == b.operands[i]
      padding == AlignBytesNeeded(Len(b.small), Len(buffer))
  IN CASE \/ BadState(b) \/ Unspecified(op)
          \/ op.type # "OEM" /\ Len(buffer) # SizeOf(op) -> b
       [] ~ BadState(b) /\ ~ Unspecified(op) /\ Len(buffer) <= ImmediateBytes ->
            [b EXCEPT !.operands[i].lifetime = "CONSTANT_COPY",
                      !.operands[i].location = [pool |-> 0, offset |-> Len(b.small) + padding,
                                                length |-> Len(buffer)],
                      !.small = @ \o Repeat(Padding, padding) \o buffer,
                      !.given[i] = << buffer >>]
       [] OTHER ->
            [b EXCEPT !.operands[i].lifetime = "CONSTANT_REFERENCE",
                      !.operands[i].location = [pool |-> Unset, offset |-> Unset,
                                                length |-> Len(buffer)],
                      !.large = Append(@, [index |-> i, buffer |-> buffer]),
                      !.given[i] = << buffer >>]

(* MemoryTracker::add: the pools are told apart by the memory they are.        *)
AddMemory(pools, memory) == IF memory \in Range(pools) THEN pools ELSE Append(pools, memory)

SetOperandValueFromMemory(b, i, memory, offset, length) ==
  IF \/ BadState(b) \/ Unspecified(b.operands[i])
     \/ length # SizeOf(b.operands[i]) \/ offset + length > Len(memory.bytes)
  THEN b
  ELSE LET pools == AddMemory(b.pools, memory)
       IN [b EXCEPT !.operands[i].lifetime = "CONSTANT_REFERENCE",
                    !.operands[i].location =
                       [pool |-> SelectInSeq(pools, LAMBDA p : p = memory) - 1,
                        offset |-> offset, length |-> length],
                    !.pools = pools,
                    !.given[i] = << SubSeq(memory.bytes, offset + 1, offset + length) >>]

SetOperandSymmPerChannelQuantParams(b, i, quant) ==
  IF BadState(b) \/ ~ SymmPerChannelQuantParams(b.operands[i], quant) THEN b
  ELSE [b EXCEPT !.operands[i].extra = [kind |-> "channelQuant"] @@ quant]

SetOperandExtensionData(b, i, data) ==
  IF BadState(b) \/ ~ isExtension(b.operands[i].type) THEN b
  ELSE [b EXCEPT !.operands[i].extra = IF data = <<>> THEN [kind |-> "none"]
                                       ELSE [kind |-> "extension", data |-> data]]

Occurrences(list, i) == Cardinality({n \in DOMAIN list : list[n] = i})

AddOperation(b, operation) ==
  IF BadState(b) \/ ~ ValidateOperation(operation, b.operands, 2) THEN b
  ELSE LET counted(i) ==
             [b.operands[i] EXCEPT !.consumers = @ + Occurrences(operation.ins, i)]
       IN [b EXCEPT !.operations = Append(@, operation),
                    !.operands = [i \in DOMAIN @ |-> counted(i)]]

(* A list is resized before it is filled: what it held stays where the new    *)
(* indexes do not reach, and the rest names the first operand.               *)
SetArguments(operands, old, list, lifetime) ==
  LET refused == {n \in DOMAIN list : \/ operands[list[n]].lifetime # "TEMPORARY_VARIABLE"
                                      \/ list[n] \in Range(SubSeq(list, 1, n - 1))}
      done == IF refused = {} THEN Len(list) ELSE Min(refused) - 1
  IN [operands |-> [i \in DOMAIN operands |->
                      IF i \in Range(SubSeq(list, 1, done))
                      THEN [operands[i] EXCEPT !.lifetime = lifetime] ELSE operands[i]],
      list |-> [n \in DOMAIN list |-> CASE n <= done + 1 -> list[n]
                                        [] n > done + 1 /\ n <= Len(old) -> old[n]
                                        [] OTHER -> 1],
      ok |-> refused = {}]

IdentifyInputsAndOutputs(b, ins, outs) ==
  LET i == SetArguments(b.operands, b.inputIndexes, ins, "MODEL_INPUT")
      o == SetArguments(i.operands, b.outputIndexes, outs, "MODEL_OUTPUT")
  IN CASE \/ BadState(b) \/ ~ ValidateOperandList(ins, Len(b.operands))
          \/ ~ ValidateOperandList(outs, Len(b.operands)) -> b
       [] ~ BadState(b) /\ ValidateOperandList(ins \o outs, Len(b.operands)) /\ ~ i.ok ->
            [b EXCEPT !.operands = i.operands, !.inputIndexes = i.list]
       [] OTHER ->
            [b EXCEPT !.operands = o.operands, !.inputIndexes = i.list, !.outputIndexes = o.list]

RelaxComputation(b, allow) == IF BadState(b) THEN b ELSE [b EXCEPT !.relaxed = allow]

-----------------------------------------------------------------------------
(* finish                                                                   *)

(* The offsets are set for every value before the memory is created; creating *)
(* it may fail, and finish may then be called again.                         *)
PlaceBehind(s, value) ==
  LET padding == AlignBytesNeeded(Len(s.bytes), Len(value))
  IN [offsets |-> Append(s.offsets, Len(s.bytes) + padding),
      bytes |-> s.bytes \o Repeat(Padding, padding) \o value]

(* What is copied of a large value: as many bytes as the operand now has, which is  *)
(* what the last of its values has.  What lies behind a buffer is not known.        *)
LargeBytes(b, n) ==
  LET buffer == b.large[n].buffer
  IN [k \in 1 .. b.operands[b.large[n].index].location.length |->
        IF k <= Len(buffer) THEN buffer[k] ELSE Padding]

SharedMemory(b) ==
  LET place[n \in 0 .. Len(b.large)] ==
        IF n = 0 THEN [offsets |-> <<>>, bytes |-> <<>>]
        ELSE PlaceBehind(place[n - 1], LargeBytes(b, n))
  IN place[Len(b.large)]

PlaceLargeValues(b) ==
  LET memory == SharedMemory(b)
      last(i) == SelectLastInSeq(b.large, LAMBDA l : l.index = i)
  IN [operands |-> [i \in DOMAIN b.operands |->
                      IF last(i) = 0 THEN b.operands[i]
                      ELSE [b.operands[i] EXCEPT !.location.offset = memory.offsets[last(i)]]],
      bytes |-> memory.bytes]

(* A mutant: the memory is added, but its number is not what the values get.   *)
CopyToFirstPool(b, created) ==
  LET placed == PlaceLargeValues(b)
  IN IF b.large = <<>> \/ ~ created THEN [b EXCEPT !.operands = placed.operands]
     ELSE [b EXCEPT !.operands = [i \in DOMAIN placed.operands |->
                       IF \E n \in DOMAIN b.large : b.large[n].index = i
                       THEN [placed.operands[i] EXCEPT !.location.pool = 0]
                       ELSE placed.operands[i]],
                    !.pools = Append(@, [name |-> "ashmem", bytes |-> placed.bytes])]

CopyLargeValues(b, created) ==
  LET placed == PlaceLargeValues(b)
  IN CASE b.large = <<>> -> b
       [] b.large # <<>> /\ ~ created -> [b EXCEPT !.operands = placed.operands]
       [] OTHER ->
            [b EXCEPT !.operands = [i \in DOMAIN placed.operands |->
                         IF \E n \in DOMAIN b.large : b.large[n].index = i
                         THEN [placed.operands[i] EXCEPT !.location.pool = Len(b.pools)]
                         ELSE placed.operands[i]],
                      !.pools = Append(@, [name |-> "ashmem", bytes |-> placed.bytes])]

HidlModel(b) == [operands |-> b.operands, operations |-> b.operations,
                 inputIndexes |-> b.inputIndexes, outputIndexes |-> b.outputIndexes,
                 values |-> b.small, pools |-> b.pools]

(* A set of operations as a list, in the order they were added.                *)
Ascending(S, count) ==
  LET list[n \in 0 .. count] ==
        IF n = 0 THEN <<>> ELSE IF n \in S THEN Append(list[n - 1], n) ELSE list[n - 1]
  IN list[count]

(* One more operand is known: each of its uses takes one from the count of     *)
(* its operation, which is ready when nothing is left to count.  The multimap *)
(* operandToOperations keeps the uses of an operand in the order of the        *)
(* operations; what is written is computed, so every use was counted.          *)
Known(b, s, operand) ==
  LET uses(o) == Occurrences(b.operations[o].ins, operand)
      nowReady == {o \in DOMAIN b.operations : uses(o) # 0 /\ s.unknown[o] = uses(o)}
  IN [ready |-> s.ready \o Ascending(nowReady, Len(b.operations)),
      unknown |-> [o \in DOMAIN b.operations |-> s.unknown[o] - uses(o)],
      order |-> s.order]

(* The operations that are ready are a stack.                                 *)
RunNext(b, s) ==
  LET o == Last(s.ready)
      outs == b.operations[o].outs
      known[n \in 0 .. Len(outs)] ==
        IF n = 0 THEN [ready |-> Front(s.ready), unknown |-> s.unknown, order |-> Append(s.order, o)]
        ELSE Known(b, known[n - 1], outs[n])
  IN IF s.ready = <<>> THEN s ELSE known[Len(outs)]

(* The mutant runs them as they were added.                                   *)
AsAdded(b) == [o \in DOMAIN b.operations |-> o]

(* Every operation is taken from the stack at most once.                       *)
SortIntoRunOrder(b) ==
  LET computedIns(o) == {n \in DOMAIN b.operations[o].ins : Computed(b.operands[b.operations[o].ins[n]])}
      unknown == [o \in DOMAIN b.operations |-> Cardinality(computedIns(o))]
      free == {o \in DOMAIN b.operations : unknown[o] = 0}
      run[k \in 0 .. Len(b.operations)] ==
        IF k = 0 THEN [ready |-> Ascending(free, Len(b.operations)), unknown |-> unknown, order |-> <<>>]
        ELSE RunNext(b, run[k - 1])
  IN run[Len(b.operations)].order

Reordered(b, order) ==
  [b EXCEPT !.operations = [k \in DOMAIN order |-> @[order[k]]], !.sorted = order,
            !.completed = TRUE]

FinishCopied(b) ==
  IF ValidateModel(HidlModel(b), 2) THEN Reordered(b, SortIntoRunOrder(b))
  ELSE [b EXCEPT !.invalid = TRUE]

Finish(b, created) ==
  CASE BadState(b) -> b
    [] ~ BadState(b) /\ ~ created /\ b.large # <<>> -> CopyLargeValues(b, created)
    [] OTHER -> FinishCopied(CopyLargeValues(b, created))

-----------------------------------------------------------------------------
(* The application.  A constant that was given a large buffer is not given a   *)
(* value of another kind: finish would still copy the buffer.  The inputs and  *)
(* outputs are named once: a second call that is refused half way leaves lists *)
(* that lack an operand and that finish accepts.                             *)

addOperand ==
  /\ Len(builder.operands) < Len(Declarations)
  /\ \E t \in Declarations[Len(builder.operands) + 1] : builder' = AddOperand(builder, t)

IsLarge(i) == \E n \in DOMAIN builder.large : builder.large[n].index = i

(* A value other than the one the operand has.                                *)
NextValue(i) ==
  LET value(v) == Bytes(v, SizeOf(builder.operands[i]))
  IN IF builder.given[i] = << value(i) >> THEN value(-i) ELSE value(i)

setOperandValue ==
  \E i \in Constants \cap DOMAIN builder.operands :
     \/ /\ Len(builder.small) < SmallBytes /\ Len(builder.large) < LargeValues
        /\ builder' = SetOperandValue(builder, i, NextValue(i))
     \/ ~ IsLarge(i) /\ builder' = OmitOperandValue(builder, i)

setOperandValueFromMemory ==
  \E i \in Constants \cap DOMAIN builder.operands, r \in Regions :
     /\ ~ IsLarge(i)
     /\ builder' = SetOperandValueFromMemory(builder, i, AppMemory, r.offset, r.length)

setOperandSymmPerChannelQuantParams ==
  \E i \in Constants \cap DOMAIN builder.operands, quant \in Channels :
     builder' = SetOperandSymmPerChannelQuantParams(builder, i, quant)

setOperandExtensionData ==
  \E i \in Constants \cap DOMAIN builder.operands, data \in {<<>>, << 0 >>} :
     builder' = SetOperandExtensionData(builder, i, data)

addOperation ==
  \E o \in Candidates \ Range(builder.operations) : builder' = AddOperation(builder, o)

Identified == builder.inputIndexes # <<>> \/ builder.outputIndexes # <<>>

identifyInputsAndOutputs ==
  /\ ~ Identified
  /\ \E l \in Identifications : builder' = IdentifyInputsAndOutputs(builder, l.ins, l.outs)

(* Bound: once, as the last call before finish.                              *)
relaxComputationFloat32toFloat16 ==
  /\ Identified /\ ~ builder.relaxed /\ Candidates \subseteq Range(builder.operations)
  /\ builder' = RelaxComputation(builder, TRUE)

finish == \E created \in BOOLEAN : builder' = Finish(builder, created)

BuilderNext ==
  \/ addOperand \/ setOperandValue \/ setOperandValueFromMemory
  \/ setOperandSymmPerChannelQuantParams \/ setOperandExtensionData \/ addOperation
  \/ identifyInputsAndOutputs \/ relaxComputationFloat32toFloat16 \/ finish
=============================================================================
