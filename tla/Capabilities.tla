---------------------------- MODULE Capabilities ----------------------------
(***************************************************************************)
(* What a driver says of its performance, and the conversions between the   *)
(* three versions of it (common/Utils.cpp).  In V1_2 it is a vector of       *)
(* (operand type, performance) sorted by type, searched by std::lower_bound; *)
(* neither lookup nor update compares the type of the entry found with the   *)
(* type asked for.                                                          *)
(***************************************************************************)
EXTENDS Operands

CONSTANT Worst              \* FLT_MAX, the performance of what is not there

Entry(type, perf) == [type |-> type, info |-> perf]

(* Every type but the extensions', sorted by code.                           *)
NonExtensionOperandPerformance(perf) ==
  [i \in DOMAIN AllTypes |-> Entry(AllTypes[i], perf)]

LowerBound(table, type) ==
  SelectInSeq(table, LAMBDA e : Code(e.type) >= Code(type))

(* CHECKed to find an entry.                                                 *)
Update(table, type, perf) ==
  [table EXCEPT ![LowerBound(table, type)].info = perf]

Lookup(table, type) ==
  LET i == LowerBound(table, type)
  IN IF i = 0 \/ isExtension(type) THEN Worst ELSE table[i].info

Quantized8Types == << "INT32", "UINT32", "TENSOR_INT32", "OEM", "TENSOR_OEM_BYTE" >>

IsQuantized8Consistent(caps) ==
  \A i \in DOMAIN Quantized8Types :
     Lookup(caps.table, Quantized8Types[i]) = Lookup(caps.table, "TENSOR_QUANT8_ASYMM")

(* V1_0: float32 and quant8; V1_1: relaxed, too; V1_2: the relaxed            *)
(* performance of scalars and of tensors, and the table.                     *)
CompliantCapabilities10From11(caps) == caps.relaxed = caps.float32

CompliantCapabilities10(caps) ==
  /\ Lookup(caps.table, "TENSOR_FLOAT32") = Lookup(caps.table, "FLOAT32")
  /\ Lookup(caps.table, "TENSOR_FLOAT32") = caps.relaxedTensor
  /\ Lookup(caps.table, "FLOAT32") = caps.relaxedScalar
  /\ IsQuantized8Consistent(caps)

CompliantCapabilities11(caps) ==
  /\ caps.relaxedTensor = caps.relaxedScalar
  /\ Lookup(caps.table, "TENSOR_FLOAT32") = Lookup(caps.table, "FLOAT32")
  /\ IsQuantized8Consistent(caps)

CapabilitiesTo10(caps) ==
  [float32 |-> Lookup(caps.table, "TENSOR_FLOAT32"),
   quant8 |-> Lookup(caps.table, "TENSOR_QUANT8_ASYMM")]

CapabilitiesTo11(caps) ==
  [float32 |-> Lookup(caps.table, "TENSOR_FLOAT32"),
   quant8 |-> Lookup(caps.table, "TENSOR_QUANT8_ASYMM"),
   relaxed |-> caps.relaxedTensor]

(* The table of what an older driver says has no entry for the quantized       *)
(* types; lookup finds the next, OEM's, which has what it said of quant8.     *)
CapabilitiesOf(float32, quant8, relaxed) ==
  LET floats == {"FLOAT32", "TENSOR_FLOAT32"}
      types == SelectSeq(AllTypes, LAMBDA t : t \in floats \cup Range(Quantized8Types))
  IN [relaxedScalar |-> relaxed, relaxedTensor |-> relaxed,
      table |-> [i \in DOMAIN types |->
                   Entry(types[i], IF types[i] \in floats THEN float32 ELSE quant8)]]

CapabilitiesFrom10(caps) == CapabilitiesOf(caps.float32, caps.quant8, caps.float32)
CapabilitiesFrom11(caps) == CapabilitiesOf(caps.float32, caps.quant8, caps.relaxed)

-----------------------------------------------------------------------------
(* What a device is charged with for an operation: ExecutionPlan's            *)
(* getPerformanceInfo falls to the relaxed numbers only for float32.         *)
PerformanceOf(caps, type, relaxed) ==
  CASE type = "FLOAT32" /\ relaxed -> caps.relaxedScalar
    [] type = "TENSOR_FLOAT32" /\ relaxed -> caps.relaxedTensor
    [] OTHER -> Lookup(caps.table, type)
=============================================================================
