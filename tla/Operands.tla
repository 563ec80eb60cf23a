------------------------------ MODULE Operands ------------------------------
(***************************************************************************)
(* Operands: their types, their sizes, what the API accepts of them when a  *)
(* model is built (common/Utils.cpp) and what a driver, and the runtime      *)
(* itself when a model is finished, demands of them (common/ValidateHal.cpp).*)
(* The two are written independently in the code, type by type; a model that *)
(* the first lets grow and the second refuses can never be finished.         *)
(*                                                                         *)
(* An operand is a record: type, dims (a sequence; 0 is an unknown           *)
(* dimension), scale and zeroPoint (small integers), lifetime, location and  *)
(* extra, the extraParams union.                                             *)
(***************************************************************************)
EXTENDS Integers, Sequences, SequencesExt

CONSTANT Word          \* the modulus of the 32-bit sizes, scaled down

ASSUME WordAssumption == Word \in Nat \ {0}

(* The types, in the order of their codes: 0 .. 13, then OEM at 10000.       *)
DataTypes == << "FLOAT32", "INT32", "UINT32", "TENSOR_FLOAT32",
                "TENSOR_INT32", "TENSOR_QUANT8_ASYMM", "BOOL",
                "TENSOR_QUANT16_SYMM", "TENSOR_FLOAT16", "TENSOR_BOOL8",
                "FLOAT16", "TENSOR_QUANT8_SYMM_PER_CHANNEL",
                "TENSOR_QUANT16_ASYMM", "TENSOR_QUANT8_SYMM" >>
OEMTypes == << "OEM", "TENSOR_OEM_BYTE" >>
AllTypes == DataTypes \o OEMTypes
ExtensionTypes == {"EXTENSION"}
Code(type) == SelectInSeq(AllTypes, LAMBDA t : t = type)

kSizeOfDataType == << 4, 4, 4, 4, 4, 1, 1, 2, 2, 1, 2, 1, 2, 1 >>
kSizeOfDataTypeOEM == << 0, 1 >>
ScalarTypes == {"FLOAT32", "INT32", "UINT32", "BOOL", "FLOAT16", "OEM"}

isExtension(type) == type \in ExtensionTypes
isScalar(type) == type \in ScalarTypes
isConstant(op) == op.lifetime \in {"CONSTANT_COPY", "CONSTANT_REFERENCE"}

TableLookup(table, tableOEM, type) == (table \o tableOEM)[Code(type)]

(* The size wraps: it is a product of 32-bit numbers.  A tensor of unknown    *)
(* rank has size 0.                                                          *)
SizeTimes(size, dims) ==
  LET product[k \in 0 .. Len(dims)] ==
        IF k = 0 THEN size ELSE (product[k - 1] * dims[k]) % Word
  IN product[Len(dims)]

SizeOfData(type, dims) ==
  LET size == TableLookup(kSizeOfDataType, kSizeOfDataTypeOEM, type)
  IN CASE isScalar(type) -> size
       [] ~ isScalar(type) /\ dims = <<>> -> 0
       [] OTHER -> SizeTimes(size, dims)

hasUnspecifiedDimensions(dims) == dims = <<>> \/ Contains(dims, 0)

(* (~(index - 1)) & pattern, with pattern 0, 1 or 3.                         *)
AlignBytesNeeded(index, length) ==
  (-index) % (CASE length < 2 -> 1 [] length \in 2 .. 3 -> 2 [] OTHER -> 4)

-----------------------------------------------------------------------------
(* What addOperand accepts: t is the ANeuralNetworksOperandType, ext is the   *)
(* registered information on an extension type, or "none".                   *)

NoQuantParams(t) == t.zeroPoint = 0 /\ t.scale = 0
Quant8AsymmParams(t) == t.zeroPoint \in 0 .. 255 /\ t.scale > 0
Quant8SymmParams(t) == t.zeroPoint = 0 /\ t.scale > 0
Quant16AsymmParams(t) == t.zeroPoint \in 0 .. 65535 /\ t.scale > 0
QuantSymmParams(t) == t.zeroPoint = 0 /\ t.scale > 0

ScalarDimensions(t) == t.dims = <<>>
TensorDimensions(t, allowPartial) == allowPartial \/ ~ hasUnspecifiedDimensions(t.dims)

QuantParams(t) ==
  CASE t.type = "TENSOR_QUANT8_ASYMM" -> Quant8AsymmParams(t)
    [] t.type = "TENSOR_QUANT8_SYMM" -> Quant8SymmParams(t)
    [] t.type = "TENSOR_QUANT16_ASYMM" -> Quant16AsymmParams(t)
    [] t.type = "TENSOR_QUANT16_SYMM" -> QuantSymmParams(t)
    [] t.type \in {"TENSOR_INT32", "TENSOR_OEM_BYTE", "OEM"} -> TRUE
    [] OTHER -> NoQuantParams(t)

ValidateOperandType(t, ext, allowPartial) ==
  LET scalar == IF isExtension(t.type) THEN ext = "scalar" ELSE isScalar(t.type)
  IN /\ isExtension(t.type) <=> ext # "none"
     /\ IF scalar THEN ScalarDimensions(t) ELSE TensorDimensions(t, allowPartial)
     /\ QuantParams(t)

(* setOperandSymmPerChannelQuantParams: the scales of an operand that already *)
(* exists.  TLA+ counts dimensions from 1, the channel from 0.               *)
SymmPerChannelQuantParams(op, quant) ==
  /\ op.type = "TENSOR_QUANT8_SYMM_PER_CHANNEL"
  /\ quant.channelDim < Len(op.dims)
  /\ Len(quant.scales) = op.dims[quant.channelDim + 1]
  /\ op.dims[quant.channelDim + 1] # 0
  /\ \A i \in DOMAIN quant.scales : quant.scales[i] > 0

ValidateOperandList(list, count) == \A i \in DOMAIN list : list[i] \in 1 .. count

-----------------------------------------------------------------------------
(* What validateModel demands of each operand of a HAL model.                *)

validOperandType(version, type) ==
  CASE version < 2 -> type \in {"FLOAT32", "INT32", "UINT32", "TENSOR_FLOAT32",
                                "TENSOR_INT32", "TENSOR_QUANT8_ASYMM", "OEM",
                                "TENSOR_OEM_BYTE"}
    [] OTHER -> Contains(AllTypes, type) \/ isExtension(type)

(* MemoryAccessVerifier: the sum is a size_t and does not wrap.              *)
InPools(location, sizes) ==
  /\ location.pool < Len(sizes)
  /\ location.offset + location.length <= sizes[location.pool + 1]

RankIsValid(op, allowUnspecifiedRank) ==
  CASE isExtension(op.type) -> TRUE
    [] isScalar(op.type) -> op.dims = <<>>
    [] OTHER -> op.dims # <<>> \/ (allowUnspecifiedRank /\ ~ isConstant(op))

(* A mutant: TENSOR_QUANT16_ASYMM is forgotten among the quantized types.        *)
ScaleWithoutQuant16(op) ==
  IF op.type \in {"TENSOR_QUANT8_ASYMM", "TENSOR_QUANT8_SYMM", "TENSOR_QUANT16_SYMM"}
  THEN op.scale > 0 ELSE op.scale = 0

ScaleIsValid(op) ==
  CASE op.type \in {"OEM", "TENSOR_OEM_BYTE"} -> TRUE
    [] op.type = "TENSOR_INT32" -> op.scale >= 0
    [] op.type \in {"TENSOR_QUANT8_ASYMM", "TENSOR_QUANT8_SYMM",
                    "TENSOR_QUANT16_ASYMM", "TENSOR_QUANT16_SYMM"} -> op.scale > 0
    [] OTHER -> op.scale = 0

ZeroPointIsValid(op) ==
  CASE op.type \in {"OEM", "TENSOR_OEM_BYTE"} -> TRUE
    [] op.type = "TENSOR_QUANT8_ASYMM" -> op.zeroPoint \in 0 .. 255
    [] op.type = "TENSOR_QUANT16_ASYMM" -> op.zeroPoint \in 0 .. 65535
    [] OTHER -> op.zeroPoint = 0

ExtraParamsAreValid(op) ==
  CASE op.type = "TENSOR_QUANT8_SYMM_PER_CHANNEL" ->
         /\ op.extra.kind = "channelQuant"
         /\ SymmPerChannelQuantParams(op, op.extra)
    [] isExtension(op.type) -> op.extra.kind \in {"extension", "none"}
    [] op.type \in {"OEM", "TENSOR_OEM_BYTE", "FLOAT16"} -> TRUE
    [] OTHER -> op.extra.kind = "none"

NoLocation == [pool |-> 0, offset |-> 0, length |-> 0]

LocationIsValid(op, valuesSize, poolSizes) ==
  CASE op.lifetime = "CONSTANT_COPY" ->
         /\ op.location.pool = 0
         /\ op.location.offset + op.location.length <= valuesSize
    [] op.lifetime = "CONSTANT_REFERENCE" -> InPools(op.location, poolSizes)
    [] OTHER -> op.location = NoLocation

LengthIsValid(op) ==
  isConstant(op) /\ ~ isExtension(op.type) /\ op.type \notin {"OEM", "TENSOR_OEM_BYTE"}
    => op.location.length = SizeOfData(op.type, op.dims)

ValidateOperand(op, version, valuesSize, poolSizes) ==
  /\ validOperandType(version, op.type)
  /\ RankIsValid(op, version >= 2)
  /\ ScaleIsValid(op)
  /\ ZeroPointIsValid(op)
  /\ ExtraParamsAreValid(op)
  /\ LocationIsValid(op, valuesSize, poolSizes)
  /\ LengthIsValid(op)

(* compliantWithV1_0 of an operand: what the slicer asks before it sends an   *)
(* operation to a driver of an older version.                                *)
CompliantOperand(op) ==
  validOperandType(0, op.type) /\ (isScalar(op.type) \/ op.dims # <<>>)

(* convertToV1_0 and back: the extraParams are lost.                          *)
Downgrade(op) == [op EXCEPT !.extra = [kind |-> "none"]]
=============================================================================
