----------------------------- MODULE Operations -----------------------------
(***************************************************************************)
(* validateOperation (common/Utils.cpp) as one operator over the tables of   *)
(* OperationTable and KernelTable, and what the CPU executor does before and *)
(* inside the kernel of an operation: which checks it makes of omitted and of *)
(* zero-sized operands, and the types its kernels have a case for.           *)
(*                                                                         *)
(* An operation is [type, ins, outs]; ins and outs are sequences of operand   *)
(* numbers, which count from 1 here.                                        *)
(***************************************************************************)
EXTENDS KernelTable, Operands

EXTENSION == "EXTENSION_OPERATION"
OEM == "OEM_OPERATION"

Activations == {"RELU", "RELU1", "RELU6", "LOGISTIC", "TANH"}
Broadcasts == {"ADD", "MUL", "SUB", "DIV"}
Comparisons == {"EQUAL", "NOT_EQUAL", "LESS", "LESS_EQUAL", "GREATER", "GREATER_EQUAL"}
Elementwises == {"ABS", "EXP", "LOG", "RSQRT", "SIN", "SQRT"}
Poolings == {"AVERAGE_POOL_2D", "L2_POOL_2D", "MAX_POOL_2D"}
Resizes == {"RESIZE_BILINEAR", "RESIZE_NEAREST_NEIGHBOR"}

(* BuiltinOperationResolver's constructor.                                   *)
KernelOps == Activations \cup Broadcasts \cup Comparisons \cup Elementwises \cup Poolings
  \cup Resizes \cup {"CHANNEL_SHUFFLE", "CONCATENATION", "CONV_2D", "DEQUANTIZE", "QUANTIZE",
    "FULLY_CONNECTED", "GATHER", "INSTANCE_NORMALIZATION", "L2_NORMALIZATION", "LOGICAL_AND",
    "LOGICAL_OR", "LOGICAL_NOT", "LOG_SOFTMAX", "NEG", "PRELU", "REDUCE_PROD", "REDUCE_SUM",
    "REDUCE_MAX", "REDUCE_MIN", "REDUCE_ANY", "REDUCE_ALL", "SELECT", "SLICE", "SOFTMAX",
    "TRANSPOSE", "TRANSPOSE_CONV_2D", "ROI_ALIGN", "ROI_POOLING", "HEATMAP_MAX_KEYPOINT",
    "AXIS_ALIGNED_BBOX_TRANSFORM", "BOX_WITH_NMS_LIMIT", "GENERATE_PROPOSALS",
    "DETECTION_POSTPROCESSING", "UNIDIRECTIONAL_SEQUENCE_RNN", "UNIDIRECTIONAL_SEQUENCE_LSTM",
    "BIDIRECTIONAL_SEQUENCE_RNN"}

BuiltinOps == TableOps \cup KernelOps

KernelSignatures(op, a) ==
  CASE op \in Activations -> Activation(op, a)
    [] op \in Broadcasts -> Broadcast(op, a)
    [] op \in Comparisons -> Comparison(a)
    [] op \in Elementwises -> Elementwise(a)
    [] op \in Poolings -> Pooling(op, a)
    [] op \in Resizes -> ResizeImage(op, a)
    [] op = "CHANNEL_SHUFFLE" -> ChannelShuffle(a)
    [] op = "CONCATENATION" -> Concatenation(a)
    [] op = "CONV_2D" -> Conv2D(a)
    [] op = "DEQUANTIZE" -> Dequantize(a)
    [] op = "QUANTIZE" -> Quantize(a)
    [] op = "FULLY_CONNECTED" -> FullyConnected(a)
    [] op = "GATHER" -> Gather(a)
    [] op = "INSTANCE_NORMALIZATION" -> InstanceNormalization(a)
    [] op = "L2_NORMALIZATION" -> L2Normalization(a)
    [] op \in {"LOGICAL_AND", "LOGICAL_OR"} -> LogicalAndOr(a)
    [] op = "LOGICAL_NOT" -> LogicalNot(a)
    [] op = "LOG_SOFTMAX" -> LogSoftmax(a)
    [] op = "NEG" -> Neg(a)
    [] op = "PRELU" -> PRelu(a)
    [] op \in {"REDUCE_PROD", "REDUCE_SUM"} -> ReduceProdSum(a)
    [] op \in {"REDUCE_MAX", "REDUCE_MIN"} -> ReduceMaxMin(a)
    [] op \in {"REDUCE_ANY", "REDUCE_ALL"} -> ReduceLogical(a)
    [] op = "SELECT" -> Select(a)
    [] op = "SLICE" -> Slice(a)
    [] op = "SOFTMAX" -> Softmax(a)
    [] op = "TRANSPOSE" -> Transpose(a)
    [] op = "TRANSPOSE_CONV_2D" -> TransposeConv2D(a)
    [] op = "ROI_ALIGN" -> RoiAlign(a)
    [] op = "ROI_POOLING" -> RoiPooling(a)
    [] op = "HEATMAP_MAX_KEYPOINT" -> HeatmapMaxKeypoint(a)
    [] op = "AXIS_ALIGNED_BBOX_TRANSFORM" -> AxisAlignedBBoxTransform(a)
    [] op = "BOX_WITH_NMS_LIMIT" -> BoxWithNmsLimit(a)
    [] op = "GENERATE_PROPOSALS" -> GenerateProposals(a)
    [] op = "DETECTION_POSTPROCESSING" -> DetectionPostprocessing(a)
    [] op = "UNIDIRECTIONAL_SEQUENCE_RNN" -> UnidirectionalSequenceRNN(a)
    [] op = "UNIDIRECTIONAL_SEQUENCE_LSTM" -> UnidirectionalSequenceLSTM(a)
    [] op = "BIDIRECTIONAL_SEQUENCE_RNN" -> BidirectionalSequenceRNN(a)

Signatures(op, a) ==
  IF op \in TableOps THEN TableSignatures(op, a) ELSE KernelSignatures(op, a)

(* What the checks read of the operands besides their types.                 *)
Attributes(operation, operands) ==
  LET ins == operation.ins
      outs == operation.outs
      scale(list, n) == IF n \in DOMAIN list THEN operands[list[n]].scale ELSE 0
      quant(i) == << operands[i].scale, operands[i].zeroPoint >>
      extra == operands[ins[2]].extra
  IN [rank |-> IF ins = <<>> THEN 0 ELSE Len(operands[ins[1]].dims),
      zero |-> ins # <<>> /\ operands[ins[1]].zeroPoint = 0,
      in |-> scale(ins, 1), filter |-> scale(ins, 2), out |-> scale(outs, 1),
      same |-> outs # <<>> /\ \A n \in DOMAIN ins \ {Len(ins)} : quant(ins[n]) = quant(outs[1]),
      channel0 |-> Len(ins) > 1 /\ extra.kind = "channelQuant" /\ extra.channelDim = 0]

TypesOf(list, operands) == [n \in DOMAIN list |-> operands[list[n]].type]

ValidateOperation(operation, operands, version) ==
  /\ ValidateOperandList(operation.ins, Len(operands))
  /\ ValidateOperandList(operation.outs, Len(operands))
  /\ CASE operation.type = EXTENSION -> version >= 2
       [] operation.type = OEM -> TRUE
       [] OTHER ->
            \E s \in Signatures(operation.type, Attributes(operation, operands)) :
               /\ s.in = TypesOf(operation.ins, operands)
               /\ s.out = TypesOf(operation.outs, operands)
               /\ s.hal <= version

-----------------------------------------------------------------------------
(* The flags an operation is registered with.                                *)

allowOmittedOperand == {"TRANSPOSE", "UNIDIRECTIONAL_SEQUENCE_LSTM", "BIDIRECTIONAL_SEQUENCE_RNN"}
allowZeroSizedInput == Activations \cup Broadcasts \cup Poolings \cup Resizes
  \cup {"CONCATENATION", "CONV_2D", "DEQUANTIZE", "QUANTIZE", "FULLY_CONNECTED",
        "AXIS_ALIGNED_BBOX_TRANSFORM", "BOX_WITH_NMS_LIMIT", "ROI_ALIGN", "SLICE", "SOFTMAX",
        "TRANSPOSE", "TRANSPOSE_CONV_2D"}

(* The cases of executeOperation that do not ask allParametersPresent: one    *)
(* block of them, and two more.                                             *)
LookupsAndCells == {"EMBEDDING_LOOKUP", "HASHTABLE_LOOKUP", "LSH_PROJECTION",
   "BIDIRECTIONAL_SEQUENCE_LSTM", "LSTM", "RANDOM_MULTINOMIAL", "RNN", "SVDF"}
UncheckedOps == LookupsAndCells \cup {"SPLIT", "SQUEEZE"}

(* The cases that turn NCHW data to NHWC, work on a copy of the output's       *)
(* RunTimeOperandInfo and turn the result back.                              *)
DepthOps == {"DEPTH_TO_SPACE", "SPACE_TO_DEPTH"}
BlockOps == {"BATCH_TO_SPACE_ND", "SPACE_TO_BATCH_ND"}
NhwcOps == {"DEPTHWISE_CONV_2D", "GROUPED_CONV_2D"} \cup DepthOps \cup BlockOps

-----------------------------------------------------------------------------
(* The types a kernel has code for, and the input whose type it switches on.  *)

AnyType == {F32, F16, TI32, Q8, Q8S, PerChannel, Bool8, Q16, Q16A}

FloatExecutes == {F32, F16}
QuantExecutes == {F32, F16, Q8}
NumberExecutes == {F32, F16, TI32, Q8}

FLOORExecutes == FloatExecutes
NormalizationExecutes == FloatExecutes
LSHProjectionExecutes == FloatExecutes           \* of the hash
LSTMExecutes == FloatExecutes
BidirectionalSequenceLSTMExecutes == FloatExecutes
RNNExecutes == FloatExecutes
SVDFExecutes == FloatExecutes
MultinomialExecutes == FloatExecutes
PowExecutes == FloatExecutes
PadExecutes == QuantExecutes
MeanExecutes == QuantExecutes
StridedSliceExecutes == QuantExecutes
NhwcExecutes == QuantExecutes
CastExecutes == NumberExecutes
ArgMinMaxExecutes == NumberExecutes
SplitExecutes == NumberExecutes
MaximumMinimumExecutes == NumberExecutes
TileExecutes == NumberExecutes
TopKExecutes == NumberExecutes

TableExecutes(op) ==
  CASE op = "FLOOR" -> FLOORExecutes
    [] op = "LOCAL_RESPONSE_NORMALIZATION" -> NormalizationExecutes
    [] op = "LSH_PROJECTION" -> LSHProjectionExecutes
    [] op = "LSTM" -> LSTMExecutes
    [] op = "BIDIRECTIONAL_SEQUENCE_LSTM" -> BidirectionalSequenceLSTMExecutes
    [] op = "RNN" -> RNNExecutes
    [] op = "SVDF" -> SVDFExecutes
    [] op = "RANDOM_MULTINOMIAL" -> MultinomialExecutes
    [] op = "POW" -> PowExecutes
    [] op \in {"PAD", "PAD_V2"} -> PadExecutes
    [] op = "MEAN" -> MeanExecutes
    [] op = "STRIDED_SLICE" -> StridedSliceExecutes
    [] op \in NhwcOps -> NhwcExecutes
    [] op = "CAST" -> CastExecutes
    [] op \in {"ARGMAX", "ARGMIN"} -> ArgMinMaxExecutes
    [] op = "SPLIT" -> SplitExecutes
    [] op \in {"MAXIMUM", "MINIMUM"} -> MaximumMinimumExecutes
    [] op = "TILE" -> TileExecutes
    [] op = "TOPK_V2" -> TopKExecutes
    [] OTHER -> AnyType

KernelExecutes(op) ==
  CASE op \in Activations -> ActivationExecutes
    [] op \in Broadcasts -> BroadcastExecutes(op)
    [] op \in Comparisons -> ComparisonExecutes
    [] op \in Elementwises -> ElementwiseExecutes
    [] op \in Poolings -> PoolingExecutes(op)
    [] op \in Resizes -> ResizeImageExecutes
    [] op = "CHANNEL_SHUFFLE" -> ChannelShuffleExecutes
    [] op = "CONCATENATION" -> ConcatenationExecutes
    [] op = "CONV_2D" -> Conv2DExecutes
    [] op = "DEQUANTIZE" -> DequantizeExecutes
    [] op = "QUANTIZE" -> QuantizeExecutes
    [] op = "FULLY_CONNECTED" -> FullyConnectedExecutes
    [] op = "GATHER" -> GatherExecutes
    [] op = "INSTANCE_NORMALIZATION" -> InstanceNormalizationExecutes
    [] op = "L2_NORMALIZATION" -> L2NormalizationExecutes
    [] op = "LOG_SOFTMAX" -> LogSoftmaxExecutes
    [] op = "NEG" -> NegExecutes
    [] op = "PRELU" -> PReluExecutes
    [] op \in {"REDUCE_PROD", "REDUCE_SUM"} -> ReduceProdSumExecutes
    [] op \in {"REDUCE_MAX", "REDUCE_MIN"} -> ReduceMaxMinExecutes
    [] op \in {"REDUCE_ANY", "REDUCE_ALL"} -> ReduceLogicalExecutes
    [] op = "SELECT" -> SelectExecutes
    [] op = "SLICE" -> SliceExecutes
    [] op = "SOFTMAX" -> SoftmaxExecutes
    [] op = "TRANSPOSE" -> TransposeExecutes
    [] op = "TRANSPOSE_CONV_2D" -> TransposeConv2DExecutes
    [] op = "ROI_ALIGN" -> RoiAlignExecutes
    [] op = "ROI_POOLING" -> RoiPoolingExecutes
    [] op = "HEATMAP_MAX_KEYPOINT" -> HeatmapMaxKeypointExecutes
    [] op = "AXIS_ALIGNED_BBOX_TRANSFORM" -> AxisAlignedBBoxTransformExecutes
    [] op = "BOX_WITH_NMS_LIMIT" -> BoxWithNmsLimitExecutes
    [] op = "GENERATE_PROPOSALS" -> GenerateProposalsExecutes
    [] op = "DETECTION_POSTPROCESSING" -> DetectionPostprocessingExecutes
    [] op = "UNIDIRECTIONAL_SEQUENCE_RNN" -> UnidirectionalSequenceRNNExecutes
    [] op = "UNIDIRECTIONAL_SEQUENCE_LSTM" -> UnidirectionalSequenceLSTMExecutes
    [] op = "BIDIRECTIONAL_SEQUENCE_RNN" -> BidirectionalSequenceRNNExecutes
    [] OTHER -> AnyType                                   \* the logical operations

Executes(op) ==
  CASE op \in TableOps -> TableExecutes(op)
    [] op \in KernelOps -> KernelExecutes(op)
    [] OTHER -> {}

SwitchedInput(op) == IF op = "SELECT" THEN 2 ELSE 1
=============================================================================
