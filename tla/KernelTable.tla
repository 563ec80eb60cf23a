----------------------------- MODULE KernelTable -----------------------------
(***************************************************************************)
(* The operations with a kernel registered in common/OperationResolver.cpp.  *)
(* Each kernel of common/operations brings a validate (which operand types,  *)
(* since which HAL version), a prepare (see KernelShapes) and an execute that *)
(* switches on the type of an input.  validate and execute are written apart; *)
(* a type the one accepts and the other has no case for fails when a model   *)
(* that was accepted is run.                                                *)
(***************************************************************************)
EXTENDS OperationTable

Q16A == "TENSOR_QUANT16_ASYMM"
Q8S == "TENSOR_QUANT8_SYMM"
RealOf(t) == IF t = F16 THEN "FLOAT16" ELSE "FLOAT32"

Activation(op, a) ==
  {Sig(<< t >>, << t >>, IF op = "TANH" /\ t = Q8 THEN 2 ELSE Since(t, 0))
     : t \in {F32, F16, Q8}}
(* A mutant: no case for quantized data.                                      *)
ActivationWithoutQuant8 == {F16, F32}
ActivationExecutes == {F16, F32, Q8}

(* ADD, MUL, SUB, DIV.  SUB and DIV came with 1.1; MUL wants its output scale  *)
(* to exceed the product of the others at every version.                      *)
Broadcast(op, a) ==
  LET introduced == IF op \in {"DIV", "SUB"} THEN 1 ELSE 0
      quantized == op # "DIV" /\ (op = "MUL" => Exceeds(a.out, a.in, a.filter))
  IN {Sig(<< t, t, I32 >>, << t >>,
          IF op = "SUB" /\ t = Q8 THEN 2 ELSE Since(t, introduced))
        : t \in {F32, F16} \cup (IF quantized THEN {Q8} ELSE {})}
BroadcastExecutes(op) == IF op = "DIV" THEN {F16, F32} ELSE {F16, F32, Q8}

ChannelShuffle(a) == {Sig(<< t, I32, I32 >>, << t >>, 2) : t \in {F16, F32, Q8}}
ChannelShuffleExecutes == {F16, F32, Q8}

Comparison(a) == {Sig(<< t, t >>, << Bool8 >>, 2) : t \in {Bool8, F16, F32, TI32, Q8}}
ComparisonExecutes == {F16, F32, TI32, Q8, Bool8}

(* Any number of inputs, up to MaxInputs here.  Before 1.2 a quantized          *)
(* concatenation must not rescale.                                           *)
MaxInputs == 3
Concatenation(a) ==
  {Sig(Repeat(t, n) \o << I32 >>, << t >>, IF t = Q8 /\ ~ a.same THEN 2 ELSE Since(t, 0))
     : t \in {F32, Q8, F16}, n \in 1 .. MaxInputs}
ConcatenationExecutes == {F16, F32, Q8}

Dequantize(a) ==
  {Sig(<< s >>, << t >>, IF s = Q8 /\ t = F32 THEN 0 ELSE 2)
     : s \in {Q8, Q8S, PerChannel}, t \in {F16, F32}}
DequantizeExecutes == {Q8, Q8S, PerChannel}

Quantize(a) == {Sig(<< t >>, << Q8 >>, 2) : t \in {F16, F32}}
QuantizeExecutes == {F16, F32}

Elementwise(a) == {Sig(<< t >>, << t >>, 2) : t \in {F16, F32}}
ElementwiseExecutes == {F16, F32}

Gather(a) == {Sig(<< t, I32, TI32 >>, << t >>, 2) : t \in {F16, F32, TI32, Q8}}
GatherExecutes == {F16, F32, TI32, Q8}

InstanceNormalization(a) ==
  {Sig(<< t >> \o Repeat(ScalarOf(t), 3) \o << "BOOL" >>, << t >>, 2) : t \in {F32, F16}}
InstanceNormalizationExecutes == {F16, F32}

L2Normalization(a) ==
  {Sig(<< t >> \o axis, << t >>,
       IF axis = <<>> /\ a.rank = 4 /\ t = F32 THEN 0 ELSE 2)
     : t \in {F16, Q8, F32}, axis \in {<<>>, Ints(1)}}
L2NormalizationExecutes == {F32, F16, Q8}

LogicalAndOr(a) == {Sig(<< Bool8, Bool8 >>, << Bool8 >>, 2)}
LogicalNot(a) == {Sig(<< Bool8 >>, << Bool8 >>, 2)}

LogSoftmax(a) == {Sig(<< t, ScalarOf(t), I32 >>, << t >>, 2) : t \in {F32, F16}}
LogSoftmaxExecutes == {F16, F32}

Neg(a) == {Sig(<< t >>, << t >>, 2) : t \in {F16, F32, TI32}}
NegExecutes == {F16, F32, TI32}

PRelu(a) == {Sig(<< t, t >>, << t >>, 2) : t \in {F16, F32, Q8}}
PReluExecutes == {F16, F32, Q8}

ReduceProdSum(a) == {Sig(<< t, TI32, "BOOL" >>, << t >>, 2) : t \in {F16, F32}}
ReduceProdSumExecutes == {F16, F32}
ReduceMaxMin(a) == {Sig(<< t, TI32, "BOOL" >>, << t >>, 2) : t \in {F16, F32, Q8}}
ReduceMaxMinExecutes == {F16, F32, Q8}
ReduceLogical(a) == {Sig(<< Bool8, TI32, "BOOL" >>, << Bool8 >>, 2)}
ReduceLogicalExecutes == {Bool8}

Select(a) == {Sig(<< Bool8, t, t >>, << t >>, 2) : t \in {F16, F32, TI32, Q8}}
SelectExecutes == {F16, F32, TI32, Q8}        \* of the second input

Slice(a) == {Sig(<< t, TI32, TI32 >>, << t >>, 2) : t \in {F16, F32, TI32, Q8}}
SliceExecutes == {F16, F32, TI32, Q8}

Softmax(a) ==
  {Sig(<< t, IF t = F16 THEN "FLOAT16" ELSE "FLOAT32" >> \o axis, << t >>,
       IF axis = <<>> /\ a.rank \in {0, 2, 4} THEN Since(t, 0) ELSE 2)
     : t \in {F32, Q8, F16}, axis \in {<<>>, Ints(1)}}
SoftmaxExecutes == {F16, F32, Q8}

Transpose(a) == {Sig(<< t, TI32 >>, << t >>, Since(t, 1)) : t \in {F32, Q8, F16}}
TransposeExecutes == {F32, F16, Q8}

Pooling(op, a) ==
  {Sig(<< t >> \o Ints(6) \o padding \o layout, << t >>,
       IF layout = <<>> THEN Since(t, 0) ELSE 2)
     : t \in {F32, F16} \cup (IF op = "L2_POOL_2D" THEN {} ELSE {Q8}),
       padding \in {<<>>, Ints(3)}, layout \in {<<>>, << "BOOL" >>}}
PoolingExecutes(op) == IF op = "L2_POOL_2D" THEN {F32, F16} ELSE {F32, F16, Q8}

FullyConnected(a) ==
  {Sig(head \o Ints(1), << head[1] >>,
       IF head[1] = Q8 /\ ~ Exceeds(a.out, a.in, a.filter) THEN 2 ELSE Since(head[1], 0))
     : head \in {<< F32, F32, F32 >>, << F16, F16, F16 >>, << Q8, Q8, TI32 >>}}
FullyConnectedExecutes == {F32, F16, Q8}

(* The output's size as integers, or as factors of the input's.               *)
ResizeImage(op, a) ==
  {Sig(<< p[1], p[2], p[2] >> \o layout, << p[1] >>,
       IF p = << F32, I32 >> /\ layout = <<>> THEN 0 ELSE 2)
     : p \in {F32, F16, Q8} \X {I32} \cup {<< t, RealOf(t) >> : t \in {F32, F16, Q8}},
       layout \in {<< "BOOL" >>} \cup (IF op = "RESIZE_BILINEAR" THEN {<<>>} ELSE {})}
ResizeImageExecutes == {F16, F32, Q8}

(* Regions: quantized coordinates are 16 bits wide.                           *)
RegionOf(t) == IF t = Q8 THEN Q16A ELSE t

RoiAlign(a) ==
  {Sig(<< t, RegionOf(t), TI32, I32, I32, RealOf(t), RealOf(t), I32, I32, "BOOL" >>, << t >>, 2)
     : t \in {F32, F16, Q8}}
RoiAlignExecutes == {F16, F32, Q8}

RoiPooling(a) ==
  {Sig(<< t, RegionOf(t), TI32, I32, I32, RealOf(t), RealOf(t), "BOOL" >>, << t >>, 2)
     : t \in {F32, F16, Q8}}
RoiPoolingExecutes == {F16, F32, Q8}

HeatmapMaxKeypoint(a) ==
  {Sig(<< t, RegionOf(t), "BOOL" >>, << t, RegionOf(t) >>, 2) : t \in {F32, F16, Q8}}
HeatmapMaxKeypointExecutes == {F16, F32, Q8}

(* Of the first input: the regions.                                          *)
AxisAlignedBBoxTransform(a) ==
  {Sig(<< RegionOf(t), t, TI32, RegionOf(t) >>, << RegionOf(t) >>, 2) : t \in {F32, F16, Q8}}
AxisAlignedBBoxTransformExecutes == {F16, F32, Q16A}

BoxWithNmsLimit(a) ==
  {Sig(<< t, RegionOf(t), TI32, RealOf(t), I32, I32 >> \o Repeat(RealOf(t), 3),
       << t, RegionOf(t), TI32, TI32 >>, 2) : t \in {F32, F16, Q8}}
BoxWithNmsLimitExecutes == {F16, F32, Q8}

GenerateProposals(a) ==
  {Sig(<< t, t, IF t = Q8 THEN Q16 ELSE t, RegionOf(t), RealOf(t), RealOf(t), I32, I32,
          RealOf(t), RealOf(t), "BOOL" >>, << t, RegionOf(t), TI32 >>, 2) : t \in {F32, F16, Q8}}
GenerateProposalsExecutes == {F16, F32, Q8}

DetectionPostprocessing(a) ==
  {Sig(Repeat(t, 3) \o Repeat(RealOf(t), 4) \o << "BOOL", I32, I32, I32, RealOf(t), RealOf(t),
       "BOOL" >>, << t, t, TI32, TI32 >>, 2) : t \in {F32, F16}}
DetectionPostprocessingExecutes == {F16, F32}

UnidirectionalSequenceRNN(a) == {Sig(Repeat(t, 5) \o Ints(2), << t >>, 2) : t \in {F32, F16}}
UnidirectionalSequenceRNNExecutes == {F16, F32}

BidirectionalSequenceRNN(a) ==
  {Sig(Repeat(t, 12) \o << I32, "BOOL", "BOOL" >>, Repeat(t, n), 2) : t \in {F32, F16}, n \in 1 .. 2}
BidirectionalSequenceRNNExecutes == {F16, F32}

UnidirectionalSequenceLSTM(a) ==
  {Sig(Repeat(t, 20) \o << I32, RealOf(t), RealOf(t), "BOOL" >> \o Repeat(t, 4), << t >>, 2)
     : t \in {F32, F16}}
UnidirectionalSequenceLSTMExecutes == {F32, F16}

(* The scale of a convolution's output is taken from the shape of an INPUT,    *)
(* the first; no version is asked for half precision.                         *)
Conv2D(a) ==
  LET old(head, tail) == /\ PerChannel \notin Range(head) /\ tail = <<>>
                         /\ head[1] = Q8 => Exceeds(a.in, a.in, a.filter)
  IN {Sig(h \o Ints(4) \o p \o t, << h[1] >>, IF old(h, t) THEN 0 ELSE 2)
        : h \in {g \in ConvHeads : g[2] = PerChannel => a.channel0}, p \in {<<>>, Ints(3)},
          t \in {<<>>, << "BOOL" >>, << "BOOL", I32, I32 >>}}
Conv2DExecutes == {F32, F16, Q8}

TransposeConv2D(a) ==
  {Sig(h \o t \o << "BOOL" >>, << h[1] >>, 2)
     : h \in {g \in ConvHeads : g[2] = PerChannel => a.channel0},
       t \in {Ints(7), << TI32 >> \o Ints(4)}}
TransposeConv2DExecutes == {F32, F16, Q8}
=============================================================================
