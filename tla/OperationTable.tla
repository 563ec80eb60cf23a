--------------------------- MODULE OperationTable ---------------------------
(***************************************************************************)
(* validateOperation of common/Utils.cpp for the operations that have no     *)
(* kernel registration of their own: which operand types an operation may    *)
(* have and from which HAL version on.  One definition per operation gives   *)
(* the set of its signatures; validateOperation accepts an operation at a    *)
(* version when a signature has its types and is not newer.                  *)
(*                                                                         *)
(* What the checks read besides types is a record a:                         *)
(*   rank      the rank the first input is declared with, 0 if unknown       *)
(*   zero      the zero point of the first input is 0                        *)
(*   in, filter, out   the scales of the first two inputs and of the output, *)
(*             in halves                                                    *)
(*   same      every input has the scale and the zero point of the output    *)
(*   channel0  the channel of a per-channel filter is dimension 0            *)
(***************************************************************************)
EXTENDS Integers, Sequences, SequencesExt

F32 == "TENSOR_FLOAT32"
F16 == "TENSOR_FLOAT16"
TI32 == "TENSOR_INT32"
Q8 == "TENSOR_QUANT8_ASYMM"
Q16 == "TENSOR_QUANT16_SYMM"
PerChannel == "TENSOR_QUANT8_SYMM_PER_CHANNEL"
Bool8 == "TENSOR_BOOL8"
I32 == "INT32"

Exceeds(out, in, filter) == 2 * out > in * filter

Sig(in, out, hal) == [in |-> in, out |-> out, hal |-> hal]
Repeat(t, n) == [i \in 1 .. n |-> t]
Ints(n) == Repeat(I32, n)
ScalarOf(t) == CASE t = F32 -> "FLOAT32" [] t = F16 -> "FLOAT16" [] OTHER -> I32
Since(t, hal) == IF t = F16 THEN 2 ELSE hal

FLOOR(a) == {Sig(<< t >>, << t >>, Since(t, 0)) : t \in {F32, F16}}

(* A convolution's input, filter and bias, then its integers.                *)
ConvHeads == { << F32, F32, F32 >>, << F16, F16, F16 >>, << Q8, Q8, TI32 >>,
               << Q8, PerChannel, TI32 >> }
ConvBase(head) == head \o Ints(5)

DEPTHWISE_CONV_2D(a) ==
  LET padding == {<<>>, Ints(3)}
      tails == {<<>>, << "BOOL" >>, << "BOOL", I32, I32 >>}
      old(head, tail) == /\ F16 \notin Range(head) /\ PerChannel \notin Range(head)
                         /\ tail = <<>>
                         /\ head[1] = Q8 => Exceeds(a.out, a.in, a.filter)
  IN {Sig(ConvBase(h) \o p \o t, << h[1] >>, IF old(h, t) THEN 0 ELSE 2)
        : h \in ConvHeads, p \in padding, t \in tails}

LOCAL_RESPONSE_NORMALIZATION(a) ==
  {Sig(<< t, I32 >> \o Repeat(ScalarOf(t), 3) \o axis, << t >>,
       IF axis = <<>> /\ a.rank = 4 THEN Since(t, 0) ELSE 2)
     : t \in {F32, F16}, axis \in {<<>>, << I32 >>}}

RESHAPE(a) == {Sig(<< t, TI32 >>, << t >>, Since(t, 0)) : t \in {F32, F16, Q8}}

DEPTH_TO_SPACE(a) ==
  {Sig(<< t, I32 >> \o layout, << t >>, IF layout = <<>> THEN Since(t, 0) ELSE 2)
     : t \in {F32, F16, Q8}, layout \in {<<>>, << "BOOL" >>}}

SPACE_TO_DEPTH(a) ==
  {Sig(<< t, I32 >> \o layout, << t >>, IF layout = <<>> THEN Since(t, 0) ELSE 2)
     : t \in {F32, F16, Q8}, layout \in {<<>>, << "BOOL" >>}}

EMBEDDING_LOOKUP(a) == {Sig(<< TI32, t >>, << t >>, 0) : t \in {F32, TI32, Q8}}

HASHTABLE_LOOKUP(a) == {Sig(<< TI32, TI32, t >>, << t, Q8 >>, 0) : t \in {F32, TI32, Q8}}

(* The version depends on the type of the hash, never on that of the input.   *)
LSH_PROJECTION(a) ==
  {Sig(<< h, t, h, I32 >>, << TI32 >>, Since(h, 0))
     : h \in {F32, F16}, t \in {F16, F32, TI32, Q8}}

BIDIRECTIONAL_SEQUENCE_LSTM(a) ==
  {Sig(Repeat(t, 48) \o << I32, ScalarOf(t), ScalarOf(t), "BOOL", "BOOL" >> \o Repeat(t, 8),
       Repeat(t, n), 2) : t \in {F32, F16}, n \in 1 .. 2}

LSTM(a) ==
  {Sig(Repeat(t, 20) \o << I32, ScalarOf(t), ScalarOf(t) >> \o Repeat(t, n),
       Repeat(t, 4), IF n = 0 THEN Since(t, 0) ELSE 2) : t \in {F32, F16}, n \in {0, 4}}

QUANTIZED_16BIT_LSTM(a) ==
  {Sig(Repeat(Q8, 9) \o Repeat(TI32, 4) \o << Q16, Q8 >>, << Q16, Q8 >>, 2)}

RANDOM_MULTINOMIAL(a) == {Sig(<< t, I32, TI32 >>, << TI32 >>, 2) : t \in {F32, F16}}

RNN(a) == {Sig(Repeat(t, 5) \o Ints(1), << t, t >>, Since(t, 0)) : t \in {F32, F16}}

SVDF(a) == {Sig(Repeat(t, 5) \o Ints(2), << t, t >>, Since(t, 0)) : t \in {F32, F16}}

BATCH_TO_SPACE_ND(a) ==
  {Sig(<< t, TI32 >> \o layout, << t >>, IF layout = <<>> THEN Since(t, 1) ELSE 2)
     : t \in {F32, F16, Q8}, layout \in {<<>>, << "BOOL" >>}}

SPACE_TO_BATCH_ND(a) ==
  {Sig(<< t, TI32, TI32 >> \o layout, << t >>,
       IF layout = <<>> /\ (t = Q8 => a.zero) THEN Since(t, 1) ELSE 2)
     : t \in {F32, F16, Q8}, layout \in {<<>>, << "BOOL" >>}}

PAD(a) ==
  {Sig(<< t, TI32 >>, << t >>, IF t = Q8 => a.zero THEN Since(t, 1) ELSE 2)
     : t \in {F32, F16, Q8}}

PAD_V2(a) == {Sig(<< t, TI32, ScalarOf(t) >>, << t >>, 2) : t \in {F32, F16, Q8}}

CAST(a) == {Sig(<< s >>, << t >>, 2) : s \in {F16, F32, TI32, Q8}, t \in {F16, F32, TI32, Q8}}

SQUEEZE(a) == {Sig(<< t, TI32 >>, << t >>, Since(t, 1)) : t \in {F32, F16, Q8}}

STRIDED_SLICE(a) ==
  {Sig(<< t, TI32, TI32, TI32 >> \o Ints(3), << t >>, Since(t, 1)) : t \in {F32, F16, Q8}}

MEAN(a) == {Sig(<< t, TI32, I32 >>, << t >>, Since(t, 1)) : t \in {F32, F16, Q8}}

ARGMAX(a) == {Sig(<< t, I32 >>, << TI32 >>, 2) : t \in {F16, F32, TI32, Q8}}

EXPAND_DIMS(a) == {Sig(<< t, I32 >>, << t >>, 2) : t \in {F16, F32, TI32, Q8}}

(* Any number of outputs: up to MaxSplits here.                               *)
MaxSplits == 3
SPLIT(a) == {Sig(<< t, I32, I32 >>, Repeat(t, n), 2)
               : t \in {F16, F32, TI32, Q8}, n \in 0 .. MaxSplits}

MAXIMUM(a) == {Sig(<< t, t >>, << t >>, 2) : t \in {F16, F32, TI32, Q8}}

GROUPED_CONV_2D(a) ==
  {Sig(ConvBase(h) \o p \o << "BOOL" >>, << h[1] >>, 2)
     : h \in {g \in ConvHeads : g[2] = PerChannel => a.channel0}, p \in {<<>>, Ints(3)}}

TILE(a) == {Sig(<< t, TI32 >>, << t >>, 2) : t \in {F16, F32, TI32, Q8}}

POW(a) == {Sig(<< t, t >>, << t >>, 2) : t \in {F16, F32}}

TOPK_V2(a) == {Sig(<< t, I32 >>, << t, TI32 >>, 2) : t \in {F16, F32, TI32, Q8}}

TableOps == {"FLOOR", "DEPTHWISE_CONV_2D", "LOCAL_RESPONSE_NORMALIZATION", "RESHAPE",
   "DEPTH_TO_SPACE", "SPACE_TO_DEPTH", "EMBEDDING_LOOKUP", "HASHTABLE_LOOKUP",
   "LSH_PROJECTION", "BIDIRECTIONAL_SEQUENCE_LSTM", "LSTM", "QUANTIZED_16BIT_LSTM",
   "RANDOM_MULTINOMIAL", "RNN", "SVDF", "BATCH_TO_SPACE_ND", "SPACE_TO_BATCH_ND", "PAD",
   "PAD_V2", "CAST", "SQUEEZE", "STRIDED_SLICE", "MEAN", "ARGMAX", "ARGMIN",
   "EXPAND_DIMS", "SPLIT", "MAXIMUM", "MINIMUM", "GROUPED_CONV_2D", "TILE", "POW", "TOPK_V2"}

TableSignatures(op, a) ==
  CASE op = "FLOOR" -> FLOOR(a)
    [] op = "DEPTHWISE_CONV_2D" -> DEPTHWISE_CONV_2D(a)
    [] op = "LOCAL_RESPONSE_NORMALIZATION" -> LOCAL_RESPONSE_NORMALIZATION(a)
    [] op = "RESHAPE" -> RESHAPE(a)
    [] op = "DEPTH_TO_SPACE" -> DEPTH_TO_SPACE(a)
    [] op = "SPACE_TO_DEPTH" -> SPACE_TO_DEPTH(a)
    [] op = "EMBEDDING_LOOKUP" -> EMBEDDING_LOOKUP(a)
    [] op = "HASHTABLE_LOOKUP" -> HASHTABLE_LOOKUP(a)
    [] op = "LSH_PROJECTION" -> LSH_PROJECTION(a)
    [] op = "BIDIRECTIONAL_SEQUENCE_LSTM" -> BIDIRECTIONAL_SEQUENCE_LSTM(a)
    [] op = "LSTM" -> LSTM(a)
    [] op = "QUANTIZED_16BIT_LSTM" -> QUANTIZED_16BIT_LSTM(a)
    [] op = "RANDOM_MULTINOMIAL" -> RANDOM_MULTINOMIAL(a)
    [] op = "RNN" -> RNN(a)
    [] op = "SVDF" -> SVDF(a)
    [] op = "BATCH_TO_SPACE_ND" -> BATCH_TO_SPACE_ND(a)
    [] op = "SPACE_TO_BATCH_ND" -> SPACE_TO_BATCH_ND(a)
    [] op = "PAD" -> PAD(a)
    [] op = "PAD_V2" -> PAD_V2(a)
    [] op = "CAST" -> CAST(a)
    [] op = "SQUEEZE" -> SQUEEZE(a)
    [] op = "STRIDED_SLICE" -> STRIDED_SLICE(a)
    [] op = "MEAN" -> MEAN(a)
    [] op \in {"ARGMAX", "ARGMIN"} -> ARGMAX(a)
    [] op = "EXPAND_DIMS" -> EXPAND_DIMS(a)
    [] op = "SPLIT" -> SPLIT(a)
    [] op \in {"MAXIMUM", "MINIMUM"} -> MAXIMUM(a)
    [] op = "GROUPED_CONV_2D" -> GROUPED_CONV_2D(a)
    [] op = "TILE" -> TILE(a)
    [] op = "POW" -> POW(a)
    [] op = "TOPK_V2" -> TOPK_V2(a)
=============================================================================
