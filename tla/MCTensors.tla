------------------------------ MODULE MCTensors -----------------------------
(***************************************************************************)
(* What is in the operands of the operations that move elements: tensors of one  *)
(* to four dimensions of 1 to 4, axes from both ends, and operands that are     *)
(* refused.                                                                *)
(***************************************************************************)
EXTENDS Tensors

MoverDims == {<< 3 >>, << 2, 3 >>, << 2, 1, 2 >>, << 2, 2, 2 >>}
Axes == -3 .. 2

Scaled(n) == [k \in 1 .. n |-> (3 * k) + ((k * k) % 5)]

Slicers ==
  {[op |-> "slice", dims |-> << 2, 3 >>, begin |-> b, size |-> s] :
     b \in [1 .. 2 -> {-1, 0, 1, 3}], s \in [1 .. 2 -> {-1, 0, 1, 2}]}
  \cup {[op |-> "slice", dims |-> << 2, 1, 3 >>, begin |-> << 0, 0, 1 >>, size |-> << 2, 1, 2 >>],
        [op |-> "slice", dims |-> << 2 >>, begin |-> << 0, 0 >>, size |-> << 1 >>]}
Comparers == {[op |-> "comparison", dims |-> d, other |-> e] :
                d, e \in {<< 1 >>, << 3 >>, << 4 >>, << 2, 1 >>, << 2, 3 >>, << 1, 2, 1 >>, << 2, 2, 3 >>}}
Tilers == {[op |-> "tile", dims |-> d, multiples |-> f] : d \in {<< 2, 3 >>, << 1, 2 >>}, f \in [1 .. 2 -> 1 .. 3]}
  \cup {[op |-> "tile", dims |-> << 2, 1, 2 >>, multiples |-> f] : f \in [1 .. 3 -> 1 .. 2]}
Gatherers == {[op |-> "gather", dims |-> d, axis |-> a, indices |-> i, indexDims |-> e] :
                d \in MoverDims, a \in Axes, i \in {<< 1, 0 >>, << 0, 1 >>, << 1, 2 >>, << -1, 0 >>}, e \in {<< 2 >>, << 1, 2 >>}}
Shufflers == {[op |-> "channel_shuffle", dims |-> d, axis |-> a, groups |-> g] :
                d \in MoverDims \cup {<< 2, 4 >>, << 4, 2 >>, << 2, 4, 2 >>}, a \in Axes, g \in 0 .. 3}
Splitters == {[op |-> "split", dims |-> d, axis |-> a, numOutputs |-> n] :
                d \in MoverDims \cup {<< 2, 4 >>, << 2, 3, 2 >>}, a \in Axes, n \in 1 .. 3}
Expanders == {[op |-> "expand_dims", dims |-> d, axis |-> a] : d \in MoverDims, a \in -4 .. 3}
ArgMovers == {[op |-> "arg", dims |-> d, axis |-> a, isArgMin |-> least, data |-> values] :
               d \in {<< 2, 3 >>, << 3, 2 >>, << 2, 3, 1 >>}, a \in {-2, -1, 1, 2}, least \in BOOLEAN,
               values \in {<< 1, 3, 1, 3, 2, 2 >>, << 2, 2, 3, 1, 1, 3 >>, << 1, 2, 3, 3, 2, 1 >>}}
TopKs == {[op |-> "topk", dims |-> d, k |-> k, data |-> values] :
            d \in {<< 2, 3 >>, << 6 >>, << 1, 2, 3 >>}, k \in 0 .. 4,
            values \in {<< 1, 3, 1, 3, 2, 2 >>, << 2, 2, 3, 1, 1, 3 >>, << 1, 2, 3, 3, 2, 1 >>}}
Selectors == {[op |-> "select", dims |-> d, condition |-> c, other |-> << 2, 2 >>, chosen |-> f] :
                d, c \in {<< 2, 2 >>, << 4 >>}, f \in [1 .. 4 -> BOOLEAN]}
Lookups == {[op |-> op, dims |-> d, lookups |-> l, keys |-> << 0, 2, 5 >>] :
              op \in {"embedding", "hashtable"}, d \in {<< 3 >>, << 3, 2 >>, << 3, 2, 2 >>},
              l \in {<< 2, 0 >>, << 0, 2, 2 >>, << 5, 2 >>, << -1 >>}}

Reshapers ==
  {[op |-> "reshape", dims |-> d, target |-> t] :
     d \in {<< 6 >>, << 2, 3 >>, << 7 >>}, t \in {<< 6 >>, << -1 >>, << 3, -1 >>, << -1, 4 >>, << -1, -1 >>, << 1, 6 >>, << 2, 3, -1 >>}}
  \cup {[op |-> "squeeze", dims |-> d, axes |-> a] :
        d \in {<< 1, 2, 1 >>, << 2, 1, 3 >>, << 2, 3 >>}, a \in {<< >>, << 0 >>, << -1 >>, << 0, 2 >>, << 1, -2 >>, << 3 >>}}
Reducers == {[op |-> op, dims |-> d, axes |-> a, keepDims |-> keep] :
               op \in {"mean", "reduce"}, d \in {<< 2, 3 >>, << 2, 1, 3 >>}, keep \in BOOLEAN,
               a \in {<< 0 >>, << -1 >>, << 0, 0, 0 >>, << 1, -2 >>, << 0, -1 >>, << 2 >>, << -3 >>, << 0, 1 >>, << 5 >>}}
Blocks4 == {<< 1, 2, 4, 4 >>, << 4, 1, 2, 1 >>, << 2, 3, 2, 8 >>, << 2, 3 >>}
BlockMovers ==
  {[op |-> op, dims |-> d, block |-> b] : op \in {"depth_to_space", "space_to_depth"}, d \in Blocks4, b \in 0 .. 2}
  \cup {[op |-> "batch_to_space", dims |-> d, blocks |-> << b, e >>, paddings |-> << >>] : d \in Blocks4, b, e \in 1 .. 2}
  \cup {[op |-> "space_to_batch", dims |-> d, blocks |-> << b, e >>, paddings |-> << << p, q >>, << q, p >> >>] :
        d \in Blocks4 \ {<< 2, 3 >>}, b, e \in 1 .. 2, p, q \in 0 .. 1}
  \cup {[op |-> "pad", dims |-> d, paddings |-> p] :
        d \in {<< 2, 3 >>, << 1, 2 >>, << 3 >>}, p \in [1 .. 2 -> {<< 0, 0 >>, << 1, 2 >>, << -1, 0 >>}]}

Strided(dims, b, e, s, masks, shrink) ==
  [op |-> "strided_slice", dims |-> dims, begin |-> b, end |-> e, strides |-> s,
   beginMask |-> masks, endMask |-> masks, shrinkMask |-> shrink]
StridedSlicers ==
  {Strided(<< 4 >>, << b >>, << e >>, << s >>, masks, shrink) :
     b, e \in {-6, -4, -1, 0, 1, 3, 4, 6}, s \in {-3, -2, -1, 0, 1, 2, 3}, masks \in {{}, {1}}, shrink \in {{}, {1}}}
  \cup {Strided(<< 3, 2 >>, << 1, b >>, << 3, 2 >>, << 1, s >>, {}, shrink) :
        b \in {-1, 0}, s \in {-1, 1}, shrink \in {{}, {1}, {2}}}

Window(size, filter, stride, dilation, padding, explicit) ==
  [size |-> size, filter |-> filter, stride |-> stride, dilation |-> dilation, padding |-> padding, explicit |-> explicit]
(* The window fits into the padded image.                                      *)
WindowSet(dilations) ==
  {w \in {Window(n, f, s, d, p, e) : n \in {1, 4, 5}, f \in 1 .. 3, s \in 1 .. 3, d \in dilations,
             p \in {"SAME", "VALID", "EXPLICIT"}, e \in {<< 0, 0 >>, << 1, 0 >>, << 2, 1 >>}} :
     /\ w.padding = "EXPLICIT" \/ w.explicit = << 0, 0 >>
     /\ w.size + Paddings(w, FALSE)[1] + Paddings(w, FALSE)[2] >= EffectiveFilter(w)}
Wide == Window(4, 2, 2, 1, "EXPLICIT", << 0, 1 >>)
Conv(op, height, width, channels, depth, out, bias, multiplier, nchw) ==
  [op |-> op, batches |-> 1, height |-> height, width |-> width, channels |-> channels, filterDepth |-> depth,
   out |-> out, bias |-> bias, multiplier |-> multiplier, groups |-> 1, nchw |-> nchw]
Convolvers ==
  {Conv(op, h, Wide, 2, 2, 4, 4, 2, nchw) : op \in {"conv", "pool"}, h \in WindowSet({1, 2}), nchw \in BOOLEAN}
  \cup {Conv("depthwise", h, Wide, 2, 2, 4, 4, k, FALSE) : h \in WindowSet({1, 2}), k \in {1, 2}}
  \cup {Conv("conv", [Wide EXCEPT !.explicit = << -1, 0 >>], Wide, 2, 2, 4, 4, 2, FALSE),
        Conv("conv", Wide, Wide, 2, 1, 4, 4, 2, FALSE), Conv("depthwise", Wide, Wide, 2, 2, 4, 3, 2, FALSE)}

Grouped(height, width, channels, depth, out, groups) ==
  [op |-> "grouped", batches |-> 2, height |-> height, width |-> width, channels |-> channels, filterDepth |-> depth,
   out |-> out, bias |-> out, groups |-> groups, nchw |-> FALSE,
   data |-> Scaled(2 * height.size * width.size * channels),
   filters |-> Scaled(out * height.filter * width.filter * depth), biases |-> Scaled(out)]
Narrow1 == Window(2, 1, 1, 1, "VALID", << 0, 0 >>)
Groupers ==
  {Grouped(h, w, 2, d, out, g) :
     h \in {Window(3, f, s, 1, p, << 1, 0 >>) : f \in 1 .. 2, s \in 1 .. 2, p \in {"SAME", "VALID", "EXPLICIT"}},
     w \in {Narrow1, Window(2, 2, 1, 1, "SAME", << 0, 0 >>)}, d \in {1, 2}, out \in {2, 3}, g \in {1, 2}}

Transposer(height, width, wanted, out) ==
  [op |-> "transpose_conv", batches |-> 1, height |-> height, width |-> width, channels |-> 2, filterDepth |-> 2,
   out |-> out, bias |-> 2, wanted |-> wanted, nchw |-> FALSE,
   data |-> Scaled(height.size * width.size * 2), filters |-> Scaled(out * height.filter * width.filter * 2),
   biases |-> Scaled(out)]
(* A wanted size that no input gives may leave nothing of it.                    *)
Transposers ==
  {m \in {Transposer(Window(2, f, s, 1, p, e), Narrow1, << n, 2 >>, out) :
            f \in 1 .. 3, s \in 1 .. 2, p \in {"SAME", "VALID", "EXPLICIT"}, e \in {<< 0, 0 >>, << 1, 0 >>, << 0, -1 >>, << -1, 0 >>},
            n \in 2 .. 4, out \in 2 .. 3} :
     /\ m.height.padding = "EXPLICIT" \/ m.height.explicit = << 0, 0 >>
     /\ OutSizeTransposeConv(m.height, m.wanted[1]) >= 0}
  \cup {Transposer(Window(2, 2, 2, 1, "SAME", << 0, 0 >>), Window(2, 3, 2, 1, "SAME", << 0, 0 >>), << 4, 3 >>, 2)}

MCMovers == Slicers \cup Comparers \cup Tilers \cup Gatherers \cup Shufflers \cup Splitters \cup Expanders
  \cup ArgMovers \cup TopKs \cup Selectors \cup Lookups \cup Reshapers \cup Reducers \cup BlockMovers
  \cup StridedSlicers \cup Convolvers \cup Groupers \cup Transposers
=============================================================================
