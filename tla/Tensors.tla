------------------------------- MODULE Tensors -------------------------------
(*****************************************************************************)
(* The operations that move elements: what prepare computes the extents of   *)
(* their outputs to be, and what the loops of the kernels put where.         *)
(*                                                                           *)
(* A mover is an operation with what is in its operands.  An element of an   *)
(* input is its position in the buffer, from 0, so that what is written says *)
(* where it comes from; only where values decide, or are summed, they are    *)
(* numbers.  What a kernel does is the set of its writes << position, value >>,*)
(* for each output.                                                          *)
(*                                                                           *)
(* The kernels of "pad", the blocks, "strided_slice", "mean", "reduce", "conv",*)
(* "depthwise" and "pool" are TensorFlow Lite's: of these only the extents are*)
(* here.  Types, scales and zero points are left out, which HalModel has.    *)
(*****************************************************************************)
EXTENDS Integers, Sequences, SequencesExt, FiniteSets

CONSTANT Movers          \* the operations, with what is in their operands

VARIABLES
  mover,               \* the operation, NoMover if there is none
  extents,             \* the dimensions of its outputs
  index,               \* curIndex of the kernels with an IndexedShapeWrapper
  writes,              \* for each output, what was written where
  moving               \* "prepare", "move", "done", "failed" or "refused"

tensorVars == << mover, extents, index, writes, moving >>

NoMover == [op |-> "none"]
Refused == << >>

-----------------------------------------------------------------------------
(* Shapes.                                                                  *)
Product(dims) == FoldLeft(LAMBDA count, d : count * d, 1, dims)
(* firstAxisInclusive and lastAxisExclusive count from 0.                     *)
NumberOfElements(dims, first, last) == Product(SubSeq(dims, first + 1, last))
Outer(dims, axis) == NumberOfElements(dims, 0, axis)
Inner(dims, axis) == NumberOfElements(dims, axis + 1, Len(dims))
UpTo(n) == 0 .. n - 1

HasAxis(rank, axis) == -rank <= axis /\ axis < rank
Axis(rank, axis) == IF axis < 0 THEN axis + rank ELSE axis
WithoutAxes(dims, axes) ==
  LET kept == SelectSeq([i \in DOMAIN dims |-> i], LAMBDA i : i - 1 \notin axes)
  IN [k \in DOMAIN kept |-> dims[kept[k]]]

SameSize(dims, others) == Len(dims) = Len(others)

(* Dividends are not negative; a transposed convolution fits its tail to the end *)
(* of the last stride.                                                       *)
EffectiveFilter(w) == (w.filter - 1) * w.dilation + 1
(* Without the tail that ends with the last stride, which may be negative.      *)
PaddingsNotTight(w, transposed) ==
  LET needed == ((w.size + w.stride - 1) \div w.stride - 1) * w.stride + EffectiveFilter(w)
      both == IF w.padding = "SAME" /\ needed > w.size THEN needed - w.size ELSE 0
  IN IF w.padding = "EXPLICIT" THEN w.explicit ELSE << both \div 2, both - both \div 2 >>
Paddings(w, transposed) ==
  LET out == (w.size + w.stride - 1) \div w.stride
      needed == (out - 1) * w.stride + EffectiveFilter(w)
      head == IF needed > w.size THEN (needed - w.size) \div 2 ELSE 0
  IN CASE w.padding = "VALID" -> << 0, 0 >>
       [] w.padding = "SAME" ->
            << head, IF needed > w.size \/ transposed THEN needed - w.size - head ELSE 0 >>
       [] OTHER -> w.explicit

OutSize(w) ==
  LET padding == Paddings(w, FALSE)
  IN (w.size - EffectiveFilter(w) + w.stride + padding[1] + padding[2]) \div w.stride
(* The padding is computed from the size that is wanted.                       *)
OutSizeTransposeConv(w, wanted) ==
  LET padding == Paddings([w EXCEPT !.size = wanted], TRUE)
  IN w.size * w.stride + w.filter - w.stride - padding[1] - padding[2]

PaddingFits(w) ==
  LET padding == Paddings(w, FALSE)
  IN EffectiveFilter(w) > padding[1] /\ EffectiveFilter(w) > padding[2]
(* What initialize of CONV_2D's and the poolings' parameters asks.               *)
ParamFits(w) ==
  LET padding == Paddings(w, FALSE)
  IN padding[1] >= 0 /\ padding[2] >= 0 /\ w.stride > 0 /\ w.dilation > 0 /\ w.filter > 0

InLayout(m, channels, height, width) ==
  IF m.nchw THEN << m.batches, channels, height, width >> ELSE << m.batches, height, width, channels >>

-----------------------------------------------------------------------------
(* What prepare makes of the operands: the extents of each output, or Refused.  *)
WindowsFit(m) == PaddingFits(m.height) /\ PaddingFits(m.width)
ParamsFit(m) == ParamFits(m.height) /\ ParamFits(m.width)
Windowed(m, channels) == << InLayout(m, channels, OutSize(m.height), OutSize(m.width)) >>

ConvExtents(m) ==
  IF /\ m.channels = m.filterDepth /\ m.out = m.bias
     /\ \A n \in {m.height.size, m.width.size, m.channels, m.out} : n > 0
     /\ ParamsFit(m) /\ WindowsFit(m)
  THEN Windowed(m, m.out) ELSE Refused

DepthwiseExtents(m) ==
  IF m.out = m.bias /\ m.multiplier * m.channels = m.out /\ WindowsFit(m)
  THEN Windowed(m, m.out) ELSE Refused

GroupedExtents(m) ==
  IF /\ m.out = m.bias /\ m.filterDepth * m.groups = m.channels /\ m.out % m.groups = 0
     /\ WindowsFit(m)
  THEN Windowed(m, m.out) ELSE Refused

PoolExtents(m) ==
  IF /\ \A n \in {m.height.size, m.width.size, m.channels} : n > 0
     /\ ParamsFit(m) /\ WindowsFit(m)
  THEN Windowed(m, m.channels) ELSE Refused

TransposeConvExtents(m) ==
  LET height == OutSizeTransposeConv(m.height, m.wanted[1])
      width == OutSizeTransposeConv(m.width, m.wanted[2])
  IN IF /\ m.channels = m.filterDepth /\ m.out = m.bias
        /\ \A w \in {m.height, m.width} :
             w.stride > 0 /\ w.filter > 0 /\ (w.padding = "EXPLICIT" => w.explicit[1] >= 0)
        /\ \A n \in {m.height.size, m.width.size, m.channels, m.out, height, width} : n > 0
     THEN << InLayout(m, m.out, height, width) >> ELSE Refused

BroadcastExtents(in1, in2) ==
  LET rank == IF Len(in1) > Len(in2) THEN Len(in1) ELSE Len(in2)
      dim(in, i) == IF i <= Len(in) THEN in[Len(in) + 1 - i] ELSE 1
      fits(i) == dim(in1, i) = dim(in2, i) \/ dim(in1, i) = 1 \/ dim(in2, i) = 1
  IN IF \A i \in 1 .. rank : fits(i)
     THEN << [k \in 1 .. rank |-> LET i == rank + 1 - k IN IF dim(in1, i) = 1 THEN dim(in2, i) ELSE dim(in1, i)] >>
     ELSE Refused

(* The -1 of targetDims takes what is left, of a division that may lose some.   *)
ReshapeExtents(m) ==
  LET stretch == {i \in DOMAIN m.target : m.target[i] = -1}
      value == Product(m.dims) \div Product(SelectSeq(m.target, LAMBDA d : d # -1))
      out == [i \in DOMAIN m.target |-> IF i \in stretch THEN value ELSE m.target[i]]
  IN IF (\A i, j \in stretch : i = j) /\ Product(m.dims) = Product(out) THEN << out >> ELSE Refused

DepthToSpaceExtents(dims, b) ==
  IF Len(dims) = 4 /\ b > 0 /\ dims[4] % (b * b) = 0
  THEN << << dims[1], dims[2] * b, dims[3] * b, dims[4] \div (b * b) >> >> ELSE Refused
SpaceToDepthExtents(dims, b) ==
  IF Len(dims) = 4 /\ b > 0 /\ dims[2] % b = 0 /\ dims[3] % b = 0
  THEN << << dims[1], dims[2] \div b, dims[3] \div b, dims[4] * (b * b) >> >> ELSE Refused

BatchToSpaceExtents(dims, block) ==
  IF Len(dims) = 4 /\ Len(block) = 2 /\ dims[1] % (block[1] * block[2]) = 0
  THEN << << dims[1] \div (block[1] * block[2]), dims[2] * block[1], dims[3] * block[2], dims[4] >> >>
  ELSE Refused
SpaceToBatchExtents(dims, block, paddings) ==
  LET height == paddings[1][1] + dims[2] + paddings[1][2]
      width == paddings[2][1] + dims[3] + paddings[2][2]
  IN IF /\ Len(dims) = 4 /\ Len(block) = 2 /\ Len(paddings) = 2
        /\ height % block[1] = 0 /\ width % block[2] = 0
     THEN << << dims[1] * (block[1] * block[2]), height \div block[1], width \div block[2], dims[4] >> >>
     ELSE Refused

PadExtents(m) ==
  IF SameSize(m.dims, m.paddings) /\ \A i \in DOMAIN m.dims : m.paddings[i][1] >= 0 /\ m.paddings[i][2] >= 0
  THEN << [i \in DOMAIN m.dims |-> m.paddings[i][1] + m.dims[i] + m.paddings[i][2]] >> ELSE Refused

SqueezeExtents(m) ==
  LET rank == Len(m.dims)
      axes == IF m.axes = << >> THEN {a \in UpTo(rank) : m.dims[a + 1] = 1}
              ELSE {Axis(rank, m.axes[k]) : k \in DOMAIN m.axes}
  IN IF axes \subseteq UpTo(rank) /\ \A a \in axes : m.dims[a + 1] = 1
     THEN << WithoutAxes(m.dims, axes) >> ELSE Refused

(* With keepDims, what is no axis is passed over.                             *)
MeanExtents(m) ==
  LET rank == Len(m.dims)
      axes == {Axis(rank, m.axes[k]) : k \in DOMAIN m.axes}
  IN IF m.keepDims THEN << [i \in DOMAIN m.dims |-> IF i - 1 \in axes THEN 1 ELSE m.dims[i]] >>
     ELSE IF axes \subseteq UpTo(rank) THEN << WithoutAxes(m.dims, axes) >> ELSE Refused
ReduceExtents(m) ==
  IF \A k \in DOMAIN m.axes : HasAxis(Len(m.dims), m.axes[k]) THEN MeanExtents(m) ELSE Refused

PositiveRemainder(dividend, divisor) == dividend % divisor
ClampedIndex(i, dim, forward) ==
  LET between(low, high) == IF i < low THEN low ELSE IF i > high THEN high ELSE i
  IN IF forward
     THEN IF i >= dim THEN dim ELSE PositiveRemainder(between(-dim, dim), dim)
     ELSE IF i < -dim THEN -1 ELSE PositiveRemainder(between(-dim, dim - 1), dim)

(* The distance, divided by the stride and rounded up.                         *)
StridedDim(m, i) ==
  LET dim == m.dims[i]
      forward == m.strides[i] > 0
      begin == IF i \in m.beginMask THEN IF forward THEN 0 ELSE dim - 1
               ELSE ClampedIndex(m.begin[i], dim, forward)
      end == IF i \in m.endMask THEN IF forward THEN dim ELSE -1
             ELSE ClampedIndex(m.end[i], dim, forward)
      distance == IF forward THEN end - begin ELSE begin - end
      step == IF forward THEN m.strides[i] ELSE -m.strides[i]
  IN IF distance < 0 THEN 0 ELSE (distance + step - 1) \div step

StridedSliceExtents(m) ==
  IF /\ Len(m.dims) <= 4 /\ SameSize(m.dims, m.begin) /\ SameSize(m.dims, m.end) /\ SameSize(m.dims, m.strides)
     /\ \A i \in DOMAIN m.dims : m.strides[i] # 0
     /\ \A i \in m.shrinkMask : StridedDim(m, i) = 1
  THEN << WithoutAxes([i \in DOMAIN m.dims |-> StridedDim(m, i)], {i - 1 : i \in m.shrinkMask}) >>
  ELSE Refused

(* beginData is compared as unsigned.                                         *)
SliceSize(m, i) == IF m.size[i] = -1 THEN m.dims[i] - m.begin[i] ELSE m.size[i]
SliceExtents(m) ==
  IF /\ m.dims # << >> /\ SameSize(m.dims, m.begin) /\ SameSize(m.dims, m.size)
     /\ \A i \in DOMAIN m.dims :
          /\ m.begin[i] \in 0 .. m.dims[i] /\ SliceSize(m, i) >= 0
          /\ m.begin[i] + SliceSize(m, i) <= m.dims[i]
  THEN << [i \in DOMAIN m.dims |-> SliceSize(m, i)] >> ELSE Refused

TileExtents(m) == << [i \in DOMAIN m.dims |-> m.dims[i] * m.multiples[i]] >>

ExpandDimsExtents(m) ==
  IF HasAxis(Len(m.dims) + 1, m.axis)
  THEN << InsertAt(m.dims, Axis(Len(m.dims) + 1, m.axis) + 1, 1) >> ELSE Refused

GatherExtents(m) ==
  LET axis == Axis(Len(m.dims), m.axis)
  IN IF HasAxis(Len(m.dims), m.axis)
     THEN << SubSeq(m.dims, 1, axis) \o m.indexDims \o SubSeq(m.dims, axis + 2, Len(m.dims)) >>
     ELSE Refused

ChannelShuffleExtents(m) ==
  IF /\ HasAxis(Len(m.dims), m.axis) /\ m.groups > 0
     /\ m.dims[Axis(Len(m.dims), m.axis) + 1] % m.groups = 0
  THEN << m.dims >> ELSE Refused

SplitExtents(m) ==
  LET axis == Axis(Len(m.dims), m.axis) + 1
  IN IF HasAxis(Len(m.dims), m.axis) /\ m.dims[axis] % m.numOutputs = 0
     THEN [k \in 1 .. m.numOutputs |-> [m.dims EXCEPT ![axis] = m.dims[axis] \div m.numOutputs]]
     ELSE Refused

ArgMinMaxExtents(m) ==
  IF HasAxis(Len(m.dims), m.axis) THEN << WithoutAxes(m.dims, {Axis(Len(m.dims), m.axis)}) >> ELSE Refused

TopKExtents(m) ==
  IF 0 < m.k /\ m.k <= Last(m.dims) THEN [o \in 1 .. 2 |-> ReplaceAt(m.dims, Len(m.dims), m.k)] ELSE Refused

SelectExtents(m) == IF m.condition = m.dims /\ m.dims = m.other THEN << m.dims >> ELSE Refused

EmbeddingExtents(m) ==
  IF Len(m.dims) >= 2 THEN << << Len(m.lookups) >> \o Tail(m.dims) >> ELSE Refused
HashtableExtents(m) ==
  IF Len(m.dims) >= 1 THEN << << Len(m.lookups) >> \o Tail(m.dims), << Len(m.lookups) >> >> ELSE Refused

Extents(m) ==
  CASE m.op = "conv" -> ConvExtents(m)
    [] m.op = "depthwise" -> DepthwiseExtents(m)
    [] m.op = "grouped" -> GroupedExtents(m)
    [] m.op = "pool" -> PoolExtents(m)
    [] m.op = "transpose_conv" -> TransposeConvExtents(m)
    [] m.op = "comparison" -> BroadcastExtents(m.dims, m.other)
    [] m.op = "reshape" -> ReshapeExtents(m)
    [] m.op = "depth_to_space" -> DepthToSpaceExtents(m.dims, m.block)
    [] m.op = "space_to_depth" -> SpaceToDepthExtents(m.dims, m.block)
    [] m.op = "batch_to_space" -> BatchToSpaceExtents(m.dims, m.blocks)
    [] m.op = "space_to_batch" -> SpaceToBatchExtents(m.dims, m.blocks, m.paddings)
    [] m.op = "pad" -> PadExtents(m)
    [] m.op = "squeeze" -> SqueezeExtents(m)
    [] m.op = "mean" -> MeanExtents(m)
    [] m.op = "reduce" -> ReduceExtents(m)
    [] m.op = "strided_slice" -> StridedSliceExtents(m)
    [] m.op = "slice" -> SliceExtents(m)
    [] m.op = "tile" -> TileExtents(m)
    [] m.op = "expand_dims" -> ExpandDimsExtents(m)
    [] m.op = "gather" -> GatherExtents(m)
    [] m.op = "channel_shuffle" -> ChannelShuffleExtents(m)
    [] m.op = "split" -> SplitExtents(m)
    [] m.op = "arg" -> ArgMinMaxExtents(m)
    [] m.op = "topk" -> TopKExtents(m)
    [] m.op = "select" -> SelectExtents(m)
    [] m.op = "embedding" -> EmbeddingExtents(m)
    [] m.op = "hashtable" -> HashtableExtents(m)

-----------------------------------------------------------------------------
(* The kernels.                                                             *)
Copied(m) == << {<< n, n >> : n \in UpTo(Product(m.dims))} >>

GatherMoves(m) ==
  LET axis == Axis(Len(m.dims), m.axis)
      count == Len(m.indices)
      inner == Inner(m.dims, axis)
  IN << { << (outer * count + n) * inner + e, (outer * m.dims[axis + 1] + m.indices[n + 1]) * inner + e >>
          : outer \in UpTo(Outer(m.dims, axis)), n \in UpTo(count), e \in UpTo(inner) } >>

(* outputBase goes on by innerSize with each element.                          *)
ChannelShuffleMoves(m) ==
  LET axis == Axis(Len(m.dims), m.axis)
      inner == Inner(m.dims, axis)
      groupSize == m.dims[axis + 1] \div m.groups
      base(outer, e) == outer * m.dims[axis + 1] * inner + e
  IN << { << base(outer, e) + inner * (i * m.groups + j), base(outer, e) + inner * (i + j * groupSize) >>
          : outer \in UpTo(Outer(m.dims, axis)), e \in UpTo(inner), i \in UpTo(groupSize), j \in UpTo(m.groups) } >>

(* inputPtr goes on by copySize with each copy.                                *)
SplitMoves(m, sizes) ==
  LET axis == Axis(Len(m.dims), m.axis)
      copySize(o) == sizes[o][axis + 1] * Inner(m.dims, axis)
      before(o) == FoldLeft(LAMBDA sum, k : sum + copySize(k), 0, [k \in 1 .. o |-> k])
      inputPtr(k, o) == k * before(m.numOutputs) + before(o - 1)
  IN [o \in 1 .. m.numOutputs |->
       { << k * copySize(o) + e, inputPtr(k, o) + e >> : k \in UpTo(Outer(m.dims, axis)), e \in UpTo(copySize(o)) }]

CopyMultipleTimes(block, multiplier) == FlattenSeq([n \in 1 .. multiplier |-> block])
RECURSIVE TileOneDimension(_, _, _)
TileOneDimension(m, dimension, from) ==
  LET stride == Product(SubSeq(m.dims, dimension + 1, Len(m.dims)))
      tiled == IF dimension = Len(m.dims) THEN [i \in 1 .. m.dims[dimension] |-> from + i - 1]
               ELSE FlattenSeq([i \in 1 .. m.dims[dimension] |->
                                 TileOneDimension(m, dimension + 1, from + (i - 1) * stride)])
  IN CopyMultipleTimes(tiled, m.multiples[dimension])
TileMoves(m) ==
  LET tiled == TileOneDimension(m, 1, 0) IN << {<< n, tiled[n + 1] >> : n \in UpTo(Len(tiled))} >>

ArgMinMaxMoves(m) ==
  LET axis == Axis(Len(m.dims), m.axis)
      axisSize == m.dims[axis + 1]
      inner == Inner(m.dims, axis)
      value(outer, e, i) == m.data[(outer * axisSize + i) * inner + e + 1]
      better(v, w) == IF m.isArgMin THEN v < w ELSE v > w
      found(outer, e) ==
        FoldLeft(LAMBDA best, i : IF better(value(outer, e, i), value(outer, e, best)) THEN i ELSE best,
                 0, [i \in 1 .. axisSize - 1 |-> i])
  IN << {<< outer * inner + e, found(outer, e) >> : outer \in UpTo(Outer(m.dims, axis)), e \in UpTo(inner)} >>

(* Pairs of a value and its index, the greatest first.                          *)
TopKMoves(m) ==
  LET rowSize == Last(m.dims)
      above(p, q) == p[1] > q[1] \/ (p[1] = q[1] /\ p[2] > q[2])
      values(row) == SortSeq([i \in 1 .. rowSize |-> << m.data[row * rowSize + i], i - 1 >>], above)
      rows == UpTo(Product(m.dims) \div rowSize)
  IN [o \in 1 .. 2 |-> {<< row * m.k + i - 1, values(row)[i][o] >> : row \in rows, i \in 1 .. m.k}]

SelectMoves(m) ==
  << {<< n, IF m.chosen[n + 1] THEN << 1, n >> ELSE << 2, n >> >> : n \in UpTo(Product(m.dims))} >>

EmbeddingMoves(m) ==
  LET row == Product(m.dims) \div m.dims[1]
  IN << {<< i * row + e, m.lookups[i + 1] * row + e >> : i \in UpTo(Len(m.lookups)), e \in UpTo(row)} >>

(* bsearch finds any key that is equal; -1 stands for a zero.                    *)
HashtableMoves(m) ==
  LET row == Product(m.dims) \div m.dims[1]
      found(i) == {n \in UpTo(m.dims[1]) : m.keys[n + 1] = m.lookups[i + 1]}
      lookups == UpTo(Len(m.lookups))
  IN << UNION { {<< i * row + e, IF found(i) = {} THEN -1 ELSE Max(found(i)) * row + e >> : e \in UpTo(row)} : i \in lookups},
        {<< i, IF found(i) = {} THEN 0 ELSE 1 >> : i \in lookups} >>

(* The convolutions are NHWC.  An iteration of their inner loops.               *)
Inside(n, size) == 0 <= n /\ n < size
GroupedMoves(m, out) ==
  LET fh == m.height.filter   fw == m.width.filter   fd == m.filterDepth
      groupDepth == m.out \div m.groups
      hInput(h, i) == h * m.height.stride - Paddings(m.height, FALSE)[1] + i
      wInput(w, j) == w * m.width.stride - Paddings(m.width, FALSE)[1] + j
      term(b, h, w, c, x) ==
        IF Inside(hInput(h, x[1]), m.height.size) /\ Inside(wInput(w, x[2]), m.width.size)
        THEN LET at == hInput(h, x[1]) * m.width.size * m.channels + wInput(w, x[2]) * m.channels
                         + fd * (c \div groupDepth) + x[3]
             IN m.filters[c * fh * fw * fd + x[1] * fw * fd + x[2] * fd + x[3] + 1]
                  * m.data[b * m.height.size * m.width.size * m.channels + at + 1]
        ELSE 0
      sum(b, h, w, c) ==
        MapThenSumSet(LAMBDA x : term(b, h, w, c, x), UpTo(fh) \X UpTo(fw) \X UpTo(fd)) + m.biases[c + 1]
  IN << { << ((b * out[2] + h) * out[3] + w) * m.out + c, sum(b, h, w, c) >>
          : b \in UpTo(m.batches), h \in UpTo(out[2]), w \in UpTo(out[3]), c \in UpTo(m.out) } >>

(* Each input element is spread over the outputs its filter covers.             *)
TransposeConvMoves(m, out) ==
  LET fh == m.height.filter   fw == m.width.filter
      hOutput(x) == x.h * m.height.stride - Paddings([m.height EXCEPT !.size = m.wanted[1]], TRUE)[1] + x.i
      wOutput(x) == x.w * m.width.stride - Paddings([m.width EXCEPT !.size = m.wanted[2]], TRUE)[1] + x.j
      iterations ==
        { x \in [b : UpTo(m.batches), h : UpTo(m.height.size), w : UpTo(m.width.size), k : UpTo(m.out),
                 i : UpTo(fh), j : UpTo(fw), d : UpTo(m.channels)] :
            Inside(hOutput(x), out[2]) /\ Inside(wOutput(x), out[3]) }
      at(x) == x.b * out[2] * out[3] * m.out + hOutput(x) * out[3] * m.out + wOutput(x) * m.out + x.k
      term(x) == m.data[((x.b * m.height.size + x.h) * m.width.size + x.w) * m.channels + x.d + 1]
                   * m.filters[((x.k * fh + x.i) * fw + x.j) * m.channels + x.d + 1]
      sum(n) == MapThenSumSet(term, {x \in iterations : at(x) = n}) + m.biases[(n % m.out) + 1]
  IN << {<< n, sum(n) >> : n \in UpTo(Product(out))} >>

(* An index that is not of the input ends the kernel.                          *)
IndicesFit(m) ==
  /\ m.op = "gather" => \A n \in DOMAIN m.indices : Inside(m.indices[n], m.dims[Axis(Len(m.dims), m.axis) + 1])
  /\ m.op = "embedding" => \A n \in DOMAIN m.lookups : Inside(m.lookups[n], m.dims[1])

Copying == {"reshape", "squeeze", "expand_dims"}
Moving == {"gather", "channel_shuffle", "split", "tile", "arg", "topk", "select", "embedding", "hashtable",
           "grouped", "transpose_conv"}
Indexed == {"slice", "comparison"}

Moves(m, outs) ==
  CASE m.op \in Copying -> Copied(m)
    [] m.op = "gather" -> GatherMoves(m)
    [] m.op = "channel_shuffle" -> ChannelShuffleMoves(m)
    [] m.op = "split" -> SplitMoves(m, outs)
    [] m.op = "tile" -> TileMoves(m)
    [] m.op = "arg" -> ArgMinMaxMoves(m)
    [] m.op = "topk" -> TopKMoves(m)
    [] m.op = "select" -> SelectMoves(m)
    [] m.op = "embedding" -> EmbeddingMoves(m)
    [] m.op = "hashtable" -> HashtableMoves(m)
    [] m.op = "grouped" -> GroupedMoves(m, outs[1])
    [] m.op = "transpose_conv" -> TransposeConvMoves(m, outs[1])
    [] OTHER -> [o \in DOMAIN outs |-> {}]

-----------------------------------------------------------------------------
(* IndexedShapeWrapper.                                                     *)
Strides(dims) == [i \in DOMAIN dims |-> Product(SubSeq(dims, i + 1, Len(dims)))]
indexToFlatIndex(dims, at) ==
  FoldLeft(LAMBDA sum, i : sum + Strides(dims)[i] * at[i], 0, [i \in DOMAIN dims |-> i])
(* Of the last dimensions of at, those along which dims does not repeat.         *)
broadcastedIndexToFlatIndex(dims, at) ==
  LET skipped == Len(at) - Len(dims)
  IN FoldLeft(LAMBDA sum, i : IF dims[i] = 1 THEN sum ELSE sum + Strides(dims)[i] * at[i + skipped],
              0, [i \in DOMAIN dims |-> i])

IsLastIndex(dims, at) == \A i \in DOMAIN dims : at[i] >= dims[i] - 1
nextIndex(dims, at) ==
  LET carried == {i \in DOMAIN dims : \A j \in i + 1 .. Len(dims) : at[j] + 1 = dims[j]}
  IN [i \in DOMAIN dims |-> IF i \notin carried THEN at[i] ELSE IF at[i] + 1 = dims[i] THEN 0 ELSE at[i] + 1]

Source(m, at) ==
  IF m.op = "slice" THEN indexToFlatIndex(m.dims, [i \in DOMAIN at |-> at[i] + m.begin[i]])
  ELSE << broadcastedIndexToFlatIndex(m.dims, at), broadcastedIndexToFlatIndex(m.other, at) >>

-----------------------------------------------------------------------------
PrepareMover ==
  /\ mover # NoMover /\ moving = "prepare"
  /\ extents' = Extents(mover)
  /\ moving' = IF extents' = Refused THEN "refused" ELSE "move"
  /\ index' = IF mover.op \in Indexed /\ extents' # Refused THEN [i \in DOMAIN extents'[1] |-> 0] ELSE << >>
  /\ writes' = [o \in DOMAIN extents' |-> {}]
  /\ UNCHANGED mover

Move ==
  /\ moving = "move" /\ mover.op \notin Indexed
  /\ moving' = IF IndicesFit(mover) THEN "done" ELSE "failed"
  /\ writes' = IF IndicesFit(mover) THEN Moves(mover, extents) ELSE writes
  /\ UNCHANGED << mover, extents, index >>

(* Only SLICE can have an output without elements.                             *)
MoveOne ==
  /\ moving = "move" /\ mover.op \in Indexed /\ Product(extents[1]) # 0
  /\ writes' = << writes[1] \cup {<< indexToFlatIndex(extents[1], index), Source(mover, index) >>} >>
  /\ moving' = IF IsLastIndex(extents[1], index) THEN "done" ELSE "move"
  /\ index' = IF IsLastIndex(extents[1], index) THEN index ELSE nextIndex(extents[1], index)
  /\ UNCHANGED << mover, extents >>

MoveNone ==
  /\ moving = "move" /\ mover.op \in Indexed /\ Product(extents[1]) = 0
  /\ moving' = "done"
  /\ UNCHANGED << mover, extents, index, writes >>

TensorInit(m) ==
  /\ mover = m /\ moving = "prepare" /\ extents = << >> /\ index = << >> /\ writes = << >>
TensorNext == PrepareMover \/ Move \/ MoveOne \/ MoveNone

-----------------------------------------------------------------------------
(* What the operations are defined to do, by coordinates.                       *)
Coordinates(dims) ==
  {c \in [DOMAIN dims -> UpTo(Max({1} \cup ToSet(dims)))] : \A i \in DOMAIN dims : c[i] < dims[i]}
Position(dims, c) == FoldLeft(LAMBDA n, i : n * dims[i] + c[i], 0, [i \in DOMAIN dims |-> i])
Repeated(dims, c) ==
  Position(dims, [i \in DOMAIN dims |-> IF dims[i] = 1 THEN 0 ELSE c[Len(c) - Len(dims) + i]])

Place(m) == Axis(Len(m.dims), m.axis) + 1
Along(m, c) == LET full == InsertAt(c, Place(m), 0)
               IN [i \in UpTo(m.dims[Place(m)]) |-> m.data[Position(m.dims, [full EXCEPT ![Place(m)] = i]) + 1]]
BestIndex(m, values) ==
  Min({i \in DOMAIN values : \A j \in DOMAIN values :
         IF m.isArgMin THEN values[i] <= values[j] ELSE values[i] >= values[j]})

InputAt(m, c) == m.data[Position(<< m.batches, m.height.size, m.width.size, m.channels >>, c) + 1]
FilterAt(m, c) == m.filters[Position(<< m.out, m.height.filter, m.width.filter, m.filterDepth >>, c) + 1]
HasPixel(m, y, x) == Inside(y, m.height.size) /\ Inside(x, m.width.size)

DefinedGrouped(m, c) ==
  LET group == c[4] \div (m.out \div m.groups)
      y(i) == c[2] * m.height.stride + i - Paddings(m.height, FALSE)[1]
      x(j) == c[3] * m.width.stride + j - Paddings(m.width, FALSE)[1]
      seen == {s \in UpTo(m.height.filter) \X UpTo(m.width.filter) \X UpTo(m.filterDepth) : HasPixel(m, y(s[1]), x(s[2]))}
  IN MapThenSumSet(LAMBDA s : InputAt(m, << c[1], y(s[1]), x(s[2]), group * m.filterDepth + s[3] >>)
                                * FilterAt(m, << c[4], s[1], s[2], s[3] >>), seen) + m.biases[c[4] + 1]

DefinedTransposeConv(m, c) ==
  LET i(y) == c[2] + Paddings([m.height EXCEPT !.size = m.wanted[1]], TRUE)[1] - y * m.height.stride
      j(x) == c[3] + Paddings([m.width EXCEPT !.size = m.wanted[2]], TRUE)[1] - x * m.width.stride
      seen == {s \in UpTo(m.height.size) \X UpTo(m.width.size) \X UpTo(m.channels) :
                 Inside(i(s[1]), m.height.filter) /\ Inside(j(s[2]), m.width.filter)}
  IN MapThenSumSet(LAMBDA s : InputAt(m, << c[1], s[1], s[2], s[3] >>)
                                * FilterAt(m, << c[4], i(s[1]), j(s[2]), s[3] >>), seen) + m.biases[c[4] + 1]

DefinedFrom(m, o, out, c) ==
  CASE m.op = "slice" -> Position(m.dims, [i \in DOMAIN c |-> c[i] + m.begin[i]])
    [] m.op = "tile" -> Position(m.dims, [i \in DOMAIN c |-> c[i] % m.dims[i]])
    [] m.op = "comparison" -> << Repeated(m.dims, c), Repeated(m.other, c) >>
    [] m.op = "select" -> LET n == Position(m.dims, c) IN IF m.chosen[n + 1] THEN << 1, n >> ELSE << 2, n >>
    [] m.op = "gather" ->
         LET from == Place(m)   to == Place(m) + Len(m.indexDims) - 1
             which == Position(m.indexDims, SubSeq(c, from, to))
         IN Position(m.dims, SubSeq(c, 1, from - 1) \o << m.indices[which + 1] >> \o SubSeq(c, to + 1, Len(c)))
    [] m.op = "channel_shuffle" ->
         Position(m.dims, [c EXCEPT ![Place(m)] = (@ % m.groups) * (m.dims[Place(m)] \div m.groups) + @ \div m.groups])
    [] m.op = "split" -> Position(m.dims, [c EXCEPT ![Place(m)] = @ + (o - 1) * (m.dims[Place(m)] \div m.numOutputs)])
    [] m.op = "embedding" -> Position(m.dims, << m.lookups[c[1] + 1] >> \o Tail(c))
    [] m.op = "hashtable" ->
         LET hits == {k \in DOMAIN m.keys : m.keys[k] = m.lookups[c[1] + 1]}
         IN IF o = 2 THEN Cardinality(hits)
            ELSE IF hits = {} THEN -1 ELSE Position(m.dims, << Min(hits) - 1 >> \o Tail(c))
    [] m.op = "arg" -> BestIndex(m, Along(m, c))
    [] m.op = "grouped" -> DefinedGrouped(m, c)
    [] m.op = "transpose_conv" -> DefinedTransposeConv(m, c)
    [] OTHER -> Position(out, c)

(* The greatest values of each row, each from where its index says.              *)
AreTop(m, values, indices) ==
  LET at(written, c) == (CHOOSE w \in written : w[1] = c)[2]
      row(r) == [i \in UpTo(Last(m.dims)) |-> m.data[r * Last(m.dims) + i + 1]]
  IN /\ Cardinality(values) = Product(extents[1]) /\ Cardinality(indices) = Product(extents[1])
     /\ \A r \in UpTo(Product(Front(m.dims))) :
          LET from(k) == at(indices, r * m.k + k)
              taken == {from(k) : k \in UpTo(m.k)}
          IN /\ \A k \in UpTo(m.k) : at(values, r * m.k + k) = row(r)[from(k)]
             /\ Cardinality(taken) = m.k
             /\ \A k \in UpTo(m.k) : \A i \in UpTo(Last(m.dims)) :
                  row(r)[i] > row(r)[from(k)] => \E j \in UpTo(k) : from(j) = i

(* How often a window fits into what is padded.  SAME is as many as strides begin.   *)
Windows(w) ==
  IF w.padding = "SAME" THEN (w.size + w.stride - 1) \div w.stride
  ELSE LET padded == Paddings(w, FALSE)[1] + w.size + Paddings(w, FALSE)[2]
       IN Cardinality({n \in UpTo(padded) : n * w.stride + EffectiveFilter(w) <= padded})
(* Of what spreads over the wanted size, all of it.                            *)
SpreadsOver(w, wanted, size) ==
  /\ w.padding = "SAME" /\ w.size = (wanted + w.stride - 1) \div w.stride => size = wanted
  /\ w.padding = "VALID" => size = (w.size - 1) * w.stride + w.filter

(* The elements that a slice of Python's has.                                  *)
Selected(m, i) ==
  LET dim == m.dims[i]
      forward == m.strides[i] > 0
      low == IF forward THEN 0 ELSE -1
      clipped(n) == Max({low, Min({low + dim, IF n < 0 THEN n + dim ELSE n})})
      begin == IF i \in m.beginMask THEN IF forward THEN 0 ELSE dim - 1 ELSE clipped(m.begin[i])
      end == IF i \in m.endMask THEN IF forward THEN dim ELSE -1 ELSE clipped(m.end[i])
  IN IF forward THEN {n \in begin .. end - 1 : (n - begin) % m.strides[i] = 0}
     ELSE {n \in end + 1 .. begin : (begin - n) % (-m.strides[i]) = 0}

IsAxis(m, a) == \E k \in DOMAIN m.axes : m.axes[k] \in {a, a - Len(m.dims)}
Reduced(m, out) ==
  LET axes == {a \in UpTo(Len(m.dims)) : IsAxis(m, a)}
      sizes == [i \in DOMAIN m.dims |-> IF i - 1 \in axes THEN 1 ELSE m.dims[i]]
  IN IF m.keepDims THEN out = sizes
     ELSE Len(out) = Len(m.dims) - Cardinality(axes) /\ Product(out) = Product(sizes)

Spatial(m, out) == IF m.nchw THEN << out[3], out[4] >> ELSE << out[2], out[3] >>
NoPadding == << << 0, 0 >>, << 0, 0 >> >>
Padded(m) == << m.dims[1], m.dims[2] + m.paddings[1][1] + m.paddings[1][2],
                m.dims[3] + m.paddings[2][1] + m.paddings[2][2], m.dims[4] >>

(* What moves blocks is undone by what moves them back; what is padded, cut off. *)
DefinedExtents(m, out) ==
  CASE m.op \in {"conv", "depthwise", "grouped", "pool"} -> Spatial(m, out) = << Windows(m.height), Windows(m.width) >>
    [] m.op = "transpose_conv" -> /\ SpreadsOver(m.height, m.wanted[1], Spatial(m, out)[1])
                                  /\ SpreadsOver(m.width, m.wanted[2], Spatial(m, out)[2])
    [] m.op \in Copying -> Product(out) = Product(m.dims)
    [] m.op = "depth_to_space" -> SpaceToDepthExtents(out, m.block) = << m.dims >>
    [] m.op = "space_to_depth" -> DepthToSpaceExtents(out, m.block) = << m.dims >>
    [] m.op = "batch_to_space" -> SpaceToBatchExtents(out, m.blocks, NoPadding) = << m.dims >>
    [] m.op = "space_to_batch" -> BatchToSpaceExtents(out, m.blocks) = << Padded(m) >>
    [] m.op = "pad" ->
         SliceExtents([dims |-> out, begin |-> [i \in DOMAIN out |-> m.paddings[i][1]], size |-> m.dims]) = << m.dims >>
    [] m.op \in {"mean", "reduce"} -> Reduced(m, out)
    [] m.op = "strided_slice" ->
         out = WithoutAxes([i \in DOMAIN m.dims |-> Cardinality(Selected(m, i))], {i - 1 : i \in m.shrinkMask})
    [] OTHER -> TRUE

(* An operation that runs to its end has, for each output, the extents its      *)
(* definition gives to it, and wrote each element of it once, from the elements   *)
(* that the definition names, wherever the loops, strides and paddings put them:   *)
(* nothing is read or written beside the operands.                             *)
ElementsAsDefined ==
  moving = "done" =>
    /\ DefinedExtents(mover, extents[1])
    /\ mover.op = "topk" => AreTop(mover, writes[1], writes[2])
    /\ mover.op \in Copying \cup Indexed \cup (Moving \ {"topk"}) =>
         \A o \in DOMAIN extents :
           writes[o] = {<< Position(extents[o], c), DefinedFrom(mover, o, extents[o], c) >> : c \in Coordinates(extents[o])}
=============================================================================
