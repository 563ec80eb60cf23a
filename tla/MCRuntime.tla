------------------------------ MODULE MCRuntime -----------------------------
(***************************************************************************)
(* Six operands and four operations that fit them, in any order of the calls;  *)
(* a draft for every signature of every operation; and eight models to compile  *)
(* for two drivers and the CPU; and the detections, with the kernels of          *)
(* MCRecurrent and MCTensors.                                              *)
(***************************************************************************)
EXTENDS Runtime, MCRecurrent, MCTensors

Tensor(dims) == [type |-> F32, dims |-> dims, scale |-> 0, zeroPoint |-> 0]
Typed(type, dims, scale) == [type |-> type, dims |-> dims, scale |-> scale, zeroPoint |-> 0]
Scalar == [type |-> I32, dims |-> <<>>, scale |-> 0, zeroPoint |-> 0]

(* a, t, u, z, c, k: the input, two temporaries, the output, two constants.    *)
MCDeclarations == << {Tensor(<< 0 >>)}, {Tensor(<< 2 >>)}, {Tensor(<<>>)}, {Tensor(<< 0 >>)},
                     {Tensor(<< 2 >>)}, {Scalar, Typed(PerChannel, << 2 >>, 0),
                                         Typed("EXTENSION", << 2 >>, 0)} >>
MCChannels == { [channelDim |-> 0, scales |-> << 1, 1 >>], [channelDim |-> 1, scales |-> << 1 >>] }

Op(type, ins, outs) == [type |-> type, ins |-> ins, outs |-> outs]
MCCandidates == { Op("RELU", << 1 >>, << 2 >>),
                  Op("ADD", << 2, 5, 6 >>, << 3 >>), Op("NEG", << 4 >>, << 3 >>),
                  Op("CONCATENATION", << 2, 3, 3, 6 >>, << 4 >>) }
MCConstants == {5, 6}
MCIdentifications == { [ins |-> << 1 >>, outs |-> << 4 >>], [ins |-> << 1 >>, outs |-> << 2, 4 >>],
                       [ins |-> << 1, 5 >>, outs |-> << 4 >>] }
MCRegions == { [offset |-> 4, length |-> 8], [offset |-> 8, length |-> 4], [offset |-> 8, length |-> 8] }

MCOutputDims == { << 2 >>, << 0 >>, << 1, 1, 1, 1 >>, << 1, 1, 1, 2 >> }

Default == [rank |-> 1, zero |-> TRUE, in |-> 1, filter |-> 1, out |-> 1, same |-> TRUE,
            channel0 |-> TRUE]
DraftDims(op) == IF op \in NhwcOps THEN << 1, 1, 1, 1 >> ELSE << 2 >>
(* Only BIDIRECTIONAL_SEQUENCE_LSTM, with its 61 inputs, has more.              *)
MaxDraftInputs == 30
DraftSignatures(op) == {s \in Signatures(op, Default) : Len(s.in) <= MaxDraftInputs}
MCDraft(op, s, d) == [type |-> op, signature |-> s, dims |-> DraftDims(op), outputDims |-> d]
MCDrafts ==
  {MCDraft(op, Sig(<< F32 >>, << F32 >>, 2), << 2 >>) : op \in {EXTENSION, OEM}}
    \cup UNION { {MCDraft(op, s, d) : s \in DraftSignatures(op), d \in {<<>>, DraftDims(op)}}
                 : op \in BuiltinOps }

-----------------------------------------------------------------------------
(* Models to compile.  A declaration is << type, how it gets its value >>.     *)
Declare(b, d) ==
  LET with == AddOperand(b, d[1])
      i == Len(with.operands)
  IN CASE d[2] = "value" -> SetOperandValue(with, i, Bytes(i, SizeOf(with.operands[i])))
       [] d[2] = "large" -> SetOperandValue(with, i, Bytes(i, ImmediateBytes + 1))
       [] d[2] = "data" -> SetOperandExtensionData(with, i, << 0 >>)
       [] d[2] = "omitted" -> OmitOperandValue(with, i)
       [] d[2] = "channels" ->
            SetOperandSymmPerChannelQuantParams(SetOperandValue(with, i, Bytes(i, d[1].dims[1])), i,
              [channelDim |-> 0, scales |-> Repeat(1, d[1].dims[1])])
       [] OTHER -> with

Model(declarations, operations, ins, outs) ==
  Finish(IdentifyInputsAndOutputs(
    FoldLeft(AddOperation, FoldLeft(Declare, Empty, declarations), operations), ins, outs), TRUE)

T == Tensor(<< 2 >>)
K == << Scalar, "value" >>

(* NEG is of V1_2: what it reads and writes is cut out of the slice.           *)
MCMiddle == Model(<< << T, "" >>, << T, "" >>, << T, "" >>, K, << T, "" >> >>,
  << Op("RELU", << 1 >>, << 2 >>), Op("NEG", << 2 >>, << 3 >>), Op("ADD", << 2, 3, 4 >>, << 5 >>) >>,
  << 1 >>, << 5 >>)
(* An output of the model that other operations read, and a large constant.    *)
MCOutputRead == Model(<< << T, "" >>, << T, "" >>, << T, "value" >>, K, << T, "" >>, << T, "" >> >>,
  << Op("RELU", << 1 >>, << 2 >>), Op("ADD", << 2, 3, 4 >>, << 5 >>), Op("MUL", << 2, 5, 4 >>, << 6 >>) >>,
  << 1 >>, << 6, 2 >>)
(* A temporary of unknown size.                                              *)
MCUnknownSize == Model(<< << T, "" >>, << Tensor(<< 0 >>), "" >>, << Tensor(<< 0 >>), "" >>, << T, "" >> >>,
  << Op("RELU", << 1 >>, << 2 >>), Op("RELU6", << 2 >>, << 3 >>), Op("TANH", << 3 >>, << 4 >>) >>,
  << 1 >>, << 4 >>)
(* Two outputs, in the order that is not theirs; one is read twice by one      *)
(* operation, and there are two inputs of one type.                           *)
MCTwoOutputs == Model(<< << T, "" >>, K, K, << T, "" >>, << T, "" >>, << T, "" >>, << T, "" >>,
                         << T, "" >>, << T, "" >> >>,
  << Op("SPLIT", << 1, 2, 3 >>, << 5, 4 >>), Op("ADD", << 4, 4, 3 >>, << 6 >>),
     Op("MUL", << 6, 7, 3 >>, << 8 >>), Op("ADD", << 5, 4, 3 >>, << 9 >>) >>,
  << 1, 7 >>, << 8 >>)
MCSplit == Model(<< << T, "" >>, K, K, << T, "" >>, << T, "" >>, << T, "" >>, << T, "" >>, << T, "" >> >>,
  << Op("SPLIT", << 1, 2, 3 >>, << 5, 4 >>), Op("ADD", << 4, 4, 3 >>, << 6 >>),
     Op("MUL", << 5, 7, 3 >>, << 8 >>) >>,
  << 1, 7 >>, << 8, 6 >>)
(* A filter with a scale for each channel, and an operand that is omitted.      *)
Filter == Typed(PerChannel, << 2, 1, 1, 1 >>, 0)
MCScales == Model(
  << << Typed(Q8, << 1, 1, 1, 1 >>, 1), "" >>, << Filter, "channels" >>,
     << Typed(TI32, << 2 >>, 0), "value" >>, K, << Typed(Q8, << 1, 1, 1, 2 >>, 1), "" >>,
     << Typed(TI32, << 4 >>, 0), "omitted" >>, << Typed(Q8, << 2, 1, 1, 1 >>, 1), "" >>,
     << Typed(Q8, << 2, 1, 1, 1 >>, 1), "" >> >>,
  << Op("CONV_2D", << 1, 2, 3, 4, 4, 4, 4 >>, << 5 >>), Op("TRANSPOSE", << 5, 6 >>, << 7 >>),
     Op("RELU", << 7 >>, << 8 >>) >>,
  << 1 >>, << 8 >>)
MCExtension == Model(<< << T, "" >>, << T, "" >>, << [T EXCEPT !.type = "EXTENSION"], "data" >> >>,
  << Op("RELU", << 1 >>, << 2 >>), Op(EXTENSION, << 2 >>, << 3 >>) >>, << 1 >>, << 3 >>)
(* An OEM scalar that is too large to be copied at once.                       *)
MCOem == Model(<< << T, "" >>, << T, "" >>, << Typed("OEM", <<>>, 0), "large" >>, << T, "" >> >>,
  << Op("RELU", << 1 >>, << 2 >>), Op(OEM, << 2, 3 >>, << 4 >>) >>, << 1 >>, << 4 >>)

-----------------------------------------------------------------------------
(* Devices.                                                                 *)
Perf(t, power) == [execTime |-> t, powerUsage |-> power]
MCWorst == Perf(100, 100)
MCCpuDevice == [name |-> << "c" >>, version |-> << "1" >>, hal |-> CPU_ONLY, caches |-> FALSE,
                caps |-> CapabilitiesOf(Perf(3, 3), Perf(3, 3), Perf(3, 3))]
Fast == [name |-> << "a" >>, version |-> << "1" >>, hal |-> 2, caches |-> TRUE,
         caps |-> [relaxedScalar |-> Perf(1, 1), relaxedTensor |-> Perf(1, 1),
                   table |-> Update(NonExtensionOperandPerformance(Perf(1, 2)), Q8, Perf(3, 2))]]
Old == [name |-> << "b" >>, version |-> << "1" >>, hal |-> 0, caches |-> FALSE,
        caps |-> CapabilitiesFrom10([float32 |-> Perf(2, 1), quant8 |-> Perf(1, 1)])]
Old11 == [Old EXCEPT !.name = << "d" >>, !.hal = 1,
          !.caps = CapabilitiesFrom11([float32 |-> Perf(1, 1), quant8 |-> Perf(2, 1), relaxed |-> Perf(1, 1)])]

(* What an older driver says of itself is not changed by the conversion to     *)
(* V1_2 and back, which its version can express.                             *)
ASSUME CapabilitiesRoundTrip ==
  \A float32, quant8, relaxed \in {Perf(1, 2), Perf(2, 1), MCWorst} :
     LET caps10 == [float32 |-> float32, quant8 |-> quant8]
         caps11 == [float32 |-> float32, quant8 |-> quant8, relaxed |-> relaxed]
     IN /\ CompliantCapabilities10(CapabilitiesFrom10(caps10))
        /\ CapabilitiesTo10(CapabilitiesFrom10(caps10)) = caps10
        /\ CompliantCapabilities11(CapabilitiesFrom11(caps11))
        /\ CapabilitiesTo11(CapabilitiesFrom11(caps11)) = caps11
        /\ CompliantCapabilities10(CapabilitiesFrom11(caps11))
              <=> CompliantCapabilities10From11(caps11)

Settings(devs, preferences, partitionings, tokens) ==
  [devices : devs, preference : preferences, partitioning : partitionings, token : tokens]
All == << Fast, Old, MCCpuDevice >>
Others == << Old11, MCCpuDevice >>
One == << Fast, MCCpuDevice >>
Two == << Fast, Old >>

Compile(models, settings) == [model : models, settings : settings]
MCCompilations ==
  Compile({MCMiddle, MCOutputRead, MCUnknownSize}, Settings({All}, {1}, {1}, {<<>>}))
    \cup Compile({MCSplit}, Settings({Others}, {0, 1}, {0, 1, 2}, {<<>>}))
    \cup Compile({MCTwoOutputs, MCScales, MCMiddle}, Settings({Others, One}, {0}, {1}, {<<>>}))
    \cup Compile({MCExtension, MCOem}, Settings({All}, {1}, {1}, {<<>>}))
    \cup Compile({MCExtension, MCUnknownSize}, Settings({Two}, {1}, {2}, {<<>>}))
    \cup Compile({MCMiddle}, Settings({One}, {1}, {1}, {<< "t" >>}))

Updated(device) == [device EXCEPT !.version = << "2" >>]
MCUpgrades(devs) == {devs, << Updated(devs[1]) >> \o Tail(devs)}
MCGraphs == {NoGraph}

-----------------------------------------------------------------------------
(* What is in the operands of the detections: up to four boxes of which some    *)
(* overlap, every order of three scores, up to three classes and two batches;    *)
(* and operands that are refused.                                          *)

Box(a, b, c, e) == [x1 |-> a, y1 |-> b, x2 |-> c, y2 |-> e]
(* The second overlaps the first, the third overlaps the second less.  *)
MCBoxes == << Box(0, 0, 12, 12), Box(4, 0, 16, 12), Box(10, 0, 22, 12), Box(40, 40, 44, 44) >>
MCImage(w, h) == [w |-> w, h |-> h]

Pick(n, c) == IF c = 0 THEN Box(2, 2, 4, 4) ELSE MCBoxes[(n % 4) + 1]
BoxJob(n, numClasses, s, batches, max, kernel, nmsScore) ==
  [kind |-> "box", numClasses |-> numClasses, scores |-> s, batches |-> batches, max |-> max,
   boxes |-> [k \in 1 .. n * numClasses |-> Pick((k - 1) \div numClasses, (k - 1) % numClasses)],
   kernel |-> kernel, nmsScoreThreshold |-> nmsScore, scoreThreshold |-> 20, iouThreshold |-> 40]
(* 90 is the background's.   *)
Spread(numClasses, f) == [k \in 1 .. Len(f) + (Len(f) \div (numClasses - 1)) |->
  IF (k - 1) % numClasses = 0 THEN 90
  ELSE f[((k - 1) \div numClasses) * (numClasses - 1) + ((k - 1) % numClasses)]]
BoxJobs ==
  {BoxJob(4, 2, Spread(2, f), batches, max, 0, 10) :
      f \in [1 .. 4 -> {10, 50, 70}], batches \in {<< 5, 5, 5, 3 >>, << 5, 5, 7, 5 >>, << 5, 5, 5, 5 >>}, max \in {-1, 1, 2}}
  \cup {BoxJob(3, 2, Spread(2, f), << 5, 5, 7 >>, max, kernel, 30) :
      f \in [1 .. 3 -> {30, 50, 70}], max \in {-1, 1, 2}, kernel \in {1, 2}}
  \cup {BoxJob(2, 3, Spread(3, f), batches, max, 0, 20) :
      f \in [1 .. 4 -> {10, 50, 70}], batches \in {<< 5, 5 >>, << 5, 6 >>}, max \in {-1, 1, 2}}
  \cup {BoxJob(2, 2, <<90, 70, 90, 50>>, << 0, 0 >>, 1, 3, 10), BoxJob(2, 2, <<90, 70, 90, 50>>, << 0 >>, 1, 0, 10),
        BoxJob(0, 2, <<>>, <<>>, 1, 3, 10),
        [BoxJob(2, 2, <<90, 70, 90, 50>>, << 0, 1 >>, 1, 0, 10) EXCEPT !.boxes[3] = Box(4, 0, 2, 2)]}

Delta(x, y, w, h) == [x |-> x, y |-> y, w |-> w, h |-> h]
Still == Delta(0, 0, 0, 0)
Deltas == {Still, Delta(1, 0, 0, 0), Delta(0, 0, 1, 0)}
ProposalJobs ==
  {[kind |-> "proposals", scores |-> s, deltas |-> d \o << Still, Still >>, anchors |-> << MCBoxes[1], MCBoxes[4] >>,
    height |-> 1, width |-> 1, heightStride |-> 4, widthStride |-> 4,
    images |-> << MCImage(30, 50), MCImage(60, 60) >>, preNmsTopN |-> pre, postNmsTopN |-> post,
    iouThreshold |-> 40, minSize |-> min] :
     s \in {<< 30, 30, 20, 40 >>, << 30, 50, 20, 20 >>}, d \in [1 .. 2 -> Deltas], pre \in {0, 1, 5}, post \in {-1, 1},
     min \in {3, 6}}
  \cup
  {[kind |-> "proposals", scores |-> s, deltas |-> [k \in 1 .. 4 |-> Still], anchors |-> << a >>,
    height |-> 2, width |-> 2, heightStride |-> stride, widthStride |-> 2 * stride,
    images |-> << MCImage(16, 16) >>, preNmsTopN |-> pre, postNmsTopN |-> post,
    iouThreshold |-> 30, minSize |-> 3] :
     s \in [1 .. 4 -> {30, 50}], pre \in {0, 2}, post \in {-1, 2}, stride \in {2, 4}, a \in {MCBoxes[1], Box(4, 0, 2, 2)}}

Anchor(x, y) == [x |-> x, y |-> y, h |-> 12, w |-> 12]
DetectionJobs(kind) ==
  {[kind |-> kind, numClasses |-> 3, scores |-> Spread(3, f), deltas |-> << Still, Still, Delta(2, 0, 0, 0), Delta(0, 0, 0, 2) >>,
    anchors |-> << Anchor(6, 6), Anchor(8, 6) >>, scale |-> [x |-> 2, y |-> 2, w |-> 2, h |-> 2],
    scoreThreshold |-> 20, iouThreshold |-> 40, max |-> max, maxPerClass |-> per, maxClassesPerDetection |-> per,
    isBGInLabel |-> bg] :
    f \in {g \o << 30, 50, 70, 10 >> : g \in [1 .. 4 -> {10, 50, 70}]}, max \in {1, 2}, per \in {0, 1, 3}, bg \in {TRUE, FALSE}}
TransformJobs ==
  {[kind |-> "transform", numClasses |-> 2, rois |-> << MCBoxes[1], roi >>, batches |-> << 0, b >>,
    deltas |-> << Still, Delta(1, 0, 0, 0), Delta(0, 1, 0, 0), Delta(0, 0, 1, 1) >>,
    images |-> << MCImage(60, 60), MCImage(20, 14) >>] : b \in {-1, 0, 1, 2}, roi \in {MCBoxes[2], Box(4, 0, 2, 2)}}
MCDetectors == TransformJobs \cup BoxJobs \cup ProposalJobs \cup DetectionJobs("regular") \cup DetectionJobs("fast")
MCExp == [k \in {0, 1} |-> 1 + k]
MCGaussian == [k \in 0 .. 100 |-> 100 - k \div 2]
=============================================================================
