------------------------------ MODULE Detections ------------------------------
(***************************************************************************)
(* The operations of GenerateProposals.cpp, which report the boxes that objects *)
(* may be in: BOX_WITH_NMS_LIMIT ("box"), GENERATE_PROPOSALS ("proposals"),     *)
(* DETECTION_POSTPROCESSING, with useRegularNms ("regular") and without it      *)
(* ("fast"), and AXIS_ALIGNED_BBOX_TRANSFORM ("transform").                   *)
(*                                                                         *)
(* But for the last one they do for each batch, and in two of them for each     *)
(* class of it, a suppression (NonMaxSuppression), and write what it keeps.     *)
(* The tensors are sequences; a box that has no class has an index of its own,  *)
(* any other is at row * numClasses + class, from 0 and from the base of its    *)
(* batch.  A box is a record for the four floats it is in the tensor.          *)
(*                                                                         *)
(* Floats are integers, in units that the boxes there are do not divide, and    *)
(* what the conversions from and to TENSOR_FLOAT16 and the quantized types lose *)
(* is left out.                                                            *)
(***************************************************************************)
EXTENDS NonMaxSuppression, SequencesExt, FiniteSets

CONSTANTS
  Detectors,           \* the operations, with what is in their operands
  Exp                  \* std::exp, of the deltas there are

VARIABLES
  detector,            \* the operation, NoDetector if there is none
  phase,               \* "prepare", "batch", "class", "nms", "write", "done" or "failed"
  batch, class,        \* the loop variables, from 0
  base,                \* the boxes before those of the batch
  selected,            \* what is kept of the batch
  scores,              \* the scores of the batch, decayed
  detections           \* what is written, by batch

detectionVars == << detector, phase, batch, class, base, selected, scores, detections, nmsVars >>

NoDetector == [kind |-> "none"]
PerClass(d) == d.kind \in {"box", "regular"}
At(seq, index) == seq[index + 1]

-----------------------------------------------------------------------------
(* Boxes.                                                                   *)
Center(b) == [x |-> (b.x1 + b.x2) \div 2, y |-> (b.y1 + b.y2) \div 2,
              w |-> b.x2 - b.x1, h |-> b.y2 - b.y1]
Corners(c) == [x1 |-> c.x - c.w \div 2, y1 |-> c.y - c.h \div 2,
               x2 |-> c.x + c.w \div 2, y2 |-> c.y + c.h \div 2]
IsMalformed(b) == b.x1 > b.x2 \/ b.y1 > b.y2

Moved(b, delta) ==
  LET c == Center(b)
  IN Corners([w |-> Exp[delta.w] * c.w, h |-> Exp[delta.h] * c.h,
              x |-> c.x + delta.x * c.w, y |-> c.y + delta.y * c.h])
Clipped(b, image) ==
  LET Within(v, bound) == Lesser(Greater(v, 0), bound)
  IN [x1 |-> Within(b.x1, image.w), y1 |-> Within(b.y1, image.h),
      x2 |-> Within(b.x2, image.w), y2 |-> Within(b.y2, image.h)]

(* deltas runs on from one row to the next.                                   *)
DeltaOf(row, numClasses, c) == row * numClasses + c
(* Of each row, the image it is clipped to.                                   *)
bboxTransform(rois, deltas, numClasses, images) ==
  [row \in 1 .. Len(rois) |->
     [c \in 1 .. numClasses |->
        Clipped(Moved(rois[row], At(deltas, DeltaOf(row - 1, numClasses, c - 1))), images[row])]]

(* Where the anchors are, for each cell of the grid.                           *)
Anchors(d) ==
  LET n == Len(d.anchors)
  IN [k \in 1 .. d.height * d.width * n |->
        LET cell == (k - 1) \div n
            a == At(d.anchors, (k - 1) % n)
            hShift == (cell \div d.width) * d.heightStride
            wShift == (cell % d.width) * d.widthStride
        IN [x1 |-> a.x1 + wShift, y1 |-> a.y1 + hShift,
            x2 |-> a.x2 + wShift, y2 |-> a.y2 + hShift]]
Proposals(d, b) ==
  LET n == Len(Anchors(d))
      images == [row \in 1 .. n |-> At(d.images, b)]
      moved == bboxTransform(Anchors(d), SubSeq(d.deltas, b * n + 1, (b + 1) * n), 1, images)
  IN [k \in 1 .. n |-> moved[k][1]]

Decoded(d, b) ==
  [k \in 1 .. Len(d.anchors) |->
     LET anchor == d.anchors[k]
         delta == At(d.deltas, b * Len(d.anchors) + k - 1)
         hHalf == (anchor.h * Exp[delta.h \div d.scale.h]) \div 2
         wHalf == (anchor.w * Exp[delta.w \div d.scale.w]) \div 2
         yCtr == anchor.y + (anchor.h * delta.y) \div d.scale.y
         xCtr == anchor.x + (anchor.w * delta.x) \div d.scale.x
     IN [x1 |-> xCtr - wHalf, y1 |-> yCtr - hHalf, x2 |-> xCtr + wHalf, y2 |-> yCtr + hHalf]]

-----------------------------------------------------------------------------
(* Batches.                                                                 *)
(* Boxes of a batch that are together; batchSplitIn of boxWithNmsLimit.         *)
Runs(d) ==
  LET Next1(split, id) == IF split # <<>> /\ Last(split).id = id
                          THEN ReplaceAt(split, Len(split), [id |-> id, n |-> Last(split).n + 1])
                          ELSE Append(split, [id |-> id, n |-> 1])
  IN FoldLeft(Next1, <<>>, d.batches)
BatchSplit(d) ==
  CASE d.kind = "box" -> [b \in 1 .. Len(Runs(d)) |-> Runs(d)[b].n]
    [] d.kind = "proposals" -> [b \in 1 .. Len(d.images) |-> d.height * d.width * Len(d.anchors)]
    [] OTHER -> [b \in 1 .. Len(d.deltas) \div Len(d.anchors) |-> Len(d.anchors)]

NumRois == At(BatchSplit(detector), batch)
BatchRois ==
  CASE detector.kind = "box" -> SubSeq(detector.boxes, base + 1, base + NumRois * detector.numClasses)
    [] detector.kind = "proposals" -> Proposals(detector, batch)
    [] OTHER -> Decoded(detector, batch)
(* getRoiBase                                                               *)
RoiOf(rois, index) ==
  At(rois, IF detector.kind = "regular" THEN index \div detector.numClasses ELSE index)

(* The bases of the next batch.                                               *)
RoisOnly(at, n, numClasses) == at + n
NextBase(at, n, numClasses) == at + n * numClasses

-----------------------------------------------------------------------------
(* std::sort leaves what compares equal in any order.                          *)
SortedBy(seq, Before(_, _)) ==
  {s \in SetToSeqs(ToSet(seq)) : \A i, j \in DOMAIN s : i < j => ~ Before(s[j], s[i])}
Truncated(seq, max) == IF max < 0 \/ Len(seq) <= max THEN seq ELSE SubSeq(seq, 1, max)

MaxScore(rowScores) == CHOOSE s \in ToSet(Tail(rowScores)) : \A t \in ToSet(Tail(rowScores)) : t <= s
RowScores(row) ==
  SubSeq(scores, row * detector.numClasses + 1, (row + 1) * detector.numClasses)

(* What the suppression of a class compares by, and starts with.                *)
ClassScores ==
  IF detector.kind = "fast"
  THEN [a \in 0 .. NumRois - 1 |-> MaxScore(RowScores(a))]
  ELSE [index \in 0 .. Len(scores) - 1 |-> At(scores, index)]
Above(indices) == SelectSeq(indices, LAMBDA index : ClassScores[index] > detector.scoreThreshold)

filterBoxes(rois, indices) ==
  LET image == At(detector.images, batch)
      IsWithin(index) ==
        LET b == At(rois, index)
        IN /\ b.x2 - b.x1 > detector.minSize /\ b.y2 - b.y1 > detector.minSize
           /\ Center(b).x < image.w /\ Center(b).y < image.h
  IN SelectSeq(indices, IsWithin)

Eligible(rois) ==
  LET all == [k \in 1 .. NumRois |-> k - 1]
  IN CASE PerClass(detector) ->
            {Above([k \in 1 .. NumRois |-> (k - 1) * detector.numClasses + class])}
       [] detector.kind = "fast" -> {Above(all)}
       [] OTHER ->
            LET n == detector.preNmsTopN
                sorted == SortedBy(all, LAMBDA i, j : ClassScores[i] > ClassScores[j])
            IN {filterBoxes(rois, s) :
                  s \in IF n > 0 /\ n < NumRois THEN {SubSeq(t, 1, n) : t \in sorted} ELSE {all}}

-----------------------------------------------------------------------------

(* The checks of prepare.                                                    *)
BoxPrepares(d) ==
  /\ d.numClasses > 1 /\ Len(d.boxes) = Len(d.scores)
  /\ Len(d.batches) * d.numClasses = Len(d.scores)
ProposalsPrepare(d) ==
  /\ Len(d.scores) = Len(d.images) * d.height * d.width * Len(d.anchors)
  /\ Len(d.deltas) = Len(d.scores)
TransformPrepares(d) ==
  /\ d.numClasses > 0 /\ Len(d.images) > 0
  /\ Len(d.deltas) = Len(d.rois) * d.numClasses /\ Len(d.batches) = Len(d.rois)
(* Two of the limits are compared as unsigned.                                 *)
DetectionPrepares(d) ==
  /\ Len(d.deltas) * d.numClasses = Len(d.scores)
  /\ d.scale.y > 0 /\ d.scale.x > 0 /\ d.scale.h > 0 /\ d.scale.w > 0
  /\ d.scoreThreshold >= 0 /\ d.iouThreshold >= 0
  /\ d.numClasses > 1 /\ d.max # 0
  /\ IF d.kind = "regular" THEN d.maxPerClass > 0 ELSE d.maxClassesPerDetection # 0
PrepareSucceeds(d) ==
  CASE d.kind = "box" -> BoxPrepares(d)
    [] d.kind = "proposals" -> ProposalsPrepare(d)
    [] d.kind = "transform" -> TransformPrepares(d)
    [] OTHER -> DetectionPrepares(d)

(* What has been written is of no use when the operation fails.                 *)
Stop == /\ phase' = "failed" /\ detections' = <<>>
        /\ UNCHANGED << detector, batch, class, base, selected, scores, nmsVars >>

PrepareDetector ==
  /\ phase = "prepare" /\ detector # NoDetector
  /\ IF PrepareSucceeds(detector)
     THEN phase' = "batch" /\ UNCHANGED detections
     ELSE phase' = "failed" /\ detections' = <<>>
  /\ UNCHANGED << detector, batch, class, base, selected, scores, nmsVars >>

Transform ==
  /\ phase = "batch" /\ detector.kind = "transform"
  /\ LET d == detector
         images == [row \in DOMAIN d.rois |-> At(d.images, d.batches[row])]
     IN IF \E row \in DOMAIN d.rois : d.batches[row] \notin 0 .. Len(d.images) - 1
                                      \/ IsMalformed(d.rois[row])
        THEN Stop
        ELSE /\ phase' = "done"
             /\ detections' = bboxTransform(d.rois, d.deltas, d.numClasses, images)
             /\ UNCHANGED << detector, batch, class, base, selected, scores, nmsVars >>

(* Of the boxes of a batch, numRois * numClasses, only the first numRois are    *)
(* looked at; in GENERATE_PROPOSALS, the anchors.                              *)
LooksMalformed ==
  CASE detector.kind = "box" -> \E k \in 1 .. NumRois : IsMalformed(BatchRois[k])
    [] detector.kind = "proposals" -> \E k \in 1 .. NumRois : IsMalformed(Anchors(detector)[k])
    [] OTHER -> FALSE

HasNoKernel == detector.kind = "box" /\ detector.kernel \notin {0, 1, 2}

StartBatch ==
  /\ phase = "batch" /\ detector.kind # "transform"
  /\ IF detector.kind = "box" /\ Len(detector.scores) = 0
     THEN phase' = "done" /\ UNCHANGED << detections, class, selected, scores >>
     ELSE IF HasNoKernel \/ LooksMalformed
     THEN phase' = "failed" /\ detections' = <<>> /\ UNCHANGED << class, selected, scores >>
     ELSE /\ phase' = "class" /\ selected' = <<>>
          /\ class' = IF PerClass(detector) THEN 1 ELSE 0
          /\ scores' = SubSeq(detector.scores, base + 1,
                              base + NumRois * (IF detector.kind = "proposals" THEN 1
                                                ELSE detector.numClasses))
          /\ UNCHANGED detections
  /\ UNCHANGED << detector, batch, base, nmsVars >>

LimitOfClass ==
  CASE detector.kind = "proposals" -> detector.postNmsTopN
    [] detector.kind = "regular" -> detector.maxPerClass
    [] OTHER -> detector.max

(* The candidates of the class, and the call that suppresses the worse of them.  *)
StartClass ==
  /\ phase = "class"
  /\ LET rois == BatchRois
     IN \E chosen \in Eligible(rois) :
          Enter([boxes |-> [index \in DOMAIN ClassScores |-> RoiOf(rois, index)],
                 scores |-> ClassScores, select |-> chosen,
                 kernel |-> IF detector.kind = "box" THEN detector.kernel ELSE Hard,
                 iouThreshold |-> detector.iouThreshold,
                 scoreThreshold |-> IF detector.kind = "box" THEN detector.nmsScoreThreshold ELSE 0,
                 max |-> LimitOfClass])
  /\ phase' = "nms"
  /\ UNCHANGED << detector, batch, class, base, selected, scores, detections >>

Suppress ==
  /\ phase = "nms" /\ NmsNext
  /\ UNCHANGED << detector, phase, batch, class, base, selected, scores, detections >>

Keep ==
  /\ phase = "nms" /\ IsReturned
  /\ selected' = selected \o SubSeq(select, 1, selectStart - 1)
  /\ scores' = IF detector.kind = "fast" THEN scores
               ELSE [k \in DOMAIN scores |-> scoresData[k - 1]]
  /\ IF PerClass(detector) /\ class + 1 < detector.numClasses
     THEN phase' = "class" /\ class' = class + 1
     ELSE phase' = "write" /\ UNCHANGED class
  /\ UNCHANGED << detector, batch, base, detections, nmsVars >>

(* The order in which a batch is written.                                     *)
Ordered ==
  LET ByScore(i, j) == At(scores, i) > At(scores, j)
      ClassOf(i) == i % detector.numClasses
      ByClass(i, j) == IF ClassOf(i) = ClassOf(j) THEN ByScore(i, j) ELSE ClassOf(i) < ClassOf(j)
  IN CASE detector.kind = "box" ->
            UNION {SortedBy(Truncated(s, detector.max), ByClass) : s \in SortedBy(selected, ByScore)}
       [] detector.kind = "regular" ->
            {Truncated(s, detector.max) : s \in SortedBy(selected, ByScore)}
       [] OTHER -> {selected}

Label(c) == c - (IF detector.isBGInLabel THEN 0 ELSE 1)

(* The best classes of a box; numOutClasses of them are written.               *)
NumOutClasses == Lesser(detector.numClasses - 1, detector.maxClassesPerDetection)
ClassesOf(row) ==
  {SubSeq(s, 1, NumOutClasses) :
     s \in SortedBy([c \in 1 .. detector.numClasses - 1 |-> c],
                    LAMBDA c, k : At(RowScores(row), c) > At(RowScores(row), k))}

Detection(score, roi, c) == [score |-> score, roi |-> roi, class |-> c]
Reported(order, rois, classesOf) ==
  CASE detector.kind = "box" ->
         [k \in DOMAIN order |->
            Detection(At(scores, order[k]), At(rois, order[k]), order[k] % detector.numClasses)]
    [] detector.kind = "proposals" ->
         [k \in DOMAIN order |-> Detection(At(scores, order[k]), At(rois, order[k]), 0)]
    [] detector.kind = "regular" ->
         [k \in DOMAIN order |-> Detection(At(scores, order[k]), RoiOf(rois, order[k]),
                                       Label(order[k] % detector.numClasses))]
    [] OTHER ->
         FlattenSeq([k \in DOMAIN order |->
           [n \in 1 .. NumOutClasses |->
              LET c == classesOf[k][n]
              IN Detection(At(RowScores(order[k]), c), At(rois, order[k]), Label(c))]])

BatchId == IF detector.kind = "box" THEN Runs(detector)[batch + 1].id ELSE batch

WriteBatch ==
  /\ phase = "write"
  /\ \E order \in Ordered :
       \E classesOf \in IF detector.kind = "fast"
                        THEN {f \in [DOMAIN order -> UNION {ClassesOf(row) : row \in ToSet(order)}] :
                                \A k \in DOMAIN order : f[k] \in ClassesOf(order[k])}
                        ELSE {<<>>} :
         detections' = Append(detections,
                              [batch |-> BatchId, boxes |-> Reported(order, BatchRois, classesOf)])
  /\ batch' = batch + 1
  /\ base' = NextBase(base, NumRois,
                      IF detector.kind = "proposals" THEN 1 ELSE detector.numClasses)
  /\ phase' = IF batch + 1 = Len(BatchSplit(detector)) THEN "done" ELSE "batch"
  /\ UNCHANGED << detector, class, selected, scores, nmsVars >>

-----------------------------------------------------------------------------
NoCall == [boxes |-> <<>>, scores |-> <<>>, select |-> <<>>, kernel |-> Hard, iouThreshold |-> 0,
           scoreThreshold |-> 0, max |-> 0]

DetectionInit(d) ==
  /\ detector = d /\ phase = "prepare" /\ batch = 0 /\ class = 0 /\ base = 0 /\ selected = <<>>
  /\ scores = <<>> /\ detections = <<>>
  /\ call = NoCall /\ scoresData = <<>> /\ select = <<>>
  /\ selectStart = 1 /\ selectEnd = 0 /\ compared = 0

DetectionNext ==
  PrepareDetector \/ Transform \/ StartBatch \/ StartClass \/ Suppress \/ Keep \/ WriteBatch

-----------------------------------------------------------------------------
(* What the operations are to report, told from their operands alone.           *)
Members(d, k) ==
  IF d.kind = "box"
  THEN {row \in DOMAIN d.batches :
          Cardinality({r \in 2 .. row : d.batches[r] # d.batches[r - 1]}) = k - 1}
  ELSE LET n == IF d.kind = "proposals" THEN Len(Anchors(d)) ELSE Len(d.anchors)
       IN (k - 1) * n + 1 .. k * n

(* Of those that compare equal any may be among the preNmsTopN: sure are the    *)
(* ones that are in any case.                                               *)
Promising(d, k, sure) ==
  LET rows == Members(d, k)
      Score(row, c) == At(d.scores, (row - 1) * d.numClasses + c)
      Roi(row, c) == CASE d.kind = "box" -> At(d.boxes, (row - 1) * d.numClasses + c)
                       [] d.kind = "proposals" -> At(Proposals(d, k - 1), (row - 1) % Len(Anchors(d)))
                       [] OTHER -> At(Decoded(d, k - 1), (row - 1) % Len(d.anchors))
      Whole(row) == [class |-> 0, roi |-> Roi(row, 0),
                     score |-> IF d.kind = "proposals" THEN d.scores[row]
                               ELSE CHOOSE s \in {Score(row, c) : c \in 1 .. d.numClasses - 1} :
                                      \A c \in 1 .. d.numClasses - 1 : Score(row, c) <= s]
      IsLarge(roi) == /\ roi.x2 - roi.x1 > d.minSize /\ roi.y2 - roi.y1 > d.minSize
                      /\ roi.x1 + roi.x2 < 2 * d.images[k].w /\ roi.y1 + roi.y2 < 2 * d.images[k].h
      IsAhead(r, row) == d.scores[r] > d.scores[row] \/ (sure /\ r # row /\ d.scores[r] = d.scores[row])
      IsEarly(row) == \/ d.preNmsTopN <= 0
                      \/ Cardinality({r \in rows : IsAhead(r, row)}) < d.preNmsTopN
  IN CASE PerClass(d) ->
            {p \in {[class |-> c, score |-> Score(row, c), roi |-> Roi(row, c)] :
                      row \in rows, c \in 1 .. d.numClasses - 1} : p.score > d.scoreThreshold}
       [] d.kind = "fast" ->
            {p \in {Whole(row) : row \in rows} : p.score > d.scoreThreshold}
       [] OTHER -> {p \in {Whole(row) : row \in {r \in rows : IsEarly(r)}} : IsLarge(p.roi)}

(* The boxes of a batch, without the classes of each but its first.             *)
Found(d, k) ==
  LET boxes == detections[k].boxes
      shift == IF d.kind = "regular" THEN 1 - Label(1) ELSE 0
  IN IF d.kind = "fast"
     THEN [n \in 1 .. Len(boxes) \div NumOutClasses |->
             [boxes[(n - 1) * NumOutClasses + 1] EXCEPT !.class = 0]]
     ELSE [n \in DOMAIN boxes |-> [boxes[n] EXCEPT !.class = @ + shift]]

IsHard(d) == d.kind # "box" \/ (d.kernel = 0 /\ d.nmsScoreThreshold \in 1 .. d.scoreThreshold)
Meet(d, p, q) == p.class = q.class /\ Reaches(getIoUAxisAligned(p.roi, q.roi), d.iouThreshold)

IsGreedy(d, found, promising) ==
  /\ \A i, j \in DOMAIN found : i < j => ~ Meet(d, found[j], found[i])
  /\ \A p \in promising :
       \/ \E i \in DOMAIN found : found[i] = p
       \/ \E i \in DOMAIN found : Meet(d, p, found[i]) /\ p.score <= found[i].score
       \/ LET peers == {i \in DOMAIN found : found[i].class = p.class}
          IN /\ \/ LimitOfClass >= 0 /\ Cardinality(peers) = LimitOfClass
             /\ \A i \in peers : p.score <= found[i].score
       \/ /\ d.kind # "proposals" /\ d.max >= 0 /\ Len(found) = d.max
          /\ \A i \in DOMAIN found : p.score <= found[i].score

(* What is found is there, and in order.                                       *)
IsPromised(d, found, promising) ==
  /\ \A i \in DOMAIN found : \E p \in promising :
       /\ [found[i] EXCEPT !.score = p.score] = p
       /\ IF IsHard(d) THEN found[i].score = p.score ELSE found[i].score <= p.score
  /\ \A i, j \in DOMAIN found : i < j =>
       IF d.kind = "box" /\ found[i].class # found[j].class
       THEN found[i].class < found[j].class
       ELSE found[i].score >= found[j].score

(* Each box comes with the best of its classes.                               *)
HasBestClasses(d, k) ==
  \A n \in 1 .. Len(detections[k].boxes) \div NumOutClasses : \E row \in Members(d, k) :
    LET Score(c) == At(d.scores, (row - 1) * d.numClasses + c)
        group == SubSeq(detections[k].boxes, (n - 1) * NumOutClasses + 1, n * NumOutClasses)
        ClassIn(i) == group[i].class + 1 - Label(1)
    IN /\ \A i \in DOMAIN group : group[i].roi = group[1].roi /\ group[i].score = Score(ClassIn(i))
       /\ \A i, j \in DOMAIN group :
            i < j => ClassIn(i) # ClassIn(j) /\ group[i].score >= group[j].score
       /\ \A c \in 1 .. d.numClasses - 1 :
            \/ \E i \in DOMAIN group : ClassIn(i) = c
            \/ Score(c) <= group[NumOutClasses].score

(* Every batch is reported, under its id; of each what is reported is one of    *)
(* its own boxes, with its own score and class, or less when the kernel is       *)
(* soft, in order, and no more than there is room for; and with a hard kernel    *)
(* no better box is left out, but one that overlaps what is reported.           *)
DetectionsAreTheBest ==
  LET d == detector
  IN phase = "done" /\ d.kind # "transform" =>
       /\ d.kind = "box" => DOMAIN d.batches \subseteq UNION {Members(d, k) : k \in DOMAIN detections}
       /\ \A k \in DOMAIN detections :
            LET found == Found(d, k)
            IN /\ \A row \in Members(d, k) :
                     detections[k].batch = IF d.kind = "box" THEN d.batches[row] ELSE k - 1
               /\ IsPromised(d, found, Promising(d, k, FALSE))
               /\ d.kind # "proposals" /\ d.max >= 0 => Len(found) <= d.max
               /\ IsHard(d) => IsGreedy(d, found, Promising(d, k, TRUE))
               /\ d.kind = "fast" => HasBestClasses(d, k)
=============================================================================
