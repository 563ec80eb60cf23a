-------------------------- MODULE NonMaxSuppression --------------------------
(***************************************************************************)
(* hardNmsSingleClass and softNmsSingleClass (GenerateProposals.cpp): of an     *)
(* array of boxes, keep the best, discard what overlaps it, keep the best of    *)
(* the rest, and so on.  Both work in place: the array holds the boxes that     *)
(* are kept, then those still to be looked at, then the discarded, and a box    *)
(* is discarded by swapping it with the last one still to be looked at.        *)
(*                                                                         *)
(* Positions are from 1, and selectEnd is the last one in use.  Floats are     *)
(* integers; an IoU is a fraction and compared as one, in percent.           *)
(***************************************************************************)
EXTENDS Integers, Sequences

CONSTANTS
  Calls,               \* what it may be called with, when it is on its own
  Gaussian             \* std::exp(-iou * iou / sigma), in percent, by the iou in percent

(* Every box of the array has a score, and scores can be compared.             *)
IsCall(c) ==
  /\ c.scores \in [DOMAIN c.scores -> Int]
  /\ c.select \in Seq(DOMAIN c.scores)
  /\ c.max \in Int

ASSUME CallsAssumption == \A c \in Calls : IsCall(c)

VARIABLES
  call,                \* [boxes, scores, select, kernel, iouThreshold, scoreThreshold, max]
  scoresData,
  select, selectStart, selectEnd,
  compared             \* the loop variable of the inner loop, 0 outside of it

nmsVars == << call, scoresData, select, selectStart, selectEnd, compared >>

(* hardNmsSingleClass has no kernel.                                          *)
Hard == -1

Greater(a, b) == IF a > b THEN a ELSE b
Lesser(a, b) == IF a < b THEN a ELSE b

(* Of two boxes without an area the quotient is not a number.                  *)
getIoUAxisAligned(r, s) ==
  LET Area(b) == (b.x2 - b.x1) * (b.y2 - b.y1)
      w == Greater(Lesser(r.x2, s.x2) - Greater(r.x1, s.x1), 0)
      h == Greater(Lesser(r.y2, s.y2) - Greater(r.y1, s.y1), 0)
  IN [intersect |-> w * h, union |-> Area(r) + Area(s) - w * h]

(* iou >= iouThreshold                                                     *)
Reaches(iou, threshold) ==
  \/ iou.union > 0 /\ iou.intersect * 100 >= threshold * iou.union
  \/ iou.union < 0 /\ iou.intersect * 100 <= threshold * iou.union
Overlaps(c, b, d) == Reaches(getIoUAxisAligned(c.boxes[b], c.boxes[d]), c.iouThreshold)

(* kernel(iou) * score                                                      *)
Softened(c, score, b, d) ==
  LET iou == getIoUAxisAligned(c.boxes[b], c.boxes[d])
  IN CASE c.kernel = 0 -> IF iou.union = 0 \/ Overlaps(c, b, d) THEN 0 ELSE score
       [] c.kernel = 1 ->
            IF Overlaps(c, b, d) THEN (score * (iou.union - iou.intersect)) \div iou.union ELSE score
       [] OTHER -> (score * Gaussian[(iou.intersect * 100) \div iou.union]) \div 100

(* scoresData[b], after it was compared with d.  The hard variant has no kernel.  *)
Decayed(c, score, b, d) == IF c.kernel = Hard THEN score ELSE Softened(c, score, b, d)

(* score is b's, decayed.                                                   *)
IsDiscarded(c, score, b, d) ==
  IF c.kernel = Hard THEN Overlaps(c, b, d) ELSE score < c.scoreThreshold

Swap(s, p, q) == [s EXCEPT ![p] = s[q], ![q] = s[p]]

(* A negative maximum is none.                                              *)
Limit(c) == IF c.max < 0 THEN Len(c.select) ELSE c.max

(* The function is entered.                                                 *)
Enter(c) ==
  /\ call' = c /\ scoresData' = c.scores /\ select' = c.select
  /\ selectStart' = 1 /\ selectEnd' = Len(c.select) /\ compared' = 0

(* std::max_element returns the first of the greatest.                         *)
Best ==
  {p \in selectStart .. selectEnd :
     \A q \in selectStart .. selectEnd :
        /\ scoresData[select[q]] <= scoresData[select[p]]
        /\ q < p => scoresData[select[q]] < scoresData[select[p]]}

(* The box that was swapped to the place of a discarded one is looked at too,   *)
(* as i is decremented; the mutant forgets it.                                *)
Skipped(position) == position + 1
AfterSwap(position) == position

PickBest ==
  /\ compared = 0 /\ selectStart <= selectEnd /\ selectStart <= Limit(call)
  /\ \E p \in Best : select' = Swap(select, p, selectStart)
  /\ compared' = selectStart + 1
  /\ UNCHANGED << call, scoresData, selectStart, selectEnd >>

Compare ==
  /\ compared > 0 /\ compared <= selectEnd
  /\ LET b == select[compared]
         score == Decayed(call, scoresData[b], b, select[selectStart])
     IN /\ scoresData' = [scoresData EXCEPT ![b] = score]
        /\ IF IsDiscarded(call, score, b, select[selectStart])
           THEN /\ select' = Swap(select, compared, selectEnd)
                /\ selectEnd' = selectEnd - 1
                /\ compared' = AfterSwap(compared)
           ELSE compared' = compared + 1 /\ UNCHANGED << select, selectEnd >>
  /\ UNCHANGED << call, selectStart >>

NextRound ==
  /\ compared > selectEnd
  /\ selectStart' = selectStart + 1 /\ compared' = 0
  /\ UNCHANGED << call, scoresData, select, selectEnd >>

NmsInit ==
  /\ call \in Calls /\ scoresData = call.scores /\ select = call.select
  /\ selectStart = 1 /\ selectEnd = Len(call.select) /\ compared = 0
NmsNext == PickBest \/ Compare \/ NextRound
NmsSpec == NmsInit /\ [][NmsNext]_nmsVars

-----------------------------------------------------------------------------
IsReturned == compared = 0 /\ (selectStart > selectEnd \/ selectStart > Limit(call))
Kept == 1 .. selectStart - 1

(* What the hard variant returns: no two of the boxes that are kept overlap,    *)
(* they are in the order of their scores, and a box that is not kept overlaps   *)
(* one that is and that is no worse, unless there was no room for more, and     *)
(* then it is no better than any that is kept.                                *)
KeepsTheBest ==
  call.kernel = Hard /\ IsReturned =>
    /\ \A p, q \in Kept : p < q =>
         /\ ~ Overlaps(call, select[q], select[p])
         /\ scoresData[select[q]] <= scoresData[select[p]]
    /\ \A n \in DOMAIN call.select :
         \/ \E p \in Kept : select[p] = call.select[n]
         \/ \E p \in Kept : /\ Overlaps(call, call.select[n], select[p])
                            /\ scoresData[call.select[n]] <= scoresData[select[p]]
         \/ /\ selectStart > Limit(call)
            /\ \A p \in Kept : scoresData[call.select[n]] <= scoresData[select[p]]
=============================================================================
