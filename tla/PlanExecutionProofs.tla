------------------------ MODULE PlanExecutionProofs ------------------------
(***************************************************************************)
(* The execution of a plan, whatever the plan, what is given of the        *)
(* outputs, and whatever drivers report: steps complete in order, fallback *)
(* is taken only where it is allowed, and a success is reported with the   *)
(* shapes that the producer of each output has reported.                   *)
(***************************************************************************)
EXTENDS PlanExecution, SequenceTheorems, TLAPS

\* The outputs that a step makes.
MadeBy(s) == {Plan[s].outputs[j] : j \in DOMAIN Plan[s].outputs}

Failing == {"partial", "full"}

(***************************************************************************)
(* Where the controller is.  A step that is retried on the CPU is the one  *)
(* that failed, not the next.                                              *)
(***************************************************************************)
Position ==
    /\ pc = "next" => mNextStepIndex \in {Len(ran), BadStepIndex}
    /\ pc \in {"compute", "partial"} => step = Len(ran) + 1 /\ mNextStepIndex = step

\* Only the execution's own outputs can differ from what producers reported,
\* and only while its step is being run or has failed.
Gathered ==
    /\ pc = "next" \/ (pc = "compute" /\ ~Retried) => outputShapes = reported
    /\ pc \in {"compute", "partial"} =>
            \A o \in Outputs \ MadeBy(step) : outputShapes[o] = reported[o]

\* No dimension that was given has been changed.
Kept == pc # "done" =>
            \A o \in Outputs : IsUpdatable(mOutputs[o].dimensions, outputShapes[o].dimensions)

\* Nobody falls back who may not.
Allowed == pc \in Failing \/ (pc = "compute" /\ Retried) => allowFallback

Unfinished == pc # "done" => result = "none"

PlanInv ==
    /\ TypeOK /\ Position /\ Gathered /\ Kept /\ Allowed /\ Unfinished
    /\ StepsInOrder /\ FallbackIsAllowed /\ ShapesOfTheProducer

----------------------------------------------------------------------------
(* Plans, reports and shapes                                               *)

LEMMA PlanSteps ==
  /\ NumSteps \in Nat \ {0}
  /\ \A s \in 1..NumSteps :
        /\ Plan[s].cpu \in BOOLEAN /\ Plan[s].outputs \in Seq(Outputs)
        /\ DOMAIN Plan[s].outputs = 1..Len(Plan[s].outputs)
        /\ \A j \in DOMAIN Plan[s].outputs : Plan[s].outputs[j] \in Outputs
        /\ \A j, k \in DOMAIN Plan[s].outputs : Plan[s].outputs[j] = Plan[s].outputs[k] => j = k
<1>1. NumSteps \in Nat \ {0} /\ DOMAIN Plan = 1..NumSteps
  BY PlanAssumption, EmptySeq, LenProperties DEF NumSteps
<1>2. ASSUME NEW s \in 1..NumSteps
      PROVE  /\ Plan[s].cpu \in BOOLEAN /\ Plan[s].outputs \in Seq(Outputs)
             /\ DOMAIN Plan[s].outputs = 1..Len(Plan[s].outputs)
             /\ \A j \in DOMAIN Plan[s].outputs : Plan[s].outputs[j] \in Outputs
  <2>1. Plan[s] \in [cpu : BOOLEAN, outputs : Seq(Outputs)]
    BY PlanAssumption, ElementOfSeq DEF NumSteps
  <2>2. Plan[s].cpu \in BOOLEAN /\ Plan[s].outputs \in Seq(Outputs)
    BY <2>1
  <2> QED
    BY <2>2, ElementOfSeq, LenProperties
<1>3. ASSUME NEW s \in 1..NumSteps, NEW j \in DOMAIN Plan[s].outputs,
             NEW k \in DOMAIN Plan[s].outputs, Plan[s].outputs[j] = Plan[s].outputs[k]
      PROVE  j = k
  BY <1>1, <1>3, PlanAssumption
<1> QED
  BY <1>1, <1>2, <1>3

\* isUpdatable allows what two updates in a row do.
LEMMA UpdatesChain ==
  ASSUME NEW a, NEW b, NEW c, IsUpdatable(a, b), IsUpdatable(b, c)  PROVE IsUpdatable(a, c)
BY DEF IsUpdatable

\* What a device or the CPU reports is a shape for each output, unless it is
\* nothing or too short.
LEMMA ReportsAreShapes ==
  ASSUME NEW n \in Nat, NEW r \in DeviceReports(n) \cup CpuReports(n), r \notin {<<>>, Short}
  PROVE  r \in [1..n -> Shapes]
BY DEF DeviceReports, CpuReports

\* updateOutputShapes replaces, of the step's own outputs, some that may be.
LEMMA UpdatedShapes ==
  ASSUME NEW s \in 1..NumSteps, NEW shapes \in [Outputs -> Shapes],
         NEW r \in DeviceReports(Len(Plan[s].outputs)) \cup CpuReports(Len(Plan[s].outputs))
  PROVE  LET new == Updated(r, Plan[s].outputs, shapes)
         IN  /\ new \in [Outputs -> Shapes]
             /\ \A o \in Outputs \ MadeBy(s) : new[o] = shapes[o]
             /\ \A o \in Outputs : IsUpdatable(shapes[o].dimensions, new[o].dimensions)
<1> DEFINE names == Plan[s].outputs
           new == Updated(r, names, shapes)
           before(j) == \A k \in Bad(r, names, shapes) : j < k
<1>1. CASE r \in {<<>>, Short}
  BY <1>1 DEF Updated, IsUpdatable
<1>2. CASE r \notin {<<>>, Short}
  <2>1. r \in [1..Len(names) -> Shapes]
    BY <1>2, PlanSteps, ReportsAreShapes
  <2>2. \A o \in Outputs :
           new[o] = IF \E j \in DOMAIN names : names[j] = o /\ before(j)
                    THEN r[CHOOSE j \in DOMAIN names : names[j] = o] ELSE shapes[o]
    BY <1>2 DEF Updated
  <2>3. ASSUME NEW o \in Outputs, NEW j \in DOMAIN names, names[j] = o, before(j)
        PROVE  new[o] = r[j] /\ IsUpdatable(shapes[o].dimensions, r[j].dimensions)
    <3>1. (CHOOSE k \in DOMAIN names : names[k] = o) = j
      BY <2>3, PlanSteps
    <3>2. j \notin Bad(r, names, shapes)
      BY <2>3, PlanSteps
    <3> QED
      BY <2>2, <2>3, <3>1, <3>2 DEF Bad
  <2>4. ASSUME NEW o \in Outputs, ~ \E j \in DOMAIN names : names[j] = o /\ before(j)
        PROVE  new[o] = shapes[o]
    BY <2>2, <2>4
  <2>5. new \in [Outputs -> Shapes]
    <3>1. DOMAIN new = Outputs /\ new = [o \in Outputs |-> new[o]]
      BY <1>2 DEF Updated
    <3>2. \A o \in Outputs : new[o] \in Shapes
      BY <2>1, <2>3, <2>4, PlanSteps
    <3> QED
      BY <3>1, <3>2
  <2>6. \A o \in Outputs \ MadeBy(s) : new[o] = shapes[o]
    BY <2>4 DEF MadeBy
  <2>7. \A o \in Outputs : IsUpdatable(shapes[o].dimensions, new[o].dimensions)
    BY <2>3, <2>4 DEF IsUpdatable
  <2> QED
    BY <2>5, <2>6, <2>7
<1> QED
  BY <1>1, <1>2

\* A CPU that reports nothing has no outputs to report.
LEMMA NothingToReport ==
  ASSUME NEW s \in 1..NumSteps, <<>> \in CpuReports(Len(Plan[s].outputs))
  PROVE  MadeBy(s) = {}
<1>1. DOMAIN <<>> = 1..Len(Plan[s].outputs)
  BY DEF CpuReports
<1>2. DOMAIN <<>> = {}
  OBVIOUS
<1>3. DOMAIN Plan[s].outputs = {}
  BY <1>1, <1>2, PlanSteps
<1> QED
  BY <1>3 DEF MadeBy

----------------------------------------------------------------------------
(* The end of an execution                                                 *)

\* An execution that is not done has notified nobody.
LEMMA Underway ==
  ASSUME PlanInv, pc # "done"
  PROVE  /\ notifications = 0 /\ result = "none" /\ ~insufficient
         /\ pc \in {"next", "compute", "partial", "full"}
BY DEF PlanInv, Unfinished, StepsInOrder, FallbackIsAllowed, TypeOK

\* While it goes on, the application sees nothing.
LEMMA GoesOn ==
  ASSUME PlanInv, pc # "done", pc' # "done", UNCHANGED settings,
         TypeOK', Position', Gathered', Kept', Allowed',
         ran' = [j \in 1..Len(ran') |-> j], FallbackIsAllowed'
  PROVE  PlanInv'
<1>1. notifications' = 0 /\ result' = "none"
  BY Underway DEF settings
<1>2. Unfinished' /\ StepsInOrder' /\ ShapesOfTheProducer'
  BY <1>1 DEF Unfinished, StepsInOrder, ShapesOfTheProducer
<1> QED
  BY <1>2 DEF PlanInv

\* What remains to be shown when it ends.
LEMMA IsOver ==
  ASSUME pc' = "done", TypeOK', notifications' = 1, ran' = [j \in 1..Len(ran') |-> j],
         result' = "NONE" => (Len(ran') = NumSteps \/ 0 \in cpuRuns') /\ mOutputs' = reported',
         FallbackIsAllowed'
  PROVE  PlanInv'
BY DEF PlanInv, Position, Gathered, Kept, Allowed, Unfinished, StepsInOrder, ShapesOfTheProducer,
       Failing

\* A notification tells the status that it is given and stores the shapes with
\* it, or is of a failure and stores none.
LEMMA Notifies ==
  ASSUME PlanInv, pc # "done", NEW status, NEW shapes, Notify(status, shapes)
  PROVE  /\ notifications' = 1 /\ allowFallback' = allowFallback
         /\ \/ result' = status /\ mOutputs' = shapes
            \/ result' = "FAILURE" /\ mOutputs' = mOutputs
         /\ (\A o \in Outputs : IsUpdatable(mOutputs[o].dimensions, shapes[o].dimensions))
               => result' = status
BY Underway DEF Notify

LEMMA Fails ==
  ASSUME PlanInv, pc # "done", NotifyNoShapes("FAILURE")
  PROVE  /\ notifications' = 1 /\ allowFallback' = allowFallback
         /\ result' = "FAILURE" /\ mOutputs' = mOutputs
BY Notifies DEF NotifyNoShapes

----------------------------------------------------------------------------
(* One lemma for each step of the Controller.                              *)

LEMMA NextEndKeeps == ASSUME PlanInv, NextEnd  PROVE PlanInv'
<1>1. /\ pc = "next" /\ pc' = "done" /\ mNextStepIndex = NumSteps
      /\ mNextStepIndex' = BadStepIndex /\ Notify("NONE", outputShapes)
      /\ UNCHANGED <<step, onCpu, outputShapes, ran, cpuRuns, reported, insufficient>>
  BY DEF NextEnd
<1>2. /\ notifications' = 1 /\ allowFallback' = allowFallback
      /\ \/ result' = "NONE" /\ mOutputs' = outputShapes
         \/ result' = "FAILURE" /\ mOutputs' = mOutputs
  BY <1>1, Notifies
<1>3. Len(ran) = NumSteps /\ outputShapes = reported
  BY <1>1, PlanSteps DEF PlanInv, Position, Gathered, BadStepIndex
<1>4. TypeOK'
  BY <1>1, <1>2 DEF PlanInv, TypeOK
<1>5. FallbackIsAllowed'
  BY <1>1, <1>2, Underway DEF PlanInv, FallbackIsAllowed
<1>6. ran' = [j \in 1..Len(ran') |-> j]
  BY <1>1 DEF PlanInv, StepsInOrder
<1> QED
  BY <1>1, <1>2, <1>3, <1>4, <1>5, <1>6, IsOver

LEMMA NextStepKeeps == ASSUME PlanInv, NextStep  PROVE PlanInv'
<1>1. /\ pc = "next" /\ mNextStepIndex \in 0..(NumSteps - 1)
      /\ step' = mNextStepIndex + 1 /\ onCpu' = Plan[step'].cpu
      /\ mNextStepIndex' = mNextStepIndex + 1 /\ pc' = "compute"
      /\ UNCHANGED <<settings, outputShapes, ran, cpuRuns, reported, insufficient>>
  BY DEF NextStep, Advanced
<1>2. step' \in 1..NumSteps /\ mNextStepIndex = Len(ran)
  BY <1>1, PlanSteps DEF PlanInv, Position, BadStepIndex
<1>3. ~Retried'
  BY <1>1, <1>2, PlanSteps DEF Retried
<1>4. TypeOK'
  BY <1>1, <1>2, PlanSteps DEF PlanInv, TypeOK, settings
<1>5. Position' /\ Gathered' /\ Kept' /\ Allowed'
  BY <1>1, <1>2, <1>3
     DEF PlanInv, Position, Gathered, Kept, Allowed, Failing, settings
<1>6. FallbackIsAllowed'
  BY <1>1, Underway DEF PlanInv, FallbackIsAllowed, settings
<1>7. ran' = [j \in 1..Len(ran') |-> j]
  BY <1>1 DEF PlanInv, StepsInOrder
<1> QED
  BY <1>1, <1>4, <1>5, <1>6, <1>7, GoesOn

LEMMA NextFailsKeeps == ASSUME PlanInv, NextFails  PROVE PlanInv'
<1>1. /\ pc = "next" /\ mNextStepIndex' = BadStepIndex
      /\ UNCHANGED <<step, onCpu, outputShapes, ran, cpuRuns, reported, insufficient>>
  BY DEF NextFails, GiveUp
<1>2. ran' = [j \in 1..Len(ran') |-> j]
  BY <1>1 DEF PlanInv, StepsInOrder
<1>3. CASE allowFallback /\ pc' = "full" /\ UNCHANGED settings
  <2>1. TypeOK'
    BY <1>1, <1>3 DEF PlanInv, TypeOK, settings
  <2>2. Position' /\ Gathered' /\ Kept' /\ Allowed'
    BY <1>1, <1>3 DEF PlanInv, Position, Gathered, Kept, Allowed, settings
  <2>3. FallbackIsAllowed'
    BY <1>1, <1>3, Underway DEF PlanInv, FallbackIsAllowed, settings
  <2> QED
    BY <1>1, <1>2, <1>3, <2>1, <2>2, <2>3, GoesOn
<1>4. CASE pc' = "done" /\ NotifyNoShapes("FAILURE")
  <2>1. /\ notifications' = 1 /\ allowFallback' = allowFallback
        /\ result' = "FAILURE" /\ mOutputs' = mOutputs
    BY <1>1, <1>4, Fails
  <2>2. TypeOK'
    BY <1>1, <1>4, <2>1 DEF PlanInv, TypeOK
  <2>3. FallbackIsAllowed'
    BY <1>1, <2>1, Underway DEF PlanInv, FallbackIsAllowed
  <2> QED
    BY <1>2, <1>4, <2>1, <2>2, <2>3, IsOver
<1> QED
  BY <1>3, <1>4 DEF NextFails, GiveUp, MayFallBack

LEMMA FallbackKeeps == ASSUME PlanInv, FallbackStep \/ FallbackFails  PROVE PlanInv'
<1>1. /\ pc = "partial" /\ pc' # "done"
      /\ UNCHANGED <<settings, outputShapes, ran, cpuRuns, reported, insufficient>>
  BY DEF FallbackStep, FallbackFails
<1>2. allowFallback /\ allowFallback'
  BY <1>1 DEF PlanInv, Allowed, Failing, settings
<1>3. step = Len(ran) + 1 /\ mNextStepIndex = step
  BY <1>1 DEF PlanInv, Position
<1>4. ran' = [j \in 1..Len(ran') |-> j]
  BY <1>1 DEF PlanInv, StepsInOrder
<1>5. FallbackIsAllowed'
  BY <1>1, <1>2, Underway DEF PlanInv, FallbackIsAllowed
<1>6. Kept' /\ Allowed'
  BY <1>1, <1>2 DEF PlanInv, Kept, Allowed, settings
<1>7. CASE pc' = "full" /\ mNextStepIndex' \in (0..NumSteps) \cup {BadStepIndex}
           /\ step' \in 0..NumSteps /\ onCpu' = onCpu
  <2>1. TypeOK'
    BY <1>1, <1>7 DEF PlanInv, TypeOK, settings
  <2>2. Position' /\ Gathered'
    BY <1>7 DEF Position, Gathered
  <2> QED
    BY <1>1, <1>4, <1>5, <1>6, <2>1, <2>2, GoesOn
<1>8. ASSUME FallbackStep
      PROVE  step' = step /\ mNextStepIndex' = step /\ step \in 1..NumSteps
  BY <1>3, <1>8, PlanSteps DEF FallbackStep, OneBack, Advanced
<1>9. CASE FallbackStep /\ pc' = "compute" /\ onCpu' = TRUE /\ ~Plan[step].cpu
  <2>1. Retried'
    BY <1>8, <1>9 DEF Retried
  <2>2. TypeOK'
    BY <1>1, <1>8, <1>9 DEF PlanInv, TypeOK, settings
  <2>3. Position' /\ Gathered'
    BY <1>1, <1>3, <1>8, <1>9, <2>1 DEF PlanInv, Position, Gathered
  <2> QED
    BY <1>1, <1>4, <1>5, <1>6, <2>2, <2>3, GoesOn
<1>10. CASE FallbackFails
  BY <1>7, <1>10 DEF FallbackFails, PlanInv, TypeOK
<1>11. CASE FallbackStep
  <2>1. CASE Plan[step].cpu
    BY <1>7, <1>8, <1>11, <2>1 DEF FallbackStep
  <2>2. CASE ~Plan[step].cpu
    BY <1>8, <1>9, <1>11, <2>2 DEF FallbackStep, OnCpu
  <2> QED
    BY <2>1, <2>2
<1> QED
  BY <1>10, <1>11

----------------------------------------------------------------------------
(* A step that is computed                                                 *)

LEMMA StepAtHand ==
  ASSUME PlanInv, pc = "compute"
  PROVE  step \in 1..NumSteps /\ step = Len(ran) + 1 /\ mNextStepIndex = step
BY PlanSteps DEF PlanInv, TypeOK, Position, BadStepIndex

\* What the CPU is used for without permission is the steps that are its own.
LEMMA CpuRunsAllowed ==
  ASSUME PlanInv, pc = "compute", CountCpuRun
  PROVE  /\ cpuRuns' \subseteq 0..NumSteps
         /\ ~allowFallback => \A s \in cpuRuns' : s # 0 /\ Plan[s].cpu
<1>1. cpuRuns' \subseteq cpuRuns \cup {step} /\ (~onCpu => cpuRuns' = cpuRuns)
  BY DEF CountCpuRun
<1>2. step \in 1..NumSteps /\ step # 0
  BY StepAtHand
<1>3. cpuRuns \subseteq 0..NumSteps /\ (~allowFallback => \A s \in cpuRuns : s # 0 /\ Plan[s].cpu)
  BY DEF PlanInv, TypeOK, FallbackIsAllowed
<1>4. ~allowFallback /\ onCpu => Plan[step].cpu
  BY DEF PlanInv, Allowed, Retried
<1> QED
  BY <1>1, <1>2, <1>3, <1>4

\* Of the shapes, a step that is computed changes some of its own.
Touches(shapes) ==
    /\ shapes \in [Outputs -> Shapes]
    /\ \A o \in Outputs \ MadeBy(step) : shapes[o] = outputShapes[o]
    /\ \A o \in Outputs : IsUpdatable(outputShapes[o].dimensions, shapes[o].dimensions)

LEMMA KeptByTouch ==
  ASSUME PlanInv, pc # "done", NEW shapes, Touches(shapes)
  PROVE  \A o \in Outputs : IsUpdatable(mOutputs[o].dimensions, shapes[o].dimensions)
BY UpdatesChain DEF PlanInv, Kept, Touches

LEMMA UpdatesTouch ==
  ASSUME PlanInv, pc = "compute", NEW status, NEW r \in Reports(status)
  PROVE  Touches(Updated(r, Names, outputShapes))
<1>1. r \in DeviceReports(Len(Names)) \cup CpuReports(Len(Names))
  BY DEF Reports
<1>2. step \in 1..NumSteps /\ outputShapes \in [Outputs -> Shapes]
  BY StepAtHand DEF PlanInv, TypeOK
<1> QED
  BY <1>1, <1>2, UpdatedShapes DEF Touches, Names

\* A step that fails leaves its shapes behind, for the retry or for nothing.
LEMMA StepFailedKeeps ==
  ASSUME PlanInv, StepFailed("compute"), CountCpuRun, Touches(outputShapes'),
         UNCHANGED <<mNextStepIndex, step, onCpu, ran, reported, insufficient>>
  PROVE  PlanInv'
<1>1. pc = "compute"
  BY DEF StepFailed
<1>2. step \in 1..NumSteps /\ step = Len(ran) + 1 /\ mNextStepIndex = step
  BY <1>1, StepAtHand
<1>3. ran' = [j \in 1..Len(ran') |-> j]
  BY DEF PlanInv, StepsInOrder
<1>4. /\ cpuRuns' \subseteq 0..NumSteps
      /\ ~allowFallback => \A s \in cpuRuns' : s # 0 /\ Plan[s].cpu
  BY <1>1, CpuRunsAllowed
<1>5. CASE pc' \in Failing /\ allowFallback /\ UNCHANGED settings
  <2>1. TypeOK'
    BY <1>4, <1>5 DEF PlanInv, TypeOK, settings, Touches, Failing
  <2>2. Position'
    BY <1>2, <1>5 DEF Position, Failing
  <2>3. Gathered'
    <3>1. \A o \in Outputs \ MadeBy(step) : outputShapes'[o] = reported'[o]
      BY <1>1 DEF PlanInv, Gathered, Touches
    <3> QED
      BY <1>5, <3>1 DEF Gathered, Failing, MadeBy
  <2>4. Kept'
    BY <1>1, <1>5, KeptByTouch DEF Kept, settings
  <2>5. Allowed' /\ FallbackIsAllowed'
    BY <1>1, <1>5, Underway DEF Allowed, FallbackIsAllowed, settings
  <2>6. pc # "done" /\ pc' # "done"
    BY <1>1, <1>5 DEF Failing
  <2> QED
    BY <1>3, <1>5, <2>1, <2>2, <2>3, <2>4, <2>5, <2>6, GoesOn
<1>6. CASE pc' = "done" /\ NotifyNoShapes("FAILURE")
  <2>1. /\ notifications' = 1 /\ allowFallback' = allowFallback
        /\ result' = "FAILURE" /\ mOutputs' = mOutputs
    BY <1>1, <1>6, Fails
  <2>2. TypeOK'
    BY <1>4, <1>6, <2>1 DEF PlanInv, TypeOK, Touches
  <2>3. FallbackIsAllowed'
    BY <1>1, <1>4, <2>1, Underway DEF FallbackIsAllowed
  <2> QED
    BY <1>3, <1>6, <2>1, <2>2, <2>3, IsOver
<1>7. Retried => allowFallback
  BY <1>1 DEF PlanInv, Allowed
<1> QED
  BY <1>5, <1>6, <1>7 DEF StepFailed, MayFallBack, Failing

LEMMA ComputeFailsKeeps == ASSUME PlanInv, ComputeFails  PROVE PlanInv'
<1>1. Touches(outputShapes')
  BY DEF ComputeFails, Touches, PlanInv, TypeOK, IsUpdatable
<1> QED
  BY <1>1, StepFailedKeeps DEF ComputeFails

\* A step that completes has gathered the shapes that it has reported, whatever
\* an attempt that failed had left.
LEMMA ReportedIsGathered ==
  ASSUME PlanInv, pc = "compute", NEW r \in Reports("NONE"), Updates(r, Names, outputShapes),
         outputShapes' = Updated(r, Names, outputShapes),
         reported' = IF r \in {<<>>, Short} THEN reported
                     ELSE [o \in Outputs |->
                             IF \E j \in DOMAIN Names : Names[j] = o
                             THEN r[CHOOSE j \in DOMAIN Names : Names[j] = o]
                             ELSE reported[o]]
  PROVE  outputShapes' = reported' /\ reported' \in [Outputs -> Shapes]
<1>1. step \in 1..NumSteps
  BY StepAtHand
<1>2. outputShapes \in [Outputs -> Shapes] /\ reported \in [Outputs -> Shapes]
  BY DEF PlanInv, TypeOK
<1>3. Touches(outputShapes')
  BY UpdatesTouch
<1>4. outputShapes' \in [Outputs -> Shapes]
  BY <1>3 DEF Touches
<1>5. CASE r \in {<<>>, Short}
  <2>1. r = <<>>
    BY <1>5 DEF Updates
  <2>2. outputShapes = reported
    <3>1. CASE ~Retried
      BY <3>1 DEF PlanInv, Gathered
    <3>2. CASE Retried
      <4>1. MadeBy(step) = {}
        BY <1>1, <2>1, <3>2, NothingToReport DEF Retried, Reports, Names
      <4>2. \A o \in Outputs : outputShapes[o] = reported[o]
        BY <4>1 DEF PlanInv, Gathered
      <4> QED
        BY <1>2, <4>2
    <3> QED
      BY <3>1, <3>2
  <2> QED
    BY <1>2, <1>5, <2>2 DEF Updated
<1>6. CASE r \notin {<<>>, Short}
  <2>1. outputShapes' = [o \in Outputs |-> IF \E j \in DOMAIN Names : Names[j] = o
                                           THEN r[CHOOSE j \in DOMAIN Names : Names[j] = o]
                                           ELSE outputShapes[o]]
    BY <1>6 DEF Updates, Updated
  <2>2. ASSUME NEW o \in Outputs, ~ \E j \in DOMAIN Names : Names[j] = o
        PROVE  outputShapes[o] = reported[o]
    <3>1. o \notin MadeBy(step)
      BY <2>2 DEF MadeBy, Names
    <3> QED
      BY <3>1 DEF PlanInv, Gathered
  <2>3. outputShapes' = reported'
    BY <1>6, <2>1, <2>2
  <2> QED
    BY <1>4, <2>3
<1> QED
  BY <1>5, <1>6

LEMMA ComputeSucceedsKeeps == ASSUME PlanInv, ComputeSucceeds  PROVE PlanInv'
<1>1. PICK r \in Reports("NONE") :
        /\ outputShapes' = Updated(r, Names, outputShapes)
        /\ IF Updates(r, Names, outputShapes)
           THEN /\ pc' = "next"
                /\ ran' = Append(ran, step)
                /\ reported' = IF r \in {<<>>, Short} THEN reported
                                ELSE [o \in Outputs |->
                                        IF \E j \in DOMAIN Names : Names[j] = o
                                        THEN r[CHOOSE j \in DOMAIN Names : Names[j] = o]
                                        ELSE reported[o]]
                /\ UNCHANGED settings
           ELSE /\ StepFailed("compute")
                /\ UNCHANGED <<ran, reported>>
  BY DEF ComputeSucceeds
<1>2. /\ pc = "compute" /\ CountCpuRun
      /\ UNCHANGED <<mNextStepIndex, step, onCpu, insufficient>>
  BY DEF ComputeSucceeds
<1>3. Touches(outputShapes')
  BY <1>1, <1>2, UpdatesTouch
<1>4. step \in 1..NumSteps /\ step = Len(ran) + 1 /\ mNextStepIndex = step
  BY <1>2, StepAtHand
<1>5. CASE ~Updates(r, Names, outputShapes)
  BY <1>1, <1>2, <1>3, <1>5, StepFailedKeeps
<1>6. CASE Updates(r, Names, outputShapes)
  <2>1. outputShapes' = reported' /\ reported' \in [Outputs -> Shapes]
    BY <1>1, <1>2, <1>6, ReportedIsGathered
  <2>2. pc' = "next" /\ ran' = Append(ran, step) /\ UNCHANGED settings
    BY <1>1, <1>6
  <2>3. ran \in Seq(1..NumSteps) /\ \A j \in 1..Len(ran) : ran[j] = j
    BY DEF PlanInv, TypeOK, StepsInOrder
  <2>4. /\ ran' \in Seq(1..NumSteps) /\ Len(ran') = Len(ran) + 1
        /\ \A j \in 1..Len(ran') : ran'[j] = IF j = Len(ran) + 1 THEN step ELSE ran[j]
    BY <1>4, <2>2, <2>3, AppendProperties
  <2>5. ran' = [j \in 1..Len(ran') |-> j]
    <3>1. \A j \in 1..Len(ran') : ran'[j] = j
      BY <1>4, <2>3, <2>4, LenProperties
    <3> QED
      BY <2>4, <3>1, LenProperties
  <2>6. TypeOK'
    <3>1. cpuRuns' \subseteq 0..NumSteps
      BY <1>2, CpuRunsAllowed
    <3> QED
      BY <1>2, <2>1, <2>2, <2>4, <3>1 DEF PlanInv, TypeOK, settings
  <2>7. Position' /\ Gathered' /\ Allowed'
    BY <1>2, <1>4, <2>1, <2>2, <2>4 DEF Position, Gathered, Allowed, Failing
  <2>8. Kept'
    BY <1>2, <1>3, <2>2, KeptByTouch DEF Kept, settings
  <2>9. FallbackIsAllowed'
    BY <1>2, <2>2, Underway, CpuRunsAllowed DEF FallbackIsAllowed, settings
  <2> QED
    BY <1>2, <2>2, <2>5, <2>6, <2>7, <2>8, <2>9, GoesOn
<1> QED
  BY <1>5, <1>6

\* Too small an output is told as such: the shapes that go with it fit.
LEMMA ComputeInsufficientKeeps == ASSUME PlanInv, ComputeInsufficient  PROVE PlanInv'
<1>1. PICK r \in Reports("INSUFFICIENT") :
        /\ outputShapes' = Updated(r, Names, outputShapes)
        /\ insufficient' = (insufficient \/ Updates(r, Names, outputShapes))
        /\ IF Updates(r, Names, outputShapes) /\ ~Recoverable("INSUFFICIENT")
           THEN pc' = "done" /\ Notify("INSUFFICIENT", outputShapes')
           ELSE StepFailed("compute")
  BY DEF ComputeInsufficient
<1>2. /\ pc = "compute" /\ CountCpuRun
      /\ UNCHANGED <<mNextStepIndex, step, onCpu, ran, reported>>
  BY DEF ComputeInsufficient
<1>3. Touches(outputShapes')
  BY <1>1, <1>2, UpdatesTouch
<1>4. ~insufficient
  BY <1>2, Underway
<1>5. CASE ~Updates(r, Names, outputShapes)
  <2>1. insufficient' = insufficient
    BY <1>1, <1>4, <1>5 DEF PlanInv, TypeOK
  <2> QED
    BY <1>1, <1>2, <1>3, <1>5, <2>1, StepFailedKeeps
<1>6. CASE Updates(r, Names, outputShapes)
  <2>1. pc' = "done" /\ Notify("INSUFFICIENT", outputShapes')
    BY <1>1, <1>6 DEF Recoverable
  <2>2. /\ notifications' = 1 /\ allowFallback' = allowFallback
        /\ result' = "INSUFFICIENT"
        /\ mOutputs' \in {mOutputs, outputShapes'}
    BY <1>2, <1>3, <2>1, Notifies, KeptByTouch
  <2>3. cpuRuns' \subseteq 0..NumSteps /\ (~allowFallback => \A s \in cpuRuns' : s # 0 /\ Plan[s].cpu)
    BY <1>2, CpuRunsAllowed
  <2>4. insufficient' \in BOOLEAN
    BY <1>1, <1>4, <1>6
  <2>5. TypeOK'
    BY <1>2, <1>3, <2>1, <2>2, <2>3, <2>4 DEF PlanInv, TypeOK, Touches
  <2>6. FallbackIsAllowed'
    BY <2>1, <2>2, <2>3 DEF FallbackIsAllowed
  <2>7. ran' = [j \in 1..Len(ran') |-> j]
    BY <1>2 DEF PlanInv, StepsInOrder
  <2> QED
    BY <2>1, <2>2, <2>5, <2>6, <2>7, IsOver
<1> QED
  BY <1>5, <1>6

\* The full model on the CPU reports all shapes anew.
LEMMA FullKeeps == ASSUME PlanInv, Full  PROVE PlanInv'
<1>1. /\ pc = "full" /\ pc' = "done" /\ cpuRuns' = cpuRuns \cup {0}
      /\ UNCHANGED <<mNextStepIndex, step, onCpu, ran, outputShapes, insufficient>>
  BY DEF Full
<1>2. allowFallback
  BY <1>1 DEF PlanInv, Allowed, Failing
<1>3. ran' = [j \in 1..Len(ran') |-> j]
  BY <1>1 DEF PlanInv, StepsInOrder
<1>4. 0 \in cpuRuns' /\ cpuRuns' \subseteq 0..NumSteps
  BY <1>1, PlanSteps DEF PlanInv, TypeOK
<1>5. ASSUME notifications' = 1, allowFallback' = allowFallback,
             result' \in {"NONE", "INSUFFICIENT", "FAILURE"},
             mOutputs' \in [Outputs -> Shapes], reported' \in [Outputs -> Shapes],
             result' = "NONE" => mOutputs' = reported'
      PROVE  PlanInv'
  <2>1. TypeOK'
    BY <1>1, <1>4, <1>5 DEF PlanInv, TypeOK
  <2>2. FallbackIsAllowed'
    BY <1>1, <1>2, <1>5, Underway DEF FallbackIsAllowed
  <2> QED
    BY <1>1, <1>3, <1>4, <1>5, <2>1, <2>2, IsOver
<1>6. CASE NotifyNoShapes("FAILURE") /\ UNCHANGED reported
  BY <1>1, <1>5, <1>6, Fails DEF PlanInv, TypeOK
<1>7. ASSUME NEW r \in [Outputs -> {s \in Shapes : s.dimensions = "right"}],
             NEW status \in {"NONE", "INSUFFICIENT"}, Notify(status, r),
             reported' = IF status = "NONE" THEN r ELSE reported
      PROVE  PlanInv'
  <2>1. r \in [Outputs -> Shapes]
    OBVIOUS
  <2>2. /\ notifications' = 1 /\ allowFallback' = allowFallback
        /\ \/ result' = status /\ mOutputs' = r
           \/ result' = "FAILURE" /\ mOutputs' = mOutputs
    BY <1>1, <1>7, Notifies
  <2> QED
    BY <1>5, <1>7, <2>1, <2>2 DEF PlanInv, TypeOK
<1> QED
  BY <1>6, <1>7 DEF Full

----------------------------------------------------------------------------
LEMMA PlanInit == Init => PlanInv
<1> SUFFICES ASSUME Init PROVE PlanInv
  OBVIOUS
<1>1. outputShapes \in [Outputs -> Shapes] /\ mOutputs = outputShapes /\ reported = outputShapes
  BY DEF Init, Given, Shapes
<1>2. ran = <<>> /\ ran \in Seq(1..NumSteps) /\ Len(ran) = 0
  BY DEF Init
<1>3. ran = [j \in 1..Len(ran) |-> j]
  BY <1>2
<1>4. TypeOK
  <2>1. mNextStepIndex \in (0..NumSteps) \cup {BadStepIndex} /\ step \in 0..NumSteps
    BY PlanSteps DEF Init
  <2>2. pc = "next" /\ onCpu \in BOOLEAN /\ allowFallback \in BOOLEAN /\ insufficient \in BOOLEAN
    BY DEF Init
  <2>3. result = "none" /\ notifications = 0 /\ cpuRuns = {}
    BY DEF Init
  <2> QED
    BY <1>1, <1>2, <2>1, <2>2, <2>3 DEF TypeOK
<1>5. Position /\ Gathered /\ Kept /\ Allowed /\ Unfinished
  BY <1>1, <1>2
     DEF Init, Position, Gathered, Kept, Allowed, Unfinished, Failing, IsUpdatable
<1>6. StepsInOrder /\ FallbackIsAllowed /\ ShapesOfTheProducer
  BY <1>3 DEF Init, StepsInOrder, FallbackIsAllowed, ShapesOfTheProducer
<1> QED
  BY <1>4, <1>5, <1>6 DEF PlanInv

LEMMA PlanNext == PlanInv /\ [Next]_vars => PlanInv'
<1> SUFFICES ASSUME PlanInv, [Next]_vars PROVE PlanInv'
  OBVIOUS
<1>1. CASE UNCHANGED vars
  BY <1>1 DEF vars, PlanInv, TypeOK, Position, Gathered, Kept, Allowed, Unfinished, StepsInOrder,
              FallbackIsAllowed, ShapesOfTheProducer, Retried
<1> QED
  BY <1>1, NextEndKeeps, NextStepKeeps, NextFailsKeeps, FallbackKeeps, ComputeFailsKeeps,
     ComputeSucceedsKeeps, ComputeInsufficientKeeps, FullKeeps DEF Next

LEMMA PlanAlways == Spec => []PlanInv
BY PlanInit, PlanNext, PTL DEF Spec

\* asyncStartComputePartitioned completes the steps of any plan in its order,
\* none twice and none skipped, whatever fails and is retried; it reports a
\* success only after the last, or after the full model; and it notifies the
\* callback once, when it is done.
THEOREM InOrder == Spec => []StepsInOrder
<1>1. PlanInv => StepsInOrder
  BY DEF PlanInv
<1> QED
  BY <1>1, PlanAlways, PTL

\* Without permission nothing but the CPU's own steps is run on the CPU, for any
\* plan; and an output that a step finds too small is the execution's result,
\* with shapes that the ExecutionBuilder accepts.
THEOREM NoFallbackUnallowed == Spec => []FallbackIsAllowed
<1>1. PlanInv => FallbackIsAllowed
  BY DEF PlanInv
<1> QED
  BY <1>1, PlanAlways, PTL

\* On success the shapes that the application is told are those that the
\* executors which made the outputs have reported, though the attempts that
\* failed have reported other shapes, and stored some of them.
THEOREM ProducersShapes == Spec => []ShapesOfTheProducer
<1>1. PlanInv => ShapesOfTheProducer
  BY DEF PlanInv
<1> QED
  BY <1>1, PlanAlways, PTL
=============================================================================
