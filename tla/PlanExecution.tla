--------------------------- MODULE PlanExecution ---------------------------
(***************************************************************************)
(* asyncStartComputePartitioned: the steps of a plan are executed in turn, *)
(* each on its device, from a Controller that knows the next step.  When a *)
(* step fails and fallback is allowed, the step is run again on the CPU,   *)
(* and when that fails too, the full model is.  Whatever happens, the      *)
(* ExecutionCallback is notified; its finish function then stores the      *)
(* output shapes in the ExecutionBuilder.                                  *)
(*                                                                         *)
(* Of an output's dimensions the model keeps whether they are unspecified  *)
(* ("open"), those that the CPU computes ("right") or others ("wrong").    *)
(* A driver may report any.  Dimensions that are given may not change.     *)
(***************************************************************************)
EXTENDS Integers, Sequences, FiniteSets

CONSTANTS
    Outputs,        \* the outputs of the model
    Plan            \* the steps: [cpu |-> BOOLEAN, outputs |-> sequence of Outputs]

\* Each output is made by one step, which names it once (addOperand's assertion).
ASSUME PlanAssumption ==
    /\ Plan \in Seq([cpu : BOOLEAN, outputs : Seq(Outputs)]) /\ Plan # <<>>
    /\ \A o \in Outputs : Cardinality({s \in DOMAIN Plan : o \in {Plan[s].outputs[j] :
                                                       j \in DOMAIN Plan[s].outputs}}) = 1
    /\ \A s \in DOMAIN Plan : \A j, k \in DOMAIN Plan[s].outputs :
            Plan[s].outputs[j] = Plan[s].outputs[k] => j = k

VARIABLES
    pc,             \* control point of asyncStartComputePartitioned
    allowFallback,
    mNextStepIndex, \* of the Controller; BadStepIndex after the end or an error
    step,           \* the step of the executor at hand
    onCpu,          \* whether the executor at hand is run by startComputeOnCpu
    outputShapes,   \* shapes gathered from the steps so far
    mOutputs,       \* the shapes in the ExecutionBuilder
    result,         \* status the callback holds
    (* history *)
    notifications,  \* calls of executionCallback->notify
    ran,            \* the steps that completed, in order
    cpuRuns,        \* the steps run on the CPU, and 0 for the full model
    reported,       \* the shapes reported by the executor that made each output
    insufficient    \* an executor has found an output too small

vars == <<pc, allowFallback, mNextStepIndex, step, onCpu, outputShapes, mOutputs, result,
          notifications, ran, cpuRuns, reported, insufficient>>
settings == <<allowFallback, mOutputs, result, notifications>>

NumSteps == Len(Plan)
BadStepIndex == -1
Shapes == [dimensions : {"open", "right", "wrong"}, isSufficient : BOOLEAN]

\* What executors report for n outputs: nothing, too few shapes, or a shape each.
Short == <<[dimensions |-> "short", isSufficient |-> TRUE]>>
CpuReports(n) == [1..n -> {s \in Shapes : s.dimensions = "right"}]
Enough(report) == \A j \in DOMAIN report : report[j].isSufficient
DeviceReports(n) == [1..n -> Shapes] \cup {<<>>} \cup (IF n > 1 THEN {Short} ELSE {})

\* isUpdatable.
IsUpdatable(to, from) == to = "open" \/ to = from

\* StepExecutor::updateOutputShapes stops at the first output that it cannot
\* update; those before it have been.  The slip does not tell.
Bad(report, names, shapes) ==
    {j \in DOMAIN names : ~IsUpdatable(shapes[names[j]].dimensions, report[j].dimensions)}
UpdatesAnyway(report, names, shapes) == TRUE
Updates(report, names, shapes) ==
    report = <<>> \/ (report # Short /\ Bad(report, names, shapes) = {})
Updated(report, names, shapes) ==
    IF report \in {<<>>, Short} THEN shapes
    ELSE [o \in Outputs |->
            IF \E j \in DOMAIN names :
                  /\ names[j] = o
                  /\ \A k \in Bad(report, names, shapes) : j < k
            THEN report[CHOOSE j \in DOMAIN names : names[j] = o]
            ELSE shapes[o]]

----------------------------------------------------------------------------
(* ExecutionCallback::notify with the finish function of the execution.    *)

\* ExecutionBuilder::finish: all shapes are stored, or none and the status
\* becomes GENERAL_FAILURE.
Notify(status, shapes) ==
    LET fits == \A o \in Outputs : IsUpdatable(mOutputs[o].dimensions, shapes[o].dimensions)
    IN  /\ notifications' = notifications + 1
        /\ result' = IF fits THEN status ELSE "FAILURE"
        /\ mOutputs' = IF fits THEN shapes ELSE mOutputs
        /\ UNCHANGED allowFallback

\* A notification without shapes leaves those of the ExecutionBuilder.
NotifyNoShapes(status) == Notify(status, mOutputs)

----------------------------------------------------------------------------
(* ExecutionPlan::next and fallback                                        *)

\* The index after a step was taken.
Advanced(i) == i + 1

\* What follows an error: the full model on the CPU, or its report.
MayAlways == TRUE
MayFallBack == allowFallback

GiveUp(from, status) ==
    /\ pc = from
    /\ IF MayFallBack
       THEN pc' = "full" /\ UNCHANGED settings
       ELSE pc' = "done" /\ NotifyNoShapes(status)

NextEnd ==
    /\ pc = "next" /\ mNextStepIndex = NumSteps
    /\ mNextStepIndex' = BadStepIndex
    /\ pc' = "done" /\ Notify("NONE", outputShapes)
    /\ UNCHANGED <<step, onCpu, outputShapes, ran, cpuRuns, reported, insufficient>>

NextStep ==
    /\ pc = "next" /\ mNextStepIndex \in 0..(NumSteps - 1)
    /\ step' = mNextStepIndex + 1
    /\ onCpu' = Plan[step'].cpu
    /\ mNextStepIndex' = Advanced(mNextStepIndex)
    /\ pc' = "compute"
    /\ UNCHANGED <<settings, outputShapes, ran, cpuRuns, reported, insufficient>>

\* The controller could not allocate its temporaries, or the executor could
\* not be given one of them.
NextFails ==
    /\ GiveUp("next", "FAILURE")
    /\ mNextStepIndex # NumSteps
    /\ mNextStepIndex = BadStepIndex \/ NumSteps > 1
    /\ mNextStepIndex' = BadStepIndex
    /\ UNCHANGED <<step, onCpu, outputShapes, ran, cpuRuns, reported, insufficient>>

\* fallback takes one step back and makes the executor again, which this time
\* is run on the CPU; the slips forget either.
OnDevice == FALSE
OnCpu == TRUE
NotBack(i) == i
OneBack(i) == i - 1

FallbackStep ==
    /\ pc = "partial" /\ mNextStepIndex \in 1..NumSteps
    /\ step' = OneBack(mNextStepIndex) + 1
    /\ IF Plan[step'].cpu
       THEN pc' = "full" /\ UNCHANGED onCpu
       ELSE pc' = "compute" /\ onCpu' = OnCpu
    /\ mNextStepIndex' = Advanced(OneBack(mNextStepIndex))
    /\ UNCHANGED <<settings, outputShapes, ran, cpuRuns, reported, insufficient>>

FallbackFails ==
    /\ pc = "partial" /\ NumSteps > 1
    /\ mNextStepIndex' = BadStepIndex
    /\ pc' = "full"
    /\ UNCHANGED <<settings, step, onCpu, outputShapes, ran, cpuRuns, reported, insufficient>>

----------------------------------------------------------------------------
(* One step: startCompute, wait, updateOutputShapes.                       *)

Names == Plan[step].outputs
Retried == onCpu /\ ~Plan[step].cpu
CountCpuRun == cpuRuns' = IF onCpu THEN cpuRuns \cup {step} ELSE cpuRuns

\* The step did not work: a step of the CPU's own or a device is tried again,
\* the retry on the CPU is given up for the full model.
StepFailed(from) ==
    /\ pc = from
    /\ IF Retried THEN pc' = "full" /\ UNCHANGED settings
       ELSE IF MayFallBack THEN pc' = "partial" /\ UNCHANGED settings
       ELSE pc' = "done" /\ NotifyNoShapes("FAILURE")

\* startCompute returns an error, or its callback has one.
ComputeFails ==
    /\ StepFailed("compute")
    /\ CountCpuRun
    /\ UNCHANGED <<mNextStepIndex, step, onCpu, outputShapes, ran, reported, insufficient>>

Reports(status) ==
    {r \in IF onCpu THEN CpuReports(Len(Names)) ELSE DeviceReports(Len(Names)) :
        /\ onCpu => Enough(r) = (status = "NONE")
        /\ status = "INSUFFICIENT" => r # <<>>}

ComputeSucceeds ==
    /\ pc = "compute"
    /\ CountCpuRun
    /\ \E r \in Reports("NONE") :
        /\ outputShapes' = Updated(r, Names, outputShapes)
        /\ IF Updates(r, Names, outputShapes)
           THEN /\ pc' = "next"
                /\ ran' = Append(ran, step)
                /\ reported' = IF r \in {<<>>, Short} THEN reported
                                ELSE [o \in Outputs |->
                                        IF \E j \in DOMAIN Names : Names[j] = o
                                        THEN r[CHOOSE j \in DOMAIN Names : Names[j] = o]
                                        ELSE reported[o]]
                /\ UNCHANGED settings
           ELSE /\ StepFailed("compute")
                /\ UNCHANGED <<ran, reported>>
    /\ UNCHANGED <<mNextStepIndex, step, onCpu, insufficient>>

\* An output is too small: this is reported with what shapes are known, and
\* not recoverable.
Recoverable(status) == status # "INSUFFICIENT"

ComputeInsufficient ==
    /\ pc = "compute"
    /\ CountCpuRun
    /\ \E r \in Reports("INSUFFICIENT") :
        /\ outputShapes' = Updated(r, Names, outputShapes)
        /\ LET fits == Updates(r, Names, outputShapes)
           IN  /\ insufficient' = (insufficient \/ fits)
               /\ IF fits /\ ~Recoverable("INSUFFICIENT")
                  THEN pc' = "done" /\ Notify("INSUFFICIENT", outputShapes')
                  ELSE StepFailed("compute")
    /\ UNCHANGED <<mNextStepIndex, step, onCpu, ran, reported>>

----------------------------------------------------------------------------
(* cpuFallbackFull                                                         *)

Full ==
    /\ pc = "full"
    /\ pc' = "done"
    /\ cpuRuns' = cpuRuns \cup {0}
    /\ \/ /\ NotifyNoShapes("FAILURE")
          /\ UNCHANGED <<outputShapes, reported, insufficient>>
       \/ \E r \in [Outputs -> {s \in Shapes : s.dimensions = "right"}] :
            LET status == IF \A o \in Outputs : r[o].isSufficient THEN "NONE" ELSE "INSUFFICIENT"
            IN  /\ Notify(status, r)
                /\ reported' = IF status = "NONE" THEN r ELSE reported
                /\ UNCHANGED <<outputShapes, insufficient>>
    /\ UNCHANGED <<mNextStepIndex, step, onCpu, ran>>

----------------------------------------------------------------------------
Given == [dimensions : {"open", "right"}, isSufficient : {TRUE}]

Init ==
    /\ pc = "next"
    /\ allowFallback \in BOOLEAN
    /\ mNextStepIndex \in IF NumSteps > 1 THEN {0, BadStepIndex} ELSE {0}
    /\ step = 0 /\ onCpu = FALSE
    /\ mOutputs \in [Outputs -> Given]
    /\ outputShapes = mOutputs /\ reported = mOutputs
    /\ result = "none" /\ notifications = 0
    /\ ran = <<>> /\ cpuRuns = {} /\ insufficient = FALSE

Next == \/ NextEnd \/ NextStep \/ NextFails \/ FallbackStep \/ FallbackFails
        \/ ComputeFails \/ ComputeSucceeds \/ ComputeInsufficient \/ Full

Spec == Init /\ [][Next]_vars
FairSpec == Spec /\ WF_vars(Next)

----------------------------------------------------------------------------
\* Types; the next step is one of the plan's, or the end, or no step at all.
TypeOK ==
    /\ pc \in {"next", "compute", "partial", "full", "done"}
    /\ allowFallback \in BOOLEAN /\ onCpu \in BOOLEAN /\ insufficient \in BOOLEAN
    /\ mNextStepIndex \in (0..NumSteps) \cup {BadStepIndex}
    /\ step \in 0..NumSteps
    /\ outputShapes \in [Outputs -> Shapes] /\ mOutputs \in [Outputs -> Shapes]
    /\ reported \in [Outputs -> Shapes]
    /\ result \in {"none", "NONE", "INSUFFICIENT", "FAILURE"}
    /\ notifications \in Nat /\ ran \in Seq(1..NumSteps) /\ cpuRuns \subseteq 0..NumSteps

\* The steps complete in the order of the plan, none twice and none skipped,
\* though some are retried on the CPU; success is reported after the last of
\* them or after the full model has run.  The callback is notified then, once,
\* by whichever of the ten ways the execution ends.
StepsInOrder ==
    /\ notifications = IF pc = "done" THEN 1 ELSE 0
    /\ ran = [j \in 1..Len(ran) |-> j]
    /\ result = "NONE" => Len(ran) = NumSteps \/ 0 \in cpuRuns

\* On success the application is told the shapes that were reported by the
\* executor that made the output; what a failed attempt left behind is lost.
ShapesOfTheProducer == result = "NONE" => mOutputs = reported

\* Where fallback is not allowed, the CPU runs its own steps only; and too
\* small an output is the final verdict, which no fallback follows.
FallbackIsAllowed ==
    /\ ~allowFallback => \A s \in cpuRuns : s # 0 /\ Plan[s].cpu
    /\ insufficient => pc = "done" /\ result = "INSUFFICIENT"

\* Every execution ends.
Ends == <>(pc = "done")
=============================================================================
