-------------------------- MODULE ExecutionProofs --------------------------
(***************************************************************************)
(* The life of executions, for any number of them, any model and whatever  *)
(* they run on: no computation outlives its ExecutionBuilder, what queries *)
(* answer once a computation is known to be over is final, and a burst is  *)
(* in one call at most.                                                    *)
(***************************************************************************)
EXTENDS Execution, TLAPS

Underway == {"begin", "driver", "cpu", "finish", "store"}
InBurst == {"locked", "burst"}
Users(labels) == {e \in Executions : call[e] \in labels}

(***************************************************************************)
(* An execution that has begun has been started, so that it does not begin *)
(* again; the application learns that it is over only from its callback;   *)
(* and a call that needs the object keeps the application from freeing it. *)
(***************************************************************************)
LifeInv ==
    \A e \in Executions :
        /\ engine[e] # "none" => mStarted[e] /\ object[e] # "none"
        /\ collected[e] => engine[e] = "done"
        /\ engine[e] \in Underway => object[e] = "live"
        /\ call[e] \in {"compute", "burst", "locked"} => object[e] = "live"

\* What ExecutionBuilder::finish has stored so far.  No output is known to be too
\* small before the end of the computation, nor after it unless that was reported.
FinishInv ==
    \A e \in Executions :
        /\ engine[e] \in {"store", "done"} => mFinished[e]
        /\ engine[e] # "done" \/ object[e] = "freed" => mOutputs[e].isSufficient
        /\ engine[e] = "done" /\ object[e] = "live" =>
              IF callback[e].shapes = NoShapes THEN mOutputs[e].isSufficient
              ELSE mOutputs[e] = callback[e].shapes

\* The flag of the burst is the call that is in it.
BurstInv ==
    /\ mCurrentlyRunning => \E e \in Executions : Users(InBurst) = {e}
    /\ ~mCurrentlyRunning => Users(InBurst) = {}

ExecInv == TypeOK /\ LifeInv /\ FinishInv /\ BurstInv /\ NoUseAfterFree

----------------------------------------------------------------------------
(* Types                                                                   *)

Application(e) ==
    \/ Create(e) \/ Compute(e) \/ StartCompute(e) \/ BurstCompute(e)
    \/ \E a \in 0..NumArguments : SetArgument(e, a)
    \/ \E measure \in BOOLEAN : SetMeasureTiming(e, measure)
    \/ EventWait(e) \/ Free(e)

\* What is reported of an output has the type of an output.
LEMMA ReportedIsOutput ==
  ASSUME TypeOK, NEW e \in Executions  PROVE Reported(e) \subseteq Output
<1>1. mOutputs[e] \in Output
  BY DEF TypeOK
<1> QED
  BY <1>1, ExecutionAssumption DEF Reported

LEMMA NoShapesIsNoOutput == NoShapes \notin Output /\ Unset \in Output /\ Unset.isSufficient
<1>1. NoShapes.dimensions = "none"
  BY DEF NoShapes
<1>2. \A o \in Output : o.dimensions \in {"empty", "given", "computed"}
  BY DEF Output
<1> QED
  BY <1>1, <1>2 DEF Output, Unset

\* An answer that carries shapes, or none, has the type of a callback.
LEMMA AnswerType ==
  ASSUME NEW status \in {"NONE", "INSUFFICIENT", "FAILURE"}, NEW timing \in {"unknown", "measured"},
         NEW shapes \in Output \cup {NoShapes}
  PROVE  Answer(status, timing, shapes) \in [status : {"pending", "NONE", "INSUFFICIENT", "FAILURE"},
                                            timing : {"unknown", "measured"},
                                            shapes : Output \cup {NoShapes}]
BY DEF Answer

\* No computation gives the types up: those of what the application calls ...
LEMMA ApplicationKeepsTypes ==
  ASSUME TypeOK, NEW e \in Executions, Application(e)  PROVE TypeOK'
<1>1. CASE Create(e)
  BY <1>1, ExecutionAssumption DEF Create, TypeOK, builder
<1>2. CASE Compute(e)
  BY <1>2 DEF Compute, Begin, Pending, TypeOK
<1>3. CASE StartCompute(e)
  BY <1>3 DEF StartCompute, Begin, Pending, TypeOK
<1>4. CASE BurstCompute(e)
  BY <1>4 DEF BurstCompute, TypeOK, builder
<1>5. ASSUME NEW a \in 0..NumArguments, SetArgument(e, a) PROVE TypeOK'
  <2>1. a \in Index
    BY <1>5, ExecutionAssumption DEF SetArgument, InRange, Index
  <2>2. ASSUME NEW d \in {"empty", "given"}, mOutputs' = [mOutputs EXCEPT ![e].dimensions = d]
        PROVE  mOutputs' \in [Executions -> Output]
    <3>1. mOutputs[e] \in Output
      BY DEF TypeOK
    <3>2. [mOutputs[e] EXCEPT !.dimensions = d] \in Output
      BY <3>1 DEF Output
    <3> QED
      BY <2>2, <3>2 DEF TypeOK
  <2>3. mOutputs' \in [Executions -> Output]
    BY <1>5, <2>2 DEF SetArgument, TypeOK
  <2> QED
    BY <1>5, <2>1, <2>3 DEF SetArgument, TypeOK
<1>6. ASSUME NEW measure \in BOOLEAN, SetMeasureTiming(e, measure) PROVE TypeOK'
  BY <1>6 DEF SetMeasureTiming, TypeOK
<1>7. CASE EventWait(e)
  <2>1. PICK c \in {"wait", "event_free"} : call' = [call EXCEPT ![e] = c]
    BY <1>7 DEF EventWait
  <2> QED
    BY <1>7, <2>1 DEF EventWait, TypeOK, builder
<1>8. CASE Free(e)
  BY <1>8, NoShapesIsNoOutput DEF Free, TypeOK
<1> QED
  BY <1>1, <1>2, <1>3, <1>4, <1>5, <1>6, <1>7, <1>8 DEF Application

\* A step that ends in an answer.
LEMMA FinishingKeepsTypes ==
  ASSUME TypeOK, NEW e \in Executions, NEW from, Step(e, from, "finish"),
         mTiming' \in [Executions -> {"zero", "unknown", "measured"}],
         NEW status \in {"NONE", "INSUFFICIENT", "FAILURE"}, NEW timing \in {"unknown", "measured"},
         NEW shapes \in Output \cup {NoShapes}, Finishing(e, Answer(status, timing, shapes))
  PROVE  TypeOK'
<1> DEFINE answer == Answer(status, timing, shapes)
<1>1. answer \in [status : {"pending", "NONE", "INSUFFICIENT", "FAILURE"},
                 timing : {"unknown", "measured"}, shapes : Output \cup {NoShapes}]
  BY AnswerType
<1>2. callback' = [callback EXCEPT ![e] = answer] /\ UNCHANGED <<mOutputs, mFinished>>
  BY DEF Finishing
<1> HIDE DEF answer
<1> QED
  BY <1>1, <1>2 DEF Step, TypeOK

\* ... and those of the runtime's own threads.
LEMMA ProgressKeepsTypes ==
  ASSUME TypeOK, NEW e \in Executions, Progress(e)  PROVE TypeOK'
<1>1. CASE BurstBegins(e)
  BY <1>1 DEF BurstBegins, Begin, Pending, TypeOK
<1>2. CASE BurstRefused(e)
  BY <1>2 DEF BurstRefused, Unlocked, TypeOK, builder
<1>3. CASE StartOnDevice(e)
  BY <1>3 DEF StartOnDevice, Step, TypeOK
<1>4. CASE StartOnCpu(e)
  BY <1>4 DEF StartOnCpu, Step, TypeOK
<1>5. CASE DeviceSucceeds(e)
  BY <1>5, FinishingKeepsTypes, ReportedIsOutput DEF DeviceSucceeds, TypeOK
<1>6. CASE DeviceTooSmall(e)
  BY <1>6, FinishingKeepsTypes, ReportedIsOutput DEF DeviceTooSmall, TypeOK
<1>7. CASE DeviceFails(e)
  <2>1. CASE kind = "any"
    <3>1. /\ engine' = [engine EXCEPT ![e] = "cpu"]
          /\ usedFreed' = (usedFreed \/ object[e] = "freed")
          /\ UNCHANGED <<object, kind, builder, call, callback, event, mCurrentlyRunning,
                         collected>>
      BY <1>7, <2>1 DEF DeviceFails, Step, builder
    <3> QED
      BY <3>1 DEF TypeOK, builder
  <2>2. CASE kind # "any"
    BY <1>7, <2>2, FinishingKeepsTypes DEF DeviceFails, Failed, TypeOK
  <2> QED
    BY <2>1, <2>2
<1>8. CASE CpuEnds(e)
  BY <1>8, FinishingKeepsTypes, ReportedIsOutput DEF CpuEnds, Failed, TypeOK
<1>9. CASE FinishFlag(e)
  BY <1>9 DEF FinishFlag, Step, TypeOK
<1>10. CASE FinishStore(e)
  BY <1>10 DEF FinishStore, Step, TypeOK
<1>11. CASE ComputeReturns(e)
  BY <1>11 DEF ComputeReturns, Unlocked, TypeOK
<1>12. CASE EventWaitReturns(e)
  BY <1>12 DEF EventWaitReturns, TypeOK, builder
<1> QED
  BY <1>1, <1>2, <1>3, <1>4, <1>5, <1>6, <1>7, <1>8, <1>9, <1>10, <1>11, <1>12 DEF Progress

\* Every variable of the executions keeps its type.
LEMMA TypeNext == TypeOK /\ [Next]_vars => TypeOK'
<1> SUFFICES ASSUME TypeOK, [Next]_vars PROVE TypeOK'
  OBVIOUS
<1>1. CASE UNCHANGED vars
  BY <1>1 DEF vars, TypeOK
<1>2. ASSUME NEW e \in Executions, Application(e) \/ Progress(e) PROVE TypeOK'
  BY <1>2, ApplicationKeepsTypes, ProgressKeepsTypes
<1> QED
  BY <1>1, <1>2 DEF Next, Application

----------------------------------------------------------------------------
(* The life of an execution                                                *)

\* Of every execution: what LifeInv says, and that its thread uses no freed
\* ExecutionBuilder.
LEMMA ApplicationKeepsLife ==
  ASSUME TypeOK, LifeInv, NEW e \in Executions, Application(e)
  PROVE  LifeInv' /\ usedFreed' = usedFreed
<1> USE DEF TypeOK, LifeInv, Underway
<1>1. CASE Create(e)
  BY <1>1 DEF Create, builder
<1>2. CASE Compute(e)
  BY <1>2 DEF Compute, Begin, Accepts, Ready
<1>3. CASE StartCompute(e)
  BY <1>3 DEF StartCompute, Begin, Accepts, Ready
<1>4. CASE BurstCompute(e)
  BY <1>4 DEF BurstCompute, Ready, builder
<1>5. ASSUME NEW a \in 0..NumArguments, SetArgument(e, a) PROVE LifeInv' /\ usedFreed' = usedFreed
  BY <1>5 DEF SetArgument
<1>6. ASSUME NEW measure \in BOOLEAN, SetMeasureTiming(e, measure)
      PROVE  LifeInv' /\ usedFreed' = usedFreed
  BY <1>6 DEF SetMeasureTiming
<1>7. CASE EventWait(e)
  <2>1. PICK c \in {"wait", "event_free"} : call' = [call EXCEPT ![e] = c]
    BY <1>7 DEF EventWait
  <2> QED
    BY <1>7, <2>1 DEF EventWait, builder
<1>8. CASE Free(e)
  BY <1>8 DEF Free, Ready, builder
<1> QED
  BY <1>1, <1>2, <1>3, <1>4, <1>5, <1>6, <1>7, <1>8 DEF Application

\* A step of the computation, from a label at which it is under way.
LEMMA StepKeepsLife ==
  ASSUME TypeOK, LifeInv, NEW e \in Executions, NEW from \in Underway,
         NEW to \in Underway \cup {"done"}, Step(e, from, to)
  PROVE  LifeInv' /\ usedFreed' = usedFreed
BY DEF TypeOK, LifeInv, Underway, Step

LEMMA ProgressKeepsLife ==
  ASSUME TypeOK, LifeInv, NEW e \in Executions, Progress(e)
  PROVE  LifeInv' /\ usedFreed' = usedFreed
<1>1. CASE BurstBegins(e)
  BY <1>1 DEF BurstBegins, Begin, Accepts, TypeOK, LifeInv, Underway
<1>2. CASE BurstRefused(e)
  BY <1>2 DEF BurstRefused, TypeOK, LifeInv, Underway, builder
<1>3. CASE StartOnDevice(e) \/ StartOnCpu(e)
  BY <1>3, StepKeepsLife DEF StartOnDevice, StartOnCpu, Underway
<1>4. CASE DeviceSucceeds(e) \/ DeviceTooSmall(e) \/ DeviceFails(e) \/ CpuEnds(e)
  BY <1>4, StepKeepsLife DEF DeviceSucceeds, DeviceTooSmall, DeviceFails, CpuEnds, Underway
<1>5. CASE FinishFlag(e) \/ FinishStore(e)
  BY <1>5, StepKeepsLife DEF FinishFlag, FinishStore, Underway
<1>6. CASE ComputeReturns(e)
  BY <1>6 DEF ComputeReturns, Notified, TypeOK, LifeInv, Underway
<1>7. CASE EventWaitReturns(e)
  BY <1>7 DEF EventWaitReturns, Notified, TypeOK, LifeInv, Underway, builder
<1> QED
  BY <1>1, <1>2, <1>3, <1>4, <1>5, <1>6, <1>7 DEF Progress

----------------------------------------------------------------------------
(* What finish stores                                                      *)

LEMMA ApplicationKeepsFinish ==
  ASSUME TypeOK, LifeInv, FinishInv, NEW e \in Executions, Application(e)  PROVE FinishInv'
<1>1. CASE Compute(e) \/ StartCompute(e)
  <2>1. /\ ~mStarted[e] /\ engine' = [engine EXCEPT ![e] = "begin"]
        /\ callback' = [callback EXCEPT ![e] = Pending]
        /\ UNCHANGED <<mOutputs, mFinished>>
    BY <1>1 DEF Compute, StartCompute, Begin, Accepts
  <2>2. engine[e] = "none"
    BY <2>1 DEF LifeInv
  <2>3. UNCHANGED object
    BY <1>1 DEF Compute, StartCompute, Begin
  <2> QED
    BY <2>1, <2>2, <2>3 DEF FinishInv, TypeOK
<1>2. CASE UNCHANGED <<object, engine, callback, mOutputs, mFinished>>
  BY <1>2 DEF FinishInv
<1>3. CASE Create(e)
  <2>1. object[e] = "none" /\ object' = [object EXCEPT ![e] = "live"]
        /\ UNCHANGED <<engine, callback, mOutputs, mFinished>>
    BY <1>3 DEF Create, builder
  <2>2. engine[e] = "none"
    BY <2>1 DEF LifeInv
  <2> QED
    BY <2>1, <2>2 DEF FinishInv, TypeOK
<1>4. ASSUME NEW a \in 0..NumArguments, SetArgument(e, a) PROVE FinishInv'
  <2>1. engine[e] = "none" /\ UNCHANGED <<object, engine, callback, mFinished>>
    BY <1>4 DEF SetArgument, LifeInv
  <2>2. \A x \in Executions : mOutputs'[x].isSufficient = mOutputs[x].isSufficient
    <3>1. mOutputs[e] \in Output
      BY DEF TypeOK
    <3> QED
      BY <1>4, <3>1 DEF SetArgument, TypeOK, Output
  <2>3. \A x \in Executions \ {e} : mOutputs'[x] = mOutputs[x]
    BY <1>4 DEF SetArgument, TypeOK
  <2> QED
    BY <2>1, <2>2, <2>3 DEF FinishInv
<1>5. CASE Free(e)
  BY <1>5, NoShapesIsNoOutput DEF Free, FinishInv, TypeOK
<1> QED
  BY <1>1, <1>2, <1>3, <1>4, <1>5
     DEF Application, BurstCompute, SetMeasureTiming, EventWait, builder

LEMMA ProgressKeepsFinish ==
  ASSUME TypeOK, LifeInv, FinishInv, NEW e \in Executions, Progress(e)  PROVE FinishInv'
<1>1. CASE BurstBegins(e)
  <2>1. /\ ~mStarted[e] /\ engine' = [engine EXCEPT ![e] = "begin"]
        /\ callback' = [callback EXCEPT ![e] = Pending]
        /\ UNCHANGED <<mOutputs, mFinished>>
    BY <1>1 DEF BurstBegins, Begin, Accepts
  <2>2. engine[e] = "none"
    BY <2>1 DEF LifeInv
  <2>3. UNCHANGED object
    BY <1>1 DEF BurstBegins, Begin
  <2> QED
    BY <2>1, <2>2, <2>3 DEF FinishInv, TypeOK
<1>2. ASSUME NEW from \in {"begin", "driver", "cpu"}, NEW to \in {"driver", "cpu", "finish"},
             Step(e, from, to), UNCHANGED <<mOutputs, mFinished>>,
             \A x \in Executions \ {e} : callback'[x] = callback[x]
      PROVE  FinishInv'
  BY <1>2 DEF Step, FinishInv, TypeOK
<1>3. CASE StartOnDevice(e) \/ StartOnCpu(e)
  BY <1>2, <1>3 DEF StartOnDevice, StartOnCpu
<1>4. CASE DeviceSucceeds(e) \/ DeviceTooSmall(e) \/ DeviceFails(e) \/ CpuEnds(e)
  <2>1. ASSUME NEW answer, Finishing(e, answer)
        PROVE  /\ UNCHANGED <<mOutputs, mFinished>>
               /\ \A x \in Executions \ {e} : callback'[x] = callback[x]
    BY <2>1 DEF Finishing, TypeOK
  <2> QED
    BY <1>2, <1>4, <2>1 DEF DeviceSucceeds, DeviceTooSmall, DeviceFails, CpuEnds
<1>5. CASE FinishFlag(e)
  BY <1>5 DEF FinishFlag, Step, FinishInv, TypeOK
<1>6. CASE FinishStore(e)
  <2>1. /\ engine[e] = "store" /\ engine' = [engine EXCEPT ![e] = "done"]
        /\ UNCHANGED <<object, callback, mFinished>>
        /\ mOutputs' = [mOutputs EXCEPT ![e] = IF callback[e].shapes = NoShapes THEN mOutputs[e]
                                               ELSE callback[e].shapes]
    BY <1>6 DEF FinishStore, Step
  <2>2. object[e] = "live"
    BY <2>1 DEF LifeInv, Underway
  <2> QED
    BY <2>1, <2>2 DEF FinishInv, TypeOK
<1>7. CASE BurstRefused(e) \/ ComputeReturns(e) \/ EventWaitReturns(e)
  BY <1>7 DEF BurstRefused, ComputeReturns, EventWaitReturns, FinishInv, builder
<1> QED
  BY <1>1, <1>3, <1>4, <1>5, <1>6, <1>7 DEF Progress

----------------------------------------------------------------------------
(* The calls in the burst                                                  *)

\* A step that puts no call into the burst, and takes none out.
LEMMA SameUsers ==
  ASSUME BurstInv, mCurrentlyRunning' = mCurrentlyRunning,
         \A x \in Executions : call'[x] \in InBurst <=> call[x] \in InBurst
  PROVE  BurstInv'
<1>1. Users(InBurst)' = Users(InBurst)
  BY DEF Users
<1> QED
  BY <1>1 DEF BurstInv

\* A call that ends, and is the one in the burst, leaves nobody there.
LEMMA LastUser ==
  ASSUME TypeOK, BurstInv, NEW e \in Executions, call[e] \in InBurst,
         call' = [call EXCEPT ![e] = "idle"], mCurrentlyRunning' = FALSE
  PROVE  BurstInv'
<1>1. Users(InBurst) = {e}
  BY DEF BurstInv, Users
<1>2. \A x \in Executions : call'[x] \notin InBurst
  BY <1>1 DEF Users, InBurst, TypeOK
<1> QED
  BY <1>2 DEF BurstInv, Users

LEMMA BurstNext == ASSUME TypeOK, BurstInv, [Next]_vars  PROVE BurstInv'
<1>1. ASSUME UNCHANGED <<call, mCurrentlyRunning>> PROVE BurstInv'
  BY <1>1, SameUsers
<1>2. ASSUME NEW e \in Executions, NEW c, c \notin InBurst, call[e] \notin InBurst,
             call' = [call EXCEPT ![e] = c], UNCHANGED mCurrentlyRunning
      PROVE  BurstInv'
  <2>1. \A x \in Executions : call'[x] \in InBurst <=> call[x] \in InBurst
    BY <1>2 DEF TypeOK
  <2> QED
    BY <1>2, <2>1, SameUsers
<1>3. ASSUME NEW e \in Executions, BurstCompute(e) PROVE BurstInv'
  <2>1. /\ ~mCurrentlyRunning /\ mCurrentlyRunning' = TRUE
        /\ call' = [call EXCEPT ![e] = "locked"]
    BY <1>3 DEF BurstCompute, TryLock
  <2>2. \A x \in Executions : call[x] \notin InBurst
    BY <2>1 DEF BurstInv, Users
  <2>3. \A x \in Executions : call'[x] \in InBurst <=> x = e
    BY <2>1, <2>2 DEF InBurst, TypeOK
  <2>4. Users(InBurst)' = {e}
    BY <2>3 DEF Users
  <2> QED
    BY <2>1, <2>4 DEF BurstInv
<1>4. ASSUME NEW e \in Executions, BurstBegins(e) PROVE BurstInv'
  <2>1. \A x \in Executions : call'[x] \in InBurst <=> call[x] \in InBurst
    BY <1>4 DEF BurstBegins, InBurst, TypeOK
  <2> QED
    BY <1>4, <2>1, SameUsers DEF BurstBegins
<1>5. ASSUME NEW e \in Executions, BurstRefused(e) PROVE BurstInv'
  BY <1>5, LastUser DEF BurstRefused, InBurst, Unlocked
<1>6. ASSUME NEW e \in Executions, ComputeReturns(e) PROVE BurstInv'
  <2>1. CASE call[e] = "burst"
    BY <1>6, <2>1, LastUser DEF ComputeReturns, InBurst, Unlocked
  <2>2. CASE call[e] = "compute"
    BY <1>2, <1>6, <2>2 DEF ComputeReturns, InBurst
  <2> QED
    BY <1>6, <2>1, <2>2 DEF ComputeReturns
<1>7. ASSUME NEW e \in Executions, Compute(e) \/ EventWait(e) \/ EventWaitReturns(e) PROVE BurstInv'
  <2>1. CASE Compute(e)
    BY <1>2, <2>1 DEF Compute, Ready, InBurst
  <2>2. CASE EventWait(e)
    BY <1>2, <2>2 DEF EventWait, InBurst
  <2>3. CASE EventWaitReturns(e)
    BY <1>2, <2>3 DEF EventWaitReturns, InBurst
  <2> QED
    BY <1>7, <2>1, <2>2, <2>3
<1> QED
  BY <1>1, <1>3, <1>4, <1>5, <1>6, <1>7
     DEF Next, Progress, vars, Create, StartCompute, Begin, SetArgument, SetMeasureTiming, Free,
         StartOnDevice, StartOnCpu, DeviceSucceeds, DeviceTooSmall, DeviceFails, CpuEnds,
         FinishFlag, FinishStore, Step

----------------------------------------------------------------------------
LEMMA ExecInit == Init => ExecInv
<1> SUFFICES ASSUME Init PROVE ExecInv
  OBVIOUS
<1>1. TypeOK
  BY NoShapesIsNoOutput, ExecutionAssumption DEF Init, TypeOK, Pending
<1>2. LifeInv /\ FinishInv /\ NoUseAfterFree
  BY NoShapesIsNoOutput DEF Init, LifeInv, FinishInv, NoUseAfterFree, Underway
<1>3. BurstInv
  BY DEF Init, BurstInv, Users, InBurst
<1> QED
  BY <1>1, <1>2, <1>3 DEF ExecInv

LEMMA ExecNext == ExecInv /\ [Next]_vars => ExecInv'
<1> SUFFICES ASSUME ExecInv, [Next]_vars PROVE ExecInv'
  OBVIOUS
<1>1. TypeOK /\ LifeInv /\ FinishInv /\ BurstInv /\ NoUseAfterFree
  BY DEF ExecInv
<1>2. TypeOK' /\ BurstInv'
  BY <1>1, TypeNext, BurstNext
<1>3. ASSUME UNCHANGED vars PROVE LifeInv' /\ FinishInv' /\ usedFreed' = usedFreed
  BY <1>1, <1>3 DEF vars, LifeInv, FinishInv
<1>4. ASSUME NEW e \in Executions, Application(e) \/ Progress(e)
      PROVE  LifeInv' /\ FinishInv' /\ usedFreed' = usedFreed
  BY <1>1, <1>4, ApplicationKeepsLife, ApplicationKeepsFinish, ProgressKeepsLife,
     ProgressKeepsFinish
<1>5. LifeInv' /\ FinishInv' /\ usedFreed' = usedFreed
  BY <1>3, <1>4 DEF Next, Application
<1> QED
  BY <1>1, <1>2, <1>5 DEF ExecInv, NoUseAfterFree

LEMMA ExecAlways == Spec => []ExecInv
BY ExecInit, ExecNext, PTL DEF Spec

\* No thread that computes uses an ExecutionBuilder that was freed: by
\* ANeuralNetworksExecution_free, by an application that frees an execution
\* before it starts or when it knows that it is over, but may keep its event.
THEOREM Alive == Spec => []NoUseAfterFree
<1>1. ExecInv => NoUseAfterFree
  BY DEF ExecInv
<1> QED
  BY <1>1, ExecAlways, PTL

\* When compute, burstCompute or a wait has returned, getOutputOperandRank and
\* getOutputOperandDimensions are not refused as too early, and answer with what
\* the callback was given (finish runs before the callback lets anyone go):
\* OUTPUT_INSUFFICIENT_SIZE if that says so, and never after a failure.
THEOREM QueriesFinal == Spec => []QueriesAreFinal
<1>1. ExecInv => QueriesAreFinal
  <2> SUFFICES ASSUME ExecInv PROVE QueriesAreFinal
    OBVIOUS
  <2>1. ASSUME NEW e \in Executions, object[e] = "live", collected[e]
        PROVE  /\ mFinished[e] /\ mOutputs[e] \in Output
               /\ IF callback[e].shapes = NoShapes THEN mOutputs[e].isSufficient
                  ELSE mOutputs[e] = callback[e].shapes
    <3>1. engine[e] = "done"
      BY <2>1 DEF ExecInv, LifeInv
    <3> QED
      BY <2>1, <3>1 DEF ExecInv, FinishInv, TypeOK
  <2>2. ASSUME NEW e \in Executions, object[e] = "live", collected[e],
               callback[e].shapes = NoShapes
        PROVE  /\ GetOutputOperandRank(e).code = "NO_ERROR"
               /\ GetOutputOperandDimensions(e).code \in {"NO_ERROR", "BAD_DATA"}
    BY <2>1, <2>2 DEF GetOutputOperandRank, GetOutputOperandDimensions, Sufficiency
  <2>3. ASSUME NEW e \in Executions, object[e] = "live", collected[e],
               callback[e].shapes # NoShapes
        PROVE  /\ GetOutputOperandRank(e).code \in {"NO_ERROR", "OUTPUT_INSUFFICIENT_SIZE"}
               /\ GetOutputOperandDimensions(e).code # "BAD_STATE"
               /\ GetOutputOperandRank(e).dimensions = callback[e].shapes.dimensions
               /\ GetOutputOperandRank(e).code = "NO_ERROR" <=> callback[e].shapes.isSufficient
               /\ IF callback[e].shapes.dimensions = "empty"
                  THEN GetOutputOperandDimensions(e).code = "BAD_DATA"
                  ELSE GetOutputOperandDimensions(e) = GetOutputOperandRank(e)
    BY <2>1, <2>3 DEF GetOutputOperandRank, GetOutputOperandDimensions, Sufficiency, Output
  <2> QED
    BY <2>2, <2>3 DEF QueriesAreFinal
<1> QED
  BY <1>1, ExecAlways, PTL

\* BurstBuilder::tryLock lets one call into the burst, whoever calls and however
\* the call ends, and the flag is up exactly while a call is there.
OneInBurst ==
    /\ \A e, f \in Executions : call[e] \in InBurst /\ call[f] \in InBurst => e = f
    /\ mCurrentlyRunning <=> \E e \in Executions : call[e] \in InBurst

THEOREM Exclusive == Spec => []OneInBurst
<1>1. BurstInv => OneInBurst
  <2> SUFFICES ASSUME BurstInv PROVE OneInBurst
    OBVIOUS
  <2>1. CASE \E e \in Executions : mCurrentlyRunning /\ Users(InBurst) = {e}
    BY <2>1 DEF OneInBurst, Users
  <2>2. CASE ~mCurrentlyRunning /\ Users(InBurst) = {}
    BY <2>2 DEF OneInBurst, Users
  <2> QED
    BY <2>1, <2>2 DEF BurstInv
<1>2. ExecInv => BurstInv
  BY DEF ExecInv
<1> QED
  BY <1>1, <1>2, ExecAlways, PTL
=============================================================================
