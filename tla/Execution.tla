----------------------------- MODULE Execution -----------------------------
(***************************************************************************)
(* The life of ANeuralNetworksExecution objects: their arguments are set,  *)
(* they are computed once (in the calling thread, in a burst, or by a      *)
(* thread whose end an ANeuralNetworksEvent announces), their timing and   *)
(* output shapes are read, and they are freed.  All executions here belong *)
(* to one compilation and share one burst.                                 *)
(*                                                                         *)
(* Each execution is used by one application thread at a time, as the API  *)
(* demands.  What happens between the steps of a plan is PlanExecution's   *)
(* subject, and what happens inside of an event is ExecutionCallback's.    *)
(* Queries change nothing and are operators here, not actions.  Of the     *)
(* outputs one, any one, is followed: the last argument of the model.      *)
(***************************************************************************)
EXTENDS Integers

CONSTANTS
    Executions,
    NumArguments,   \* inputs and outputs of the model
    Kinds,          \* what the compilation is for: a subset of AllKinds
    Reports         \* Reports[e]: what drivers and kernels tell of e's output

\* The devices of the compilation: the CPU or one driver, given explicitly,
\* or whatever the partitioner chose, with the CPU to fall back on.
AllKinds == {"cpu", "driver", "any"}

\* What is known of the output.  Its dimensions are "empty" for a scalar and for
\* a tensor of unknown rank, "given" by the application, or "computed".
Output == [dimensions : {"empty", "given", "computed"}, isSufficient : BOOLEAN]

ASSUME ExecutionAssumption ==
    NumArguments \in Nat /\ Kinds \subseteq AllKinds /\ \A e \in Executions : Reports[e] \subseteq Output

VARIABLES
    object,         \* "none", "live" or "freed"
    kind,           \* of the compilation
    specified,      \* indices of the arguments that are not UNSPECIFIED
    mMeasureTiming,
    mTiming,        \* "zero" as constructed, "unknown" is kNoTiming
    mOutputs,       \* dimensions and isSufficient of the output
    mStarted,
    mFinished,
    call,           \* what the application thread is in
    engine,         \* control point of asyncStartComputePartitioned
    callback,       \* status, timing and shapes of the event, once notified
    event,          \* "none", "live" or "freed"
    mCurrentlyRunning, \* flag of the burst
    (* history *)
    collected,      \* the application was told that the computation is over
    usedFreed       \* some thread has used a freed execution

vars == <<object, kind, specified, mMeasureTiming, mTiming, mOutputs, mStarted, mFinished,
          call, engine, callback, event, mCurrentlyRunning, collected, usedFreed>>
builder == <<specified, mMeasureTiming, mStarted, mFinished, mOutputs, mTiming>>

Index == 0..(NumArguments - 1)
Unset == [dimensions |-> "empty", isSufficient |-> TRUE]
NoShapes == [dimensions |-> "none", isSufficient |-> TRUE]  \* an empty vector of shapes
Pending == [status |-> "pending", timing |-> "unknown", shapes |-> NoShapes]

Ready(e) == object[e] = "live" /\ call[e] = "idle"

----------------------------------------------------------------------------
(* Before the computation                                                  *)

Create(e) ==
    /\ object[e] = "none"
    /\ object' = [object EXCEPT ![e] = "live"]
    /\ UNCHANGED <<kind, builder, call, engine, callback, event, mCurrentlyRunning, collected,
                   usedFreed>>

\* The index check of setInput and setOutput.
InRange(a) == a < NumArguments

\* Properties cannot be set once the execution has started.  An output gets the
\* dimensions of the operand or those given with it, unless it has no value.
SetArgument(e, a) ==
    /\ Ready(e) /\ ~mStarted[e] /\ InRange(a)
    /\ specified' = [specified EXCEPT ![e] = @ \cup {a}]
    /\ \/ UNCHANGED mOutputs
       \/ /\ a = NumArguments - 1
          /\ \E d \in {"empty", "given"} : mOutputs' = [mOutputs EXCEPT ![e].dimensions = d]
    /\ UNCHANGED <<object, kind, mMeasureTiming, mTiming, mStarted, mFinished, call,
                   engine, callback, event, mCurrentlyRunning, collected, usedFreed>>

SetMeasureTiming(e, measure) ==
    /\ Ready(e) /\ kind # "any" /\ ~mStarted[e]
    /\ mMeasureTiming' = [mMeasureTiming EXCEPT ![e] = measure]
    /\ UNCHANGED <<object, kind, specified, mTiming, mOutputs, mStarted, mFinished, call,
                   engine, callback, event, mCurrentlyRunning, collected, usedFreed>>

----------------------------------------------------------------------------
(* compute, startCompute, burstCompute                                     *)

\* What the three calls have in common.
Accepts(e) == ~mStarted[e] /\ specified[e] = Index

Begin(e) ==
    /\ Accepts(e)
    /\ mStarted' = [mStarted EXCEPT ![e] = TRUE]
    /\ engine' = [engine EXCEPT ![e] = "begin"]
    /\ callback' = [callback EXCEPT ![e] = Pending]
    /\ UNCHANGED <<object, kind, specified, mMeasureTiming, mTiming, mOutputs, mFinished,
                   collected, usedFreed>>

Compute(e) ==
    /\ Ready(e) /\ Begin(e)
    /\ call' = [call EXCEPT ![e] = "compute"]
    /\ UNCHANGED <<event, mCurrentlyRunning>>

StartCompute(e) ==
    /\ Ready(e) /\ Begin(e)
    /\ event' = [event EXCEPT ![e] = "live"]
    /\ UNCHANGED <<call, mCurrentlyRunning>>

\* tryLock.
TryLock == ~mCurrentlyRunning

BurstCompute(e) ==
    /\ Ready(e) /\ TryLock
    /\ mCurrentlyRunning' = TRUE
    /\ call' = [call EXCEPT ![e] = "locked"]
    /\ UNCHANGED <<object, kind, builder, engine, callback, event, collected, usedFreed>>

BurstBegins(e) ==
    /\ call[e] = "locked" /\ Begin(e)
    /\ call' = [call EXCEPT ![e] = "burst"]
    /\ UNCHANGED <<event, mCurrentlyRunning>>

\* The lock after a call that could not begin; the slip returns without unlock.
StillLocked == TRUE
Unlocked == FALSE

BurstRefused(e) ==
    /\ call[e] = "locked" /\ ~Accepts(e)
    /\ call' = [call EXCEPT ![e] = "idle"]
    /\ mCurrentlyRunning' = Unlocked
    /\ UNCHANGED <<object, kind, builder, engine, callback, event, collected, usedFreed>>

----------------------------------------------------------------------------
(* The computation: asyncStartComputePartitioned                           *)

\* Every step of it uses the ExecutionBuilder.
Step(e, from, to) ==
    /\ engine[e] = from
    /\ engine' = [engine EXCEPT ![e] = to]
    /\ usedFreed' = (usedFreed \/ object[e] = "freed")
    /\ UNCHANGED <<object, kind, specified, mMeasureTiming, mStarted, call, event,
                   mCurrentlyRunning, collected>>

Finishing(e, answer) ==
    /\ callback' = [callback EXCEPT ![e] = answer]
    /\ UNCHANGED <<mOutputs, mFinished>>

Answer(status, timing, shapes) == [status |-> status, timing |-> timing, shapes |-> shapes]
Failed == Answer("FAILURE", "unknown", NoShapes)

\* What may be reported of the output: a known rank stays known, or the report
\* counts as a failure.  What is not reported stays as it was initialized, from
\* mOutputs.  A driver may say of any output that it is not sufficient.
IsUpdatable(to, from) == to # "empty" => from # "empty"
Reported(e) ==
    {mOutputs[e]} \cup {o \in Reports[e] : IsUpdatable(mOutputs[e].dimensions, o.dimensions)}

StartOnDevice(e) ==
    /\ kind # "cpu"
    /\ Step(e, "begin", "driver")
    /\ mTiming' = [mTiming EXCEPT ![e] = "unknown"]
    /\ UNCHANGED <<callback, mOutputs, mFinished>>

StartOnCpu(e) ==
    /\ kind # "driver"
    /\ Step(e, "begin", "cpu")
    /\ UNCHANGED <<mTiming, callback, mOutputs, mFinished>>

\* The driver may have measured the execution when it was asked to.
DeviceSucceeds(e) ==
    /\ Step(e, "driver", "finish")
    /\ \E timing \in {"unknown", "measured"}, shapes \in Reported(e) :
        /\ timing = "measured" => mMeasureTiming[e]
        /\ mTiming' = [mTiming EXCEPT ![e] = timing]
        /\ Finishing(e, Answer("NONE", timing, shapes))

DeviceTooSmall(e) ==
    /\ Step(e, "driver", "finish")
    /\ \E shapes \in Reported(e) : Finishing(e, Answer("INSUFFICIENT", "unknown", shapes))
    /\ UNCHANGED mTiming

DeviceFails(e) ==
    /\ IF kind = "any"
       THEN Step(e, "driver", "cpu") /\ UNCHANGED <<callback, mOutputs, mFinished>>
       ELSE Step(e, "driver", "finish") /\ Finishing(e, Failed)
    /\ UNCHANGED mTiming

\* The CPU succeeds only if every output is sufficient.
CpuEnds(e) ==
    /\ Step(e, "cpu", "finish")
    /\ \/ Finishing(e, Failed)
       \/ \E status \in {"NONE", "INSUFFICIENT"}, shapes \in Reported(e) :
             /\ status = "NONE" => shapes.isSufficient
             /\ Finishing(e, Answer(status, "unknown", shapes))
    /\ UNCHANGED mTiming

\* ExecutionCallback::notify runs ExecutionBuilder::finish under its mutex:
\* mFinished is set, then the shapes are stored, if there are any; then wait
\* returns.
FinishFlag(e) ==
    /\ Step(e, "finish", "store")
    /\ mFinished' = [mFinished EXCEPT ![e] = TRUE]
    /\ UNCHANGED <<mTiming, callback, mOutputs>>

FinishStore(e) ==
    /\ Step(e, "store", "done")
    /\ mOutputs' = [mOutputs EXCEPT ![e] = IF callback[e].shapes = NoShapes THEN @
                                           ELSE callback[e].shapes]
    /\ UNCHANGED <<mTiming, callback, mFinished>>

----------------------------------------------------------------------------
(* After the computation                                                   *)

\* When wait on the callback returns, and when it would if the callback was
\* marked as notified before its finish function had run, or on success only.
NotifiedOfSuccess(e) == engine[e] = "done" /\ callback[e].status = "NONE"
NotifiedBeforeFinish(e) == engine[e] \in {"store", "done"}
Notified(e) == engine[e] = "done"

\* The synchronous calls take the timing from the callback.
ComputeReturns(e) ==
    /\ call[e] \in {"compute", "burst"} /\ Notified(e)
    /\ mTiming' = IF mMeasureTiming[e] THEN [mTiming EXCEPT ![e] = callback[e].timing] ELSE mTiming
    /\ mCurrentlyRunning' = IF call[e] = "burst" THEN Unlocked ELSE mCurrentlyRunning
    /\ call' = [call EXCEPT ![e] = "idle"]
    /\ collected' = [collected EXCEPT ![e] = TRUE]
    /\ UNCHANGED <<object, kind, specified, mMeasureTiming, mOutputs, mStarted, mFinished, engine,
                   callback, event, usedFreed>>

EventWait(e) ==
    /\ call[e] = "idle" /\ event[e] = "live"
    /\ call' \in {[call EXCEPT ![e] = c] : c \in {"wait", "event_free"}}
    /\ UNCHANGED <<object, kind, builder, engine, callback, event, mCurrentlyRunning,
                   collected, usedFreed>>

\* ANeuralNetworksEvent_free waits too.
EventWaitReturns(e) ==
    /\ call[e] \in {"wait", "event_free"} /\ Notified(e)
    /\ event' = [event EXCEPT ![e] = IF call[e] = "wait" THEN @ ELSE "freed"]
    /\ call' = [call EXCEPT ![e] = "idle"]
    /\ collected' = [collected EXCEPT ![e] = TRUE]
    /\ UNCHANGED <<object, kind, builder, engine, callback, mCurrentlyRunning, usedFreed>>

\* ANeuralNetworksExecution_free deletes the object at once.  The application
\* is taken not to free an execution before it knows that it is over.  The
\* members are gone; they are as in a new object, so that they tell freed
\* executions no more apart.
Free(e) ==
    /\ Ready(e)
    /\ engine[e] = "none" \/ collected[e]
    /\ object' = [object EXCEPT ![e] = "freed"]
    /\ mMeasureTiming' = [mMeasureTiming EXCEPT ![e] = FALSE]
    /\ mTiming' = [mTiming EXCEPT ![e] = "zero"]
    /\ mOutputs' = [mOutputs EXCEPT ![e] = Unset]
    /\ UNCHANGED <<kind, specified, mStarted, mFinished, call, engine, callback, event,
                   mCurrentlyRunning, collected, usedFreed>>

GetDuration(e) ==
    IF ~mFinished[e] THEN [code |-> "BAD_STATE", duration |-> "unset"]
    ELSE IF ~mMeasureTiming[e] THEN [code |-> "BAD_STATE", duration |-> "unknown"]
    ELSE [code |-> "NO_ERROR", duration |-> mTiming[e]]

Sufficiency(output) ==
    IF output.isSufficient THEN "NO_ERROR" ELSE "OUTPUT_INSUFFICIENT_SIZE"

\* The rank is that of the dimensions, which are copied only if there are any.
GetOutputOperandRank(e) ==
    IF ~mFinished[e] THEN [code |-> "BAD_STATE", dimensions |-> "unset"]
    ELSE [code |-> Sufficiency(mOutputs[e]), dimensions |-> mOutputs[e].dimensions]

GetOutputOperandDimensions(e) ==
    IF mFinished[e] /\ mOutputs[e].dimensions = "empty"
    THEN [code |-> "BAD_DATA", dimensions |-> "unset"]
    ELSE GetOutputOperandRank(e)

----------------------------------------------------------------------------
Init ==
    /\ object = [e \in Executions |-> "none"] /\ kind \in Kinds
    /\ specified = [e \in Executions |-> {}]
    /\ mMeasureTiming = [e \in Executions |-> FALSE]
    /\ mTiming = [e \in Executions |-> "zero"]
    /\ mOutputs = [e \in Executions |-> Unset]
    /\ mStarted = [e \in Executions |-> FALSE] /\ mFinished = [e \in Executions |-> FALSE]
    /\ call = [e \in Executions |-> "idle"] /\ engine = [e \in Executions |-> "none"]
    /\ callback = [e \in Executions |-> Pending] /\ event = [e \in Executions |-> "none"]
    /\ mCurrentlyRunning = FALSE
    /\ collected = [e \in Executions |-> FALSE]
    /\ usedFreed = FALSE

\* What the threads inside of the runtime do by themselves.
Progress(e) ==
    \/ BurstBegins(e) \/ BurstRefused(e)
    \/ StartOnDevice(e) \/ StartOnCpu(e)
    \/ DeviceSucceeds(e) \/ DeviceTooSmall(e) \/ DeviceFails(e) \/ CpuEnds(e)
    \/ FinishFlag(e) \/ FinishStore(e)
    \/ ComputeReturns(e) \/ EventWaitReturns(e)

Next ==
    \E e \in Executions :
        \/ Create(e) \/ Compute(e) \/ StartCompute(e) \/ BurstCompute(e)
        \/ \E a \in 0..NumArguments : SetArgument(e, a)
        \/ \E measure \in BOOLEAN : SetMeasureTiming(e, measure)
        \/ EventWait(e) \/ Free(e)
        \/ Progress(e)

Spec == Init /\ [][Next]_vars
\* Threads run, and drivers answer or are found dead.
FairSpec == Spec /\ \A e \in Executions : WF_vars(Progress(e))

----------------------------------------------------------------------------
TypeOK ==
    /\ object \in [Executions -> {"none", "live", "freed"}]
    /\ kind \in AllKinds
    /\ specified \in [Executions -> SUBSET Index]
    /\ mMeasureTiming \in [Executions -> BOOLEAN]
    /\ mTiming \in [Executions -> {"zero", "unknown", "measured"}]
    /\ mOutputs \in [Executions -> Output]
    /\ mStarted \in [Executions -> BOOLEAN] /\ mFinished \in [Executions -> BOOLEAN]
    /\ call \in [Executions -> {"idle", "compute", "locked", "burst", "wait", "event_free"}]
    /\ engine \in [Executions -> {"none", "begin", "driver", "cpu", "finish", "store", "done"}]
    /\ callback \in [Executions -> [status : {"pending", "NONE", "INSUFFICIENT", "FAILURE"},
                                    timing : {"unknown", "measured"},
                                    shapes : Output \cup {NoShapes}]]
    /\ event \in [Executions -> {"none", "live", "freed"}]
    /\ mCurrentlyRunning \in BOOLEAN
    /\ collected \in [Executions -> BOOLEAN]
    /\ usedFreed \in BOOLEAN

\* Once a synchronous call, or a wait, has returned, queries are no longer
\* refused as too early.  With the shapes that the event carried, they tell these:
\* the rank or the dimensions, and OUTPUT_INSUFFICIENT_SIZE exactly if the event
\* said so.  Without, for a computation that failed, they call no output too
\* small.
QueriesAreFinal ==
    \A e \in Executions : object[e] = "live" /\ collected[e] =>
        LET shapes == callback[e].shapes
            rank   == GetOutputOperandRank(e)
            copied == GetOutputOperandDimensions(e)
        IN  /\ rank.code # "BAD_STATE" /\ copied.code # "BAD_STATE"
            /\ IF shapes = NoShapes
               THEN rank.code = "NO_ERROR" /\ copied.code # "OUTPUT_INSUFFICIENT_SIZE"
               ELSE /\ rank.dimensions = shapes.dimensions
                    /\ rank.code = "NO_ERROR" <=> shapes.isSufficient
                    /\ IF shapes.dimensions = "empty" THEN copied.code = "BAD_DATA"
                       ELSE copied = rank

\* The thread of an execution does not use the ExecutionBuilder after it was
\* freed.
NoUseAfterFree == ~usedFreed

\* A duration that nobody has measured is UINT64_MAX, "unknown" here.
UnavailableDuration ==
    \A e \in Executions :
        (/\ object[e] = "live" /\ collected[e]
         /\ GetDuration(e).code = "NO_ERROR" /\ callback[e].timing = "unknown")
            => GetDuration(e).duration = "unknown"

\* A burst that is in use becomes usable again, whether its calls succeed,
\* fail or are refused.
BurstIsReleased == mCurrentlyRunning ~> ~mCurrentlyRunning

\* Every call that waits for a computation returns.
CallsReturn == \A e \in Executions : call[e] # "idle" ~> call[e] = "idle"
=============================================================================
