---------------------------- MODULE Partitioner ----------------------------
(***************************************************************************)
(* partitionTheWork (runtime/ExecutionPlan.cpp): the operations of a model,   *)
(* each with the device that is best for it, become steps.  OperandTracker    *)
(* calls back for every operation whose inputs are all known, and the         *)
(* operation joins the queue of its device; a step takes what is in the queue *)
(* of one device, and what joins it meanwhile.                               *)
(*                                                                         *)
(* Operations and devices count from 1 here.  A graph keeps of a model what   *)
(* the tracker reads: how many operations, the computed operands each needs,   *)
(* and the operands each writes.                                             *)
(***************************************************************************)
EXTENDS Naturals, Sequences

CONSTANTS
  Graphs,         \* the graphs that may be partitioned
  deviceCount

VARIABLES
  graph,
  bestDeviceForOperation,
  mode,           \* where the loops are: count, find, fill, mark; idle and done
  operationIndex, \* the next operation the tracker's constructor counts
  unknownInputs,  \* of each operation; mUnknownInputCount is how many occurrences there are
  perDeviceQueue,
  marking,        \* the outputs markProcessed has still to go through
  stepDevices,    \* the device of each step
  added           \* the calls of ExecutionStep::addOperation: [operation, step]

partitionVars == << graph, bestDeviceForOperation, mode, operationIndex, unknownInputs,
                    perDeviceQueue, marking, stepDevices, added >>

Devices == 1 .. deviceCount

(* Schedule's definitions, with added as the schedule.                        *)
Order == INSTANCE Schedule WITH
  best <- bestDeviceForOperation,
  schedule <- [k \in DOMAIN added |-> [operation |-> added[k].operation,
                                       device |-> stepDevices[added[k].step]]],
  done <- mode = "done"

ASSUME GraphAssumption == deviceCount \in Nat /\ \A g \in Graphs : Order!IsGraph(g)

AllOperations == Order!Operations(graph)
NoGraph == [count |-> 0, needs |-> <<>>, outs |-> <<>>]

-----------------------------------------------------------------------------
Start(g, best) ==
  /\ mode \in {"idle", "done"}
  /\ mode' = "count"
  /\ graph' = g /\ bestDeviceForOperation' = best
  /\ operationIndex' = 1
  /\ unknownInputs' = g.needs
  /\ perDeviceQueue' = [d \in Devices |-> <<>>]
  /\ marking' = <<>> /\ stepDevices' = <<>> /\ added' = <<>>

enqueueOnAppropriateDevice(o) ==
  perDeviceQueue' = [perDeviceQueue EXCEPT ![bestDeviceForOperation[o]] = Append(@, o)]

(* OperandTracker's constructor: one operation after the other.               *)
CountInputs ==
  /\ mode = "count" /\ operationIndex <= graph.count
  /\ operationIndex' = operationIndex + 1
  /\ IF unknownInputs[operationIndex] = {} THEN enqueueOnAppropriateDevice(operationIndex)
     ELSE UNCHANGED perDeviceQueue
  /\ UNCHANGED << graph, bestDeviceForOperation, mode, unknownInputs, marking, stepDevices, added >>

EndCount ==
  /\ mode = "count" /\ operationIndex > graph.count
  /\ mode' = "find"
  /\ UNCHANGED << graph, bestDeviceForOperation, operationIndex, unknownInputs, perDeviceQueue,
                  marking, stepDevices, added >>

(* The search goes down from the last device, the CPU.                        *)
findNextDeviceToProcess(d) ==
  /\ perDeviceQueue[d] # <<>>
  /\ \A e \in Devices : e > d => perDeviceQueue[e] = <<>>

createNewStep ==
  /\ mode = "find"
  /\ \E d \in Devices :
       /\ findNextDeviceToProcess(d)
       /\ stepDevices' = Append(stepDevices, d)
  /\ mode' = "fill"
  /\ UNCHANGED << graph, bestDeviceForOperation, operationIndex, unknownInputs, perDeviceQueue,
                  marking, added >>

EndPartition ==
  /\ mode = "find"
  /\ \A d \in Devices : perDeviceQueue[d] = <<>>
  /\ mode' = "done"
  /\ UNCHANGED << graph, bestDeviceForOperation, operationIndex, unknownInputs, perDeviceQueue,
                  marking, stepDevices, added >>

CurrentDevice == stepDevices[Len(stepDevices)]

IsNextInQueue(o) ==
  /\ mode = "fill"
  /\ perDeviceQueue[CurrentDevice] # <<>> /\ o = Head(perDeviceQueue[CurrentDevice])

(* queue.front, queue.pop, addOperation; markProcessed follows.                *)
assignOperation(o) ==
  /\ IsNextInQueue(o)
  /\ perDeviceQueue' = [perDeviceQueue EXCEPT ![CurrentDevice] = Tail(@)]
  /\ added' = Append(added, [operation |-> o, step |-> Len(stepDevices)])
  /\ marking' = graph.outs[o]
  /\ mode' = "mark"
  /\ UNCHANGED << graph, bestDeviceForOperation, operationIndex, unknownInputs, stepDevices >>

EndStep ==
  /\ mode = "fill" /\ perDeviceQueue[CurrentDevice] = <<>>
  /\ mode' = "find"
  /\ UNCHANGED << graph, bestDeviceForOperation, operationIndex, unknownInputs, perDeviceQueue,
                  marking, stepDevices, added >>

(* markProcessed: the operations that use an output, in the order they were    *)
(* counted.  An operation that uses it several times has as many entries in   *)
(* the multimap, one after the other.                                        *)
Uses(o, x) == x \in unknownInputs[o]

(* A mutant: an operation is ready as soon as one of its inputs is known.      *)
ReadyAtFirst(unknown) == TRUE
Ready(unknown) == unknown = {}

markProcessed ==
  /\ mode = "mark" /\ marking # <<>>
  /\ \E o \in AllOperations :
       LET x == Head(marking)
           left == unknownInputs[o] \ {x}
       IN /\ Uses(o, x)
          /\ \A p \in AllOperations : p < o => ~ Uses(p, x)
          /\ unknownInputs' = [unknownInputs EXCEPT ![o] = left]
          /\ IF Ready(left) THEN enqueueOnAppropriateDevice(o) ELSE UNCHANGED perDeviceQueue
  /\ UNCHANGED << graph, bestDeviceForOperation, mode, operationIndex, marking, stepDevices, added >>

NextOutput ==
  /\ mode = "mark" /\ marking # <<>>
  /\ \A o \in AllOperations : ~ Uses(o, Head(marking))
  /\ marking' = Tail(marking)
  /\ UNCHANGED << graph, bestDeviceForOperation, mode, operationIndex, unknownInputs,
                  perDeviceQueue, stepDevices, added >>

EndMark ==
  /\ mode = "mark" /\ marking = <<>>
  /\ mode' = "fill"
  /\ UNCHANGED << graph, bestDeviceForOperation, operationIndex, unknownInputs, perDeviceQueue,
                  marking, stepDevices, added >>

(* What the loops do without the caller.                                      *)
Loop ==
  \/ CountInputs \/ EndCount \/ createNewStep \/ EndPartition
  \/ EndStep \/ markProcessed \/ NextOutput \/ EndMark

(* addOperation returned an error, and partitionTheWork returns it.            *)
Abandon ==
  /\ mode = "fill" /\ perDeviceQueue[CurrentDevice] # <<>>
  /\ mode' = "idle"
  /\ UNCHANGED << graph, bestDeviceForOperation, operationIndex, unknownInputs, perDeviceQueue,
                  marking, stepDevices, added >>

(* A new process has no plan.                                                 *)
Forget ==
  /\ graph' = NoGraph /\ bestDeviceForOperation' = <<>> /\ mode' = "idle" /\ operationIndex' = 1
  /\ unknownInputs' = <<>> /\ perDeviceQueue' = [d \in Devices |-> <<>>]
  /\ marking' = <<>> /\ stepDevices' = <<>> /\ added' = <<>>

PartitionInit ==
  /\ graph = NoGraph /\ bestDeviceForOperation = <<>> /\ mode = "idle" /\ operationIndex = 1
  /\ unknownInputs = <<>> /\ perDeviceQueue = [d \in Devices |-> <<>>]
  /\ marking = <<>> /\ stepDevices = <<>> /\ added = <<>>

PartitionNext ==
  \/ \E g \in Graphs : \E best \in [Order!Operations(g) -> Devices] : Start(g, best)
  \/ Loop
  \/ \E o \in AllOperations : assignOperation(o)
  \/ Abandon \/ Forget

PartitionSpec == PartitionInit /\ [][PartitionNext]_partitionVars

-----------------------------------------------------------------------------
(* partitionTheWork implements Schedule: every operation of the model is       *)
(* added to one step, on its best device, after all that it depends on; none   *)
(* is left in a queue or without a queue when the loop ends.                  *)
ImplementsSchedule == Order!Spec
=============================================================================
