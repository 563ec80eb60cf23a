-------------------------- MODULE MCPlanExecution --------------------------
(* Instances of PlanExecution for TLC. *)
EXTENDS PlanExecution

CONSTANTS o1, o2, o3

ThreeOutputs == {o1, o2, o3}

\* A device that makes two outputs, the CPU that makes none, another device.
ThreeSteps == << [cpu |-> FALSE, outputs |-> <<o1, o2>>],
                 [cpu |-> TRUE, outputs |-> <<>>],
                 [cpu |-> FALSE, outputs |-> <<o3>>] >>
=============================================================================
