------------------------------ MODULE Runtime ------------------------------
(***************************************************************************)
(* What becomes of a model: the calls that build it, and then either its run *)
(* on the CPU (CpuPath) or its compilation for the devices there are         *)
(* (Compilation).  How a compiled plan is executed is PlanExecution.         *)
(*                                                                           *)
(* To CpuPath a kernel is one step.  The kernels that are machines of their  *)
(* own, the detections (Detections), the recurrences (Recurrent) and those   *)
(* that move elements (Tensors), run here on what the executor put into      *)
(* their operands.                                                           *)
(*                                                                           *)
(* The application starts from nothing, from one of Drafts, from a model it  *)
(* has finished and a compilation it has created, or is in a kernel.         *)
(***************************************************************************)
EXTENDS CpuPath, Compilation, Detections, Recurrent, Tensors

CONSTANT Compilations          \* [model, settings]: the models compiled, and how

kernelVars == << detectionVars, recurrentVars, tensorVars >>
vars == << builder, cpuVars, compilationVars, kernelVars >>

InKernel == detector # NoDetector \/ cell # NoCell \/ mover # NoMover
KernelInit(d, c, m) == DetectionInit(d) /\ RecurrentInit(c) /\ TensorInit(m)

Init ==
  /\ \/ /\ builder \in {Empty} \cup {Draft(d) : d \in Drafts} /\ compilation = NoCompilation
        /\ KernelInit(NoDetector, NoCell, NoMover)
     \/ /\ \E c \in Compilations : builder = c.model /\ compilation = Created(c.settings)
        /\ KernelInit(NoDetector, NoCell, NoMover)
     \/ /\ builder = Empty /\ compilation = NoCompilation
        /\ \/ \E d \in Detectors : KernelInit(d, NoCell, NoMover)
           \/ \E c \in Cells : KernelInit(NoDetector, c, NoMover)
           \/ \E m \in Movers : KernelInit(NoDetector, NoCell, m)
  /\ CpuInit /\ CompilationInit

Next ==
  \/ compilation = NoCompilation /\ ~ InKernel /\ PathNext /\ UNCHANGED << compilationVars, kernelVars >>
  \/ compilation # NoCompilation /\ CompilationNext /\ UNCHANGED << builder, cpuVars, kernelVars >>
  \/ DetectionNext /\ UNCHANGED << builder, cpuVars, compilationVars, recurrentVars, tensorVars >>
  \/ RecurrentNext /\ UNCHANGED << builder, cpuVars, compilationVars, detectionVars, tensorVars >>
  \/ TensorNext /\ UNCHANGED << builder, cpuVars, compilationVars, detectionVars, recurrentVars >>

Spec == Init /\ [][Next]_vars
=============================================================================
