\* A plan of three steps on two devices and the CPU.
SPECIFICATION FairSpec
CONSTANTS
    o1 = o1
    o2 = o2
    o3 = o3
    Outputs <- ThreeOutputs
    Plan <- ThreeSteps
INVARIANTS
    StepsInOrder
    ShapesOfTheProducer
    FallbackIsAllowed
PROPERTIES
    Ends
CHECK_DEADLOCK FALSE
