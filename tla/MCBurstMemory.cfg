\* Slots, memory replacement and freeMemory; nothing fails.
SPECIFICATION Spec
CONSTANTS
    t1 = t1
    t2 = t2
    k1 = k1
    k2 = k2
    Threads <- MCThreads
    Keys <- MCKeys
    Arguments <- MCArguments
    Modes = {TRUE}
    Capacity = 4
    RequestSizes = {2}
    ResultSizes = {2}
    Failures = {}
    MaxRequests = 2
    MaxGeneration = 2
SYMMETRY Symmetry
INVARIANTS
    ExecutorNotConcurrent
    SlotsPartitioned
    NoStaleMemory
CHECK_DEADLOCK FALSE
