\* The driver or the runtime goes at any point, packets do not fit, queues block on a futex or spin.
SPECIFICATION FairSpec
CONSTANTS
    t1 = t1
    t2 = t2
    k1 = k1
    k2 = k2
    Threads <- MCThreads
    Keys <- OneKey
    Arguments <- OnePool
    Modes = {TRUE, FALSE}
    Capacity = 4
    RequestSizes = {2, 5}
    ResultSizes = {3, 5}
    Failures = {"driver dies", "release"}
    MaxRequests = 2
    MaxGeneration = 1
INVARIANTS
    TypeOK
    AnswersItsRequest
    RunsOnceOrFallsBack
PROPERTIES
    CallsReturn
CHECK_DEADLOCK FALSE
