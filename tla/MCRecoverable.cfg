\* Two threads, a driver that starts twice and may answer anything.
SPECIFICATION FairSpec
CONSTANTS
    t1 = t1
    t2 = t2
    Threads <- TwoThreads
    Answers = {"model", "failure"}
    Statuses = {"ok", "error"}
    MaxInstances = 2
INVARIANTS
    NoOrphanedWait
PROPERTIES
    CallsReturn
CHECK_DEADLOCK FALSE
