\* A driver that dies once and otherwise does all that it is asked.
SPECIFICATION Spec
CONSTANTS
    t1 = t1
    t2 = t2
    Threads <- TwoThreads
    Answers = {"model"}
    Statuses = {"ok"}
    MaxInstances = 2
INVARIANTS
    RecoverySucceeds
CHECK_DEADLOCK FALSE
