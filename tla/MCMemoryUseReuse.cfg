\* A new burst may get the address of a dead one.
SPECIFICATION Spec
CONSTANTS
    t1 = t1
    t2 = t2
    k1 = k1
    k2 = k2
    b1 = b1
    b2 = b2
    Threads <- OneThread
    Keys <- OneKey
    Addresses <- OneAddress
    ReuseAddress = TRUE
    MaxIncarnation = 2
INVARIANTS
    FreedFromItsBursts
CHECK_DEADLOCK FALSE
