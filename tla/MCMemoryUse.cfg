\* Every burst has an address of its own.
SPECIFICATION Spec
CONSTANTS
    t1 = t1
    t2 = t2
    k1 = k1
    k2 = k2
    b1 = b1
    b2 = b2
    Threads <- MCThreads
    Keys <- MCKeys
    Addresses <- MCAddresses
    ReuseAddress = FALSE
    MaxIncarnation = 2
SYMMETRY Symmetry
INVARIANTS
    FreedFromItsBursts
CHECK_DEADLOCK FALSE
