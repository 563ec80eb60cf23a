\* Two executions that compete for a burst.
SPECIFICATION FairSpec
CONSTANTS
    e1 = e1
    e2 = e2
    Executions <- TwoExecutions
    NumArguments = 1
    Reports <- TooSmall
    Kinds = {"driver", "any"}
INVARIANTS
    QueriesAreFinal
    NoUseAfterFree
PROPERTIES
    BurstIsReleased
    CallsReturn
CHECK_DEADLOCK FALSE
