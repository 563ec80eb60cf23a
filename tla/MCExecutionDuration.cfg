\* The duration of an asynchronous execution on the CPU.
SPECIFICATION Spec
CONSTANTS
    e1 = e1
    e2 = e2
    Executions <- OneExecution
    NumArguments = 1
    Reports <- TooSmall
    Kinds = {"cpu", "driver"}
INVARIANTS
    UnavailableDuration
CHECK_DEADLOCK FALSE
