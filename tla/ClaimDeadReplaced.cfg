SPECIFICATION Spec
CONSTANTS
    NumEngines = 2
    NumRounds = 3
    MaxFailures = 2
    ShutdownMayFail = FALSE
INVARIANTS DeadAreReplaced
CHECK_DEADLOCK FALSE
