SPECIFICATION Spec
CONSTANTS
    NumEngines = 2
    NumRounds = 3
    MaxFailures = 2
    ShutdownMayFail = TRUE
INVARIANTS ServesCurrentWeights
CHECK_DEADLOCK FALSE
