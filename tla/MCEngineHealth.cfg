SPECIFICATION FairSpec
CONSTANTS
    NumEngines = 2
    NumRounds = 3
    MaxFailures = 2
    ShutdownMayFail = FALSE
INVARIANTS TypeOK ServesCurrentWeights OneEnginePerSlot
PROPERTIES KillsWhatItChecked HungIsNoticed
CHECK_DEADLOCK FALSE
