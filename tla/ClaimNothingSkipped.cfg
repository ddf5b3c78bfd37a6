SPECIFICATION Spec
CONSTANTS
    NumRollouts = 3
    UseCritic = TRUE
    NumCriticOnlySteps = 0
    UpdateWeightsInterval = 1
    SaveInterval = 1
    EvalInterval = 0
    NumRolloutPerEpoch = 0
    AsyncSave = FALSE
    MaxCrashes = 1
INVARIANTS
    NothingSkipped
CHECK_DEADLOCK FALSE
