SPECIFICATION FairSpec
CONSTANTS
    NumRollouts = 6
    UseCritic = TRUE
    NumCriticOnlySteps = 1
    UpdateWeightsInterval = 3
    SaveInterval = 2
    EvalInterval = 3
    NumRolloutPerEpoch = 5
    AsyncSave = TRUE
    MaxCrashes = 2
INVARIANTS
    TypeOK
    UniformWeights
    OwnBatch
    StalenessBound
    ModelsInStep
    DataInOrder
PROPERTIES
    JobFinishes
CHECK_DEADLOCK FALSE
