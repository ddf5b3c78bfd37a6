CONSTANTS
    Batches <- MCBatches
    Configs <- MCConfigs
    Work <- MCWork
SPECIFICATION Spec
INVARIANTS OnlyBelowThreshold
