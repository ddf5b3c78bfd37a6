CONSTANTS
    RolloutBatchSize = 1
    OverSamplingBatchSize = 2
    NSamples = 2
    Concurrency = 2
    DatasetSizes = {1, 3}
    Modes <- MCModes
    NumRollouts = 2
    MaxGroups = 6
    MaxDrops = 2
    MaxLost = 1
SPECIFICATION FairSpec
INVARIANTS TypeOK NeverWaitsForNothing BatchIsWhole RecycledAreConsistent EpochsInOrder
PROPERTIES ImplementsDelivery EveryRolloutReturns
