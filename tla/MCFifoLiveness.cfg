CONSTANTS
    RolloutBatchSize = 1
    MaxDelayStep = 1
    MaxPrefetchSteps = 2
    QueueSize = 3
    NSamples = 2
    StartRollout = 0
    FirstGroup = 0
    NumRollouts = 2
    MaxGroups = 8
    MaxAborts = 3
    MaxFaults = 1
    FaultKinds = {"raised", "fanout"}
SPECIFICATION FairSpec
PROPERTIES EveryCallReturns
