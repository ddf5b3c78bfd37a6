CONSTANTS
    RolloutBatchSize = 1
    MaxDelayStep = 1
    MaxPrefetchSteps = 2
    QueueSize = 3
    NSamples = 1
    StartRollout = 0
    FirstGroup = 0
    NumRollouts = 1
    MaxGroups = 8
    MaxAborts = 3
    MaxFaults = 0
    FaultKinds = {}
SPECIFICATION FairSpec
PROPERTY CallsReturn
