CONSTANTS
    RolloutBatchSize = 2
    MaxDelayStep = 1
    MaxPrefetchSteps = 2
    QueueSize = 9
    NSamples = 1
    StartRollout = 1
    FirstGroup = 6
    NumRollouts = 2
    MaxGroups = 12
    MaxAborts = 0
    MaxFaults = 0
    FaultKinds = {}
SPECIFICATION FairSpec
PROPERTY CallsReturn
