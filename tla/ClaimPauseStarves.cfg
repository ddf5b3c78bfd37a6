CONSTANTS
    RolloutBatchSize = 2
    MaxDelayStep = 1
    MaxPrefetchSteps = 1
    QueueSize = 9
    NSamples = 1
    StartRollout = 2
    FirstGroup = 0
    NumRollouts = 4
    MaxGroups = 12
    MaxAborts = 0
    MaxFaults = 0
    FaultKinds = {}
SPECIFICATION FairSpec
PROPERTY CallsReturn
