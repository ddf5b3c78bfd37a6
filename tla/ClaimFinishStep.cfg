CONSTANTS
    RolloutBatchSize = 2
    MaxDelayStep = 1
    MaxPrefetchSteps = 1
    QueueSize = 3
    NSamples = 1
    StartRollout = 0
    FirstGroup = 0
    NumRollouts = 2
    MaxGroups = 6
    MaxAborts = 0
    MaxFaults = 0
    FaultKinds = {}
SPECIFICATION SpecHistory
INVARIANT StampIsFinishStep
