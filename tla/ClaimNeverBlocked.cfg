CONSTANTS
    RolloutBatchSize = 2
    MaxDelayStep = 1
    MaxPrefetchSteps = 1
    QueueSize = 2
    NSamples = 1
    StartRollout = 0
    FirstGroup = 0
    NumRollouts = 3
    MaxGroups = 8
    MaxAborts = 0
    MaxFaults = 0
    FaultKinds = {}
SPECIFICATION Spec
INVARIANT NeverBlocked
CHECK_DEADLOCK FALSE
