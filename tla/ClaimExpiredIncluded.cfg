CONSTANTS
    RolloutBatchSize = 2
    MaxDelayStep = 1
    MaxPrefetchSteps = 2
    QueueSize = 5
    NSamples = 1
    StartRollout = 0
    FirstGroup = 0
    NumRollouts = 2
    MaxGroups = 8
    MaxAborts = 2
    MaxFaults = 0
    FaultKinds = {}
SPECIFICATION Spec
PROPERTY ExpiredForceIncluded
