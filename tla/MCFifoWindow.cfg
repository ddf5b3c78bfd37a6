CONSTANTS
    RolloutBatchSize = 2
    MaxDelayStep = 1
    MaxPrefetchSteps = 2
    QueueSize = 5
    NSamples = 1
    StartRollout = 0
    FirstGroup = 0
    NumRollouts = 5
    MaxGroups = 14
    MaxAborts = 0
    MaxFaults = 0
    FaultKinds = {}
SPECIFICATION Spec
INVARIANTS PrefetchBound DelayBound OffPolicyBound NeverBlocked
