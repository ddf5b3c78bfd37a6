CONSTANTS
    RolloutBatchSize = 2
    MaxDelayStep = 1
    MaxPrefetchSteps = 1
    QueueSize = 8
    NSamples = 1
    StartRollout = 2
    FirstGroup = 0
    NumRollouts = 4
    MaxGroups = 6
    MaxAborts = 2
    MaxFaults = 1
    FaultKinds = {"raised", "fanout"}
SPECIFICATION Spec
INVARIANTS TypeOK OneHome AcceptedAreComplete
PROPERTIES ImplementsDelivery ExpiredGoFirst EarliestFirst
