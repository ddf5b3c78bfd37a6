CONSTANTS
    NumInstances = 2
    N = 2
    BatchSize = 1
    Processes = 2
    Retries <- MCRetries
    Texts = {"text"}
    FaultKinds = {}
    MaxTasks = 8
    MaxSpoiled = 0
    MaxCalls = 2
    MaxFaults = 0
SPECIFICATION Spec
INVARIANT GroupsFit
