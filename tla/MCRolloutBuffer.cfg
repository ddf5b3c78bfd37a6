CONSTANTS
    NumInstances = 3
    N = 3
    BatchSize = 2
    Processes = 1
    Retries <- MCRetries
    Texts = {"text", "empty", "none"}
    FaultKinds = {"write", "written", "fetch", "fetched"}
    MaxTasks = 10
    MaxSpoiled = 1
    MaxCalls = 2
    MaxFaults = 1
SPECIFICATION Spec
INVARIANTS ItemsHaveOneHome
PROPERTIES BatchIsAnswered
