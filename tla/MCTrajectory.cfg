CONSTANTS
    Texts <- MCTexts
    Tokenizations <- MCTokenizations
    UserToken = 0
    ForkThresholds = {0, 2}
    MaxContexts = {0, 5}
    MaxTurns = 3
    MaxPrompt = 5
SPECIFICATION Spec
INVARIANTS TrainedAtMostOnce TrainedInContext SamplesAreTrainable NoResponseDropped
