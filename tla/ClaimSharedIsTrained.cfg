CONSTANTS
    Texts <- MCTexts
    Tokenizations <- MCTokenizations
    UserToken = 0
    ForkThresholds = {2}
    MaxContexts = {0}
    MaxTurns = 3
    MaxPrompt = 5
SPECIFICATION Spec
INVARIANT SharedIsTrained
