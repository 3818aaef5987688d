CONSTANTS
    Callers = {c1, c2}
    FetchBytes = 1
    Target = 2
    MaxFrame = 3
    Lookback = 1
    MaxPolls = 1
    MaxLen = 1
    MaxEpochs = 0
    MaxGens = 2
    MaxFaults = 1
    MaxCrashes = 1
    LossyDirs = FALSE
SPECIFICATION AskingSpec
VIEW LiveState
PROPERTIES
    EnsureReturns
    MirrorCompletes
