CONSTANTS
    Callers = {c1, c2}
    FetchBytes = 1
    Target = 2
    MaxFrame = 3
    Lookback = 1
    MaxPolls = 1
    MaxLen = 2
    MaxEpochs = 1
    MaxGens = 3
    MaxFaults = 1
    MaxCrashes = 1
    LossyDirs = FALSE
SPECIFICATION Spec
SYMMETRY Symmetry
VIEW SafeState
INVARIANTS
    OffsetWithinDurable
    FramesTileLog
    BytesInPlace
    SealedIsComplete
    NoSpuriousGeneration
