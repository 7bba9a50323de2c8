CONSTANTS
    MaxOsu = 3
    MaxTaiko = 6
    MaxCatch = 3
    MaxMania = 3
    USizeMax = 1000
    OsuMaps <- MCOsuMaps
    TaikoMaps <- MCTaikoMaps
    CatchMaps <- MCCatchMaps
    ManiaMaps <- MCManiaMaps
    Takes <- MCTakes
    NthArgs <- MCNthArgs
SPECIFICATION ForLoop
INVARIANTS
    TypeOK
    InStep
PROPERTIES
    ExactSize
    IsPrefixIterator
    Fused
    ForLoopEnds
