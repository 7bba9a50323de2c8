CONSTANTS
    MaxOsu = 0
    MaxTaiko = 4
    MaxCatch = 0
    MaxMania = 2
    USizeMax = 1000
    OsuMaps = {}
    TaikoMaps <- DrumrollFirst
    CatchMaps = {}
    ManiaMaps = {}
    Takes <- MCTakes
    NthArgs <- MCNthArgs
SPECIFICATION Spec
INVARIANTS
    LenIsRemaining
