CONSTANTS
    MaxObjects = 4
    MCGaps = {0, 1, 2, 5}
    MCValues = {0, 1, 6}
    SectionLength = 2
    Decay <- HalvingDecay
    Maps <- MCMaps
SPECIFICATION Spec
INVARIANTS
    TypeOK
    PeaksAreSectionMaxima
    RanksAllPeaks
CHECK_DEADLOCK FALSE
