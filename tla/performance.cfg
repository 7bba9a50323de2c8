SPECIFICATION Spec
CONSTANTS
    None = None
    AccScale = 47
    Maps <- MCMaps
    Counts <- MCCounts
    FieldCalls <- MCFieldCalls
    StateCalls <- MCStateCalls
    AccCalls <- MCAccCalls
    SettingCalls <- MCSettingCalls
    DiffCalls <- MCDiffCalls
    MaxSetters = 3
    U32Max = 99
INVARIANTS
    TypeOK
    TotalHits
    ClosestToAccuracy
    GenerateTwice
    KeepsFullStates
PROPERTIES
    MapOrAttributes
