SPECIFICATION AnySpec
CONSTANTS
    None = None
    AccScale = 47
    Maps <- MCMaps
    Counts <- MCCounts
    FieldCalls <- MCFieldCalls
    StateCalls <- MCStateCalls
    AccCalls <- MCAccCalls
    SettingCalls <- MCSettingCalls
    DiffCalls <- MCDiffCalls
    MaxSetters = 1
    U32Max = 99
INVARIANTS
    NoConversionRequired
