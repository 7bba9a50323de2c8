CONSTANTS
    Values = {0, 1, 2}
    MaxLen = 6
SPECIFICATION Spec
INVARIANTS
    TypeOK
PROPERTIES
    IsRawStrainsVec
