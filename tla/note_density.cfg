CONSTANTS
    N = 7
    Elem = {0, 1, 2}
    Default = 0
SPECIFICATION Spec
INVARIANTS
    TypeOK
    IndexAgrees
PROPERTIES
    IsLastElements
