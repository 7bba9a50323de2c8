SPECIFICATION Spec
CONSTANTS
    None = None
    Maps <- MCMaps
INVARIANTS
    TypeOK
    HasValidColumn
    NoOverlap
PROPERTIES
    NotStacked
    KeepsToObject
