CONSTANTS
    MaxObjects = 4
    USizeMax = 1000
    Maps <- MCMaps
    NthArgs <- MCNthArgs
SPECIFICATION Spec
INVARIANTS
    TypeOK
    InStep
    MatchesCalculate
PROPERTIES
    ExactSize
    IsPrefixIterator
