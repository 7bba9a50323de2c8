SPECIFICATION Spec
CONSTANTS
    None = None
    NotANumber = NotANumber
    QuickSortDepth = 2
    IntroSortSize = 4
    Maps <- MCMaps
    StackThreshold <- MCStackThreshold
    RimSounds <- MCRimSounds
    MaxRepetitionInterval <- MCMaxRepetitionInterval
INVARIANTS
    TypeOK
    KeepsObjects
    ScrollSpeeds
    StackHeights
    GroupsOfNotes
CHECK_DEADLOCK FALSE
