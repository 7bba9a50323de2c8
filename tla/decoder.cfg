SPECIFICATION Spec
CONSTANTS
    None = None
    NotANumber = NotANumber
    QuickSortDepth = 1
    IntroSortSize = 3
    GeneralLines <- MCGeneralLines
    DifficultyLines <- MCDifficultyLines
    EventLines <- MCEventLines
    TimingLines <- MCTimingLines
    ObjectLines <- MCObjectLines
    MaxLines = 4
INVARIANTS
    TypeOK
    ActiveControlPoints
    SortedInTandem
    SliderPaths
    MostCommonBeatLen
CHECK_DEADLOCK FALSE
