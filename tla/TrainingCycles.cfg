CONSTANTS
    CatalogSize = 4
    Category <- MCCategory
    Language <- MCLanguage
    Difficulty <- MCDifficulty
    Rounds = 2
    FormSize = 3
    MaxCycles = 11
    MaxLost = 1
    MaxFaults = 2
SPECIFICATION Spec
INVARIANTS
    EvidenceKept
    LatestCycleIsCurrent
    TeacherQualifies
PROPERTY
    StandingKept
CHECK_DEADLOCK FALSE
