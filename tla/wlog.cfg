SPECIFICATION Spec
CONSTANTS
    MinFiles = 1
    MaxFiles = 3
    FileLimit = 1
    CleanInterval = 1
    InfoInterval = 2
    LineSizes <- MCLineSizes
    Shortages <- MCShortages
    MaxTime = 4
    MaxList = 5
INVARIANTS
    Listed
    SizeBound
PROPERTIES
    OldestFirst
    MinKept
    CleanBounds
    LostOnlyByName
CHECK_DEADLOCK FALSE
