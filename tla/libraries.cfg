SPECIFICATION FairSpec
CONSTANTS
    Threads = {t1, t2, t3}
    Initial = 1
    Limit = 2
    MaxPost = 2
    Seconds = {0, 1}
    Lengths = {1, 3}
    Room = 2
    MaxCalls = 3
    Logs = {log1, log2}
    Writes = {write1}
    Width = 4
    FileLimit = 1
    LogCalls = 6
    Inputs <- MCInputs
    Titles = {"a", "b"}
    Spaces <- MCSpaces
    MaxText = 4
    MaxSpace = 9
INVARIANTS
    CountCovers
    InStep
    InTime
    LinesKept
    OneLineFiles
    Balanced
    TextRules
PROPERTY
    Returns
CHECK_DEADLOCK FALSE
