SPECIFICATION Spec
CONSTANTS
    Names <- MCNames
    Values <- MCValues
    Paths <- MCPaths
    Documents <- MCDocuments
    MaxNodes = 4
    MaxItems = 3
    MaxCalls = 4
INVARIANTS
    AddedIsFound
    UpdatedIsRead
    LoopMeetsIndex
PROPERTY
    DownwardIsSound
CHECK_DEADLOCK FALSE
