SPECIFICATION FairSpec
CONSTANTS
    Files <- MCFiles
    NFields = 2
    StatusFields <- MCStatusFields
    Vals <- MCVals
    Statuses <- MCStatuses
    Garbage <- MCGarbage
    MaxRows = 2
INVARIANTS
    WholeEvents
    ConfigGate
PROPERTIES
    NoSessionNoService
CHECK_DEADLOCK FALSE
