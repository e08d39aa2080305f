SPECIFICATION FairSpec
CONSTANTS
    Vals <- MCVals
    Junk <- MisframedValue
    NRegs = 2
    Driver = "Fx3u"
    Disturbances <- AllButCut
    MaxFaults = 2
    MaxWrites = 1
INVARIANTS
    TypeOK
    ReportedAtRest
    LostByFaults
PROPERTIES
    ReadsTheRegister
    ReportsSpec
    StopReconnects
    Recovers
    Converges
