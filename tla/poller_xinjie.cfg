SPECIFICATION FairSpec
CONSTANTS
    Vals <- TwoVals
    Junk <- MisframedValue
    NRegs = 2
    Driver = "XinJie"
    Disturbances <- Everything
    MaxFaults = 2
    MaxWrites = 1
PROPERTIES
    OnlyStopReconnects
    DeadReadsZero
    HeldUntilLost
CHECK_DEADLOCK FALSE
