SPECIFICATION FairSpec
CONSTANTS
    Vals <- TwoVals
    Junk <- MisframedValue
    NRegs = 2
    Driver = "Fx3u"
    Disturbances <- OnlyCut
    MaxFaults = 1
    MaxWrites = 0
PROPERTY
    ReadReturnsRegister
