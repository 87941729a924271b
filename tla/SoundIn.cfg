SPECIFICATION FairSpec
CONSTANTS
    WordBytes = 2
    PerWord = 2
    Sample = {0, 1, 2, 3, 4, 5}
    SampleMod = 6
    RamTop = 8
    AddrTop = 10
    Source = {22}
    Forced = {}
    Desc <- BadDesc
    MaxAbort = 1
    MaxSwitch = 3
INVARIANTS TypeOK DoneMeansFilled ChainKept
PROPERTIES NoSilentLoss AllRecorded
