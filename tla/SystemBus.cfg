SPECIFICATION FairSpec
CONSTANTS
    c1 = c1
    None = None
    NEngine = 2
    Cell = {c1}
    Byte = {0, 1}
    CpuOps <- MCCpuOps
    WalkOps <- MCWalkOps
    DmaOps <- MCDmaOps
INVARIANTS TypeOK ServesWaitingMaster CacheCoherent
PROPERTIES ImplementsSharedRam CoreServed DmaServed
