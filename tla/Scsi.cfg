SPECIFICATION FairSpec
CONSTANTS
    WordBytes = 2
    BufBytes = 4
    SectBytes = 4
    FifoDepth = 3
    MaxFlush = 3
    CounterTop = 16
    Target = {0, 2}
    Blocks = 2
    ReadOnly = {2}
    RamTop = 12
    AddrTop = 16
    Request <- MCRequest
    Following <- MCFollowing
    MaxAttempt = 2
    MaxPass = 2
    Pumps = 3
    Resrept = TRUE
    Abort = {"RESET", "BUS RESET"}
INVARIANTS TypeOK CauseNonzero NoOrphan DataIntact
PROPERTIES OneInterrupt Confined Ends
