SPECIFICATION Spec
CONSTANTS
    k1 = k1
    k2 = k2
    i1 = i1
    i2 = i2
    NoInfo = NoInfo
    Key = {k1, k2}
    Info = {i1, i2}
    Depth = 2
    NWords = 2
    MaxResets = 1
    Stale <- MCStale
    Events <- MCEvents
    Idle <- MCIdle
INVARIANTS SelectorCorrect RecordIntact ReaderSafe BridgeAckOwn
