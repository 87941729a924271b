SPECIFICATION FairSpec
CONSTANTS
    Byte <- MCByte
    Me = {}
    MinLen = 1
    CrcLen = 0
    Trail = 1
    BufLen = 4
    RamTop = 5
    AddrTop = 5
    Lanes = 2
    Slots = 2
    MaxFrame = 3
    TxEnd <- MCTxEnd
    RxLen <- NoRxLen
    Upsets = {"flap"}
    MaxUpset = 2
    MaxMac = 0
PROPERTY MacLeavesBtx
