SPECIFICATION Spec
CONSTANTS
    Byte = {0, 1, 2, 3, 4, 5, 6, 7}
    Me = {0, 1}
    MinLen = 2
    CrcLen = 1
    Trail = 1
    BufLen = 4
    RamTop = 8
    AddrTop = 9
    TxByte <- MCTxByte
    Programs <- MCPrograms
    Writes <- ResetWrites
INVARIANT DeliveredCompletely
