SPECIFICATION FairSpec
CONSTANTS
    r1 = r1
    b1 = b1
    RamWord = {r1}
    BoxWord = {b1}
    Byte = {0, 1, 2, 3, 4}
    RamOps <- MCRamOps
    BoxOps <- MCBoxOps
INVARIANT ReadOwner
PROPERTIES PortAImplementsRam PortBImplementsRam BusAnswered MailboxAnswered
