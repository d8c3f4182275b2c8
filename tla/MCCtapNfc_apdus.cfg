SPECIFICATION Spec
CONSTANTS
    ShortLe = 2
    TxRoom = 3
    ChainBuf = 4
    MaxData = 3
    MaxResponse = 4
    MaxCommands = 2
INVARIANTS
    RequestAsSent
    ResponseAsGiven
