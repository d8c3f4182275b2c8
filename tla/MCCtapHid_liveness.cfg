SPECIFICATION LiveSpec
CONSTANTS
    MaxCid = 2
    InitSize = 1
    ContSize = 2
    MaxConts = 1
    TransactionTimeout = 1
    ClockMod = 1
    Asserts = FALSE
    HostCids = {1, 3}
    HostCommands = {"PING", "CBOR", "INIT", "CANCEL", "WINK", "MSG"}
    HostLengths = {0, 3, 8}
    ResponseLengths = {1, 3}
    Budget = 5
PROPERTIES
    EveryMessageAnswered
