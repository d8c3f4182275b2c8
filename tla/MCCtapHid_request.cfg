SPECIFICATION SafetySpec
CONSTANTS
    MaxCid = 2
    InitSize = 1
    ContSize = 2
    MaxConts = 2
    TransactionTimeout = 0
    ClockMod = 2
    Asserts = TRUE
    HostCids = {1, 2, 3}
    HostCommands = {"PING", "CBOR", "INIT", "CANCEL"}
    HostLengths = {0, 5, 8}
    ResponseLengths = {5}
    Budget = 0
INVARIANTS
    MessageIntegrity
    PingEchoed
    ResponsesWhole
    RequestStaysReady
    CancelScoped
    ResponseAlwaysFits
PROPERTIES
    RequestStaysTheSame
    BusyOnlyWhileInProgress
    OnlyOwnerOrTimeoutDiscards
