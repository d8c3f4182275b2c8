SPECIFICATION Spec
CONSTANTS
    Hosts = {h1, h2}
    Protocols = {1, 2}
    Pins = {pinA, pinB}
    NoPin = none
    RpIds = {rpA, rpB}
    NoRp = none
    TotalAttempts = 3
    BootAttempts = 2
    MaxUsage = 2
    InitialUsage = 1
    ResetLimit = 0
    StatefulLimit = 1
    ClockMod = 16
    MaxClock = 3
    MaxWait = 0
    StorageFails = TRUE
    Uses = {"pin", "token", "credential", "management", "next", "reset"}
SYMMETRY Symmetry
INVARIANTS
    GuessesPaid
    TokenOfCurrentPin
    OneHolder
PROPERTIES
    EnumerationEndsUnlessReset
    BlockedUntilReset
    BlockedUntilPowerCycle
    AuthorizationSpec
