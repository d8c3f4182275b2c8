SPECIFICATION Spec
CONSTANTS
    Rps = {rpA, rpB}
    NoRp = none
    Users = {alice, bob}
    Kinds <- SomeKinds
    IdLists = {{}, {1, 2}}
    MaxItems = 3
    MaxList = 2
    MaxInterruptions = 1
SYMMETRY Symmetry
INVARIANTS
    OnePerAccountOfDiscoverables
    PendingAccountLives
    PendingEligible
    NothingOmitted
    DeletedGone
    HandedKept
