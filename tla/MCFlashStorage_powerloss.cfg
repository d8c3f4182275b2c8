SPECIFICATION Spec
CONSTANTS
    Size <- MCSize
    Values = {v1, v2}
    Torn = torn
    MaxAddress = 14
    CounterWords = 2
    Increments = {1}
    ProgramFails = TRUE
    MaxInterruptions = 2
SYMMETRY Symmetry
INVARIANTS
    NothingLost
    JunkBounded
    ItemsInside
    OverwriteCauses
    CounterNeverRepeats
PROPERTIES
    StoreSpec
