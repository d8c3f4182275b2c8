SPECIFICATION Spec
CONSTANTS
    Pins = {p, q}
    NoPin = none
    NobodysPin = unknown
    Torn = torn
    Attempts = 2
    VirginAttempts = 3
    Handles = {1, 2, 3, 4, 5, 6, 7, 8, 9}
    MaxInterruptions = 2
    MayFail = FALSE
SYMMETRY Symmetry
INVARIANTS
    AnsweredPinStays
