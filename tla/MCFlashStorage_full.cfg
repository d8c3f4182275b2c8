SPECIFICATION Spec
CONSTANTS
    Size <- MCSize
    Values = {v1, v2}
    Torn = torn
    MaxAddress = 12
    CounterWords = 2
    Increments = {1}
    ProgramFails = TRUE
    MaxInterruptions = 2
SYMMETRY Symmetry
INVARIANTS
    IterationStaysInside
