SPECIFICATION Spec
CONSTANTS
    Radix = 4
    Width = 3
    Room = 5
    MaxBody = 7
    MaxId = 7
    MaxParams = 2
CHECK_DEADLOCK FALSE
INVARIANTS
    ApduReadAsWritten
    SignatureReadsBack
    TruncationFits
    FirstSupportedChosen
