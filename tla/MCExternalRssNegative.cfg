CONSTANTS
    NotInt = NotInt
    MaxLines = 1
    LineSet <- MCLineSetNeg
SPECIFICATION Spec
INVARIANTS
    SamplesNonNegative
CHECK_DEADLOCK FALSE
