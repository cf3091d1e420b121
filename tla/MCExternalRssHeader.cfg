CONSTANTS
    NotInt = NotInt
    MaxLines = 2
    LineSet <- MCLineSetTs
SPECIFICATION Spec
INVARIANTS
    HeaderIsFirstFieldOnly
CHECK_DEADLOCK FALSE
