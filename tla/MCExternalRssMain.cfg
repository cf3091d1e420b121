CONSTANTS
    NotInt = NotInt
    MaxLines = 3
    LineSet <- MCLineSet
SPECIFICATION MainSpec
INVARIANTS
    ExitStatusByData
CHECK_DEADLOCK FALSE
