CONSTANTS
    NotInt = NotInt
    MaxLines = 3
    LineSet <- MCLineSet
SPECIFICATION Spec
INVARIANTS
    SamplesFromValidLines
    EmptyResultIffNoSample
    MinAvgMaxOrdered
CHECK_DEADLOCK FALSE
