CONSTANTS
    f1 = f1
    f2 = f2
    f3 = f3
    Falsy = Falsy
    Malformed = Malformed
    Files <- MCFiles
    Contents <- MCContents

SPECIFICATION Spec
INVARIANTS
    OnlyNoDataExitsNonZero
CHECK_DEADLOCK FALSE
