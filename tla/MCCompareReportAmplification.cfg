CONSTANTS
    Missing = Missing
    Falsy = Falsy
    Malformed = Malformed
    NoSummary = NoSummary
    Stats <- MCStats
    ExtMax <- MCExtMax
SPECIFICATION Spec
INVARIANTS
    AmplificationPerRun
CHECK_DEADLOCK FALSE
