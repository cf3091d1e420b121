CONSTANTS
    Missing = Missing
    Falsy = Falsy
    Malformed = Malformed
    NoSummary = NoSummary
    Stats <- MCStats
    ExtMax <- MCExtMax
SPECIFICATION Spec
INVARIANTS
    MissingArtifactNotFatal
    SavingsRelativeToBaseline
CHECK_DEADLOCK FALSE
