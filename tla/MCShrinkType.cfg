SPECIFICATION Spec
CONSTANTS
    Widths = {2, 3, 4}
    Fuel = 64
    Analysed <- WithRanges
    Sources <- MCFunctions
INVARIANTS
    WellTyped
    NoAssertFails
    SameResult
PROPERTIES
    WalksEnd
CHECK_DEADLOCK FALSE
