SPECIFICATION Spec
CONSTANTS
    Bound = 8
    IntWidth = 3
    LongWidth = 5
    Widths = {1, 2, 3, 5}
INVARIANTS
    SignBitKept
CHECK_DEADLOCK FALSE
