SPECIFICATION Spec
CONSTANTS
    Bound = 8
    IntWidth = 3
    LongWidth = 5
    Widths = {1, 2, 3, 5}
INVARIANTS
    EveryRemainderIn
    EveryResultIn
    BitwiseExact
    NoWiderThanOperands
CHECK_DEADLOCK FALSE
