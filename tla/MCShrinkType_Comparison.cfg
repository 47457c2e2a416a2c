SPECIFICATION Spec
CONSTANTS
    Widths = {2, 3, 4}
    Fuel = 64
    Analysed <- WithRanges
    Sources <- Diamond
INVARIANT ComparisonsKept
CHECK_DEADLOCK FALSE
