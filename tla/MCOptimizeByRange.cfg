SPECIFICATION OptSpec
CONSTANTS
    Names <- MCNames
    ConstantValue <- MCConstantValue
    NoName = NoName
    TypeRange <- MCTypeRange
    Inputs <- MCInputs
    Programs <- TrustedPrograms
    MaxDepth = 3
    Width = 8
INVARIANTS
    RangesContain
    SameResult
    InfoIsCurrent
CHECK_DEADLOCK FALSE
