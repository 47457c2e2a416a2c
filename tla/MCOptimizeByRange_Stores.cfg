SPECIFICATION OptSpec
CONSTANTS
    Names <- MCNames
    ConstantValue <- MCConstantValue
    NoName = NoName
    TypeRange <- MCTypeRange
    Inputs <- MCInputs
    Programs <- SharedGlobal
    MaxDepth = 3
    Width = 8
INVARIANT StoresToVariablesStay
CHECK_DEADLOCK FALSE
