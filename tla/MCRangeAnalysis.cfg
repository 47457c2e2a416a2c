SPECIFICATION Spec
CONSTANTS
    Names <- MCNames
    ConstantValue <- MCConstantValue
    NoName = NoName
    TypeRange <- MCTypeRange
    Programs <- AllPrograms
    MaxDepth = 3
INVARIANTS
    TypeOK
PROPERTIES
    RegistersOnlyWiden
    ArgumentsCoverCallSites
    AnalysisTerminates
CHECK_DEADLOCK FALSE
