SPECIFICATION Spec
CONSTANTS
  Procedures <- NewtonProcedures
  Texts <- MCFiles
INVARIANTS TypeOK LanguageAnswered SignalsAsDefined NamesInScope InvariantsAsDeclared TreeReadsAsText LastSensorRead
PROPERTIES Ends
CHECK_DEADLOCK FALSE
