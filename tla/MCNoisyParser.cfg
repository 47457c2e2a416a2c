SPECIFICATION Spec
CONSTANTS
  Procedures <- NoisyProcedures
  Texts <- MCPrograms
  Needs <- MCNeeds
INVARIANTS TypeOK LanguageTaken NamesDecide SignaturesAgree TreeReadsAsText
PROPERTIES Ends
CHECK_DEADLOCK FALSE
