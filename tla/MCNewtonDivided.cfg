SPECIFICATION Spec
CONSTANTS
  Procedures <- NewtonProcedures
  Texts <- MCDivided
INVARIANTS UnitsRight
CHECK_DEADLOCK FALSE
