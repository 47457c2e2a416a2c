SPECIFICATION Spec
CONSTANTS
  arg = arg
  x = x
  y = y
  c = c
  zero = zero
  Values <- MCValues
  Constants <- MCConstants
  Functions <- MCFunctions
CHECK_DEADLOCK FALSE
INVARIANTS TypeOK LocalSetsExact SolvedWhenDone LiveOnPaths
PROPERTIES OnlyGrows Terminates ImplementsDataflow
