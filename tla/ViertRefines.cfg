CONSTANTS
  W = 1024
  Programs <- Refining
  Claims <- NoClaims
  StackEnd = 300
  DataCells = 24
  Gap = 8
  MaxFaults = 1
SPECIFICATION Spec
INVARIANTS Disciplined
PROPERTIES ImplementsForth
CHECK_DEADLOCK FALSE
