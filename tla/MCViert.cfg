CONSTANTS
  W = 1024
  Programs <- Tested
  Claims <- Claimed
  StackEnd = 300
  DataCells = 24
  Gap = 8
  MaxFaults = 1
SPECIFICATION Spec
INVARIANTS AbiHolds Delivers EndsAsMeant
PROPERTIES Balanced Terminates
CHECK_DEADLOCK FALSE
