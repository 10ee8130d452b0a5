CONSTANTS
  W = 2147483646
  Numbers <- MCNumbers
  Patterns <- MCPatterns
  Wide <- MCWide
SPECIFICATION Spec
INVARIANTS PrintsNumber LoopLeaves PrintsHex PrintsHexC
CHECK_DEADLOCK FALSE
