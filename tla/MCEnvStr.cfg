SPECIFICATION Spec
CONSTANTS
  Texts <- MCTexts
  Statuses = 16
INVARIANT FallsOffOnlyUnaligned
INVARIANT PrintsAll
CHECK_DEADLOCK FALSE
