CONSTANTS
  Fds <- MCFds
  MaxDuplicates = 1
SPECIFICATION Spec
INVARIANTS ClockFromTimeServer NoMisdirected ExitTells
PROPERTIES Terminates
CHECK_DEADLOCK FALSE
