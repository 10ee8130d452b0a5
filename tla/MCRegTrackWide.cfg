CONSTANTS
  Q = 4
  Regs = {"eax", "ebx", "ecx", "edx", "esi", "edi", "ebp"}
  Operands <- MCOperands
  Inputs <- MCInputs
  Labels = {7}
  ZeroLists <- MCZeroLists
  Calls <- MCCalls
  Blocks <- MCBlocks
  Stored <- MCOperands
  Sizes <- MCSizes
  CpuidAnswer <- MCZeros
  REG_SEARCH = FALSE
  StaleWrites = FALSE
  MaxLen = 3
SPECIFICATION MCSpec
INVARIANTS TypeOK Sound SetDelivers ZeroClears SyscallReceives
CHECK_DEADLOCK FALSE
