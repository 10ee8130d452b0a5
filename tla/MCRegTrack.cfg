CONSTANTS
  Q = 4
  Regs = {"eax", "edx"}
  Operands <- MCOperands
  Inputs <- MCInputs
  Labels = {7}
  ZeroLists <- MCZeroLists
  Calls <- MCCalls
  Blocks = {}
  Stored = {}
  Sizes = {}
  CpuidAnswer <- MCZeros
  REG_SEARCH = TRUE
  StaleWrites = FALSE
SPECIFICATION Spec
INVARIANTS SetDelivers
