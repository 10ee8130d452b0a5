CONSTANTS
  Q = 4
  Regs = {"eax", "edx"}
  Operands <- MinusOneMinusTwo
  Inputs <- MCInputs
  Labels = {7}
  ZeroLists <- MCZeroLists
  Calls = {}
  Blocks = {}
  Stored = {}
  Sizes = {}
  CpuidAnswer <- MCZeros
  REG_SEARCH = TRUE
  StaleWrites = FALSE
SPECIFICATION Spec
INVARIANT SetDelivers
