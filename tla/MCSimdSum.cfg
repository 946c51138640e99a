SPECIFICATION Spec
CONSTANTS
  WordMax = 31
  Regs = {0, 1, 2}
  Loops <- SumTo
  Other = Other
  Failed = Failed
  Start <- FromZero
  Careful = FALSE
PROPERTIES
  FourPasses
CHECK_DEADLOCK FALSE
