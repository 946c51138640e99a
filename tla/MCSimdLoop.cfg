SPECIFICATION Spec
CONSTANTS
  WordMax = 7
  Regs = {0, 1, 2}
  Loops <- MCLoops
  Other = Other
  Failed = Failed
  Start <- MCStart
  Careful = TRUE
INVARIANTS
  LanesAhead
PROPERTIES
  FourPasses
  ImplementsWhile
CHECK_DEADLOCK FALSE
