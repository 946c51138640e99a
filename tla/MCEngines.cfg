SPECIFICATION Spec
CONSTANTS
  NumRegs = 3
  NumParams = 1
  MaskBits = 3
  WordMax = 3
  Liberties = {}
INVARIANTS
  RegistersAgree
  ResultsAgree
CHECK_DEADLOCK FALSE
