SPECIFICATION MainSpec
CONSTANTS
  WordMax = 15
  IntMax = 15
  Sources <- MCSources
  Programs <- MCPrograms
  Parts <- NodeSet
  MaxSteps = 120
  MaxLoops = 8
INVARIANTS
  ReadsBack
  NoPartOfAProgram
  CodeInBounds
  RunsAgree
  QbeAgrees
  QbeSingleAssignment
CHECK_DEADLOCK FALSE
