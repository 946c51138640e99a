SPECIFICATION MainSpec
CONSTANTS
  WordMax = 15
  IntMax = 15
  Sources <- EqTest
  Programs <- MCPrograms
  Parts <- NodeSet
  MaxSteps = 120
  MaxLoops = 8
INVARIANT EveryRunAgrees
CHECK_DEADLOCK FALSE
