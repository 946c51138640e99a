SPECIFICATION Spec
CONSTANTS
  Exprs <- MCExprs
  Apply <- MCApply
  Values = {0, 1}
  MaxNamed = 2
  MaxParams = 2
  MaxStmts = 2
  MaxParts = 2
  SSA = TRUE
PROPERTY NamedKept
CHECK_DEADLOCK FALSE
