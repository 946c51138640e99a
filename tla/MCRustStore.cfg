SPECIFICATION Spec
CONSTANTS
  Structs <- MCStructs
  TargetRange = 4
  IndexRange = 2
  FieldRange = 4
  Regs = {r1, r2}
  Ints = {0, 1, 2}
  Stored <- MCStored
  MaxHeap = 2
  MaxOpens = 2
  Liberties = {}
INVARIANTS
  NoPanic
  OpenHandlesWork
  StoreInv
PROPERTIES
  ImplementsMemory
SYMMETRY RegSymmetry
CHECK_DEADLOCK FALSE
