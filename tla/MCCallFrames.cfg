SPECIFICATION FairSpec
CONSTANTS
  NumFns = 3
  Regs <- MCRegs
  SlabSlots = 4
  IntSlots = 5
  MaxCallDepth = 3
  TaskCallDepth = 2
INVARIANTS
  PureIsClosed
  PureIsLargest
  DepthCountsFrames
  FramesApart
  StacksRestored
  IntEngineRunsPureCode
  CallInv
PROPERTIES
  WalksTerminate
