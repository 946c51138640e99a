SPECIFICATION Spec
CONSTANTS
  MaxTasks = 2
  Main = Main
  None = None
  Void = Void
  Own = Own
  Failed = Failed
  Results = {Void, Own}
INVARIANT SyncedResultIsAlive
