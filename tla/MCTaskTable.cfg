SPECIFICATION FairSpec
CONSTANTS
  MaxTasks = 2
  Main = Main
  None = None
  Void = Void
  Own = Own
  Failed = Failed
  Results = {Void, Own}
INVARIANTS
  TypeOK
  KnownHandleHasThread
  JoinReadsFinalOutcome
  NoWaitCycle
  FreedStorageNeedsAbandonedTask
  IndInv
PROPERTIES
  OutcomeIsFinal
  ImplementsFutures
  EverySyncReturns
