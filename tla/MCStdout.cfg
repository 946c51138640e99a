SPECIFICATION Spec
CONSTANTS
  main = main
  task = task
  Tasks <- MCTasks
  Main = main
  Runtimes = {"zig", "rust"}
  Size = 3
  MaxLen = 4
  MaxBytes = 7
  Synced = TRUE
INVARIANTS
  CopyFits
  FlushDelivers
  RustDelivers
  BufferInv
PROPERTY StreamSpec
CHECK_DEADLOCK FALSE
