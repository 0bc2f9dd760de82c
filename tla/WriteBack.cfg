SPECIFICATION FairSpec
CONSTANTS
  ka = ka
  kb = kb
  caller = caller
  c2 = c2
  waiter = waiter
  Key = {ka}
  Kind = {"del", "ttl1"}
  Caller = {caller}
  Waiter = {waiter}
  NWorkers = 1
  WorkerOf <- OneWorker
  BufferSize = 2
  BatchMax = 2
  Batching = "adaptive"
  Outcome = {"ok", "panic"}
  InOrder = FALSE
  CanClose = TRUE
  MaxTasks = 3
INVARIANTS
  NothingLost
  QueuedInOrder
  WaitCovers
  CloseDrains
PROPERTIES
  WaitAndCloseReturn
CHECK_DEADLOCK FALSE
