SPECIFICATION Spec
CONSTANTS
  ka = ka
  kb = kb
  caller = caller
  c2 = c2
  waiter = waiter
  Key = {ka}
  Kind = {"ttl1"}
  Caller = {caller}
  Waiter = {}
  NWorkers = 1
  WorkerOf <- OneWorker
  BufferSize = 1
  BatchMax = 2
  Batching = "full"
  Outcome = {"ok"}
  InOrder = TRUE
  CanClose = FALSE
  MaxTasks = 4
INVARIANT
  KeyKeepsOrder
CHECK_DEADLOCK FALSE
