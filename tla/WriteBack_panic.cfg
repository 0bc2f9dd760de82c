SPECIFICATION Spec
CONSTANTS
  ka = ka
  kb = kb
  caller = caller
  c2 = c2
  waiter = waiter
  Key = {ka}
  Kind = {"del", "ttl1"}
  Caller = {caller}
  Waiter = {}
  NWorkers = 1
  WorkerOf <- OneWorker
  BufferSize = 3
  BatchMax = 2
  Batching = "full"
  Outcome = {"ok", "panic"}
  InOrder = TRUE
  CanClose = FALSE
  MaxTasks = 4
INVARIANT
  PanicCostsOnlyBatch
CHECK_DEADLOCK FALSE
