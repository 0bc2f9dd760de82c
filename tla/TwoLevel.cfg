SPECIFICATION Spec
CONSTANTS
  k1 = k1
  k2 = k2
  ca = ca
  cb = cb
  Worker = Worker
  Key = {k1, k2}
  Client = {ca, cb}
  Calls <- MCCalls
  Filled <- MCFilled
  Policies = {"WriteBack", "WriteThrough", "WriteDisabled"}
  HeavyStamps = {2}
  BatchWorkers = 2
  MaxMsetItems = 2
  MaxStatementParams = 3
  BatchGetLimit = 2
  BatchWriteLimit = 1
  MaxBatchRetries = 1
  BufferSize = 2
  BatchMax = 2
  Evictable = {k1}
  MaxFaults = 1
  MaxCalls = 2
INVARIANTS LevelsAgree ReadsTrue
PROPERTIES CallsEnd
CHECK_DEADLOCK FALSE
