SPECIFICATION FairSpec
CONSTANTS
  ka = ka  kb = kb
  c1 = c1  c2 = c2
  w1 = w1
  s1 = s1  s2 = s2
  Key = {ka, kb}
  Caller = {c1, c2}
  Wanted <- MCWanted
  Worker = {w1}
  Slot = {s1, s2}
  QueueSize = 1
  BatchMax = 2
  CanCancel = TRUE
  MaxCalls = 3
INVARIANTS
  RefsExact
  AnswerOwn
  ClosedForGood
PROPERTIES
  CallsReturn
CHECK_DEADLOCK FALSE
