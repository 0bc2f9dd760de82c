SPECIFICATION FairSpec
CONSTANTS
  k1 = k1  k2 = k2  k3 = k3  k4 = k4
  light = light  heavy = heavy  huge = huge
  NoKey = NoKey  NoValue = NoValue
  Key = {k1, k2, k3, k4}
  Value = {light, heavy, huge}
  Hash <- MCHash
  Cost <- MCCost
  GroupLen = 1
  Cap = 2
  MinTableSlots = 4
  MaxTableSlots = 8
  SweepMinDead = 2
  TTLEnabled = TRUE
INVARIANTS
  FindSlotComplete
  CountersExact
  NodesMatchSlots
  WeightExact
  DeletionReportedOnce
  ProbesEnd
PROPERTIES
  ImplementsFirstLevel
  MutexReleased
