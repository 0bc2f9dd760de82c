SPECIFICATION ReadersSpec
CONSTANTS
  k1 = k1  k2 = k2  k3 = k3
  light = light  heavy = heavy
  NoKey = NoKey  NoValue = NoValue
  Key = {k1, k2, k3}
  Value = {light, heavy}
  Reader = {r1}
  Hash <- MCHash
  Tag <- MCTag
  Cost <- MCCost
  Stores <- MCStores
  Wanted = {k1}
  Mortal = {k1}
  MaxBehind = 1
  GroupLen = 1
  Cap = 2
  MinTableSlots = 4
  MaxTableSlots = 8
  SweepMinDead = 2
  TTLEnabled = TRUE
  Wide = FALSE
  RefreshOnGet = TRUE
INVARIANTS
  AnswersTrue
  WalkExact
PROPERTIES
  SparesRenewed
