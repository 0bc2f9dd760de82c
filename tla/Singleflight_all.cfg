SPECIFICATION FairSpec
CONSTANTS
  ka = ka
  kb = kb
  p1 = p1
  p2 = p2
  Key = {ka, kb}
  Proc = {p1, p2}
  Calls <- AllCalls
  FlightSlots = 1
  HasL2 = TRUE
  CanCancel = TRUE
INVARIANTS
  RegistryExact
  OneLoader
  JoinsFresh
  ReadsFinal
PROPERTY
  CallsReturn
CHECK_DEADLOCK FALSE
