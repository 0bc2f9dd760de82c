SPECIFICATION Spec
CONSTANTS
  Scale = 12
  Second = 2
  Phase = 1
  TTL = 5
  EntryTTLs = {1, 6}
  RefreshOnGet = TRUE
  MaxTime = 44
  MaxSave = 3
INVARIANTS
  LivesAtLeastTTL
  ExpiresInTime
CHECK_DEADLOCK FALSE
