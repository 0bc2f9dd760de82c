SPECIFICATION Spec
CONSTANTS
  Scale = 8
  Second = 2
  Phase = 1
  TTL = 4
  EntryTTLs = {}
  RefreshOnGet = FALSE
  MaxTime = 40
  MaxSave = 3
INVARIANT
  LivesAtLeastTTL
CHECK_DEADLOCK FALSE
