SPECIFICATION MCSpec
CONSTANTS
  Rdata = {1, 2}
  none = none
  MaxAttempts = 2
  MaxChanges = 3
  MaxLost = 1
  kRefreshAttempts = 2
  MaxEvictions = 1
INVARIANTS
  ViewBacked
  RefreshAnswered
PROPERTIES
  StaleVanishes
  RegisteredSeen
CHECK_DEADLOCK FALSE
