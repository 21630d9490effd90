SPECIFICATION Spec
CONSTANTS
 Rdata = {1, 2}
 none = none
 MaxAttempts = 2
 MaxChanges = 3
 MaxLost = 1
 kRefreshAttempts = 4
 MaxEvictions = 1
INVARIANTS
 RefreshesLinked
