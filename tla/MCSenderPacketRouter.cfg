CONSTANTS
  Ssrcs = {1, 2}
  MaxPacketsPerBurst = 2
  BurstInterval = 2
  RtcpInterval = 2
  KickstartInterval = 3
  MaxLateness = 1
  MaxPackets = 2
  MaxTime = 7
SPECIFICATION Spec
CHECK_DEADLOCK FALSE
INVARIANTS
  SendersServed
  ReportsOnTime
PROPERTIES
  BurstsSpaced
  BurstsShared
