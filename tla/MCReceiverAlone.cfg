SPECIFICATION AloneSpec
CONSTANTS
  Width = 8
  kMaxUnackedFrames = 3
  null = null
  InitialDelay = 400
  RtcpRoom = 5
  RtcpInTransit = 1
  MaxFrame = 6
  is_pli_enabled = TRUE
  Packets <- MCPackets
INVARIANTS
  QueueConsistent
  NoLostWakeup
PROPERTIES
  NothingForgotten
