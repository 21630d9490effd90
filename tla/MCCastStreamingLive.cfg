SPECIFICATION FairSpec
CONSTANTS
  Width = 5
  kMaxUnackedFrames = 2
  null = null
  InitialDelay = 400
  RtcpRoom = 5
  RtcpInTransit = 1
  MaxFrame = 2
  PacketLifetime = 3
  is_pli_enabled = TRUE
  FrameChoices <- MCShortFrameChoices
PROPERTIES
  EveryFrameDone
  PictureLossNoticed
