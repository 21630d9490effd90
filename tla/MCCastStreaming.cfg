SPECIFICATION Spec
CONSTANTS
  Width = 5
  kMaxUnackedFrames = 2
  null = null
  InitialDelay = 400
  RtcpRoom = 5
  RtcpInTransit = 2
  MaxFrame = 5
  PacketLifetime = 3
  is_pli_enabled = TRUE
  FrameChoices <- MCFrameChoices
INVARIANTS
  SenderConsistent
  NeverAhead
  FramesGenuine
  DelaysAgree
  KeyFrameOnlyIfPictureLost
PROPERTIES
  SkipsAreDecodable
