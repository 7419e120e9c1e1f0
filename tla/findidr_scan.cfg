SPECIFICATION Spec
CONSTANTS
  PacketSize = 9
  TsHeader = 2
  PesHeader = 3
  Videos <- MCVideos
CHECK_DEADLOCK FALSE
INVARIANTS TypeOK FindsIFrameEnd CutsAtPacket
