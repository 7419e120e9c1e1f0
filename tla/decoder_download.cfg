SPECIFICATION SpecInTime
CONSTANTS
  PacketSize = 10
  WordMod = 120
  SizeMod = 1000
  Files <- DownloadFiles
  TagEnd = 1
  FieldEnd <- MCFieldEnd
  TornValues = {0, 10, 90}
  HackPid = 257
  AddSizes = {1, 10}
  Calls = {"no", "single", "alternate", "full", "best"}
CHECK_DEADLOCK FALSE
INVARIANTS TypeOK HeaderExact ChecksSuffice SegmentsExact ServedWhenComplete BestServesFull WholePacketsSafe
PROPERTY PromiseKept
