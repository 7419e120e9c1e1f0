SPECIFICATION MCSpec
CONSTANTS
  PacketSize = 10
  TsHeader = 2
  PesHeader = 3
  WordMod = 200
  MaxPid = 6
  PmtPid = 1
  VideoPid = 3
  SdtPid = 2
  NullPid = 6
  LowestAlternate = 3
  MaxQuality = 5
  DefaultQuality = 2
  Options <- MCOptions
  Inputs <- MCInputs
  Sizes <- MCSizes
  Videos <- MCVideos
  Alternates <- MCAlternates
CHECK_DEADLOCK FALSE
INVARIANTS TypeOK ListsAgree Bracketed AlternateAlone FileAsStated
PROPERTY Ends
