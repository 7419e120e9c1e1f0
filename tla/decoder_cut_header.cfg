SPECIFICATION Spec
CONSTANTS
  PacketSize = 10
  WordMod = 500
  SizeMod = 1000
  Files <- OneFile
  TagEnd = 1
  FieldEnd <- MCFieldEnd
  TornValues = {0, 10, 90}
  HackPid = 257
  AddSizes = {1, 10}
  Calls = {"no", "single", "alternate"}
CHECK_DEADLOCK FALSE
INVARIANT NoFault
