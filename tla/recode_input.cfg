SPECIFICATION SpecApart
CONSTANTS
  ArgLists <- MCArgLists
  Flags <- MCFlags
  TooLong <- MCTooLong
  Atoi <- MCAtoi
  Segments <- MCSegments
  Stamps <- MCStamps
  Bodies = {1, 200}
  Fields = {7, 150}
  MaxPes = 2
CHECK_DEADLOCK FALSE
INVARIANTS TypeOK OptionsMeant TablesFound Gathered UnboundedWhole StampNear
PROPERTY Ends
