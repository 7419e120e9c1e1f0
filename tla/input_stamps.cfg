SPECIFICATION Spec
CONSTANTS
  ArgLists <- NoArguments
  Flags <- MCFlags
  TooLong <- MCTooLong
  Atoi <- MCAtoi
  Segments <- PlainSegment
  Stamps <- FewStamps
  Bodies = {1}
  Fields = {7}
  MaxPes = 2
CHECK_DEADLOCK FALSE
INVARIANT StampKept
