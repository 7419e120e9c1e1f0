SPECIFICATION Spec
CONSTANTS
  Streams <- MCStreams
  MaxPes = 4
  Stamps = {1, 2}
  NoPts = NoPts
CHECK_DEADLOCK FALSE
INVARIANTS TypeOK NoByteLost UnitPts
PROPERTIES SplitsNalus Ends
