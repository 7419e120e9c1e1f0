SPECIFICATION Spec
CONSTANTS
  MaxPictures = 5
  BufferPackets = 2
  DecoderDelay = 2
  EncoderDelay = 2
  References = 2
  FrameOptions <- MCFrameOptions
  FrameRates <- MCFrameRates
  CounterMod = 4
CHECK_DEADLOCK FALSE
INVARIANT TypeOK
INVARIANT Unharmed
INVARIANT Batched
INVARIANT OneForOne
PROPERTY Ends
