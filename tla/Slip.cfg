\* Three frames and a buffer too small for some, one call given up and one frame
\* cut off.
CONSTANTS
  Frames <- ShortFrames
  MaxFrames = 3
  MaxSize = 2
  MaxAborts = 1
  MaxCuts = 1
  Noise <- BootNoise
SPECIFICATION SlipSpec
INVARIANTS
  Genuine
  LossIsBounded
CHECK_DEADLOCK FALSE
