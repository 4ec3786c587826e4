CONSTANTS
  Frames <- MCFullWords
  MinGap = 12
  Ids = 2
  LenSize = 64
  FifoDepth = 8
SPECIFICATION EchoFairSpec
INVARIANT LoopsBack
