CONSTANTS
  Frames <- MCFrames
  MinGap = 12
  Ids = 2
  LenSize = 64
  FifoDepth = 8
SPECIFICATION EchoFairSpec
INVARIANTS EchoesPackets ArpWhole
PROPERTIES AllComeBack ArpAnswered
