CONSTANTS
  RegByte <- MCRegByte
  ByteTime = 2
  CntSize = 4
  WRegByte <- MCWRegByte
  WriteTime = 3
  SampleNumber = 3
  M = 2
  Depth = 32
  RdMin = 1
  RdMax = 2
SPECIFICATION MCSpec
INVARIANTS FramesInOrder FrameReady StrobesAligned BytesOnTime
PROPERTIES FramesTaken TransfersWhole FollowsChain RunsEnd
