CONSTANTS
  Frames <- MCFrames
  MinGap = 3
  Ids = 2
  LenSize = 16
SPECIFICATION Spec
INVARIANTS WordsMatchLength GoodFramesArrive
