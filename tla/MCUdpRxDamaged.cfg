CONSTANTS
  Frames <- MCDamaged
  MinGap = 3
  Ids = 2
  LenSize = 16
SPECIFICATION FairSpec
PROPERTY PreambleAccepted
