CONSTANTS
  Bytes <- MCBytes
  TxT = 3
  RxT = 31
  Bits <- MCBits
  Stops <- MCStops
  BPS_CNT = 5
  EchoStops <- MCEchoStops
  Links <- MCLinks
SPECIFICATION Spec
INVARIANTS ReadsFrames EchoesInOrder OpsTakeEffect
PROPERTIES SendsFrames Finishes EchoesAll LedSettles
