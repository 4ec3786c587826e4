CONSTANTS
  Bytes <- MCBytes
  TxT = 3
  RxT = 31
  Bits <- OwnBits
  Stops <- OwnStops
  BPS_CNT = 5
  EchoStops <- MCEchoStops
  Links <- MCLinks
SPECIFICATION Spec
INVARIANT EightDataBits
