CONSTANTS
  Data = {x, y}
  Depth = 2
  Bauds = {b0, b1}
  Baud0 = b0
  Values = {v, w}
  SubWord = {"mem"}
SPECIFICATION MCSpec
INVARIANTS TxIntact FlagsAgree AnswersInTurn
PROPERTIES TxOneBaud RxServed BusMovesOn
