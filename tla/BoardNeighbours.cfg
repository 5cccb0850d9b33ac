SPECIFICATION Spec
CONSTANTS
  Board = {b1}
  NoSerial = {}
  Foreign = {meter}
  Host = {"gateway1", "gateway2"}
  Slave = {1, 2}
  Wording <- WordingDef
  Flow = {f1}
  Nowhere = Nowhere
  None = None
  MaxMoves = 2
INVARIANT OnlyWhereProved
CHECK_DEADLOCK FALSE
