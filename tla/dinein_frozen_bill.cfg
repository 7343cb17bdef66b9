SPECIFICATION Spec
CONSTANTS
  Orders = {o1}
  Keys = {k1}
  Handlers = {h1}
  NoKey = NoKey
  KeepsKeyOrder = FALSE
  MaxLost = 0
INVARIANT
  RequestedIsConfirmable
CHECK_DEADLOCK FALSE
