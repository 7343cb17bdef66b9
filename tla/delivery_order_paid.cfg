SPECIFICATION Spec
CONSTANTS
  Keys = {k1, k2}
  Handlers = {h1, h2}
  NoKey = NoKey
  Foreign = {}
  EventKinds = {"payment.captured"}
  MaxBaskets = 1
  MaxLost = 0
INVARIANT
  SuccessKeepsOrderPaid
