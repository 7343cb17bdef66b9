SPECIFICATION FairSpec
CONSTANTS
  Keys = {k1, k2}
  Handlers = {h1, h2}
  NoKey = NoKey
  Foreign = {f1}
  EventKinds = {"payment.captured"}
  MaxBaskets = 1
  MaxLost = 0
PROPERTIES
  CapturedSettles
  AttemptsResolve
  AnsweredIsHandled
