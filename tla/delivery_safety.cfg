SPECIFICATION Spec
CONSTANTS
  Keys = {k1, k2}
  Handlers = {h1, h2}
  NoKey = NoKey
  Foreign = {}
  EventKinds = {"payment.captured", "payment.failed"}
  MaxBaskets = 2
  MaxLost = 1
SYMMETRY Symmetry
INVARIANTS
  TypeOK
  MoneySound
  AbandonedByLossOnly
  ProcessedMeansApplied
  CodOncePerFilling
PROPERTIES
  AttemptsSound
  SettlementSpec
