SPECIFICATION FairSpec
CONSTANTS
  Orders = {o1, o2}
  Keys = {k1, k2}
  Handlers = {h1, h2}
  NoKey = NoKey
  KeepsKeyOrder = TRUE
  MaxLost = 1
INVARIANTS
  TypeOK
  TicketsMatch
  BillAsShown
  PaidSound
  AttemptsInHand
PROPERTIES
  FinishedStaysFinished
  VisitSpec
  PaymentsConclude
CHECK_DEADLOCK FALSE
