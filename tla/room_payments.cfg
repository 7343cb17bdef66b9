SPECIFICATION Spec
CONSTANTS
  Bookings = {b1, b2}
  Keys = {k1, k2}
  Handlers = {h1, h2}
  NoKey = NoKey
  NoBooking = NoBooking
  Foreign = {}
  EventKinds = {"payment.captured", "payment.failed"}
  LastNight = 1
  MaxRooms = 1
  Capacity <- OneNight
  MaxLost = 1
SYMMETRY Symmetry
INVARIANTS
  TypeOK
  MoneySound
  OneOpenAttempt
  AbandonedByLossOnly
PROPERTIES
  NothingTooLate
CHECK_DEADLOCK FALSE
