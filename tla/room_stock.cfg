SPECIFICATION Spec
CONSTANTS
  Bookings = {b1, b2, b3}
  Keys = {k1}
  Handlers = {h1}
  NoKey = NoKey
  NoBooking = NoBooking
  Foreign = {}
  EventKinds = {"payment.captured"}
  LastNight = 3
  MaxRooms = 2
  Capacity <- ThreeNights
  MaxLost = 0
SYMMETRY Symmetry
INVARIANTS
  SoldAsOffered
  ReservedExact
PROPERTIES
  StockSpec
CHECK_DEADLOCK FALSE
