SPECIFICATION FairSpec
CONSTANTS
  Bookings = {b1}
  Keys = {k1, k2}
  Handlers = {h1, h2}
  NoKey = NoKey
  NoBooking = NoBooking
  Foreign = {f1}
  EventKinds = {"payment.captured"}
  LastNight = 1
  MaxRooms = 1
  Capacity <- OneNight
  MaxLost = 0
PROPERTIES
  CheckoutEnds
  CapturedConfirms
CHECK_DEADLOCK FALSE
