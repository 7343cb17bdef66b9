SPECIFICATION Spec
CONSTANTS
  f1 = f1
  f2 = f2
  f3 = f3
  r1 = r1
  r2 = r2
  Foods = {f1, f2, f3}
  Restaurants = {r1, r2}
  Kitchen <- TwoKitchens
  Ids = {i1, i2}
  Handlers = {h1, h2}
  None = None
  Absent = Absent
  MaxQuantity = 2
  MaxDue = 1
SYMMETRY Symmetry
INVARIANTS
  TypeOK
  MixedByStaleRequestsOnly
  SpentCartIsNotSold
CHECK_DEADLOCK FALSE
