SPECIFICATION Spec
CONSTANTS
  r1 = r1
  r2 = r2
  c1 = c1
  c2 = c2
  f1 = f1
  Restaurants = {r1, r2}
  Categories = {c1, c2}
  Foods = {f1}
  Kitchen <- TwoKitchens
  Handlers = {h1, h2}
  None = None
  MaxEdits = 3
SYMMETRY Symmetry
INVARIANTS
  TypeOK
  WithdrawnStaysShut
  ShownIsVetted
  MenuIsComplete
