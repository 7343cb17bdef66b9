SPECIFICATION Spec
CONSTANTS
  Guests = {g1, g2}
  Tables = {t1, t2}
  Sessions = {s1, s2}
  Handlers = {h1, h2}
  Managers = {m1}
  None = None
  MaxTokens = 2
SYMMETRY Symmetry
INVARIANTS
  TypeOK
  SeatsExclusive
PROPERTIES
  EntersOnValidQr
  SeatingSpec
CHECK_DEADLOCK FALSE
