SPECIFICATION Spec
CONSTANTS
  Guests = {g1}
  Tables = {t1}
  Sessions = {s1}
  Handlers = {h1}
  Managers = {m1, m2}
  None = None
  MaxTokens = 2
PROPERTY
  RetiredTokenStaysDead
CHECK_DEADLOCK FALSE
