SPECIFICATION MCSpec
CONSTANTS
  Tokens = {t1, t2, t3, t4}
  NoToken = NoToken
  Handlers = {h1, h2}
  Ops <- AllOps
  MaxAborts = 1
SYMMETRY Symmetry
INVARIANTS
  TypeOK
  ParentRetired
  StragglersBounded
  SerialOneUsable
  SerialSessionsClosed
PROPERTIES
  SerialImplementsSessions
CHECK_DEADLOCK FALSE
