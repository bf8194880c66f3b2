SPECIFICATION MCSpec
CONSTANTS
  Tokens = {1, 2, 3, 4}
  NoToken = NoToken
  Handlers = {h1, h2}
  Ops <- PageOps
  MaxAborts = 0
  Pages = {p1}
  Requests = {1, 2}
  MaxMoves = 1
INVARIANTS
  CookieUsable
  ScreensCurrent
  OffersSound
PROPERTIES
  NoFalseReuse
CHECK_DEADLOCK FALSE
