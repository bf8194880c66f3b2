SPECIFICATION Spec
CONSTANTS
  Tokens = {t1, t2, t3}
  NoToken = NoToken
  Handlers = {h1, h2}
  Ops = {"login", "refresh"}
  MaxAborts = 0
INVARIANTS
  ReuseKillsFamily
CHECK_DEADLOCK FALSE
