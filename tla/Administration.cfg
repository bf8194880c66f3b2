SPECIFICATION MCSpec
CONSTANTS
  Users = {u1, u2, u3}
  Orgs = {o1}
  Mfa = {u3}
  Admins = {u3}
  Invites = {i1, i2}
  Resets = {t1}
  None = None
  Handlers = {h1, h2}
  MaxFailed = 3
  MaxAborts = 1
  Limit = 1
  Months = 2
  MaxAsked = 3
  Addresses = {a1, a2}
  Slug = Slug
  Requests = {r1, r2}
  PerAddress = 1
  PerSlug = 2
  MaxHits = 3
INVARIANTS
  RowsTyped
  SerialOwnerRemains
  SerialFailuresCounted
  InviteOnce
  CreditsCover
  KeysAccounted
PROPERTIES
  PageReopens
CHECK_DEADLOCK FALSE
