SPECIFICATION Spec
CONSTANTS
  Requests = {r1, r2}
  Tickets = {t1}
  Logins = {a}
  Providers = {"rotating"}
  RefreshPeriod = 1
  CookieExpire = 3
  TokenLife = 2
  Second = 1
  MaxTime = 2
  MaxGen = 1
  None = None
  Keep = Keep
  Delete = Delete
SYMMETRY Symmetry
INVARIANTS ClearedSessionStaysCleared
