SPECIFICATION Spec
CONSTANTS
  Requests = {r1, r2}
  Tickets = {t1, t2}
  Logins = {a, b}
  Providers = {"rotating", "reusing", "none"}
  RefreshPeriod = 1
  CookieExpire = 2
  TokenLife = 1
  Second = 1
  MaxTime = 2
  MaxGen = 1
  None = None
  Keep = Keep
  Delete = Delete
CONSTRAINT SecondGrantIfRotating
SYMMETRY Symmetry
INVARIANTS TypeOK ValidTicketHasEntry NewestTokenKept
PROPERTIES RevocationTakesHold StoredTokenNeverRegresses
