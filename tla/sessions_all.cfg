SPECIFICATION Spec
CONSTANTS
  alice = alice
  bob = bob
  b1 = b1
  b2 = b2
  r1 = r1
  r2 = r2
  NoBrowser = nobody
  Users = {alice}
  Browsers = {b1, b2}
  Owner <- OneAccount
  Requests = {r1, r2}
  MaxSessions = 2
  MaxTokens = 3
SYMMETRY Symmetry
INVARIANTS TypeOK LogoutAllEnds CookieCurrent LogoutEndsItsSession
PROPERTIES EndedStaysEnded OnlyLogoutEndsLive
