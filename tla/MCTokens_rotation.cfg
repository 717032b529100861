SPECIFICATION Spec
CONSTANTS
  Grants = {g1, g2}
  DeviceGrants = {g2}
  ClientIDs = {c1, c2}
  Seeds = {}
  Subjects = {alice}
  Refreshes = {h1, h2}
  Revocations = {v1}
  Scopes = {s1}
  Garbage = Garbage
  NoGrant = NoGrant
  NoClient = NoClient
  NoSubject = NoSubject
  MaxMints = 4
  MaxTime = 2
  AccessLifetime = 1
  RefreshLifetime = 1
SYMMETRY Symmetry
INVARIANTS TypeOK KeyedByID RefreshUsedOnce OnlyCurrentTokenLives TerminateReaches ScopesWithinGrant
PROPERTIES DeadStaysDead RefreshKeepsGrant
CHECK_DEADLOCK FALSE
