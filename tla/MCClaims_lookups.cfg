SPECIFICATION ClaimsSpec
CONSTANTS
  seed = seed
  app = app
  Files <- AppFiles
  Grants = {g1, g2}
  DeviceGrants = {g2}
  ClientIDs = {seed, app}
  Seeds = {seed}
  Subjects = {alice}
  Refreshes = {h1, h2}
  Revocations = {}
  Lookups = {q1}
  Scopes = {profile}
  ClaimScopes = {profile}
  Garbage = Garbage
  NoGrant = NoGrant
  NoClient = NoClient
  NoSubject = NoSubject
  MaxMints = 2
  MaxTime = 1
  AccessLifetime = 0
  RefreshLifetime = 1
  MaxReloads = 2
SYMMETRY Symmetry
INVARIANTS NoAnswerFromTheDead  CallerEntitled
PROPERTIES OnlyItsClientIntrospects
CHECK_DEADLOCK FALSE
