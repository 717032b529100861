SPECIFICATION Spec
CONSTANTS
  Grants = {g1}
  DeviceGrants = {g1}
  ClientIDs = {c1}
  Seeds = {}
  Subjects = {alice}
  Refreshes = {h1}
  Revocations = {v1}
  Scopes = {s1}
  Garbage = Garbage
  NoGrant = NoGrant
  NoClient = NoClient
  NoSubject = NoSubject
  MaxMints = 2
  MaxTime = 0
  AccessLifetime = 1
  RefreshLifetime = 2
SYMMETRY Symmetry
INVARIANTS GrantBearsItsClient
CHECK_DEADLOCK FALSE
