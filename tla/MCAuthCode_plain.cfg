SPECIFICATION Spec
CONSTANTS
  Requests = {r1}
  OfflineRequests = {}
  Codes = {k1}
  Exchanges = {e1}
  ClientIDs = {seed, app}
  Seeds = {seed}
  Subjects = {alice}
  Presented = {"none", "plain", "S256"}
  Hints = {NoSubject}
  NoRequest = NoRequest
  NoClient = NoClient
  NoCode = NoCode
  NoSubject = NoSubject
  Torn = Torn
  MaxLogins = 1
  MaxReloads = 1
INVARIANTS PublicClientsUseS256
CHECK_DEADLOCK FALSE
