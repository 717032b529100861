SPECIFICATION FairSpec
CONSTANTS
  Requests = {r1}
  OfflineRequests = {}
  Codes = {k1}
  Exchanges = {e1, e2}
  ClientIDs = {seed, app}
  Seeds = {seed}
  Subjects = {alice}
  Presented = {"none", "plain", "S256"}
  Hints = {NoSubject}
  NoRequest = NoRequest
  NoClient = NoClient
  NoCode = NoCode
  NoSubject = NoSubject
  Torn = Torn
  MaxLogins = 1
  MaxReloads = 2
INVARIANTS SecretOrVerifier AudienceEntitled
PROPERTIES HandlersFinish
CHECK_DEADLOCK FALSE
