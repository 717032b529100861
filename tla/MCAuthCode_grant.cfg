SPECIFICATION Spec
CONSTANTS
  Requests = {r1, r2}
  OfflineRequests = {r1, r2}
  Codes = {k1, k2}
  Exchanges = {e1, e2}
  ClientIDs = {seed}
  Seeds = {seed}
  Subjects = {alice, bob}
  Presented = {"none", "S256"}
  Hints = {bob}
  NoRequest = NoRequest
  NoClient = NoClient
  NoCode = NoCode
  NoSubject = NoSubject
  Torn = Torn
  MaxLogins = 2
  MaxReloads = 0
SYMMETRY Symmetry
INVARIANTS TypeOK SubjectWasPicked AnswerAgrees CodeAfterLogin NoLateRedemption
PROPERTIES CodeLostOnlyByAnswer ImplementsAuthorization
CHECK_DEADLOCK FALSE
