SPECIFICATION Spec
CONSTANTS
  seed = seed
  app = app
  Files = {}
  Flows = {d1, d2}
  OfflineFlows = {d1, d2}
  UserCodes = {u1, u2}
  Polls = {p1, p2}
  ClientIDs = {seed}
  Seeds = {seed}
  Subjects = {alice, bob}
  NoFlow = NoFlow
  NoClient = NoClient
  NoCode = NoCode
  NoSubject = NoSubject
  Torn = Torn
  Lifetime = 0
  MaxTime = 0
  MaxApprovals = 2
  MaxReloads = 0
SYMMETRY Symmetry
INVARIANTS TypeOK AnswerAgrees
PROPERTIES ImplementsAuthorization
CHECK_DEADLOCK FALSE
