SPECIFICATION FairSpec
CONSTANTS
  seed = seed
  app = app
  Files <- OneEntryFiles
  Flows = {d1}
  OfflineFlows = {}
  UserCodes = {u1}
  Polls = {p1, p2}
  ClientIDs = {seed, app}
  Seeds = {seed}
  Subjects = {alice}
  NoFlow = NoFlow
  NoClient = NoClient
  NoCode = NoCode
  NoSubject = NoSubject
  Torn = Torn
  Lifetime = 0
  MaxTime = 1
  MaxApprovals = 1
  MaxReloads = 1
INVARIANTS DeviceClientBound
PROPERTIES ApprovedPollsSucceed
CHECK_DEADLOCK FALSE
