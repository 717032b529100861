SPECIFICATION FairSpec
CONSTANTS
  app = app
  alice = alice
  bob = bob
  Files <- AppFiles
  Builds <- TwoBuilds
  ClientIDs = {seed, app}
  Seeds = {seed}
  Tabs = {t1, t2}
  Subjects = {alice, bob}
  NoSubject = NoSubject
  MaxClicks = 2
  MaxReloads = 1
  MaxRestarts = 1
INVARIANTS TypeOK ArrivesWhereClicked PageAgreesWithCookie
PROPERTIES ClicksEnd
CHECK_DEADLOCK FALSE
