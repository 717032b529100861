SPECIFICATION FairSpec
CONSTANTS
  seed = seed
  app = app
  ClientIDs = {seed, app}
  Seeds = {seed}
  Contents <- FileContents
  MaxEdits = 3
  MaxRestarts = 1
  StrictClock = FALSE
INVARIANTS TypeOK OneVersionAtATime
PROPERTIES ImplementsFileRegistry EditWhileWatchingAppears NoticedEditAppears
CHECK_DEADLOCK FALSE
