SPECIFICATION FairSpec
CONSTANTS
  seed = seed
  app = app
  ClientIDs = {seed, app}
  Seeds = {seed}
  Contents <- FileContents
  MaxEdits = 1
  MaxRestarts = 0
  StrictClock = TRUE
PROPERTIES EditAppears
CHECK_DEADLOCK FALSE
