SPECIFICATION Spec
CONSTANTS
  seed = seed
  app = app
  ClientIDs = {seed, app}
  Seeds = {seed}
  Contents <- FileContents
  MaxEdits = 1
  MaxRestarts = 0
  StrictClock = TRUE
INVARIANTS SeedsUntouched
CHECK_DEADLOCK FALSE
