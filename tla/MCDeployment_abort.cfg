SPECIFICATION Spec
CONSTANTS
  OldEpoch = 1
  PauseAuthorized = FALSE
  MaxCrashes = 1
INVARIANT AbortIsClean
CHECK_DEADLOCK FALSE
