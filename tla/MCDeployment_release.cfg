SPECIFICATION FairReleaseSpec
CONSTANTS
  OldEpoch = 1
  PauseAuthorized = TRUE
  MaxCrashes = 2
INVARIANTS DeployTypeOK OneSlotWorks DrainBeforeSwitch DeployedIsTrue RolledBackIsTrue
PROPERTIES ReleaseSettles
CHECK_DEADLOCK FALSE
