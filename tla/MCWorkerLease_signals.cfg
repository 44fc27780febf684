SPECIFICATION FairLeaseSpec
CONSTANTS
  e1 = e1
  e2 = e2
  Executors = {e1}
  RoleLeaseSeconds = 2
  RoleBeatSeconds = 1
  Configured = {"active"}
  DatabaseMayFail = FALSE
  Timely = TRUE
  MaxClock = 3
  MaxEpoch = 2
  NoExecutor = NoExecutor
  NoRow = NoRow
  NoCall = NoCall
PROPERTIES SignalsReturn
CHECK_DEADLOCK FALSE
