SPECIFICATION LeaseSpec
CONSTANTS
  e1 = e1
  e2 = e2
  Executors = {e1, e2}
  RoleLeaseSeconds = 2
  RoleBeatSeconds = 1
  Configured = {"active", "draining"}
  DatabaseMayFail = TRUE
  Timely = FALSE
  MaxClock = 3
  MaxEpoch = 2
  NoExecutor = NoExecutor
  NoRow = NoRow
  NoCall = NoCall
SYMMETRY MCSymmetry
INVARIANTS LeaseTypeOK EpochsUnique
PROPERTIES ImplementsRoleRow
CHECK_DEADLOCK FALSE
