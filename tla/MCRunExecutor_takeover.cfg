SPECIFICATION FairExecSpec
CONSTANTS
  o1 = o1
  c1 = c1
  a1 = a1
  e1 = e1
  e2 = e2
  Runs = {1}
  Attempts = {a1}
  Operators = {o1}
  Conversations = {c1}
  Requests <- MCOneRequest
  Executors = {e1, e2}
  MAX_QUEUED_RUNS = 1
  MAX_ACTIVE_ATTEMPTS = 1
  LeaseSeconds = 2
  DeadlineSeconds = 3
  MaxLag = 0
  MaxClock = 4
  MaxEpoch = 2
  MaxBeats = 1
  Concurrency = 1
  HeartbeatSeconds = 1
  HandlerMayFail = TRUE
  DatabaseMayFail = TRUE
  Unfreezable = {}
  RoleMayLapse = FALSE
  Prompt = {e1}
  NoConversation = NoConversation
  NoRun = NoRun
  NoAttempt = NoAttempt
  NoExecutor = NoExecutor
INVARIANTS ThreadAgreement ThreadsHeld LeasesKept
PROPERTIES ImplementsQueue AttemptsTerminate
CHECK_DEADLOCK FALSE
