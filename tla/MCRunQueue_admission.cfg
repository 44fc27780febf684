SPECIFICATION Spec
CONSTANTS
  o1 = o1
  o2 = o2
  c1 = c1
  a1 = a1
  a2 = a2
  a3 = a3
  e1 = e1
  e2 = e2
  Runs = {1, 2, 3}
  Attempts = {a1, a2}
  Operators = {o1, o2}
  Conversations = {c1}
  Requests <- MCFourRequests
  Executors = {e1}
  MAX_QUEUED_RUNS = 2
  MAX_ACTIVE_ATTEMPTS = 1
  LeaseSeconds = 1
  DeadlineSeconds = 2
  MaxLag = 0
  MaxClock = 0
  MaxEpoch = 1
  MaxBeats = 0
  NoConversation = NoConversation
  NoRun = NoRun
  NoAttempt = NoAttempt
  NoExecutor = NoExecutor
SYMMETRY MCSymmetry
INVARIANTS CapacityRespected ConversationSingleFlight TurnsOfSuccesses
PROPERTIES NoOvertaking
CHECK_DEADLOCK FALSE
