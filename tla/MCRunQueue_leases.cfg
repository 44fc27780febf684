SPECIFICATION Spec
CONSTANTS
  o1 = o1
  o2 = o2
  c1 = c1
  a1 = a1
  a2 = a2
  a3 = a3
  e1 = e1
  e2 = e2
  Runs = {1}
  Attempts = {a1, a2}
  Operators = {o1, o2}
  Conversations = {c1}
  Requests <- MCTwoRequests
  Executors = {e1, e2}
  MAX_QUEUED_RUNS = 2
  MAX_ACTIVE_ATTEMPTS = 2
  LeaseSeconds = 2
  DeadlineSeconds = 3
  MaxLag = 1
  MaxClock = 3
  MaxEpoch = 2
  MaxBeats = 1
  NoConversation = NoConversation
  NoRun = NoRun
  NoAttempt = NoAttempt
  NoExecutor = NoExecutor
SYMMETRY MCSymmetry
INVARIANTS TypeOK RunAttemptAgreement NoReplay ResultVisibility
PROPERTIES TerminalIsFinal ImplementsLifecycle
CHECK_DEADLOCK FALSE
