SPECIFICATION Spec
CONSTANTS
    q1 = q1
    q2 = q2
    n1 = n1
    t1 = t1
    s1 = s1
    Queries <- MCQueries
    Supplements = {q2}
    Needs = {n1}
    Other = Other
    Tools = {t1}
    Steps <- MCSteps
    MaxPlanRounds = 2
    MaxToolCalls = 1
    MaxQuestions = 1
    MaxRuns = 2
    MaxCalls <- MCMaxCalls
    MaxTokens = 4
    Reservations = {1}
    MaxOverrun = 1
    Unknown = Unknown
INVARIANTS BudgetHolds AnswerSupported LoopBounded
CHECK_DEADLOCK FALSE
