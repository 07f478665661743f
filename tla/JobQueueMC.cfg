SPECIFICATION Spec
CONSTANTS
    Jobs = {j1, j2}
    Workers = {w1, w2}
    Requests = {r1, r2}
    Interrupts = {i1, i2}
    Values = {good, bad}
    good = good
    Acceptable <- MCAcceptable
    AttemptLimits = {1, 3}
    LeaseTerm = 1
    RetryDelay = 1
    AgeLimit = 1
    None = None
SYMMETRY JobsAndWorkers
INVARIANTS
    TypeOK LeaseMatchesJob AnswerInOrder AttemptsCountFailures
    EachAnswerCountedOnce RunMirrorsJob
PROPERTIES TerminalIsFinal OnlyAnswersWake ImplementsLifecycle
CHECK_DEADLOCK FALSE
