SPECIFICATION SessionSpec
CONSTANTS
    Jobs = {j1}
    Workers = {w1, w2}
    Requests = {r1}
    Interrupts = {i1}
    Values = {good}
    Clients = {c1}
    good = good
    Acceptable <- MCAcceptable
    AttemptLimits = {2}
    LeaseTerm = 1
    RetryDelay = 0
    AgeLimit = 0
    None = None
PROPERTY FinalJobsStayFinal
CHECK_DEADLOCK FALSE
