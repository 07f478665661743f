SPECIFICATION SessionSpec
CONSTANTS
    Jobs = {j1}
    Workers = {w1, w2}
    Requests = {r1, r2}
    Interrupts = {i1}
    Values = {good}
    Clients = {c1, c2}
    good = good
    Acceptable <- MCAcceptable
    AttemptLimits = {2}
    LeaseTerm = 1
    RetryDelay = 0
    AgeLimit = 0
    None = None
SYMMETRY Alike
INVARIANTS SessionTypeOK OwnerHoldsLease
PROPERTIES ClaimsComeFromQueue NoForeignResult
CHECK_DEADLOCK FALSE
