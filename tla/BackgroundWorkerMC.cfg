SPECIFICATION SystemSpec
CONSTANTS
    Jobs = {j1}
    Workers = {w1, w2}
    Requests = {r1, r2}
    Interrupts = {i1, i2}
    Values = {good, bad}
    good = good
    i1 = i1
    Acceptable <- MCAcceptable
    AttemptLimits = {2}
    LeaseTerm = 1
    RetryDelay = 0
    AgeLimit = 0
    MaxCrashes = 1
    None = None
SYMMETRY Alike
INVARIANTS
    WorkerTypeOK LatestClaimWrites ExecutionsBounded WaitsForRaisedInterrupt
