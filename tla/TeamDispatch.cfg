CONSTANTS
    Requests = 2
    MaxPasses = 2

SPECIFICATION Spec

INVARIANTS
    TeamDispatchTypeOK
    NothingHeldBetweenRequests
    AnsweredUnlessStopped
    OnlyAnswersApplied
