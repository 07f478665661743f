SPECIFICATION FairSpec
CONSTANTS
    Policies <- DefaultPolicies
    Failures <- AllFailures
    HumanRetries = 2
    MaxFailures = 3
INVARIANTS RunTypeOK LoneRetriesBounded RecoveryHasWork
PROPERTIES FinalizationSettlesTasks RunEndsOrGivesUp
