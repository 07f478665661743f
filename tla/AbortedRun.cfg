SPECIFICATION FairSpec
CONSTANTS
    Policies <- DefaultPolicies
    Failures <- LateFailures
    HumanRetries = 0
    MaxFailures = 1
PROPERTY AbortEndsRun
