SPECIFICATION FairSpec
CONSTANTS
    Policies <- DefaultPolicies
    Failures <- LockedInputs
    HumanRetries = 1
    MaxFailures = 4
INVARIANT EndTellsTasks
