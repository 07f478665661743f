SPECIFICATION FairSpec
CONSTANTS
    Policies <- TwoRetries
    Failures <- TwoReplies
    HumanRetries = 0
    MaxFailures = 3
INVARIANT RecordedRetriesBounded
