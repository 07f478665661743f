SPECIFICATION FairSpec
CONSTANTS
    Policies <- AskingPolicies
    MaxFailures = 2
    MaxRestarts = 0
    HumanRetries = 1
PROPERTY ReplacedPathIsRead
