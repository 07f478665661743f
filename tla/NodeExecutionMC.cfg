SPECIFICATION FairSpec
CONSTANTS
    Policies <- MCPolicies
    MaxFailures = 3
    MaxRestarts = 2
    HumanRetries = 2
INVARIANTS NodeTypeOK DoneOrDegraded RowsLeadCheckpoint
PROPERTIES NoSecondSuccess NodeComesToAnEnd
