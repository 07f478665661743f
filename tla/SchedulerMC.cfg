SPECIFICATION FairSpec
CONSTANTS
    Schedules = {s1, s2}
    MaxRuns = 2
    MaxFaults = 1
INVARIANTS TypeOK OneRunAfterDisable UnrecordedRunsAreFaults
PROPERTY RegistrationFollowsTable
