SPECIFICATION FairSpec
CONSTANTS
    Task <- TwoTasks
    DependsOn <- NoDeps
    MaxSlots = 1
    MaxReviewWip = 1
    MaxRetries = 1
    ApiEdges <- MergeOrWithdraw
    ReadyAsked <- Nobody
    Faults <- SpawnFaults
    MaxRuns = 2
    MaxResumes = 0
    MaxRestarts = 0
PROPERTIES
    CodingEnds
    StartedRunsEnd
CHECK_DEADLOCK FALSE
