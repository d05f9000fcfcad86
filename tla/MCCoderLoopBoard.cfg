SPECIFICATION Spec
CONSTANTS
    Task <- TwoTasks
    DependsOn <- Chain
    MaxSlots = 1
    MaxReviewWip = 1
    MaxRetries = 1
    ApiEdges <- MergeOrWithdraw
    ReadyAsked <- Waiter
    Faults <- SpawnFaults
    MaxRuns = 2
    MaxResumes = 0
    MaxRestarts = 0
INVARIANTS
    DependencyGate
    SchedulerSlots
    CodingAttended
PROPERTIES
    BoardSpec
CHECK_DEADLOCK FALSE
