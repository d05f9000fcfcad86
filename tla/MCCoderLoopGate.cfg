SPECIFICATION Spec
CONSTANTS
    Task <- TwoTasks
    DependsOn <- Chain
    MaxSlots = 1
    MaxReviewWip = 1
    MaxRetries = 1
    ApiEdges <- NoApiEdges
    ReadyAsked <- Waiter
    Faults <- NoFaults
    MaxRuns = 1
    MaxResumes = 0
    MaxRestarts = 0
INVARIANTS
    ReadyWhenMerged
CHECK_DEADLOCK FALSE
