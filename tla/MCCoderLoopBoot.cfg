SPECIFICATION Spec
CONSTANTS
    Task <- OneTask
    DependsOn <- NoDeps
    MaxSlots = 1
    MaxReviewWip = 1
    MaxRetries = 1
    ApiEdges <- NoApiEdges
    ReadyAsked <- Nobody
    Faults <- NoFaults
    MaxRuns = 1
    MaxResumes = 0
    MaxRestarts = 1
INVARIANTS
    BootRecovers
CHECK_DEADLOCK FALSE
