SPECIFICATION FairSpec
CONSTANTS
    Task <- OneTask
    DependsOn <- NoDeps
    MaxSlots = 1
    MaxReviewWip = 1
    MaxRetries = 1
    ApiEdges <- NoApiEdges
    ReadyAsked <- Nobody
    Faults <- NoFaults
    MaxRuns = 2
    MaxResumes = 1
    MaxRestarts = 1
PROPERTIES
    ReviewAfterCoder
CHECK_DEADLOCK FALSE
