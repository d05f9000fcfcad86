SPECIFICATION Spec
CONSTANTS
    Task <- OneTask
    DependsOn <- NoDeps
    MaxSlots = 1
    MaxReviewWip = 1
    MaxRetries = 1
    ApiEdges <- OperatorEdges
    ReadyAsked <- Nobody
    Faults <- AllFaults
    MaxRuns = 3
    MaxResumes = 1
    MaxRestarts = 1
INVARIANTS
    TypeOK
    OneActiveRunPerTask
    MergedIffDone
    NoQueuedZombie
    ReviewIsBacked
    StrandedIsExplained
CHECK_DEADLOCK FALSE
