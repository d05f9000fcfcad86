SPECIFICATION ServicesSpec
CONSTANTS
    MaxReviewRounds = 2
    RepairRetries = 0
    Reviews = {"judge", "harness"}
    OperatorMoves <- MCOperatorMoves
    ReviewFaults = {"git", "reviewer", "launch", "answer"}
    MaxCommits = 1
    Budgets <- MCBudgets
    ProviderCap = 2
    OverflowToApiKey = TRUE
    ProviderRuns <- MCProviderRuns
    MaxCooldowns = 2
    Process = {p1, p2, p3, p4}
    Foreign = {p4}
    Nobody = nobody
    e1 = e1
    e2 = e2
    Loop = {e1, e2}
    Lower = {e1}
    Metric = {0, 1}
    NoMetric <- MCNoMetric
    Endless = {e2}
    MaxIterations <- MCMaxIterations
    MaxFollowed = 1
    MaxMishaps = 1
    nightly = nightly
    k1 = k1
    none = none
    Trigger = {nightly}
    CronTrigger = {nightly}
    CronMinutes = {2, 3}
    DryRun = {}
    NoKey = none
    Deliveries <- MCDeliveries
    DedupeWindow = 1
    RateLimit = 2
    RateWindow = 2
    MaxClock = 2
    MaxFires = 3
    MaxFailures = 1
    Diffs <- MCDiffs
    Finding <- MCFinding
    Verifiers <- MCVerifiers
    NoVerifier = none
    MaxReports = 2
INVARIANTS
    ServicesTypeOK MergedIsApproved MergeIsRecorded CoderOffApproved ApprovedIsOnRecord
    ReviewIsAttended ForceNeedsRace GateKeepsCap CooldownRefuses  BranchIsKept
    FiresAreGated OncePerMatch VerdictIsTheRubric
PROPERTIES
    ClimbSpec MergingEnds LoopEnds
CHECK_DEADLOCK FALSE
