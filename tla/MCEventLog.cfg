SPECIFICATION FairSpec
CONSTANTS
    Kind <- ClaimsAndNotes
    MoveKinds <- Moves
    Row <- OneTask
    RowState <- Columns
    Start <- InReady
    Update <- TaskMoves
    Reader <- TriggerAndBrowser
    Browsers <- OneBrowser
    Wants <- Filters
    BufferSize = 1
    MaxAttempts = 2
    MaxWrites = 3
    MaxBreaks = 1
INVARIANTS
    TypeOK
    LogInOrder
    SkipsAreCounted
PROPERTIES
    DeliverySpec
    WritesSettle
    EventReaches
CHECK_DEADLOCK FALSE
