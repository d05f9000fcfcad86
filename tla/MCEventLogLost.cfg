SPECIFICATION Spec
CONSTANTS
    Kind <- ClaimsAndNotes
    MoveKinds <- Moves
    Row <- OneTask
    RowState <- Columns
    Start <- InReady
    Update <- TaskMoves
    Reader <- NoReader
    Browsers <- NoReader
    Wants <- Filters
    BufferSize = 1
    MaxAttempts = 2
    MaxWrites = 2
    MaxBreaks = 0
INVARIANT EventOrThrow
CHECK_DEADLOCK FALSE
