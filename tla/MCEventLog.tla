----------------------------- MODULE MCEventLog -----------------------------
(* Small instances of EventLog. *)
EXTENDS EventLog

\* A task is claimed, by one of two or twice, and released; a note moves nothing.
ClaimsAndNotes == {"claim", "release", "note"}
Moves == {"claim", "release"}
OneTask == {"task"}
Columns == {"ready", "coding"}
InReady == [r \in OneTask |-> "ready"]
TaskMoves ==
    [k \in Moves |->
        IF k = "claim" THEN [row |-> "task", from |-> {"ready"}, to |-> "coding"]
                       ELSE [row |-> "task", from |-> {"coding"}, to |-> "ready"]]

\* A trigger that waits for moves and a browser that shows everything.
TriggerAndBrowser == {"trigger", "browser"}
OneBrowser == {"browser"}
NoReader == {}

Filters == [s \in Reader |-> IF s = "trigger" THEN Moves ELSE Kind]

============================================================================
