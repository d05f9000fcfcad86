----------------------------- MODULE Lifecycle -----------------------------
(***************************************************************************)
(* The two state machines every other part of nightshift moves rows        *)
(* through: tasks (src/tasks/transitions.ts) and runs                      *)
(* (src/runs/transitions.ts), with the guarded update both of them share:  *)
(* UPDATE ... SET state = to WHERE id = ? AND state = from, where 0 rows   *)
(* is a lost race and changes nothing.                                     *)
(***************************************************************************)

TaskStates ==
    {"draft", "backlog", "ready", "coding", "review", "approved", "merging",
     "needs_human", "done", "failed", "cancelled"}

TerminalTaskStates == {"done", "cancelled"}

\* <<from, to>> for every row of TASK_TRANSITIONS.
TaskEdges ==
    {<<"draft", "backlog">>, <<"backlog", "ready">>, <<"ready", "coding">>,
     <<"coding", "review">>, <<"coding", "failed">>, <<"coding", "needs_human">>,
     <<"review", "coding">>, <<"review", "approved">>, <<"review", "needs_human">>,
     <<"approved", "merging">>, <<"merging", "done">>, <<"merging", "needs_human">>,
     <<"failed", "backlog">>, <<"needs_human", "coding">>, <<"needs_human", "merging">>}
    \cup {<<s, "cancelled">> : s \in TaskStates \ TerminalTaskStates}

\* backlog -> ready is driven by recomputeReadiness only, never by the API.
SystemOnlyEdges == {<<"backlog", "ready">>}

ActiveRunStates ==
    {"queued", "starting", "running", "awaiting_input", "background_waiting", "finishing"}

TerminalRunStates == {"succeeded", "failed", "killed", "interrupted"}

RunStates == ActiveRunStates \cup TerminalRunStates

\* <<from, to>> for every row of RUN_TRANSITIONS.
RunEdges ==
    {<<"queued", "starting">>, <<"starting", "running">>,
     <<"running", "awaiting_input">>, <<"awaiting_input", "running">>,
     <<"running", "background_waiting">>, <<"background_waiting", "running">>,
     <<"background_waiting", "finishing">>, <<"running", "finishing">>,
     <<"finishing", "succeeded">>, <<"finishing", "failed">>,
     <<"running", "succeeded">>, <<"running", "failed">>}
    \cup (ActiveRunStates \X {"interrupted", "killed"})

\* The guarded update of row x of a state column: it takes effect only when
\* the row is still in `from` and the edge is legal; otherwise the caller gets
\* lost_race or illegal and nothing is written.
Takes(column, edges, x, from, to) == column[x] = from /\ <<from, to>> \in edges

Guarded(column, edges, x, from, to) ==
    IF Takes(column, edges, x, from, to) THEN [column EXCEPT ![x] = to] ELSE column

============================================================================
