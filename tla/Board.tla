------------------------------- MODULE Board -------------------------------
(***************************************************************************)
(* What the tasks and runs tables promise to whoever reads them, whatever  *)
(* the loop around them is doing: a task goes through one documented edge  *)
(* at a time, backlog tasks become ready once their prerequisites are      *)
(* merged or because somebody moves them, a merge is recorded with the     *)
(* move to done, a run is inserted only for a task that has no active run, *)
(* and a run goes through one documented edge at a time.                   *)
(***************************************************************************)
EXTENDS Lifecycle

CONSTANTS Task, DependsOn, RunId

\* jumped is an auxiliary variable: the tasks that a move of their own, not the
\* promotion, took from backlog to ready before their prerequisites were merged.
VARIABLES taskState, merged, jumped, runState, runTask

taskRows == <<taskState, merged, jumped>>
runRows == <<runState, runTask>>
vars == <<taskState, merged, jumped, runState, runTask>>

Prereqs(t) == {d \in Task : <<t, d>> \in DependsOn}

ActiveRuns(t) == {r \in RunId : runTask[r] = t /\ runState[r] \in ActiveRunStates}

Init ==
    /\ taskState = [t \in Task |-> "draft"]
    /\ merged = [t \in Task |-> FALSE]
    /\ jumped = {}
    /\ runState = [r \in RunId |-> "absent"]
    /\ runTask = [r \in RunId |-> 0]

\* Some of the backlog tasks whose prerequisites are merged become ready.
Promote(moved, ms) ==
    \E chosen \in SUBSET {t \in Task : moved[t] = "backlog" /\ \A d \in Prereqs(t) : ms[d]} :
        taskState' = [t \in Task |-> IF t \in chosen THEN "ready" ELSE moved[t]]

\* Who is past the gate without leave after the move of t: a task back in backlog
\* is before it again.
JumpedAfter(t, to) ==
    CASE to = "backlog" -> jumped \ {t}
      [] to = "ready" /\ \E d \in Prereqs(t) : ~merged[d] -> jumped \cup {t}
      [] OTHER -> jumped

\* transitionTask takes every edge of its table: that backlog -> ready is for the
\* system only is checked by the route, before the write.
MoveTask(t, to) ==
    /\ <<taskState[t], to>> \in TaskEdges
    /\ jumped' = JumpedAfter(t, to)
    /\ merged' = IF to = "done" THEN [merged EXCEPT ![t] = TRUE] ELSE merged
    /\ Promote([taskState EXCEPT ![t] = to], merged')
    /\ UNCHANGED runRows

Unblock ==
    /\ Promote(taskState, merged)
    /\ UNCHANGED <<merged, jumped, runRows>>

InsertRun(t, r) ==
    /\ ActiveRuns(t) = {}
    /\ runState[r] = "absent"
    /\ runState' = [runState EXCEPT ![r] = "queued"]
    /\ runTask' = [runTask EXCEPT ![r] = t]
    /\ UNCHANGED taskRows

MoveRun(r, to) ==
    /\ <<runState[r], to>> \in RunEdges
    /\ runState' = [runState EXCEPT ![r] = to]
    /\ UNCHANGED <<runTask, taskRows>>

Next ==
    \/ \E t \in Task, to \in TaskStates : MoveTask(t, to)
    \/ Unblock
    \/ \E t \in Task, r \in RunId : InsertRun(t, r)
    \/ \E r \in RunId, to \in RunStates : MoveRun(r, to)

Spec == Init /\ [][Next]_vars

----------------------------------------------------------------------------
(* What follows for every reader of the tables *)

\* SPEC invariant 1: a task has at most one active run.
OneActiveRunPerTask == \A t \in Task : \A q, r \in ActiveRuns(t) : q = r

\* SPEC invariant 3: a merge_sha is on record exactly for the done tasks.
MergedIffDone == \A t \in Task : merged[t] <=> taskState[t] = "done"

\* A task past backlog has all its prerequisites merged, unless it is one that a
\* move of its own took out of backlog.
DependencyGate ==
    \A t \in Task \ jumped : taskState[t] \notin {"draft", "backlog", "cancelled"} =>
                               \A d \in Prereqs(t) : merged[d]

============================================================================
