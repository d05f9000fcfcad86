---------------------------- MODULE Dependencies ----------------------------
(***************************************************************************)
(* The dependency graph of a project while requests change it: tasks are   *)
(* created, deleted and moved, edges are added and removed, and readiness  *)
(* is recomputed by some of these requests and not by others.              *)
(*                                                                         *)
(* An edge is checked when its request arrives and inserted in a later     *)
(* link of the writer chain; the recompute that follows a change is a link *)
(* of its own.  A request in flight is a record in calls.  A task in done  *)
(* stands for one with a merge_sha (Board, MergedIffDone).                 *)
(***************************************************************************)
EXTENDS Lifecycle, Naturals, FiniteSets

CONSTANTS
    Task,        \* ids tasks may get; a deleted id is not used again
    Call,        \* requests in flight at a time
    Moves,       \* task edges that others take (scheduler, triage, review, people)
    AskedIn,     \* states of the task in which operators ask for it to be made ready
    Budget       \* bound on restarts and requests to make a task ready together

ASSUME TaskAssumption == IsFiniteSet(Task)
ASSUME MovesAssumption == Moves \subseteq TaskEdges \ SystemOnlyEdges
ASSUME AskedInAssumption == AskedIn \subseteq TaskStates \ {"backlog"}
ASSUME BudgetAssumption == Budget \in Nat

VARIABLES
    taskState,   \* tasks rows: a task state, "new" before creation, "gone" after deletion
    deps,        \* task_dependencies: <<t, d>> when t depends on d
    calls,       \* requests between their links
    left,        \* what is left of the budget
    \* history, read by the properties only:
    late,        \* edges inserted when their task was past backlog already, or unmerged
                 \* when a request took it out of backlog
    missed,      \* tasks that reached or were opened in backlog by a path without a recompute
    raced        \* two additions have been in flight together

rows == <<taskState, deps>>
history == <<late, missed, raced>>
vars == <<rows, calls, left, history>>

----------------------------------------------------------------------------
(* Rows *)

Tasks == {t \in Task : taskState[t] \in TaskStates}

Prereqs(t) == {d \in Task : <<t, d>> \in deps}

Waiting == {"draft", "backlog"}

\* mutant: a merge that has begun counts as merged
DepsMerging(t) == \A d \in Prereqs(t) : taskState[d] \in {"merging", "done"}

\* NOT EXISTS (an unmerged dependency).
DepsMerged(t) == \A d \in Prereqs(t) : taskState[d] = "done"

\* Sets that the walk over the prerequisites does not leave.
Closed(S) == \A x \in S : Prereqs(x) \subseteq S

\* mutant: only the direct way back is looked for
WouldCreateDirectCycle(t, d) == t \in Prereqs(d)

\* wouldCreateCycle: the walk from d visits the least closed set that holds d.
WouldCreateCycle(t, d) == \A S \in SUBSET Task : d \in S /\ Closed(S) => t \in S

\* mutant: the prerequisites of the tasks found on the way are not queued
WalkShort(d) ==
    LET after[n \in Nat] == IF n = 0 THEN {d} ELSE after[n - 1] \cup Prereqs(d)
    IN after[Cardinality(Task)]

\* The walk itself, a generation of its queue at a time.
Walk(d) ==
    LET after[n \in Nat] ==
            IF n = 0 THEN {d} ELSE after[n - 1] \cup UNION {Prereqs(x) : x \in after[n - 1]}
    IN after[Cardinality(Task)]

----------------------------------------------------------------------------
(* Requests *)

Idle == [op |-> "idle", edge |-> <<>>]
Recomputing == [op |-> "recompute", edge |-> <<>>]
Inserting(t, d) == [op |-> "insert", edge |-> <<t, d>>]
Asking(t) == [op |-> "ready", edge |-> <<t>>]

Await(c, call) == calls' = [calls EXCEPT ![c] = call]
Spend == left > 0 /\ left' = left - 1

Init ==
    /\ taskState = [t \in Task |-> "new"]
    /\ deps = {}
    /\ calls = [c \in Call |-> Idle]
    /\ left = Budget
    /\ late = {} /\ missed = {} /\ raced = FALSE

\* POST /tasks and the planner's bootstrap: no recompute, also into backlog.
CreateTask(t, s) ==
    /\ taskState[t] = "new" /\ s \in Waiting
    /\ taskState' = [taskState EXCEPT ![t] = s]
    /\ missed' = IF s = "backlog" THEN missed \cup {t} ELSE missed
    /\ UNCHANGED <<deps, calls, left, late, raced>>

\* mutant: the edges of the row stay
DeleteWithoutCascade(t) == deps

\* ON DELETE CASCADE, on both columns.
Cascade(t) == {e \in deps : e[1] # t /\ e[2] # t}

\* DELETE /tasks/:id, in the parked states only; no recompute for the tasks it frees.
DeleteTask(t) ==
    /\ taskState[t] \in {"draft", "backlog", "cancelled", "done"}
    /\ taskState' = [taskState EXCEPT ![t] = "gone"]
    /\ deps' = Cascade(t)
    /\ late' = late \cap Cascade(t)
    /\ missed' = missed \cup {u \in Task : <<u, t>> \in deps}
    /\ UNCHANGED <<calls, left, raced>>

\* An edge someone takes without a recompute after it.
Move(t, to) ==
    /\ <<taskState[t], to>> \in Moves /\ to # "done"
    /\ taskState' = [taskState EXCEPT ![t] = to]
    /\ late' = IF to = "backlog" THEN late \ ({t} \X Task) ELSE late
    /\ missed' = IF to = "backlog" THEN missed \cup {t} ELSE missed
    /\ UNCHANGED <<deps, calls, left, raced>>

\* POST transition {to: "ready"} without expected_from: the handler refuses only a
\* task it reads in backlog ...
AskReady(c, t) ==
    /\ calls[c] = Idle /\ Spend
    /\ taskState[t] \in AskedIn
    /\ Await(c, Asking(t))
    /\ UNCHANGED <<rows, history>>

\* ... and the link reads the row again: one that others have put into backlog
\* meanwhile is taken out of it, whatever it waits for.
TakeReady(c) ==
    /\ calls[c].op = "ready"
    /\ LET t == calls[c].edge[1]
           taken == taskState[t] = "backlog"
       IN /\ taskState' = IF taken THEN [taskState EXCEPT ![t] = "ready"] ELSE taskState
          /\ late' = IF taken THEN late \cup {e \in deps : e[1] = t /\ taskState[e[2]] # "done"}
                             ELSE late
    /\ Await(c, Idle)
    /\ UNCHANGED <<deps, left, missed, raced>>

\* promoteDraft, triage's demotion and the merge: the recompute is a later link.
MoveThenRecompute(c, t, to) ==
    /\ calls[c] = Idle
    /\ <<taskState[t], to>> \in Moves /\ to \in {"backlog", "done"}
    /\ taskState' = [taskState EXCEPT ![t] = to]
    /\ late' = IF to = "backlog" THEN late \ ({t} \X Task) ELSE late
    /\ Await(c, Recomputing)
    /\ UNCHANGED <<deps, left, missed, raced>>

\* addDependency: everything is checked here, when the request is read ...
AddDependency(c, t, d) ==
    /\ calls[c] = Idle
    /\ t # d /\ {t, d} \subseteq Tasks /\ <<t, d>> \notin deps
    /\ ~WouldCreateCycle(t, d)
    /\ Await(c, Inserting(t, d))
    /\ raced' = (raced \/ \E b \in Call : calls[b].op = "insert")
    /\ UNCHANGED <<rows, left, late, missed>>

\* mutant: foreign keys are off, as they are unless the connection asks for them
EdgeIsNew(t, d) == <<t, d>> \notin deps

\* What the table itself asks of an edge: its UNIQUE index and its foreign keys.
CanInsertEdge(t, d) == <<t, d>> \notin deps /\ {t, d} \subseteq Tasks

\* ... and inserted in a link of its own; the table may still refuse it.
InsertEdge(c) ==
    /\ calls[c].op = "insert"
    /\ LET e == calls[c].edge
           ok == CanInsertEdge(e[1], e[2])
       IN /\ deps' = IF ok THEN deps \cup {e} ELSE deps
          /\ late' = IF ok /\ taskState[e[1]] \notin Waiting THEN late \cup {e} ELSE late
          /\ Await(c, IF ok THEN Recomputing ELSE Idle)
    /\ UNCHANGED <<taskState, left, missed, raced>>

\* mutant: removing an edge is all there is to it
AfterRemoveNothing == Idle

\* DELETE /tasks/:id/dependencies/:depId: the recompute is a later link.
AfterRemove == Recomputing

RemoveDependency(c, t, d) ==
    /\ calls[c] = Idle /\ <<t, d>> \in deps
    /\ deps' = deps \ {<<t, d>>}
    /\ late' = late \ {<<t, d>>}
    /\ Await(c, AfterRemove)
    /\ UNCHANGED <<taskState, left, missed, raced>>

\* recomputeReadiness, also for what earlier paths have missed.
RecomputeReadiness(c) ==
    /\ calls[c] = Recomputing
    /\ taskState' = [t \in Task |-> IF taskState[t] = "backlog" /\ DepsMerged(t) THEN "ready"
                                                                             ELSE taskState[t]]
    /\ missed' = {}
    /\ Await(c, Idle)
    /\ UNCHANGED <<deps, left, late, raced>>

\* The requests in flight are lost; the boot asks for a recompute.
Restart ==
    /\ Spend
    /\ \E b \in Call : calls' = [c \in Call |-> IF c = b THEN Recomputing ELSE Idle]
    /\ UNCHANGED <<rows, history>>

Next ==
    \/ \E t \in Task : \/ \E s \in Waiting : CreateTask(t, s)
                       \/ DeleteTask(t)
                       \/ \E to \in TaskStates : Move(t, to)
    \/ \E c \in Call, t \in Task :
          \/ \E to \in {"backlog", "done"} : MoveThenRecompute(c, t, to)
          \/ \E d \in Task : AddDependency(c, t, d) \/ RemoveDependency(c, t, d)
          \/ AskReady(c, t)
    \/ \E c \in Call : InsertEdge(c) \/ RecomputeReadiness(c) \/ TakeReady(c)
    \/ Restart

Spec == Init /\ [][Next]_vars

----------------------------------------------------------------------------
(* Properties *)

CallRecords ==
    {Idle, Recomputing} \cup {Inserting(t, d) : t \in Task, d \in Task}
    \cup {Asking(t) : t \in Task}

\* The shapes, and that no edge outlives either of its tasks: an edge checked
\* before a deletion and inserted after it is refused by the foreign keys.
TypeOK ==
    /\ taskState \in [Task -> TaskStates \cup {"new", "gone"}]
    /\ deps \subseteq Tasks \X Tasks
    /\ calls \in [Call -> CallRecords]
    /\ left \in Nat
    /\ late \subseteq deps
    /\ missed \subseteq Task
    /\ raced \in BOOLEAN

\* No set of tasks in which each waits for another one: some of them could
\* never be started.
Acyclic ==
    \A S \in SUBSET Task : S # {} => \E t \in S : Prereqs(t) \cap S = {}

\* One addition at a time cannot close a cycle, whatever is removed, deleted,
\* moved or lost to a restart between its check and its insert.
AcyclicUnlessRaced == raced \/ Acyclic

\* wouldCreateCycle's walk finds every way back to a task and no other: it
\* visits t exactly when no set closed under the prerequisites keeps them apart.
WalkDecides == \A t, d \in Task : t \in Walk(d) <=> WouldCreateCycle(t, d)

\* A task past backlog waits for nothing but what was put before it when it was
\* there already, or what a request to make it ready has passed over: every other
\* prerequisite is merged.
GateUnlessLate ==
    \A e \in deps \ late :
        taskState[e[1]] \notin Waiting \cup {"cancelled"} => taskState[e[2]] = "done"

\* A task that could be ready and is not has a recompute coming, unless it got
\* there by a path that asks for none.
OpenedIsNoticed ==
    \A t \in Task \ missed :
        taskState[t] = "backlog" /\ DepsMerged(t) =>
            \E c \in Call : calls[c] = Recomputing

============================================================================
