----------------------------- MODULE CoderLoop -----------------------------
(***************************************************************************)
(* The loop that turns a ready task into a pull request, and what brings   *)
(* the task back when the agent does not: the scheduler's fill pass, the   *)
(* claim and the spawn, the agent's lifecycle hooks, the watchdog and the  *)
(* budget sweep, triage, the completion pipeline, a review round or a      *)
(* human resuming the coder, the operator's API, and a server restart.     *)
(*                                                                         *)
(* Rows of the tasks and runs tables survive a restart, as do the agents'  *)
(* tmux sessions; everything the server holds between two awaits           *)
(* (a fill pass, a spawn, a triage, a completion, undelivered events) does *)
(* not.  An action is one writer link or one await of its handler.         *)
(***************************************************************************)
EXTENDS Lifecycle, Naturals, Sequences, FiniteSets

CONSTANTS
    Task,          \* task ids of one project
    DependsOn,     \* task_dependencies: <<t, d>> when t waits for d
    MaxSlots,      \* config.concurrency.maxParallelSlots
    MaxReviewWip,  \* config.concurrency.maxReviewWip
    MaxRetries,    \* config.triage.maxRetries
    ApiEdges,      \* task edges that operators, the review and the merge take
    ReadyAsked,    \* tasks for which operators POST {to: "ready"}
    Faults,        \* "spawn": a launch may throw; "stop": an operator stops
                   \* runs; "forge": the completion pipeline may throw
    MaxRuns,       \* bound on rows of the runs table
    MaxResumes,    \* bound on resumed coder sessions
    MaxRestarts    \* bound on server restarts

ASSUME TaskAssumption == IsFiniteSet(Task) /\ 0 \notin Task
ASSUME DependsOnAssumption == DependsOn \subseteq Task \X Task
ASSUME BoundsAssumption ==
    /\ MaxSlots \in Nat \ {0} /\ MaxReviewWip \in Nat \ {0} /\ MaxRetries \in Nat
    /\ MaxRuns \in Nat /\ MaxResumes \in Nat /\ MaxRestarts \in Nat
ASSUME ApiEdgesAssumption == ApiEdges \subseteq TaskEdges \ SystemOnlyEdges
ASSUME ReadyAskedAssumption == ReadyAsked \subseteq Task
ASSUME FaultsAssumption == Faults \subseteq {"spawn", "stop", "forge"}

None == 0
RunId == 1..MaxRuns

VARIABLES
    taskState, claimedBy, merged, prOpen,      \* tasks rows; prOpen: the forge has a PR
    runState, runTask, agentId, session,       \* runs rows; tmux sessions
    resumed,                                   \* runs created by a resume (history)
    phase,                                     \* "boot" until the triggers are started
    tick, spawn,                               \* the scheduler's fill pass and its spawn
    resume,                                    \* resumeCoder calls in flight
    inbox,                                     \* run-terminal events not yet delivered
    triage,                                    \* triageFailedRun calls in flight
    completion, bootDue,                       \* completeCoderRun calls, and those due at boot
    bootLeft, bootFail,                        \* reconcileOrphansAtBoot in flight
    asked,                                     \* tasks with a late POST to "ready"
    jumped,                                    \* tasks it took past the gate (history)
    resumes, restarts                          \* counters of the bounds

rows == <<taskState, claimedBy, merged, prOpen>>
runRows == <<runState, runTask, agentId, session, resumed>>
boot == <<phase, bootDue, bootLeft, bootFail>>
requests == <<asked, jumped>>
counters == <<resumes, restarts>>
vars == <<rows, runRows, tick, spawn, resume, inbox, triage, completion, boot, requests,
          counters>>

----------------------------------------------------------------------------
(* Rows *)

Prereqs(t) == {d \in Task : <<t, d>> \in DependsOn}

ActiveRuns(t) == {r \in RunId : runTask[r] = t /\ runState[r] \in ActiveRunStates}

ActiveCoderRuns == {r \in RunId : runState[r] \in ActiveRunStates}

\* runs.id is AUTOINCREMENT: the next row takes the least id never used.
FreshRuns == {r \in RunId : /\ runState[r] = "absent"
                            /\ \A q \in RunId : q < r => runState[q] # "absent"}

\* mutant: the index forgets the states after queued
CanInsertRunOverStarted(t) == \A r \in ActiveRuns(t) : runState[r] # "queued"

\* INSERT INTO runs passes the partial unique index one_active_run_per_task.
CanInsertRun(t) == ActiveRuns(t) = {}

InsertRun(t, r) ==
    /\ runState' = [runState EXCEPT ![r] = "queued"]
    /\ runTask' = [runTask EXCEPT ![r] = t]

MoveTask(t, from, to) == taskState' = Guarded(taskState, TaskEdges, t, from, to)

MoveRun(r, from, to) == runState' = Guarded(runState, RunEdges, r, from, to)

\* mutant: a merge that has begun counts as merged
DepsMerging(t, ms) == \A d \in Prereqs(t) : ms[d] \/ taskState[d] = "merging"

\* isNull(dep.merge_sha) finds no prerequisite.
DepsMerged(t, ms) == \A d \in Prereqs(t) : ms[d]

\* mutant: drafts are taken for backlog
RecomputeDrafts(ts, ms) ==
    [t \in Task |-> IF ts[t] \in {"draft", "backlog"} /\ DepsMerged(t, ms) THEN "ready"
                                                                     ELSE ts[t]]

\* recomputeReadiness: backlog tasks whose prerequisites all have a merge_sha.
Recompute(ts, ms) ==
    [t \in Task |-> IF ts[t] = "backlog" /\ DepsMerged(t, ms) THEN "ready" ELSE ts[t]]

\* mutant: the merge is recorded when it is asked for
MergedEarly(t, to) == IF to = "merging" THEN [merged EXCEPT ![t] = TRUE] ELSE merged

\* merge_sha is written by the transition to done and by nothing else.
MergedAfter(t, to) == IF to = "done" THEN [merged EXCEPT ![t] = TRUE] ELSE merged

\* The terminal event of a run, posted to a subscription's buffer.
Post(reader, r) == inbox' = [inbox EXCEPT ![reader] = Append(@, r)]

----------------------------------------------------------------------------
(* Initial state: a fresh server with drafts on the board *)

SpawnIdle == [pc |-> "idle", task |-> None, run |-> None]
ResumeIdle == [pc |-> "idle", run |-> None]
CompletionIdle == [pc |-> "idle", run |-> None]
TickOff == [on |-> FALSE, free |-> 0, todo |-> {}]

ResumeKinds == {"review", "human"}
TriageSources == {"hook", "budget"}
CompletionSources == {"tail", "boot"}
Readers == {"scheduler", "completion"}

NothingInFlight ==
    /\ tick = TickOff
    /\ spawn = SpawnIdle
    /\ resume = [k \in ResumeKinds |-> [t \in Task |-> ResumeIdle]]
    /\ inbox = [i \in Readers |-> <<>>]
    /\ triage = [s \in TriageSources |-> [r \in RunId |-> "idle"]]
    /\ completion = [s \in CompletionSources |-> CompletionIdle]
    /\ bootDue = {}
    /\ bootFail = None

Init ==
    /\ taskState = [t \in Task |-> "draft"]
    /\ claimedBy = [t \in Task |-> None]
    /\ merged = [t \in Task |-> FALSE]
    /\ prOpen = [t \in Task |-> FALSE]
    /\ runState = [r \in RunId |-> "absent"]
    /\ runTask = [r \in RunId |-> None]
    /\ agentId = {}
    /\ session = [r \in RunId |-> "none"]
    /\ resumed = {}
    /\ phase = "up"
    /\ NothingInFlight
    /\ bootLeft = [r \in RunId |-> "none"]
    /\ asked = {} /\ jumped = {}
    /\ resumes = 0 /\ restarts = 0

----------------------------------------------------------------------------
(* The board: promotion of a draft, and every edge someone else takes *)

\* Who is past the gate without leave after the move of t.
JumpedAfter(t, to) ==
    CASE to = "backlog" -> jumped \ {t}
      [] to = "ready" /\ ~DepsMerged(t, merged) -> jumped \cup {t}
      [] OTHER -> jumped

PromoteDraft(t) ==
    /\ taskState[t] = "draft"
    /\ taskState' = Recompute([taskState EXCEPT ![t] = "backlog"], merged)
    /\ jumped' = JumpedAfter(t, "backlog")
    /\ UNCHANGED <<claimedBy, merged, prOpen, runRows, tick, spawn, resume, inbox,
                   triage, completion, boot, asked, counters>>

\* POST /tasks/:id/transition, the review's verdict and the merge's outcome:
\* a guarded move; ready -> coding without a run clears claimed_by, and done
\* records the merge and recomputes readiness.  The route's check reads the row
\* before the move is queued; of these edges it refuses none.
ApiTransition(t, to) ==
    /\ <<taskState[t], to>> \in ApiEdges
    /\ jumped' = JumpedAfter(t, to)
    /\ merged' = MergedAfter(t, to)
    /\ claimedBy' = IF taskState[t] = "ready" /\ to = "coding"
                      THEN [claimedBy EXCEPT ![t] = None] ELSE claimedBy
    /\ LET moved == [taskState EXCEPT ![t] = to]
       IN taskState' = IF to = "done" THEN Recompute(moved, merged') ELSE moved
    /\ UNCHANGED <<prOpen, runRows, tick, spawn, resume, inbox, triage, completion,
                   boot, asked, counters>>

\* POST {to: "ready"} that pins no from-state: the route refuses it only if the
\* row it reads is in backlog, and queues the move otherwise ...
AskReady(t) ==
    /\ t \in ReadyAsked \ asked
    /\ taskState[t] # "backlog"
    /\ asked' = asked \cup {t}
    /\ UNCHANGED <<rows, runRows, tick, spawn, resume, inbox, triage, completion, boot,
                   jumped, counters>>

\* ... whose link reads the row again, behind the links queued before it, and
\* takes backlog -> ready like any other edge.
TakeReady(t) ==
    /\ t \in asked
    /\ asked' = asked \ {t}
    /\ MoveTask(t, "backlog", "ready")
    /\ jumped' = IF taskState[t] = "backlog" THEN JumpedAfter(t, "ready") ELSE jumped
    /\ UNCHANGED <<claimedBy, merged, prOpen, runRows, tick, spawn, resume, inbox, triage,
                   completion, boot, counters>>

----------------------------------------------------------------------------
(* The scheduler's fill pass: single-flight, one spawn at a time *)

\* mutant: a run counts once its agent has reported in
BusyRunning == Cardinality({r \in RunId : runState[r] = "running"})

\* countActiveCoderRuns
Busy == Cardinality(ActiveCoderRuns)

ReviewWip == {t \in Task : taskState[t] \in {"review", "approved"}}

TickStart ==
    /\ phase = "up"
    /\ ~tick.on
    /\ Busy < MaxSlots
    /\ Cardinality(ReviewWip) < MaxReviewWip
    /\ LET ready == {t \in Task : taskState[t] = "ready"}
       IN /\ ready # {}
          /\ tick' = [on |-> TRUE, free |-> MaxSlots - Busy, todo |-> ready]
    /\ UNCHANGED <<rows, runRows, spawn, resume, inbox, triage, completion, boot,
                   requests, counters>>

\* No plan, no provider capacity, egress refused or a RunConflictError: the
\* candidate is passed over and stays as it is.
TickSkip(t) ==
    /\ tick.on /\ tick.free > 0 /\ spawn.pc = "idle" /\ t \in tick.todo
    /\ tick' = [tick EXCEPT !.todo = @ \ {t}]
    /\ UNCHANGED <<rows, runRows, spawn, resume, inbox, triage, completion, boot,
                   requests, counters>>

TickEnd ==
    /\ tick.on /\ spawn.pc = "idle"
    /\ tick.free = 0 \/ tick.todo = {}
    /\ tick' = TickOff
    /\ UNCHANGED <<rows, runRows, spawn, resume, inbox, triage, completion, boot,
                   requests, counters>>

\* claimTaskAndCreateRun, step 1: the queued run, before the claim.
CreateClaimRun(t) ==
    /\ tick.on /\ tick.free > 0 /\ spawn.pc = "idle" /\ t \in tick.todo
    /\ CanInsertRun(t)
    /\ \E r \in FreshRuns :
          /\ InsertRun(t, r)
          /\ spawn' = [pc |-> "claim", task |-> t, run |-> r]
    /\ tick' = [tick EXCEPT !.todo = @ \ {t}]
    /\ UNCHANGED <<rows, agentId, session, resumed, resume, inbox, triage, completion,
                   boot, requests, counters>>

\* Step 2: the guarded claim, pinned to ready.
ClaimTask ==
    /\ spawn.pc = "claim"
    /\ MoveTask(spawn.task, "ready", "coding")
    /\ IF taskState[spawn.task] = "ready"
         THEN /\ claimedBy' = [claimedBy EXCEPT ![spawn.task] = spawn.run]
              /\ spawn' = [spawn EXCEPT !.pc = "launch"]
         ELSE /\ claimedBy' = claimedBy
              /\ spawn' = [spawn EXCEPT !.pc = "rollback"]
    /\ UNCHANGED <<merged, prOpen, runRows, tick, resume, inbox, triage, completion,
                   boot, requests, counters>>

\* Step 3: the claim lost its race, its run is killed.
RollbackClaim ==
    /\ spawn.pc = "rollback"
    /\ MoveRun(spawn.run, "queued", "killed")
    /\ spawn' = SpawnIdle
    /\ UNCHANGED <<rows, runTask, agentId, session, resumed, tick, resume, inbox, triage,
                   completion, boot, requests, counters>>

SpawnLaunch ==
    /\ spawn.pc = "launch"
    /\ session' = [session EXCEPT ![spawn.run] = "up"]
    /\ spawn' = [spawn EXCEPT !.pc = "confirm"]
    /\ UNCHANGED <<rows, runState, runTask, agentId, resumed, tick, resume, inbox, triage,
                   completion, boot, requests, counters>>

\* The worktree, the sandbox or the launcher throws.
SpawnThrow ==
    /\ spawn.pc = "launch" /\ "spawn" \in Faults
    /\ spawn' = [spawn EXCEPT !.pc = "fail"]
    /\ UNCHANGED <<rows, runRows, tick, resume, inbox, triage, completion, boot,
                   requests, counters>>

\* queued -> starting; on a lost race the session just launched is killed.
SpawnConfirm ==
    /\ spawn.pc = "confirm"
    /\ MoveRun(spawn.run, "queued", "starting")
    /\ IF runState[spawn.run] = "queued"
         THEN /\ spawn' = SpawnIdle
              /\ tick' = [tick EXCEPT !.free = @ - 1]
              /\ session' = session
         ELSE /\ spawn' = [spawn EXCEPT !.pc = "fail"]
              /\ session' = [session EXCEPT ![spawn.run] = "dead"]
              /\ tick' = tick
    /\ UNCHANGED <<rows, runTask, agentId, resumed, resume, inbox, triage, completion,
                   boot, requests, counters>>

\* mutant: the catch pins the run to starting
SpawnRollbackPinned ==
    /\ spawn.pc = "fail"
    /\ MoveRun(spawn.run, "starting", "killed")
    /\ spawn' = [spawn EXCEPT !.pc = "failtask"]
    /\ UNCHANGED <<rows, runTask, agentId, session, resumed, tick, resume, inbox, triage,
                   completion, boot, requests, counters>>

\* mutant: the catch frees the slot and leaves the task
SpawnRollbackRunOnly ==
    /\ spawn.pc = "fail"
    /\ MoveRun(spawn.run, runState[spawn.run], "killed")
    /\ spawn' = SpawnIdle
    /\ UNCHANGED <<rows, runTask, agentId, session, resumed, tick, resume, inbox, triage,
                   completion, boot, requests, counters>>

\* startCoderTask's catch: the run to killed from any active state ...
SpawnRollbackRun ==
    /\ spawn.pc = "fail"
    /\ MoveRun(spawn.run, runState[spawn.run], "killed")
    /\ spawn' = [spawn EXCEPT !.pc = "failtask"]
    /\ UNCHANGED <<rows, runTask, agentId, session, resumed, tick, resume, inbox, triage,
                   completion, boot, requests, counters>>

\* ... then its task coding -> failed.
SpawnRollbackTask ==
    /\ spawn.pc = "failtask"
    /\ MoveTask(spawn.task, "coding", "failed")
    /\ spawn' = SpawnIdle
    /\ UNCHANGED <<claimedBy, merged, prOpen, runRows, tick, resume, inbox, triage,
                   completion, boot, requests, counters>>

----------------------------------------------------------------------------
(* Resuming the coder: a revise verdict, or a human's resume_coding *)

AwaitResume(k, t, pc, r) ==
    resume' = [resume EXCEPT ![k][t] = [pc |-> pc, run |-> r]]

\* runReviewRound calls resumeCoder while the task is still in review.
ReviseResume(t) ==
    /\ resumes < MaxResumes
    /\ taskState[t] = "review" /\ resume["review"][t].pc = "idle"
    /\ AwaitResume("review", t, "create", None)
    /\ resumes' = resumes + 1
    /\ UNCHANGED <<rows, runRows, tick, spawn, inbox, triage, completion, boot, requests,
                   restarts>>

\* applyHumanVerdict moves the task first.
HumanResume(t) ==
    /\ resumes < MaxResumes
    /\ taskState[t] = "needs_human" /\ resume["human"][t].pc = "idle"
    /\ MoveTask(t, "needs_human", "coding")
    /\ AwaitResume("human", t, "create", None)
    /\ resumes' = resumes + 1
    /\ UNCHANGED <<claimedBy, merged, prOpen, runRows, tick, spawn, inbox, triage,
                   completion, boot, requests, restarts>>

HasAgentId(t) == \E r \in agentId : runTask[r] = t

ResumeCreate(k, t) ==
    /\ resume[k][t].pc = "create"
    /\ HasAgentId(t) /\ CanInsertRun(t)
    /\ \E r \in FreshRuns :
          /\ InsertRun(t, r)
          /\ resumed' = resumed \cup {r}
          /\ AwaitResume(k, t, "launch", r)
    /\ UNCHANGED <<rows, agentId, session, tick, spawn, inbox, triage, completion,
                   boot, requests, counters>>

\* No session to resume, RunConflictError, or a launch that throws: resumeCoder
\* has no catch, so the throw ends the call and undoes nothing.
ResumeThrow(k, t) ==
    /\ \/ resume[k][t].pc = "create" /\ ~(HasAgentId(t) /\ CanInsertRun(t))
       \/ resume[k][t].pc = "launch" /\ "spawn" \in Faults
    /\ AwaitResume(k, t, "idle", None)
    /\ UNCHANGED <<rows, runRows, tick, spawn, inbox, triage, completion, boot, requests,
                   counters>>

ResumeLaunch(k, t) ==
    /\ resume[k][t].pc = "launch"
    /\ session' = [session EXCEPT ![resume[k][t].run] = "up"]
    /\ AwaitResume(k, t, "confirm", resume[k][t].run)
    /\ UNCHANGED <<rows, runState, runTask, agentId, resumed, tick, spawn, inbox, triage,
                   completion, boot, requests, counters>>

\* queued -> starting, or the launched session is killed and spawnRun throws.
ResumeConfirm(k, t) ==
    LET r == resume[k][t].run
        won == runState[r] = "queued"
    IN /\ resume[k][t].pc = "confirm"
       /\ MoveRun(r, "queued", "starting")
       /\ session' = IF won THEN session ELSE [session EXCEPT ![r] = "dead"]
       /\ AwaitResume(k, t, IF won /\ k = "review" THEN "move" ELSE "idle", None)
       /\ UNCHANGED <<rows, runTask, agentId, resumed, tick, spawn, inbox, triage,
                      completion, boot, requests, counters>>

\* The revise verdict's review -> coding, once resumeCoder has returned.
ReviseMove(t) ==
    /\ resume["review"][t].pc = "move"
    /\ MoveTask(t, "review", "coding")
    /\ AwaitResume("review", t, "idle", None)
    /\ UNCHANGED <<claimedBy, merged, prOpen, runRows, tick, spawn, inbox, triage,
                   completion, boot, requests, counters>>

----------------------------------------------------------------------------
(* The agent's lifecycle hooks: guarded moves of its run, absorbed otherwise *)

HookMove(r, from, to) ==
    /\ session[r] = "up" /\ runState[r] = from
    /\ MoveRun(r, from, to)
    /\ UNCHANGED <<rows, runTask, session, resumed, tick, spawn, resume, inbox, triage,
                   completion, boot, requests, counters>>

SessionStart(r) == HookMove(r, "starting", "running") /\ agentId' = agentId \cup {r}

PreToolUse(r) == HookMove(r, "running", "awaiting_input") /\ UNCHANGED agentId

PostToolUse(r) == HookMove(r, "awaiting_input", "running") /\ UNCHANGED agentId

StopInBackground(r) == HookMove(r, "running", "background_waiting") /\ UNCHANGED agentId

Stop(r) ==
    /\ \/ HookMove(r, "running", "finishing")
       \/ HookMove(r, "background_waiting", "finishing")
    /\ UNCHANGED agentId

----------------------------------------------------------------------------
(* The poller: budget sweep, watchdog, and the grace after a Stop *)

\* A silent run is classified by its transcript's tail.
Watchdog(r, to) ==
    /\ phase = "up" /\ runState[r] = "running"
    /\ MoveRun(r, "running", to)
    /\ Post(IF to = "failed" THEN "scheduler" ELSE "completion", r)
    /\ UNCHANGED <<rows, runTask, agentId, session, resumed, tick, spawn, resume, triage,
                   completion, boot, requests, counters>>

GraceFinish(r) ==
    /\ phase = "up" /\ runState[r] = "finishing"
    /\ MoveRun(r, "finishing", "succeeded")
    /\ Post("completion", r)
    /\ UNCHANGED <<rows, runTask, agentId, session, resumed, tick, spawn, resume, triage,
                   completion, boot, requests, counters>>

\* mutant: the sweep looks at running runs only
StartedRunning(r) == runState[r] = "running"

\* The sweep sees active runs that have a started_at.
Started(r) == runState[r] \in ActiveRunStates \ {"queued"}

SetTriage(s, r, pc) == triage' = [triage EXCEPT ![s][r] = pc]

\* Over budget: reapRun kills the session, then sleeps 400 ms.
BudgetPick(r) ==
    /\ phase = "up" /\ Started(r) /\ triage["budget"][r] = "idle"
    /\ session' = [session EXCEPT ![r] = "dead"]
    /\ SetTriage("budget", r, "reap")
    /\ UNCHANGED <<rows, runState, runTask, agentId, resumed, tick, spawn, resume, inbox,
                   completion, boot, requests, counters>>

\* The run may have become terminal since the sweep read it.
ReapRun(r) ==
    /\ triage["budget"][r] = "reap"
    /\ MoveRun(r, runState[r], "killed")
    /\ SetTriage("budget", r, "due")
    /\ UNCHANGED <<rows, runTask, agentId, session, resumed, tick, spawn, resume, inbox,
                   completion, boot, requests, counters>>

\* POST /runs/:id/stop: the run's row only.
StopRun(r) ==
    /\ "stop" \in Faults /\ runState[r] \in ActiveRunStates
    /\ MoveRun(r, runState[r], "killed")
    /\ UNCHANGED <<rows, runTask, agentId, session, resumed, tick, spawn, resume, inbox,
                   triage, completion, boot, requests, counters>>

----------------------------------------------------------------------------
(* triageFailedRun *)

\* mutant: a killed run is none of triage's business
TriageAppliesToFailed(r) ==
    runState[r] = "failed" /\ taskState[runTask[r]] = "coding" /\ claimedBy[runTask[r]] = r

\* The failed run's task is still coding under that run.
TriageApplies(r) ==
    /\ runState[r] \in {"failed", "killed"}
    /\ taskState[runTask[r]] = "coding"
    /\ claimedBy[runTask[r]] = r

FailedRuns(t) == {q \in RunId : runTask[q] = t /\ runState[q] = "failed"}

Decisions(r) ==
    IF Cardinality(FailedRuns(runTask[r])) > MaxRetries THEN {"human"}
                                                        ELSE {"retry", "human"}

\* Preconditions and attempts are read, then the transcript, the capacity
\* signal and the classifier are awaited.
TriageRead(s, r) ==
    IF TriageApplies(r)
      THEN \E decision \in Decisions(r) : SetTriage(s, r, decision)
      ELSE SetTriage(s, r, "idle")

\* The scheduler's subscription delivers one failed run at a time.
HookTriage ==
    /\ inbox["scheduler"] # <<>> /\ \A r \in RunId : triage["hook"][r] = "idle"
    /\ TriageRead("hook", Head(inbox["scheduler"]))
    /\ inbox' = [inbox EXCEPT !["scheduler"] = Tail(@)]
    /\ UNCHANGED <<rows, runRows, tick, spawn, resume, completion, boot, requests,
                   counters>>

BudgetTriage(r) ==
    /\ triage["budget"][r] = "due"
    /\ TriageRead("budget", r)
    /\ UNCHANGED <<rows, runRows, tick, spawn, resume, inbox, completion, boot, requests,
                   counters>>

TriageHuman(s, r) ==
    /\ triage[s][r] = "human"
    /\ MoveTask(runTask[r], "coding", "needs_human")
    /\ SetTriage(s, r, "idle")
    /\ UNCHANGED <<claimedBy, merged, prOpen, runRows, tick, spawn, resume, inbox,
                   completion, boot, requests, counters>>

TriageRetry(s, r) ==
    /\ triage[s][r] = "retry"
    /\ MoveTask(runTask[r], "coding", "failed")
    /\ SetTriage(s, r, IF taskState[runTask[r]] = "coding" THEN "demote" ELSE "idle")
    /\ UNCHANGED <<claimedBy, merged, prOpen, runRows, tick, spawn, resume, inbox,
                   completion, boot, requests, counters>>

\* failed -> backlog, and readiness is recomputed when the move was won.
TriageDemote(s, r) ==
    /\ triage[s][r] = "demote"
    /\ taskState' = IF taskState[runTask[r]] = "failed"
                      THEN Recompute([taskState EXCEPT ![runTask[r]] = "backlog"], merged)
                      ELSE taskState
    /\ jumped' = IF taskState[runTask[r]] = "failed" THEN JumpedAfter(runTask[r], "backlog")
                                                     ELSE jumped
    /\ SetTriage(s, r, "idle")
    /\ UNCHANGED <<claimedBy, merged, prOpen, runRows, tick, spawn, resume, inbox,
                   completion, boot, asked, counters>>

----------------------------------------------------------------------------
(* completeCoderRun, started by the run's event or by the boot's query *)

\* Freshness, CI and the secret scan park the task or let the PR open; a repo,
\* token, git or forge error throws, which the trigger logs and drops.
CompletionOutcomes ==
    {"park", "handoff"} \cup IF "forge" \in Faults THEN {"throw"} ELSE {}

\* mutant: the gate's answer is read the wrong way round
PrAfterPark(outcome, t) ==
    IF outcome = "park" THEN [prOpen EXCEPT ![t] = TRUE] ELSE prOpen

\* The task's own state is not read: the PR opens before coding -> review.
PrAfter(outcome, t) ==
    IF outcome = "handoff" THEN [prOpen EXCEPT ![t] = TRUE] ELSE prOpen

CompleteRun(s, r) ==
    /\ completion[s].pc = "idle"
    /\ \E outcome \in CompletionOutcomes :
          /\ prOpen' = PrAfter(outcome, runTask[r])
          /\ completion' = [completion EXCEPT ![s] =
                IF outcome = "throw" THEN CompletionIdle ELSE [pc |-> outcome, run |-> r]]
    /\ UNCHANGED <<taskState, claimedBy, merged, runRows, tick, spawn, resume, triage,
                   phase, bootLeft, bootFail, requests, counters>>

CompleteFromEvent ==
    /\ inbox["completion"] # <<>>
    /\ CompleteRun("tail", Head(inbox["completion"]))
    /\ inbox' = [inbox EXCEPT !["completion"] = Tail(@)]
    /\ UNCHANGED bootDue

CompleteAtBoot(r) ==
    /\ r \in bootDue
    /\ CompleteRun("boot", r)
    /\ bootDue' = bootDue \ {r}
    /\ UNCHANGED inbox

\* parkTask and the review handoff: both pinned to coding, both end the call.
CompletionMove(s, pc, to) ==
    /\ completion[s].pc = pc
    /\ MoveTask(runTask[completion[s].run], "coding", to)
    /\ completion' = [completion EXCEPT ![s] = CompletionIdle]
    /\ UNCHANGED <<claimedBy, merged, prOpen, runRows, tick, spawn, resume, inbox, triage,
                   boot, requests, counters>>

CompletionPark(s) == CompletionMove(s, "park", "needs_human")

CompletionHandoff(s) == CompletionMove(s, "handoff", "review")

----------------------------------------------------------------------------
(* A restart, and what the boot does about what it finds *)

\* mutant: the boot's query takes terminal runs too
InDoubtAll(r) == runState[r] # "absent"

\* What reconcileOrphansAtBoot's query returns.
InDoubt(r) == runState[r] \in ActiveRunStates

\* The process dies and starts again.  Any agent sessions may have died too.
\* reconcileOrphansAtBoot reads the active runs; readiness is recomputed.
Restart ==
    /\ restarts < MaxRestarts
    /\ restarts' = restarts + 1
    /\ phase' = "boot"
    /\ tick' = TickOff
    /\ spawn' = SpawnIdle
    /\ resume' = [k \in ResumeKinds |-> [t \in Task |-> ResumeIdle]]
    /\ inbox' = [i \in Readers |-> <<>>]
    /\ triage' = [s \in TriageSources |-> [r \in RunId |-> "idle"]]
    /\ completion' = [s \in CompletionSources |-> CompletionIdle]
    /\ bootDue' = {}
    /\ bootFail' = None
    /\ bootLeft' = [r \in RunId |-> IF InDoubt(r) THEN runState[r] ELSE "none"]
    /\ \E died \in SUBSET {r \in RunId : session[r] = "up"} :
          session' = [r \in RunId |-> IF r \in died THEN "dead" ELSE session[r]]
    /\ taskState' = Recompute(taskState, merged)
    /\ asked' = {}
    /\ UNCHANGED <<claimedBy, merged, prOpen, runState, runTask, agentId, resumed, jumped,
                   resumes>>

\* reconcileOrphansAtBoot, one run at a time: a run whose session is gone is
\* interrupted, if it still is in the state the query read ...
BootCheck(r) ==
    /\ bootLeft[r] # "none" /\ bootFail = None
    /\ bootLeft' = [bootLeft EXCEPT ![r] = "none"]
    /\ IF session[r] = "up"
         THEN UNCHANGED <<runState, bootFail>>
         ELSE /\ MoveRun(r, bootLeft[r], "interrupted")
              /\ bootFail' = IF runState[r] = bootLeft[r] THEN r ELSE None
    /\ UNCHANGED <<rows, runTask, agentId, session, resumed, tick, spawn, resume, inbox,
                   triage, completion, phase, bootDue, requests, counters>>

\* ... and its task goes coding -> failed.
BootFailTask ==
    /\ bootFail # None
    /\ MoveTask(runTask[bootFail], "coding", "failed")
    /\ bootFail' = None
    /\ UNCHANGED <<claimedBy, merged, prOpen, runRows, tick, spawn, resume, inbox, triage,
                   completion, phase, bootDue, bootLeft, requests, counters>>

\* The completion trigger's boot query, then its subscription, then the
\* scheduler and the poller.
PendingAtBoot == {r \in RunId : /\ runState[r] = "succeeded"
                               /\ taskState[runTask[r]] = "coding"}

StartTriggers ==
    /\ phase = "boot"
    /\ phase' = "up"
    /\ bootDue' = PendingAtBoot
    /\ UNCHANGED <<rows, runRows, tick, spawn, resume, inbox, triage, completion,
                   bootLeft, bootFail, requests, counters>>

----------------------------------------------------------------------------
(* Next-state relation *)

Board == \E t \in Task :
    \/ PromoteDraft(t) \/ AskReady(t) \/ TakeReady(t)
    \/ \E to \in TaskStates : ApiTransition(t, to)

Tick == TickStart \/ TickEnd \/ \E t \in Task : TickSkip(t) \/ CreateClaimRun(t)

Spawn ==
    \/ ClaimTask \/ RollbackClaim \/ SpawnLaunch \/ SpawnThrow \/ SpawnConfirm
    \/ SpawnRollbackRun \/ SpawnRollbackTask

ResumeStep(k, t) ==
    \/ ResumeCreate(k, t) \/ ResumeThrow(k, t) \/ ResumeLaunch(k, t) \/ ResumeConfirm(k, t)

Resume ==
    \/ \E t \in Task : ReviseResume(t) \/ HumanResume(t) \/ ReviseMove(t)
    \/ \E k \in ResumeKinds, t \in Task : ResumeStep(k, t)

Hooks == \E r \in RunId :
    SessionStart(r) \/ PreToolUse(r) \/ PostToolUse(r) \/ StopInBackground(r) \/ Stop(r)

Poll == \E r \in RunId :
    \/ Watchdog(r, "failed") \/ Watchdog(r, "succeeded") \/ GraceFinish(r)
    \/ BudgetPick(r) \/ ReapRun(r)

TriageStep(s, r) == TriageHuman(s, r) \/ TriageRetry(s, r) \/ TriageDemote(s, r)

Triage ==
    \/ HookTriage
    \/ \E r \in RunId : BudgetTriage(r)
    \/ \E s \in TriageSources, r \in RunId : TriageStep(s, r)

Completion ==
    \/ CompleteFromEvent
    \/ \E r \in RunId : CompleteAtBoot(r)
    \/ \E s \in CompletionSources : CompletionPark(s) \/ CompletionHandoff(s)

Boot == Restart \/ BootFailTask \/ StartTriggers \/ \E r \in RunId : BootCheck(r)

Next ==
    \/ Board \/ Tick \/ Spawn \/ Resume \/ Hooks \/ Poll \/ Triage \/ Completion \/ Boot
    \/ \E r \in RunId : StopRun(r)

Spec == Init /\ [][Next]_vars

\* The timers and the event loops keep running: a spawn, a resume, a triage, a
\* completion or a boot pass that can go on does, and the sweep comes to every
\* run, whose wall clock runs out.  Nothing is assumed of the agent's hooks, the
\* watchdog's verdict, the grace after a Stop, the fill pass or the operator.
Fairness ==
    /\ WF_vars(Spawn)
    /\ \A k \in ResumeKinds, t \in Task : WF_vars(ResumeStep(k, t))
    /\ \A t \in Task : WF_vars(ReviseMove(t))
    /\ \A r \in RunId : /\ WF_vars(BudgetPick(r)) /\ WF_vars(ReapRun(r))
                        /\ WF_vars(BudgetTriage(r))
                        /\ \A s \in TriageSources : WF_vars(TriageStep(s, r))
    /\ WF_vars(HookTriage)
    /\ WF_vars(CompleteFromEvent)
    /\ \A s \in CompletionSources : WF_vars(CompletionPark(s) \/ CompletionHandoff(s))

FairSpec == Spec /\ Fairness

----------------------------------------------------------------------------
(* Properties *)

SpawnPcs == {"idle", "claim", "rollback", "launch", "confirm", "fail", "failtask"}

SpawnCalls == {SpawnIdle} \cup [pc : SpawnPcs \ {"idle"}, task : Task, run : RunId]

ResumeCalls == {ResumeIdle} \cup [pc : {"create", "move"}, run : {None}]
                            \cup [pc : {"launch", "confirm"}, run : RunId]

CompletionCalls == {CompletionIdle} \cup [pc : {"park", "handoff"}, run : RunId]

TriagePcs == {"idle", "reap", "due", "retry", "human", "demote"}

\* Every variable keeps its shape; a call in flight names a task and a run, and
\* a spawn in flight has a slot of its fill pass.
TypeOK ==
    /\ taskState \in [Task -> TaskStates]
    /\ claimedBy \in [Task -> RunId \cup {None}]
    /\ merged \in [Task -> BOOLEAN]
    /\ prOpen \in [Task -> BOOLEAN]
    /\ runState \in [RunId -> RunStates \cup {"absent"}]
    /\ runTask \in [RunId -> Task \cup {None}]
    /\ agentId \subseteq RunId
    /\ session \in [RunId -> {"none", "up", "dead"}]
    /\ resumed \subseteq RunId
    /\ phase \in {"boot", "up"}
    /\ tick \in [on : BOOLEAN, free : Nat, todo : SUBSET Task]
    /\ spawn \in SpawnCalls
    /\ spawn.pc # "idle" => tick.on /\ tick.free > 0
    /\ resume \in [ResumeKinds -> [Task -> ResumeCalls]]
    /\ inbox \in [Readers -> Seq(RunId)]
    /\ triage \in [TriageSources -> [RunId -> TriagePcs]]
    /\ completion \in [CompletionSources -> CompletionCalls]
    /\ bootDue \subseteq RunId
    /\ bootLeft \in [RunId -> ActiveRunStates \cup {"none"}]
    /\ bootFail \in RunId \cup {None}
    /\ asked \subseteq ReadyAsked /\ jumped \subseteq Task
    /\ resumes \in Nat /\ restarts \in Nat

\* SPEC invariant 1: the claim, both resumes, the rollbacks and the boot never
\* leave a task with two active runs.
OneActiveRunPerTask == \A t \in Task : \A q, r \in ActiveRuns(t) : q = r

\* SPEC invariant 3: a merge_sha is on record exactly for the done tasks.
MergedIffDone == \A t \in Task : merged[t] <=> taskState[t] = "done"

\* A task past backlog has all its prerequisites merged, whichever failure or
\* retry brought it where it is, unless a late POST took it out of backlog.
DependencyGate ==
    \A t \in Task \ jumped : taskState[t] \notin {"draft", "backlog", "cancelled"} =>
                               \A d \in Prereqs(t) : merged[d]

\* What is under review has a PR on the forge, and a PR comes from a coder run
\* of the task that succeeded.
ReviewIsBacked ==
    \A t \in Task :
        /\ taskState[t] \in {"review", "approved"} => prOpen[t]
        /\ prOpen[t] => \E r \in RunId : runTask[r] = t /\ runState[r] = "succeeded"

\* The fill pass never holds more slots than there are, also across claims that
\* roll back, spawns that throw and a restart in the middle of a pass.
SchedulerSlots == Cardinality(ActiveCoderRuns \ resumed) <= MaxSlots

\* A queued run the scheduler created is owned by the spawn in flight: no
\* failed claim or launch leaves one behind to hold a slot for ever.  Only a
\* restart can, when the run's session outlives it: the boot interrupts the others.
NoQueuedZombie ==
    \A r \in RunId \ resumed : runState[r] = "queued" =>
        \/ spawn.run = r /\ spawn.pc \in SpawnPcs \ {"idle", "failtask"}
        \/ restarts > 0 /\ (bootLeft[r] = "queued" \/ session[r] = "up")

\* Every step of the loop is a step of the board's promise (Board) or none.
B == INSTANCE Board

BoardSpec == B!Spec

\* Someone will still take a coding task further: its live run, or a call or an
\* undelivered event about one of its runs.
Attended(t) ==
    LET mine == {r \in RunId : runTask[r] = t}
    IN \/ ActiveRuns(t) # {}
       \/ spawn.pc # "idle" /\ spawn.task = t
       \/ \E k \in ResumeKinds : resume[k][t].pc # "idle"
       \/ \E r \in mine, s \in TriageSources : triage[s][r] # "idle"
       \/ \E r \in mine, i \in Readers : \E n \in DOMAIN inbox[i] : inbox[i][n] = r
       \/ \E r \in mine, s \in CompletionSources :
             completion[s].pc # "idle" /\ completion[s].run = r
       \/ \E r \in mine : r \in bootDue \/ bootLeft[r] # "none" \/ bootFail = r

\* No coding task is forgotten.
CodingAttended == \A t \in Task : taskState[t] = "coding" => Attended(t)

\* A queued run that no claim, spawn or resume has in hand.
Orphan(r) ==
    /\ runState[r] = "queued" /\ spawn.run # r
    /\ \A k \in ResumeKinds, t \in Task : resume[k][t].run # r

Stranded(t) ==
    /\ taskState[t] = "coding"
    /\ ~Attended(t) \/ ActiveRuns(t) # {}
    /\ \A r \in ActiveRuns(t) : Orphan(r)

LatestRun(t, r) == runTask[r] = t /\ \A q \in RunId : runTask[q] = t => q <= r

\* Without a restart, a task left coding that nobody will take further has one of
\* four causes: the completion of its last run threw; the operator stopped that
\* run, whose session lives on; one of its runs was resumed, so that a launch had
\* no catch or a triage looks for the run that claimed the task; or a human
\* resumed a task that has no session.  A failed spawn, a reaped agent, a lost
\* claim and a triage that came late are none.
StrandedIsExplained ==
    restarts = 0 => \A t \in Task : Stranded(t) =>
        \/ \E r \in RunId : LatestRun(t, r) /\ \/ runState[r] = "succeeded"
                                               \/ runState[r] = "killed" /\ session[r] = "up"
        \/ \E r \in resumed : runTask[r] = t
        \/ resumes > 0 /\ ~HasAgentId(t)

\* A coding task ends up somewhere else.
CodingEnds == \A t \in Task : taskState[t] = "coding" ~> taskState[t] # "coding"

\* A run that was started reaches a terminal state, whatever its agent does.
StartedRunsEnd ==
    \A r \in RunId : runState[r] = "starting" ~> runState[r] \in TerminalRunStates

----------------------------------------------------------------------------
(* Statements of the documents that the code does not keep *)

\* SPEC section 1, backlog -> ready: "ALL dependencies have non-null merge_sha".
ReadyWhenMerged == \A t \in Task : taskState[t] = "ready" => DepsMerged(t, merged)

\* scheduler.ts: "Recovery of in-doubt runs at boot is owned by
\* reconcileOrphansAtBoot": once the boot has settled no coding task is left
\* without anyone attending to it.
BootRecovers ==
    restarts > 0 /\ phase = "up" => CodingAttended

\* SPEC section 1, coding -> review: "coder run succeeded": no other coder run of
\* the task is at work when it goes to review.
ReviewAfterCoder ==
    [][\A t \in Task : taskState[t] = "coding" /\ taskState'[t] = "review" =>
                          ActiveRuns(t) = {}]_vars

\* triage.ts: "Applying this old failure would yank state out from under the live
\* agent": a triage moves no task that has a live run.
TriageSparesLiveRun ==
    [][\A t \in Task : triage' # triage /\ taskState[t] = "coding" /\ taskState'[t] # "coding" =>
                          ActiveRuns(t) = {}]_vars

============================================================================
