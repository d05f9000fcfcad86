# Verification of nightshift

nightshift is a server that turns a board of tasks into merged pull requests. Agents (coder and
reviewer CLIs in tmux sessions) do the work; the server claims tasks for them, watches them, gates
what they produce, opens and merges the pull requests, and survives its own restarts. Two SQLite
columns carry the protocol, `tasks.state` and `runs.state`; every part of the server moves them
through guarded updates (`UPDATE ... WHERE id = ? AND state = :from`, zero rows being a lost race),
and nothing else stands between a dozen handlers, timers and subscriptions that run between each
other's awaits in one process.

This directory holds TLA+ modules for that protocol, TLC configurations that check them on small
instances, and proofs checked by TLAPS. Paths below are relative to the repository's `src/`.

## Reading order

| Module | What it is |
|---|---|
| `Lifecycle` | the two transition tables and the guarded update |
| `Board` | the abstract specification: what the tables promise to every reader |
| `BoardProofs` | its invariants, proved |
| `CoderLoop` | the detailed specification: scheduler, spawn, hooks, supervision, triage, completion, resumes, API, restart |
| `MCCoderLoop`, `MCCoderLoop*.cfg` | small instances of `CoderLoop` for TLC |
| `CoderLoopProofs` | type correctness, the refinement of `Board` and what follows; the dependency gate; slots, queued runs, backed reviews, who takes a coding task further, and when a coder is left in peace and the boot recovers |
| `Dependencies` | the dependency graph while requests change it |
| `MCDependencies`, `MCDependencies*.cfg` | small instances of `Dependencies` |
| `DependenciesProofs` | its invariants, proved; the walk of the cycle check decides what it is asked |
| `OrderedDelivery` | the abstract specification: what the event log promises its readers |
| `EventLog` | the writer chain, the log, subscriptions and browsers |
| `MCEventLog`, `MCEventLog*.cfg` | small instances of `EventLog` |
| `EventLogProofs` | type correctness, the order of the log, the refinement of `OrderedDelivery`, the count of what was missed, what the caller of a write is told |
| `ReviewMerge` | review rounds, verdicts, the resumed coder, the auto merge and its hook, the forge |
| `ReviewMergeProofs` | type correctness; only what a review approved is merged; every review is attended to; approvals and merges are on record; the task's moves are the board's |
| `Capacity` | a provider's circuit, its cooldown, its probe, and the cap |
| `WorktreeLock` | the lock file of a worktree between processes |
| `KeepBest` | the abstract specification: what an experiment promises |
| `Experiment`, `ExperimentProofs` | the experiment loop in its checkout, its dispatch; the refinement of `KeepBest`; what the branch holds |
| `Triggers` | fires, their gates and writes, and the cron scheduler |
| `ReviewPolicy` | what the review harness makes of its finders' answers |
| `ServicesProofs` | the invariants of `Capacity`, `WorktreeLock`, `Triggers` and `ReviewPolicy`, proved, and the services side by side |
| `Induction` | induction and recursion over numbers and finite sets, in a form the provers can use |
| `MCServices`, `MCServices.cfg` | small instances of the six services above, side by side |

`CoderLoop` EXTENDS `Lifecycle` and takes `Board` as `B == INSTANCE Board`, with its four variables
under the same names: the refinement mapping is the identity on the rows, and everything else
(calls in flight, buffers, sessions) is hidden. `Dependencies` stands beside them: it opens up the
graph that the other two take as a constant, and closes what they open up (who moves a task, and why).
`EventLog` opens up what `CoderLoop` takes as two inboxes: how an event gets from a write to a reader.
`ReviewMerge` takes the tables of `Lifecycle` and opens up what `CoderLoop` takes as `ApiTransition`:
who sends a task back, approves it, merges it. `Capacity`, `WorktreeLock`, `Experiment`, `Triggers` and
`ReviewPolicy` are services with a state of their own. `MCServices` EXTENDS the last six; a behaviour
is of one of them (`part`) and leaves the others' state as it is, so that one run checks them all
without multiplying their states.

## Inventory

### The parts, their state and operations

| Part | State | Operations | What makes it correct |
|---|---|---|---|
| Task machine, `tasks/transitions.ts` | `tasks.state`, `claimed_by`, `merge_sha` | `transitionTask`, pinned to an expected state or not | one documented edge per write; `merge_sha` exactly with `done` |
| Run machine, `runs/transitions.ts`, `runs/runs.ts` | `runs.state`, unique index `one_active_run_per_task` | `createRun`, `claimTaskAndCreateRun`, `transitionRun` | at most one active run per task; a lost claim leaves nothing behind |
| Readiness, `tasks/dependencies.ts` | `task_dependencies` | `addDependency`, `removeDependency`, `recomputeReadiness` | the graph is acyclic; a task opens only when its prerequisites are merged |
| Scheduler, `scheduler/scheduler.ts`, `scheduler/loop.ts` | the fill pass (`ticking`, `free`, candidates), a subscription | `tick`, the failure hook, the poller | slot limit, review back-pressure, single flight |
| Spawn, `runs/spawn.ts`, `orchestrator/coder.ts` | a worktree, a tmux session, the run between `queued` and `starting` | `startCoderTask`, `spawnRun` and their catches | a launch that fails undoes the claim and the run |
| Supervision, `runs/hookBridge.ts`, `runs/watchdog.ts`, `runs/budget.ts`, `runs/reap.ts` | none but the rows | lifecycle hooks, watchdog, grace after a Stop, budget sweep, `reapRun` | every started run reaches a terminal state |
| Triage, `orchestrator/triage.ts` | a call per failed run | `triageFailedRun` | a failed run's task is requeued or handed to a human, and only that task |
| Completion, `orchestrator/coder.ts`, `orchestrator/coderCompletionTrigger.ts` | a subscription, the list found at boot | `completeCoderRun` | review only behind a pull request; a cut-off completion is taken up at boot |
| Boot, `server/main.ts`, `runs/reap.ts` | the list of in-doubt runs | `reconcileOrphansAtBoot`, `recomputeReadiness`, start of the triggers | nothing is forgotten across a restart |
| Resume, `runs/liveSpawn.ts`, `orchestrator/review.ts` | a call per review or human verdict | `resumeCoder`, `runReviewRound`, `resume_coding` | the resumed session is the task's only one |
| Review, `orchestrator/review*.ts` | `tasks.round`, the thread's verdict events, a call per round | rounds from the boot pass, the tail and HTTP; human verdicts | a task in review has a round coming; an approved one has its approval on record |
| Rubric, `review/harness.ts`, `riskTier.ts`, `coordinator.ts` | none | classify, find, merge, verify, decide | the verdict follows from what was found, not from who said it first |
| Merge, `orchestrator/autoMerge*.ts`, `forge/` | a cached preflight context, the hook's place in the log | preflight, merge, force merge | what was approved is what is merged; board and forge agree |
| Experiments, `experiment/`, `orchestrator/experimentDispatcher.ts` | a ledger, a run, the one checkout | dispatch, edit, commit, evaluate, keep or reset | the branch holds what beat everything before it |
| Triggers, `triggers/` | `last_fired_at`, the `trigger.fired` events | fires by the scheduler, people, webhooks and chat | one task per delivery and per match of a schedule |
| Event log, `events/events.ts`, `db/writer.ts` | `events.seq`, subscriber buffers, the writer chain | `emit`, `subscribe`, `enqueueWrite` | replay then live, once each, in order |
| Capacity, `providers/capacity.ts`, `providers/router.ts` | circuit, cooldown, counts | admit, observe, probe | a half-open circuit lets one probe through |
| Worktree lock, `worktree/lock.ts` | a lock file with a PID | acquire, release, take over a stale lock | one holder |
| Remote workers, `scheduler/workers.ts` | a registry in memory | register, heartbeat, reap the stale | nothing: nobody asks it for a worker |

The remaining parts (provider CLIs, notifications, analytics, config, egress, preview, memory, the web
client but for its event stream) are listed in `PROJECT.json` with the reason each is left out; see
"Not modelled" below.

### How they interact

* Calls: the tick calls `startCoderTask`, which claims, then spawns; the poller calls the budget
  sweep, which reaps and then triages; a revise verdict calls `resumeCoder` and then moves the task.
* Messages: `run.state_changed` events go through the log to two subscriptions, the scheduler's
  (failed runs, to triage) and the completion trigger's (succeeded runs). Both start at the current
  sequence number when the server boots; nothing before that is replayed.
* Two more subscriptions: the review trigger's, which starts at the current sequence number, and the
  merge hook's, which gives none and so reads the log from its first event after every start.
* Callbacks: the agent CLI posts its lifecycle hooks to the server.
* Outside: the forge (pull requests, the merge), git checkouts, lock files, the clock.
* Shared state: the rows. Each handler reads them, awaits something (a launch, a classifier, the
  forge) and writes later; the guard in the `UPDATE` is the only check at the time of the write, and a
caller that names no expected state gets the edge that fits the row then.

### What is hard about it

Interleavings of handlers between awaits; values read before an await and used after it (the fill pass's
`free` and candidates, triage's `claimed_by`, the transition route's look at the task, the poller's and the
boot's list of runs); a restart between two steps of a multi-step operation, when the rows and the tmux
sessions survive and calls and undelivered events do not; launches and forge calls that throw half way;
agents that never report. A verdict is given about a commit and used when the branch may have moved; a merge
happens at the forge and its answer may be lost; two processes may meet one stale lock. `PROJECT.json` lists
these as `hazards`, each at its line, with the properties that cover it or the reason why none does yet.

## How the model corresponds to the code

**State.** `taskState`, `claimedBy`, `merged` (merge_sha is not null) and `runState`, `runTask`,
`agentId` (agent_session_id is set) are the rows. `session` is the tmux session of a run and `prOpen`
the forge's view of a task: both live outside the server. `tick`, `spawn`, `resume`, `triage`,
`completion`, `bootDue`, `bootLeft` and `bootFail` are the calls the server has in flight, each a
small record with a program counter; `inbox` holds the two subscriptions' undelivered events. A
`Restart` empties the latter and keeps the former; so it does with `asked`, the requests whose check
is behind them. `resumed` (which runs a resume created) and `jumped` (which tasks have left backlog
over unmerged prerequisites, until they are back) are history variables, `resumes` and `restarts` count
towards the bounds.

**Steps.** An action is one link of the writer chain, or one await that matters: what a handler does
between two awaits cannot be interleaved, what it does across them can. `claimTaskAndCreateRun` is
therefore three actions (insert, claim, rollback), `startCoderTask` and its catch five more, triage a
read and up to two moves, `reapRun` a session kill and, 400 ms later, a move.

**Where a step merges two things.** The session kill of a reap happens with the sweep's pick of the
run. A promotion's `draft -> backlog` and the `recomputeReadiness` that follows are one step, as are
a demotion or a merge and theirs: both are queued on the writer chain, and what may come between
them only delays the promotion. The completion trigger's boot query and the start of its subscription
are one synchronous stretch of code.

**Who does what.** Edges taken by people, by the review and by the merge come in as
`ApiTransition(t, to)` for the edges in `ApiEdges`: the operator's `/transition`, a verdict, or
`confirmMergeAndUnblock` (merging -> done). The optional `claimed_by` of the transition route is not
modelled: a claim through the API clears it.

**Check and use.** The transition route refuses the edge that is the system's own, `backlog -> ready`,
by a row it reads outside the writer link; without `expected_from`, `transitionTask` reads the state
again inside the link and takes any edge of its table. For every other edge the look at the row decides
nothing that the link does not decide again, so check and move are one step. For a POST to `ready` they
are two: `AskReady` is the check that saw the task anywhere but in backlog and found nothing to refuse,
`TakeReady` the link, which runs behind whatever was queued before it. `ReadyAsked` has the tasks that
people ask this of. `Board!MoveTask` takes every edge of the table; what it promises of the dependency
gate, it promises of the tasks outside `jumped`.

**Boot.** `reconcileOrphansAtBoot` is not awaited by `main.ts`, so `BootCheck` may run after the
triggers have started and while hooks of surviving sessions move runs. It works on the list of states
it read (`bootLeft`).

**Abstractions.**
* Only coder runs. Reviewer runs share the unique index: `ReviewMerge` has them, with the coder's run
  reduced to whether it is there. One resume call per task and kind (review, human) at a time; one budget
  kill per run.
* The forge answers a completion in one of three ways: blocked (park), pull request opened (handoff),
  an error (throw). A pull request, once open, stays open.
* Provider routing, capacity, egress and a missing plan show as a candidate passed over (`TickSkip`).
* Time is not modelled: a run may be over budget, silent, or past its grace at any moment.
* The dependency graph is a constant, tasks are neither created nor deleted: see below. (A late POST to
  `ready` is in both modules: in `CoderLoop` for what the loop makes of it, in `Dependencies` for the
  graph that changes meanwhile.)

### The dependency graph

`Dependencies` has the rows that matter to readiness (`taskState`, `deps`) and the requests in flight
(`calls`). `addDependency` checks everything when the request is read (`AddDependency`) and inserts in
a link of its own (`InsertEdge`), where only the UNIQUE index and the foreign keys can still refuse;
the recompute that the route awaits afterwards is a third (`RecomputeReadiness`). Removals, the merge,
triage's demotion and promotions are a link followed by a recompute; creations, deletions and plain
moves are a link and nothing more. A POST to `ready` is a check and a link here too (`AskReady`,
`TakeReady`); `AskedIn` has the states it may see. A restart drops the requests and asks for a recompute.

`wouldCreateCycle` appears twice: as what it decides (`WouldCreateCycle`: does every set of tasks that
is closed under prerequisites and holds `d` hold `t`?), which the actions and the proofs use, and as
the walk it does (`Walk`, a generation of its queue at a time); `WalkDecides` compares the two on every
graph that occurs.

Three history variables let the properties say what holds and nothing more: `raced` (two additions have been
in flight together), `late` (edges inserted when their task was past backlog already, or unmerged when a
late POST to `ready` took it, until it comes back), `missed` (tasks that got into backlog, or were freed
there, by a path without a recompute, until the next one). A task in `done` stands for one with a
`merge_sha`, which `MergedIffDone` allows. Projects are independent, so there is one.

### The event log

`EventLog` has the writer chain (`chain`, the failed attempts `tries` at its first link, what each
caller has heard in `told`), the rows that the links move (`column`), the events table (`log`: nothing is
ever deleted, so an event's index is its `seq`), and per reader a subscription (`sub`), what is sent to
a browser and not read there (`wire`) and how far the reader has got (`cursor`). `moved`, the
updates that have been committed, and `seen` are history variables.

*The chain.* `enqueueWrite` appends; nothing but the first link runs. An attempt has no await between
its statements, so inside the process it is one step: `Commit` (update, next seq, event, broker) or
`LoseRace` (the guarded update does not find its row where it asks for it, whoever has moved it). Each
statement commits by itself, however, and another process may hold the database at either: `Busy` ends an
attempt before the update or after it, `LinkFails` does with any other error, which is not retried, and
`Restart` may end one there too. A link of a kind in `MoveKinds` is a `transitionTask` or
`transitionRun`: `Update` gives it its row, the states it may be taken from and the new one; the others
only log.

*Readers.* `Subscribe` attaches to the broker; `Snapshot` is the iterator's first turn, which reads
the table; `YieldHistory` and `TakeLive` are its later ones. The rows that were read are a set,
yielded in the order of their `seq` (`ORDER BY`). A trigger (the scheduler, the completion trigger)
looks up the last `seq` in the turn it subscribes in and handles what it gets at once. A browser asks
for what follows its `after_seq`; what the server's pump enqueues goes over a connection (`wire`)
which may be lost with what it holds, and `useEventStream` moves `after_seq` when it reads
(`Disconnect`, `Read`). A subscription that is closed is gone at once: what an aborted iterator would
still drain has no reader left.

*What it promises.* `OrderedDelivery` has a log, readers that join it and get events one at a time,
and readers whose buffer has overflowed, which may skip some. `Delivery` instantiates it with the
kinds of the log and with the readers whose `dropped()` is positive.

### Review and merge

`ReviewMerge` follows one task from its first coder to its merge: every row, cache and call there is
keyed by the task. A commit is a number; `head` is the one the latest worktree is at (`Commit`; a
resume cuts a new worktree, at commit 1), `prHead` what was pushed, `forgeMerged` what the forge merged.

*Rounds.* A round is a call of `runReviewRound` by the boot pass, the tail of the log or HTTP, one per
caller and any two at once. Between its awaits lie: the diff with its sha, the verdict, the verdict
event, the unguarded `tasks.round`, and the move or the resume. With one reviewer (`"judge"`) a run row
is created first and the head is looked at again at the end; with the harness (`"harness"`) neither.
`thread` holds the verdict events; `OnThread` is the idempotency key that drops the second verdict of
a round and sha. In a tournament the challenger's run always loses the unique index, so a tournament
is its primary. `ReviewFaults` are what may throw: git, the reviewer, a launch, the forge's answer.

*The human.* `applyHumanVerdict` moves the task, then resumes or does nothing more; an operator's move
is one step. `needs_human -> merging` is what the hook hears of (`HookForced`).

*The merge.* `tryAutoMerge` runs for the tasks the boot lists and for what the hook reads from the log.
The approved sha it resolves goes to the forge in `Preflight` and into `ctxCache` if all is well;
`EnterMerging` is the guarded move; `CallMerge` takes the context out of the cache, or throws without
one, and is one step with the forge's decision, which no other part can see between the two. The five
checks of the preflight and a refusal are one answer, except for the head, which is compared.

*The boot.* `main.ts` does not await `reconcileOrphansAtBoot`: the runs of a server that died stay active
(`"orphan"`) until `ReconcileOrphan` ends them, and a round or a resume that comes first loses the unique
index to them.

`marks` is a history variable: which of the things happened that a property excepts (two rounds or two
attempts at once, a throw, an operator's move, a context left over, a lost answer, a restart and what
it tore apart). `left` bounds rounds by HTTP, human moves and restarts.

### The other services

*`Capacity`.* `canSpawn` reads the row and answers in one turn, or flips the circuit in a link of the
writer chain and counts afterwards; the run it admits is created after more awaits (`StartGated`).
`StartUngated` are the runs created without asking. A run's signal waits in `signals` for `observe`.

*`WorktreeLock`.* Each action is a system call of `acquireLock` or `releaseLock`; a process may die
between any two. The PID is written into the file that was opened, even if its name is gone by then.
`isPidAlive` takes every error of `kill(pid, 0)` for death, EPERM included: a process in `Foreign`, of
another user, is dead to those who look (`Alive`), and who takes its lock over marks the race.

*`Experiment`.* A commit is its history: the attempts it is made of. `branch` and `edited` are the one
checkout all loops work in, `ledger` the rows, `baseline`, `kept` and `attempt` the loop's variables. A step
is one call to git, to the agent, to the evaluation or to the database; `ReadSha` comes after the commit it
names and may fail without it; a reset that fails may have moved the branch, or not (`ResetFails`). A loop
in `Endless` has been given neither `max_iterations` nor an `until` that parses, which the route allows: it
has no last iteration of its own. `Climb` maps the ledger's rows and `baseline` to `KeepBest`. `strayed`
marks the loops that shared the checkout or had a reset fail.

*`Triggers`.* A fire reads its gates in the turn it is called in; its three links follow each other on
the chain with whatever else is queued. The clock counts minutes; a schedule is the set of minutes it
matches. `Cut` says that a fire has left no event (a failed write or a restart), `overlaps` that
another fire of its trigger was still on the chain.

*`ReviewPolicy`.* The finders of the tier answer in any order, each with nothing that parses or a list
of findings (at most one here); `Coordinate` is the fold over them in roster order. A finding is a key, a
severity and whether its confidence reaches 0.6.

## The runs

| Run | Instance | Checks | Result |
|---|---|---|---|
| `faults` | 1 task, 3 runs, 1 slot, 1 retry, 1 resume, 1 restart, every fault, operator cancels and requeues | `TypeOK`, `OneActiveRunPerTask`, `MergedIffDone`, `NoQueuedZombie`, `ReviewIsBacked`, `StrandedIsExplained` | holds, 1.4 million states |
| `board` | 2 tasks, the second waiting for the first and asked to `ready` behind a move, 2 runs, 1 slot, 1 retry, launches that throw, merges, withdrawals | `DependencyGate`, `SchedulerSlots`, `CodingAttended`, `BoardSpec` (refinement) | holds, 197 thousand states |
| `progress` | as `board`, without the dependency and the request; fair | `CodingEnds`, `StartedRunsEnd` | holds, 88 thousand states |
| `deps` | 3 tasks, 2 requests, 1 restart or 1 late POST to `ready`, symmetric in both | `TypeOK`, `AcyclicUnlessRaced`, `WalkDecides`, `GateUnlessLate`, `OpenedIsNoticed` | holds, 1.1 million states |
| `events` | a trigger for moves, a browser for everything, 3 writes (claims and releases of one row, and notes), 2 attempts, throws, buffers of 1, 1 restart or lost connection; fair | `TypeOK`, `LogInOrder`, `SkipsAreCounted`, `DeliverySpec` (refinement), `WritesSettle`, `EventReaches` | holds, 225 thousand states |
| `services` | the six services, each alone; see the bounds | `ServicesTypeOK`; of `ReviewMerge`: `MergedIsApproved`, `MergeIsRecorded`, `CoderOffApproved`, `ApprovedIsOnRecord`, `ReviewIsAttended`, `ForceNeedsRace`, `MergingEnds`; of `Capacity`: `GateKeepsCap`, `CooldownRefuses`; of `WorktreeLock`: `OneHolder`; of `Experiment`: `BranchIsKept`, `ClimbSpec` (refinement), `LoopEnds`; of `Triggers`: `FiresAreGated`, `OncePerMatch`; of `ReviewPolicy`: `VerdictIsTheRubric` | holds, 466 thousand states |
| `boot` | 1 task, 1 run, 1 restart | `BootRecovers` | violated (finding) |
| `resume` | 1 task, 2 runs, 1 resume, 1 restart | `ReviewAfterCoder` | violated (finding) |
| `triage` | 1 task, 2 runs | `TriageSparesLiveRun` | violated (finding) |
| `gate` | 2 tasks, the second waiting for the first and asked to `ready` | `ReadyWhenMerged` | violated (finding) |
| `cycle` | 2 tasks, 2 requests | `Acyclic` | violated (finding) |
| `lostevent` | 2 writes, 2 attempts, no readers, no restart | `EventOrThrow` | violated (finding) |

### Why the bounds are enough to be interesting

`MaxRuns`, `MaxResumes` and `MaxRestarts` bound the rows, the resumes and the crashes; they appear only in
the guards `FreshRuns`, `ReviseResume`/`HumanResume` and `Restart`. `faults` needs three runs: one that
fails or is lost, one that follows it, and a resumed one that meets either, with a restart between any two
steps. One task is enough for what it checks, since those properties speak of one task's rows. `board` has
one slot and two tasks so that two candidates compete for it (the second opens when the first is merged, or
when a request takes it past the gate), a run that ends frees the slot during a pass, and a task can be
withdrawn between the insert of its run and its claim; two runs let a retry or the second task follow.
`ReadyAsked` has one task: only one that waits for another has a gate to be taken past, and one request for
it is in flight at a time. `progress` gives the dependency and the request up for the cost of checking
liveness. In `deps` three tasks are the least that have an indirect way back (a cycle of three) and a shared
prerequisite, and two requests the least that race. `AskedIn` has the states in which a task is on its way
to backlog (`draft`, `failed`), and `Budget` pays for the restart and the late requests together: a restart
drops the requests in flight, and what it asks for itself asks for no more than a promotion does. In `events` three writes are the
least that overflow a buffer of one while another event is in the history or on the wire; one row with two
states, a claim and a release of it let a write lose to another one and to itself; with two attempts a write
can be retried in front of another and can also fail for good; the trigger's filter leaves the notes out;
and `MaxBreaks`, which bounds restarts and lost connections together, lets a browser come back once. The
real values (1024 events, 5 attempts) only make the same cases longer. The violating runs use the smallest
instance that shows the behaviour.

In `services` each part has an instance of its own. Review: two rounds and one commit, the fewest in which a
revise, a resume, a new head and an approval follow each other. `Budgets` lets a behaviour have one round by
HTTP (a third caller next to the boot pass and the tail), or one human move and one restart, or two human
moves (a force merge and what undoes it), or two restarts; the three kinds all together would only add
combinations of what each does. Capacity: a cap of two and three runs, so that the third is over the cap,
and two cooldowns, so that the circuit trips again while it recovers. Lock: three processes, one that dies
and two that take over its file, and one of another user. Experiments: two that share the checkout, one with
two iterations, so that a kept attempt is followed by each outcome, and one without a bound, which is
followed for one iteration (`MaxFollowed`: it then stays where it is); two metrics, one experiment
maximising and one minimising; one mishap. Triggers: one on a schedule with a delivery that repeats, two
minutes of clock, three fires, one failure. Policy: a small, a security and a larger diff, with a low or a
higher declared tier; two issues with three severities, sure or not; two reports, so that one issue is
raised twice; four verifiers and none.

`CHECK_DEADLOCK FALSE` is set because the system does stop: when every task is done or cancelled,
and, in a bounded model, when the runs or the writes are used up.

`CodingAttended` is checked without resumes, operator stops, forge errors and restarts, and the
liveness properties likewise: with them it does not hold, for the reasons the hazards name (a resume
does not take over `claimed_by`; a stop moves the run and leaves the task; an error in the completion is
logged and dropped; the boot overlooks terminal runs). It is promised by no document; what the boot
overlooks is finding `boot`. `faults`, which has all of these, checks two others instead.
`NoQueuedZombie`: a queued run that nobody has in hand has a session that outlived a restart.
`StrandedIsExplained`: as long as the server does not restart, a task is left `coding` for one of four
reasons (the completion of its succeeded run threw; an operator stopped the run, whose session lives on;
one of its runs was resumed; a human resumed a task without a session) and for no other.

### Fairness

`FairSpec` assumes weak fairness of what the process does by itself: the continuations of a spawn, a
resume, a revise verdict, a triage and a completion; the delivery of events to the two subscriptions;
and the budget sweep, which the poller runs on a timer for every started run and whose wall clock
runs out whatever the agent does. Nothing is assumed of the agent's hooks, the watchdog's verdict,
the grace after a Stop, the fill pass or any person, so `CodingEnds` and `StartedRunsEnd` say that an
agent that never reports again, or reports forever, cannot keep a task or a run.

`EventLog`'s `FairSpec` assumes that the first link of the chain is attempted (the promise chain and
the retry timer run by themselves; which way an attempt goes is open, the bound on attempts does the
rest), that a reader with something to take takes it (the triggers' loops and the server's pump are
awaited by nobody else; the browser's loop likewise) and that a browser reconnects (a 2 s timer).
Writes, restarts, lost connections and the triggers' subscriptions are not assumed to happen.

`MCServices` assumes it of the attempts to merge (`MergeContinues`: promises that go on by themselves), of the
hook (its loop over the log) and of a loop that has been dispatched (`LoopStep`). Nothing is assumed
of humans, operators, agents' commits, the forge's mood or restarts: `MergingEnds` excepts a restart, since a
task found `merging` at boot is on nobody's list, and `LoopEnds` does not. `LoopEnds` speaks of loops
outside `Endless`. Of the others `experiment/engine.ts:341-343` says that they "would never return", and
they do not: the route asks for no bound, and the only thing that ends such a loop is the end of the
process; a kill of its run moves the row and the loop goes on. `MergingEnds` speaks of a server whose merge
hook is enabled, which it is not by default: without it a task that a human has sent to `merging` stays
there.

## What is proved

For every set of tasks, every dependency relation, all limits and all bounds, from the named `ASSUME`s
of each module (the shapes of the constants). Four theorems about the loop and the merge have a
hypothesis besides, which is stated with them below and in the theorem: it is about what people may do,
and the property does not hold without it. TLC checks the properties of these theorems on a small
instance as well, in the runs above. Of five of the findings there is a diagnosis besides: a theorem
that names conditions under which what the documents say does hold, for every value of the constants,
so that a counterexample needs one of them to fail. TLC checked each diagnosis and its inductive
invariant on a small instance before it was proved.

* **`BoardInvariants`** (`BoardProofs`): `Board!Spec` keeps one active run per task, merge records for
  exactly the done tasks, and the dependency gate for the tasks that no move of their own has taken out of
  backlog (`jumped`). The three are inductive together with the types: the gate survives a promotion
  because promotions look at `merged`; it survives every other move because `merged` is never taken back
  (`done` has one way in and none out), and of the edges of the table only `backlog -> ready` leads past
  `backlog` from this side of it.
* **`TypeCorrect`** (`CoderLoopProofs`): `Spec => []TypeOK`. To be inductive `TypeOK` says that a spawn
  in flight holds a slot of its fill pass (`tick.free > 0`), or the decrement at the end of a spawn
  might leave the naturals.
* **`Refinement`**: `Spec => BoardSpec`. Every step of the loop, crashes, lost races and late requests to
  `ready` included, is one
  legal move, one insert, a set of promotions, or nothing on the rows. One lemma per group of actions;
  the guarded updates map to a move or to a stutter (`GuardedTask`, `GuardedRun`).
* **`BoardInvariantsHold`**: hence `OneActiveRunPerTask`, `MergedIffDone` and `DependencyGate` hold in
  the loop; **`OneRunAtATime`** and **`MergeRecordsAgree`** state the first two by themselves.
* **`GateHoldsForTheOthers`** (diagnosis of finding `gate`): the gate as the documents have it, without
  exception, holds of every task outside `ReadyAsked`, and if nobody asks, `ReadyWhenMerged` does: no
  claim, triage, requeue, resume, completion or restart gets a task past its prerequisites, and the late
  request only the task it names (`JumpedStep`).
* **`SlotsHold`**: `SchedulerSlots`. While a fill pass is on, the scheduler's active runs and the slots
  the pass has left are together no more than the limit (`SlotsInv`): the slot of the spawn in flight is
  still counted as free while its run already exists, so that run is left out of the sum until it is
  paid for, and nobody but the pass adds a run of the scheduler.
* **`QueuedRunsAreOwned`**: `NoQueuedZombie`. `RunInv` says which rows and sessions go with each step of
  a spawn and a resume: a run is queued in their hands, and every exit of their catches moves it or
  finds it moved; a queued run out of hand has a session that was up when the server went down.
* **`ReviewsAreBacked`**: `ReviewIsBacked`, if `ApiEdges` has no edge from `coding` to `review`. The API
  has that edge, and an operator who takes it puts a task under review that has no pull request.
  Otherwise the handoff of a completion is the only way in, and all a completion is about
  (`CompletionsBacked`: the calls, the events on their way, the boot's list) is a run that succeeded,
  which no row ever leaves.
* **`StrandedHasACause`**: `StrandedIsExplained`, if operators move no task into `coding` by hand. The
  invariant of the server's first life (`LoopInv`, `CodingCovered`) says that the latest run of a coding
  task is at work or its end is somebody's business (`TakenFurther`): its event is on its way to the
  completion or to triage, one of the two has it in a call, the budget sweep has yet to triage it, or
  the spawn that claimed the task is undoing it. That needs that runs are numbered as they are made
  (`LatestInv`), that `claimed_by` names the latest run until a resume (`ClaimInv`) and that a run of
  the scheduler keeps its session until the budget sweep kills it (`SessionKept`).
* **`CodingIsAttended`**: `CodingAttended` by the same invariant, under the same hypothesis and if
  nothing but launches throws, as long as nothing has been resumed or restarted, which is the instance
  of the run `board`.
* **`CoderIsLeftInPeace`** (diagnosis of findings `resume` and `triage`): until the first restart a
  task leaves `coding`, other than cancelled, only when no run of it is at work. Its conditions: of a
  coding task operators do nothing but cancel it and they move none to `coding`; no watchdog fails a run
  that the budget sweep is about to reap (`ReapWins`: else two triages of one run overlap); nobody
  else takes a task out of `review` while its coder is being resumed (`ReviseKeeps`). The invariant
  (`Peaceful`) says that what is in a buffer or a call about a run tells how the run ended (`Filed`)
  and that its end is reported once (`Once`), that a coding task with an active run has no end of an
  older run still to be dealt with (`Alone`), and that a resume has its task where it expects it
  (`InPlace`). **`DocumentsKeptUndisturbed`**: under the same conditions and without restarts
  `ReviewAfterCoder` and `TriageSparesLiveRun`, which the runs find violated, hold.
* **`BootRecoversWhatItReads`** (diagnosis of finding `boot`): however often the server ends,
  `BootRecovers` holds as long as nothing has been resumed, if operators move no task to `coding`,
  nothing but launches throws, and every restart finds the latest run of each coding task at work or
  succeeded (`RestartFindsRuns`). The invariant (`CodingRecovered`) carries the one of the first life
  over a restart: the boot has each run that was at work on its list of runs in doubt, gives it an end
  that is somebody's business or leaves it its session, and its completion pass picks up what had
  succeeded (`BootHas`). What it loses is what is left out: the runs that had failed or been killed
  before.
* **`NoCycleWithoutRace`, `GateHolds`, `NothingStalls`, `GraphTypeCorrect`** (`DependenciesProofs`):
  `AcyclicUnlessRaced`, `GateUnlessLate`, `OpenedIsNoticed` and `TypeOK` hold for any number of
  requests. For the first, the invariant says of the one addition in flight that it would close no
  cycle; it stays so because edges only disappear meanwhile (`AcyclicShrinks`, `WalkShrinks`), and the
  insert is safe because a set of tasks waiting for each other would lie within the set the walk stays
  in, or avoid it (`AcyclicGrows`). The second says that a prerequisite is unmerged past backlog only if it
  was added too late or a request whose check saw the task before backlog has passed it over.
* **`WalkFindsEveryWay`**: `WalkDecides`, for any tasks and edges. The walk is a recursive function; by
  induction its n-th generation holds what is reached in n steps, and until it is closed each generation
  adds a task, so that as many as there are tasks are enough (`Generations`, `WalkIsComplete`).
* **`LogTypeCorrect`, `LogStaysInOrder`, `EventsAreDelivered`** (`EventLogProofs`): `TypeOK`,
  `LogInOrder` and `Spec => DeliverySpec` for any readers, filters, buffer sizes, attempts, writes and
  breaks. The writer's half of the invariant (`WriterInOrder`) says that the links on the chain are in
  order and come after all that is logged. The reader's half (`OnTheWay`) says of every reader that what
  is on its way to it (the wire, then the history, then the buffer above the last yielded `seq`) is
  above its cursor, wanted and in order and, unless its buffer has overflowed, leaves out no event it
  wants up to the end of the log. The dedup keeps the order where history and buffer overlap; attaching
  before the snapshot keeps the gap away.
* **`DropsAreCounted`**: `SkipsAreCounted`. There is a set of at most `dropped()` events such that
  everything the reader wants between its start and the end of the log has reached it, is on its way or
  is in that set (`Counted`): only the push into a full buffer adds to it, and counts.
* **`AnswersHold`**: for any number of attempts, writes, throws and restarts, whose caller hears `done` has
  its event in the log and nobody else has; whose own update was committed hears `lost` only where writes
  are retried; and of the writes that still wait only the first in the chain, at a later attempt, may have
  moved its row (`Answered`). **`RacesAreLostToMoves`** says what is behind a `lost`: the row was elsewhere
  from the start, or an update that has been committed took it away, another writer's or, if the link has
  been tried before, its own. It rests on `RowsAreWritten`: each row is where it began or where one of the
  committed updates took it. **`MovesWithoutEvent`** (diagnosis of finding `lostevent`): a row that has
  moved without event or throw is either one that a retry has turned into a lost race or one whose write
  was cut off by a restart; with one attempt and no restart `EventOrThrow` holds.
* **`OnlyApprovedIsMerged`** (`ReviewMergeProofs`): `MergedIsApproved`. The invariant follows the sha:
  whatever an attempt holds, the cache holds or the forge has merged is on the thread with an approval,
  and the thread is never taken back; the merge request names the cached sha, so a head pushed meanwhile
  is refused.
* **`ReviewsAreAttended`**: `ReviewIsAttended`. Every way into `review` leaves a round due or in flight,
  and a round that ends without a throw has moved the task (`Covered`).
* **`ForcedMergeNeedsRace`**: `ForceNeedsRace`. A cached context belongs to an attempt between its
  preflight and its merge, or was left by one that lost its race (`ContextOwned`).
* **`ApprovedHasNoCoder`**: `CoderOffApproved`. Unless a mark says that rounds overlapped, the server
  restarted or the operator moved the task, a round in flight is the only one and finds the task in
  review (`RoundAlone`), and a coder or its completion is there only while the task is `coding`, or
  still in review with the round that resumed the coder about to send it back (`CoderPlaced`).
* **`ApprovalsAreOnRecord`**: `ApprovedIsOnRecord`. A round is one above the task's until it writes its
  number, and the thread has no row above that (`Recording`); so the key under which a verdict is
  recorded is taken by no earlier round, and the one that goes on to approve finds its own approval
  there.
* **`MergesAreRecorded`**: `MergeIsRecorded`, if `OperatorMoves` has no edge from `merging` to `done`:
  the API would let an operator declare a merge that never was. An undisturbed attempt holds the task in
  `approved` up to its move and in `merging` from there to the end (`HoldsTask`), so what the forge has
  merged has its confirmation coming or its `done` written.
* **`ReviewMergeOnBoard`**: every step of review and merge is a step of `Board` for the task, or none:
  whatever rounds, humans, attempts and restarts interleave, the task moves along edges of its state
  machine, and its merge record comes with `done`. `OperatorMoves` may be any
  of them: the one task has no prerequisites here, so that the route's late check and the gate are no matter.
* **`EnvironmentKeepsOut`**: what `CoderLoop` and `ReviewMerge` expect of each other. Review and merge
  take a task from `coding` to `review`, or to `coding`, only where `CoderLoop` has a step of its own
  (the end of a completion, a revise verdict, a human's resume); all their other moves are edges that
  `CoderLoop` leaves to `ApiEdges`. So the hypotheses `NoApiReview` and `NoApiCoding` above exclude
  operators and nobody else.
* **`CooldownsRefuse`**, **`CapIsKept`** (`ServicesProofs`): `CooldownRefuses`, `GateKeepsCap`. The
  second says of the gate between its count and its run that there is still room: only the gate adds
  gated runs, and there is one fill pass.
* **`LockHasOneHolder`**: `OneHolder`, for any processes. Unless a takeover raced or met a process of another
  user, who is between the
  create and the release owns the file, and who unlinks has found a dead PID in it.
* **`SchedulesFireOncePerMatch`**, **`GatesHold`**, **`TriggersTypeCorrect`**: `OncePerMatch`,
  `FiresAreGated` and the types, for any triggers, schedules, windows, rates and lengths of the clock.
  The links of an earlier fire are ahead of a later one's, in their stage or in the chain (`InTurn`), so
  events come in the order in which fires were accepted, and a fire that overlaps none finds all earlier
  ones logged or cut off. For the scheduler: a fire is stamped by the time it has its event (`Served`),
  the tick waits for its own, and what is on the tick's list has had a match since the scheduler last
  fired it (`Matched`). For the gates: an accepted key was last seen a window ago (`Deduped`), and a
  burst is within the rate now and at every later minute (`WithinRate`).
* **`VerdictHolds`**, **`ReviewPolicyTypeCorrect`**: `VerdictIsTheRubric` and the types, for any diffs,
  any findings and any verifier. `coordinate` is three folds. Each is turned into a path from the empty
  sequence, one element per step (`UnionSteps`, `DedupSteps`, `VerifySteps`, from `FoldExists` and
  `FoldSteps`), and an induction along it says what it makes: the union has what the roster reported;
  the merged findings sum up what was raised, one for each issue with its highest severity and sure if
  ever raised surely (`Sums`); the verifier leaves a blocking one exactly if it kept and did not soften
  it, or was not asked (`Judges`). `RubricDecides` puts them together; the invariant (`RoundInv`) adds
  that the outcome was computed from the answers of the whole roster.
* **`LoopKeepsBest`** (`ExperimentProofs`): `ExperimentSpec => ClimbSpec`, for any experiments (with a bound
  or without), metrics and mishaps. The invariant (`ExpInv`) keeps the row, the baseline and the attempt of
  a loop at work in step: who keeps has a metric that improves on the baseline, who discards one that does
  not.
* **`BranchHoldsKept`**: `BranchIsKept`. `KeptInv` adds that nobody is ahead of what was begun
  (`NothingAhead`: no commit holds an attempt that no loop has made) and, of a loop that has the
  checkout to itself and whose resets worked, where the branch is at each of its steps: at the last kept
  commit with a clean tree, at the new commit on top of it, or on its way back.
* **`ReviewMergeTypeCorrect`**, **`CapacityTypeCorrect`**, **`LockTypeCorrect`**,
  **`ExperimentTypeCorrect`**: the type invariants.
* **`ServicesKeepTheirSpecs`**: the six services side by side, as the run `services` checks them, are each
  a behaviour of its own specification, because a step of one leaves the variables of the others alone;
  so all the theorems about a service hold of the composition. **`ServicesTypeCorrect`**:
  `ServicesTypeOK`, from it and the types of each.

`Induction`. The library's induction theorems take a predicate as a parameter, which none of the provers
can be given. They can be given a set: that every set of numbers has a least element (`LeastNat`, from
the library's theorem that the natural numbers are well founded) yields induction over the members of a
set (`SetInduction`), and with it iteration (`Iteration`) and recursion over the subsets of a finite set
(`SetRecursion`), which is how the folds of the community modules are defined. So what the recursive
definitions of these modules compute is proved and not only checked.

Only model-checked: the liveness properties (`CodingEnds`, `StartedRunsEnd`, `WritesSettle`,
`EventReaches`, `MergingEnds`, `LoopEnds`), because liveness under fairness is out of the prover's
reach. Every invariant and every refinement of a passing run is the property of a theorem.

## Where code and documents part

1. **`boot`**: a run that has failed or been killed but whose triage had not moved the task when the
   process died is terminal, so `reconcileOrphansAtBoot` does not see it and its event is not
   replayed: the task stays `coding` for ever. Where launches are all that throws and nothing is resumed,
   it is those runs alone that are lost (`BootRecoversWhatItReads`).
2. **`resume`**: the completion trigger's boot query takes any succeeded run of a coding task; after
   a human resume that is an old one, and the task goes to review under its live session. Without a
   restart that takes an operator or another of the races that `CoderIsLeftInPeace` excludes.
3. **`triage`**: the supersession check reads `claimed_by` before three awaits. Two triages of one
   run overlap when a budget kill finds it failed by the watchdog; the later one moves a task that
   has been requeued and reclaimed. (Overlapping triages also read the same count of attempts.)
   Without that overlap (`ReapWins`) and the other conditions of `CoderIsLeftInPeace` it cannot happen.
4. **`gate`**: `docs/SPEC-STATE-MACHINES.md:25` opens a task when all its prerequisites have a `merge_sha`,
   and the transition route says that this edge is "not invokable here" (`server/routes.ts:470`). It looks
   at a row read outside the writer link; a POST to `ready` without `expected_from` that saw the task in
   `draft`, or in `failed`, and runs behind the promotion or demotion queued before it takes `backlog ->
   ready`. `GateHoldsForTheOthers`: nothing else in the loop does. (A request that names `expected_from` is
   refused, by the table or by the check.)
5. **`cycle`**: two additions whose checks both run before either insert are both accepted.
6. **`lostevent`**: a busy error between a transition's update and its event is retried as a whole;
   the retry's guarded update finds no row, so the caller hears of a lost race, the row has moved,
   and there is neither an event nor a throw. `MovesWithoutEvent`: only then, or when a restart cuts
   the write off.

### Also met while modelling

No run of its own shows these; the models do what the code does.

* `docs/SPEC-STATE-MACHINES.md:38` has running runs killed when their task is cancelled: the transition
  route and the reject verdict move the task only; its agent works on, keeps its slot and may succeed.
* A round that starts at boot before `reconcileOrphansAtBoot` has ended the reviewer's run of the last
  server (`server/main.ts:184` does not wait for it) loses the unique index to that run and throws; the task
  stays in review, like after any other throw (`ReviewIsAttended` excepts it).
* An experiment with neither `max_iterations` nor an `until` that parses never ends (`LoopEnds`, above).
* `worktree/lock.ts:56-63` takes a live process of another user for a dead one (`Foreign`). The server
  itself asks for no branch that another one holds, so that its worktrees seldom meet on one lock.

* `orchestrator/autoMergeWiring.ts:251` calls the hook tail-only; its subscription gives no sequence
  number, so every start replays the history, force merges of old included (`HookForced`).
* A force merge calls the merge without a preflight, and the merge throws for want of a context unless
  another attempt has left one: the human's decision ends in `needs_human` (`ForceNeedsRace`).
* `runs.head_sha` is written by nobody, so the merge's cross-check against it never has anything to compare.
* `runs/liveSpawn.ts:423` says the engine escalates when a reviewer cannot be run; the throw goes past
  the engine to the trigger, which logs it, and the task stays in review (`ReviewIsAttended` excepts it).
* `providers/capacity.ts`: the overflow to `api_key` needs a closed circuit in a cooldown, which never
  occurs (`CooldownRefuses`); an `ok` of an old run closes a half-open circuit; a circuit tripped again
  between a gate's read and its flip lets a probe through in the cooldown (`flipRaced`).
* Experiments: before the first keep a crash or discard resets to HEAD, which is the rejected commit, so the
  branch has advanced, against `experiment/engine.ts:224`; a discard whose reset throws leaves no ledger
  row, against the "exactly one" of the same line; fail-closed dependencies end the run succeeded, against
  `orchestrator/experimentDispatcher.ts:11-15`; the loop of a stopped run goes on.
* Triggers: `docs/SPEC-STATE-MACHINES.md:118` has no catch-up on missed cron windows, but a missed match is
  made up for once, and a new schedule fires at once (`triggers/cron.ts:200-201` searches from 1970);
  a throw drops the rest of a tick, against `triggers/triggers.ts:405-406`; only the scheduler's list looks
  at `enabled`, a webhook, a chat or a person fires a disabled trigger.
* `review/riskTier.ts:16-17` says lockfiles cannot inflate the size; every changed line counts.

## Plan

What is left, in order of importance:

1. `ReviewMerge` composed with `CoderLoop` in one module. Its steps are proved to be steps of the board
   and to meet what `CoderLoop` assumes; a full simulation needs more of both: `CoderLoop` has one revise
   verdict in flight per task where `ReviewMerge` has three callers of rounds, and the runs that
   `ReviewMerge` forgets need a history variable.
2. `BootRecovers` with resumes and failing stops, and `StrandedIsExplained` past the first restart: the
   account that `CodingRecovered` gives of the boot, with the causes that a resume and a stop add.
3. An abstract specification of the lock and of the gate, each shown to be implemented.
4. Plan review, which is a round without a forge.

## Not modelled

* Notifications, digests and the cadence of `agentsMd` read the log and write text. Analytics, config,
  egress, maintenance, memory, planner, auth and the terminal bridge are queries, parsing and host
  configuration: sequential code that writes no row the protocol reads.
* Preview: the manager behind the routes has a deployer that refuses everything, and the reaper started
  at boot has another manager, which is empty. Neither has a reachable state to speak of.
* `providers/failback.ts` is called by nobody, `scheduler/workers.ts` asked by nobody: a model of either
  would be of a program that does not run.
* Provider adapters build command lines and parse output.
* The web client (but for its event stream) and `ui-reference/` render.

These are most of the repository's lines (user interface, configuration registries, text); they have
no states that a model could tell apart, so the modules map the minority of lines in which the protocol lives.
