---------------------------- MODULE ReviewMerge ----------------------------
(***************************************************************************)
(* From the first pull request of a task to its merge: review rounds       *)
(* (src/orchestrator/review.ts, harnessReview.ts) started by the boot      *)
(* pass, the event tail or an HTTP request, the human verdict, the resumed *)
(* coder (src/runs/liveSpawn.ts), and the auto merge with its hook         *)
(* (autoMerge.ts, autoMergeWiring.ts) against a forge that others push to. *)
(*                                                                         *)
(* One task: rounds, runs and the merge context are all keyed by its id.   *)
(* The coder's own run is CoderLoop's; here it commits, ends and is handed *)
(* off.  A commit is a number, 1 the one a worktree is cut from.           *)
(***************************************************************************)
EXTENDS Lifecycle, Naturals, Sequences, FiniteSets

CONSTANTS
    MaxReviewRounds,   \* config.review.maxRounds
    RepairRetries,     \* DEFAULT_REPAIR_RETRIES
    Reviews,           \* review modes: "judge" or "harness" (specialistHarness)
    OperatorMoves,     \* edges POST /tasks/:id/transition takes
    ReviewFaults,      \* "git", "reviewer", "launch", "answer": what may fail
    MaxCommits,        \* bound on the coder's commits
    Budgets            \* bounds on rounds by HTTP, moves of humans and restarts;
                       \* a behaviour keeps to one of them

ASSUME ReviewMergeAssumption ==
    /\ MaxReviewRounds \in Nat \ {0} /\ RepairRetries \in Nat
    /\ Reviews \subseteq {"judge", "harness"}
    /\ OperatorMoves \subseteq TaskEdges
    /\ ReviewFaults \subseteq {"git", "reviewer", "launch", "answer"}
    /\ MaxCommits \in Nat
    /\ Budgets \subseteq [{"http", "human", "restart"} -> Nat]

NoSha == 0
Sha == 1 .. MaxCommits + 1

RoundCallers == {"boot", "tail", "http"}
Callers == RoundCallers \cup {"human"}
MergeCallers == {"boot", "tail"}

VARIABLES
    mode,         \* which kind of review is configured
    column,       \* tasks.state
    round,        \* tasks.round
    head,         \* HEAD of the latest coder worktree
    commits,      \* commits made so far
    activeRun,    \* the task's active run: its kind, a queued one never launched, or
                  \* one whose server died
    completion,   \* completeCoderRun of the coder run that succeeded
    calls,        \* rounds and human verdicts in flight
    due,          \* rounds the boot pass and the tail still have to start
    thread,       \* verdict events of the task's thread
    prHead,       \* the pull request's head at the forge
    forgeMerged,  \* the head the forge has merged
    merges,       \* merge attempts in flight
    ctxCache,     \* makeAutoMergeDeps' cached context: the approved sha
    moves,        \* the task's moves the hook is told of, all since the beginning
    hookAt,       \* how many of them the hook has handled
    mergeBoot,    \* the hook's boot pass has the task on its list
    marks,        \* history: what has happened that the properties except
    left          \* what is left of the budget

work == <<head, commits, activeRun, completion>>
reviewing == <<calls, due, thread, round>>
forge == <<prHead, forgeMerged>>
merging == <<merges, ctxCache, hookAt, mergeBoot>>
reviewMergeVars ==
    <<mode, column, moves, work, reviewing, forge, merging, marks, left>>

CallIdle == [pc |-> "idle", round |-> 0, sha |-> NoSha, verdict |-> "none", tries |-> 0]
MergeIdle == [pc |-> "idle", sha |-> NoSha]

ReviewMergeInit ==
    /\ mode \in Reviews
    /\ column = "coding" /\ round = 0
    /\ head = 1 /\ commits = 0 /\ activeRun = "coder" /\ completion = "idle"
    /\ calls = [c \in Callers |-> CallIdle]
    /\ due = [boot |-> 0, tail |-> 0]
    /\ thread = <<>>
    /\ prHead = NoSha /\ forgeMerged = NoSha
    /\ merges = [m \in MergeCallers |-> MergeIdle]
    /\ ctxCache = NoSha /\ moves = <<>> /\ hookAt = 0 /\ mergeBoot = FALSE
    /\ marks = {} /\ left \in Budgets

----------------------------------------------------------------------------
(* Guarded moves of the task, and what subscribers hear of them *)

Wins(from, to) == column = from /\ <<from, to>> \in TaskEdges

\* The hook cares for approved, and for merging when auto_merge is not the actor.
Heard(to, actor) ==
    IF to = "approved" THEN Append(moves, "approved")
    ELSE IF to = "merging" /\ actor # "auto_merge" THEN Append(moves, "forced")
    ELSE moves

Shift(from, to, actor) ==
    /\ column' = IF Wins(from, to) THEN to ELSE column
    /\ moves' = IF Wins(from, to) THEN Heard(to, actor) ELSE moves

Stay == UNCHANGED <<column, moves>>

Call(c, rec) == calls' = [calls EXCEPT ![c] = rec]
At(c, pc) == [calls[c] EXCEPT !.pc = pc]
Mark(m) == marks' = marks \cup m
Spend(k) == left[k] > 0 /\ left' = [left EXCEPT ![k] = @ - 1]

----------------------------------------------------------------------------
(* The coder, as the review sees it *)

\* Only a launched coder commits.
Commit ==
    /\ activeRun = "coder" /\ commits < MaxCommits
    /\ commits' = commits + 1
    /\ head' = commits + 2
    /\ Stay /\ UNCHANGED <<mode, activeRun, completion, reviewing, forge, merging, marks,
                           left>>

\* mutant: the completion begins while the run is still active
CoderEndsEarly ==
    /\ activeRun = "coder" /\ completion = "idle"
    /\ activeRun' = "coder"
    /\ completion' = "due"
    /\ Mark({"succeeded"})
    /\ Stay /\ UNCHANGED <<mode, head, commits, reviewing, forge, merging, left>>

CoderEnds ==
    /\ activeRun = "coder" /\ completion = "idle"
    /\ activeRun' = "none"
    /\ completion' = "due"
    /\ Mark({"succeeded"})
    /\ Stay /\ UNCHANGED <<mode, head, commits, reviewing, forge, merging, left>>

\* completeCoderRun pushes and opens the PR without looking at the task ...
PushHead ==
    /\ completion = "due"
    /\ prHead' = IF forgeMerged = NoSha THEN head ELSE prHead
    /\ completion' = "pushed"
    /\ Stay /\ UNCHANGED <<mode, head, commits, activeRun, reviewing, forgeMerged, merging,
                           marks, left>>

\* ... then hands it to the review; or a gate parks it before the push.
HandOff ==
    /\ completion = "pushed"
    /\ Shift("coding", "review", "orchestrator")
    /\ due' = IF Wins("coding", "review") THEN [due EXCEPT !.tail = @ + 1] ELSE due
    /\ completion' = "idle"
    /\ UNCHANGED <<mode, head, commits, activeRun, calls, thread, round, forge, merging,
                   marks, left>>

ParkTask ==
    /\ completion = "due"
    /\ Shift("coding", "needs_human", "orchestrator")
    /\ completion' = "idle"
    /\ UNCHANGED <<mode, head, commits, activeRun, reviewing, forge, merging, marks, left>>

----------------------------------------------------------------------------
(* A review round *)

RoundsInFlight == {c \in RoundCallers : calls[c].pc # "idle"}

\* The boot pass and the tail take what is due, HTTP asks when it likes.
Asks(c) ==
    IF c = "http" THEN Spend("http") /\ due' = due
    ELSE due[c] > 0 /\ due' = [due EXCEPT ![c] = @ - 1] /\ UNCHANGED left

\* runReviewRound up to its first await; a task not in review ends it.
StartRound(c) ==
    /\ calls[c].pc = "idle" /\ Asks(c)
    /\ IF column = "review"
         THEN /\ Call(c, [CallIdle EXCEPT !.pc = "diff", !.round = round + 1])
              /\ Mark(IF RoundsInFlight # {} THEN {"overlap"} ELSE {})
         ELSE UNCHANGED <<calls, marks>>
    /\ Stay /\ UNCHANGED <<mode, work, thread, round, forge, merging>>

\* A throw out of the round is logged by its caller and changes nothing.
RoundThrows(c) ==
    /\ Call(c, CallIdle)
    /\ Mark({"threw"})

RoundStep(c) ==
    Stay /\ UNCHANGED <<mode, head, commits, completion, due, thread, round, forge, merging,
                        left>>

GetDiff(c) ==
    /\ calls[c].pc = "diff"
    /\ \/ Call(c, [At(c, "review") EXCEPT !.sha = head]) /\ UNCHANGED marks
       \/ "git" \in ReviewFaults /\ RoundThrows(c)
    /\ RoundStep(c) /\ UNCHANGED activeRun

\* makeRunReviewer: createRun throws when the task has an active run.  In a
\* tournament the challenger's createRun always does and the primary goes on.
OpenReviewer(c) ==
    /\ calls[c].pc = "review" /\ mode = "judge"
    /\ IF activeRun = "none"
         THEN activeRun' = "reviewer" /\ Call(c, At(c, "reading")) /\ UNCHANGED marks
         ELSE activeRun' = activeRun /\ RoundThrows(c)
    /\ RoundStep(c)

\* The verdict is bound to the sha the diff was taken at.
Judged(c, v) ==
    IF head = calls[c].sha THEN [At(c, "record") EXCEPT !.verdict = v] ELSE At(c, "escalate")

\* The one-shot ends: it throws, its output is a verdict, or it cannot be parsed
\* and the engine asks again, RepairRetries times.  Without the head there is no
\* end of the run either: its row stays running.
CloseReviewer(c) ==
    /\ calls[c].pc = "reading"
    /\ \/ "git" \in ReviewFaults /\ RoundThrows(c) /\ UNCHANGED activeRun
       \/ /\ activeRun' = IF activeRun = "reviewer" THEN "none" ELSE activeRun
          /\ \/ "reviewer" \in ReviewFaults /\ RoundThrows(c)
             \/ /\ \/ \E v \in {"approved", "revise"} : Call(c, Judged(c, v))
                   \/ Call(c, IF calls[c].tries < RepairRetries
                                THEN [At(c, "review") EXCEPT !.tries = @ + 1]
                                ELSE At(c, "escalate"))
                /\ UNCHANGED marks
    /\ RoundStep(c)

\* runReviewHarness: no run rows and no second look at the head; it throws
\* towards a human, and no evidence at all is a revise.
HarnessVerdict(c) ==
    /\ calls[c].pc = "review" /\ mode = "harness"
    /\ \/ \E v \in {"approved", "revise"} : Call(c, [At(c, "record") EXCEPT !.verdict = v])
       \/ Call(c, At(c, "escalate"))
    /\ RoundStep(c) /\ UNCHANGED <<activeRun, marks>>

\* mutant: the idempotency key leaves out the round
OnThreadBySha(r, s) == \E i \in DOMAIN thread : thread[i].sha = s

\* idempotencyKey verdict:task:round:sha
OnThread(r, s) == \E i \in DOMAIN thread : thread[i].round = r /\ thread[i].sha = s

\* Findings, resolutions, then the verdict event: an existing row is returned
\* as it is, whatever it says.
RecordVerdict(c) ==
    /\ calls[c].pc = "record"
    /\ thread' = IF OnThread(calls[c].round, calls[c].sha) THEN thread
                 ELSE Append(thread, [round |-> calls[c].round, sha |-> calls[c].sha,
                                      verdict |-> calls[c].verdict])
    /\ Call(c, At(c, "bump"))
    /\ Stay /\ UNCHANGED <<mode, work, due, round, forge, merging, marks, left>>

\* setTaskRound, unguarded.
BumpRound(c) ==
    /\ calls[c].pc = "bump"
    /\ round' = calls[c].round
    /\ Call(c, At(c, IF calls[c].verdict = "approved" THEN "approve"
                     ELSE IF calls[c].round < MaxReviewRounds THEN "resume" ELSE "escalate"))
    /\ Stay /\ UNCHANGED <<mode, work, due, thread, forge, merging, marks, left>>

\* The round's last move, pinned to review; a lost race is only reported.
EndRound(c, pc, to) ==
    /\ calls[c].pc = pc
    /\ Shift("review", to, "review_orchestrator")
    /\ Call(c, CallIdle)
    /\ UNCHANGED <<mode, work, due, thread, round, forge, merging, marks, left>>

Approve(c) == EndRound(c, "approve", "approved")
Escalate(c) == EndRound(c, "escalate", "needs_human")
SendBack(c) == EndRound(c, "sendback", "coding")

\* resumeCoder: the run row first; no session or an active run throws.
CreateResumed(c) ==
    /\ calls[c].pc = "resume"
    /\ IF activeRun = "none"
         THEN activeRun' = "queued" /\ Call(c, At(c, "launch")) /\ UNCHANGED marks
         ELSE activeRun' = activeRun /\ RoundThrows(c)
    /\ RoundStep(c)

\* spawnRun cuts a new worktree and launches; nobody catches its throw, and the
\* queued run stays.
LaunchResumed(c) ==
    /\ calls[c].pc = "launch"
    /\ IF activeRun = "queued"
         THEN \/ /\ activeRun' = "coder" /\ head' = 1
                 /\ Call(c, IF c = "human" THEN CallIdle ELSE At(c, "sendback"))
                 /\ UNCHANGED marks
              \/ "launch" \in ReviewFaults /\ RoundThrows(c) /\ UNCHANGED <<activeRun, head>>
         ELSE RoundThrows(c) /\ UNCHANGED <<activeRun, head>>
    /\ Stay /\ UNCHANGED <<mode, commits, completion, due, thread, round, forge, merging,
                           left>>

----------------------------------------------------------------------------
(* The human verdict and the operator *)

\* applyHumanVerdict reads the task, then notes the decision on the thread.
HumanVerdict(decision) ==
    /\ column = "needs_human" /\ calls["human"].pc = "idle"
    /\ Spend("human")
    /\ Call("human", [CallIdle EXCEPT !.pc = decision])
    /\ Stay /\ UNCHANGED <<mode, work, due, thread, round, forge, merging, marks>>

HumanMove(decision, to) ==
    /\ calls["human"].pc = decision
    /\ Shift("needs_human", to, "human")
    /\ Call("human", IF decision = "resume_coding" /\ Wins("needs_human", to)
                       THEN At("human", "resume") ELSE CallIdle)
    /\ UNCHANGED <<mode, work, due, thread, round, forge, merging, marks, left>>

OperatorMove(from, to) ==
    /\ <<from, to>> \in OperatorMoves /\ column = from
    /\ Spend("human")
    /\ Shift(from, to, "human")
    /\ due' = IF to = "review" THEN [due EXCEPT !.tail = @ + 1] ELSE due
    /\ Mark({"operator"})
    /\ UNCHANGED <<mode, work, calls, thread, round, forge, merging>>

----------------------------------------------------------------------------
(* The auto merge *)

Approvals == {i \in DOMAIN thread : thread[i].verdict = "approved"}

\* latestApprovedSha: the newest approving verdict event.
LatestApproved(sha) ==
    \/ sha = NoSha /\ Approvals = {}
    \/ \E i \in Approvals : thread[i].sha = sha /\ \A j \in Approvals : j <= i

Attempt(m, rec) == merges' = [merges EXCEPT ![m] = rec]
MergeAt(m, pc) == [merges[m] EXCEPT !.pc = pc]

\* What tryAutoMerge does next with the context it has resolved.
Resolved(m, sha) ==
    /\ LatestApproved(sha)
    /\ Attempt(m, [pc |-> IF sha = NoSha THEN "block" ELSE "preflight", sha |-> sha])
    /\ Mark(IF \E k \in MergeCallers : merges[k].pc # "idle" THEN {"merges"} ELSE {})

\* mutant: the context is cached before the preflight has passed
TryCaching(m) ==
    IF column # "approved" THEN UNCHANGED <<merges, ctxCache, marks>>
    ELSE \E sha \in Sha \cup {NoSha} : Resolved(m, sha) /\ ctxCache' = sha

\* tryAutoMerge and preflight up to the first request: the context is resolved
\* and the cached one deleted.
TryAutoMerge(m) ==
    IF column # "approved" THEN UNCHANGED <<merges, ctxCache, marks>>
    ELSE \E sha \in Sha \cup {NoSha} : Resolved(m, sha) /\ ctxCache' = NoSha

MergeOnBoot ==
    /\ mergeBoot /\ merges["boot"].pc = "idle"
    /\ mergeBoot' = FALSE
    /\ TryAutoMerge("boot")
    /\ Stay /\ UNCHANGED <<mode, work, reviewing, forge, hookAt, left>>

\* The subscription, from the first event of the log on, one event at a time.
HookApproved ==
    /\ hookAt < Len(moves) /\ moves[hookAt + 1] = "approved" /\ merges["tail"].pc = "idle"
    /\ hookAt' = hookAt + 1
    /\ TryAutoMerge("tail")
    /\ Stay /\ UNCHANGED <<mode, work, reviewing, forge, mergeBoot, left>>

\* A human's merging, read or replayed: the merge is called without a preflight
\* and whatever the task's state is by now.
HookForced ==
    /\ hookAt < Len(moves) /\ moves[hookAt + 1] = "forced" /\ merges["tail"].pc = "idle"
    /\ hookAt' = hookAt + 1
    /\ Attempt("tail", [MergeIdle EXCEPT !.pc = "force"])
    /\ Mark(IF merges["boot"].pc # "idle" THEN {"merges"} ELSE {})
    /\ Stay /\ UNCHANGED <<mode, work, reviewing, forge, ctxCache, mergeBoot, left>>

MergeStep == UNCHANGED <<mode, work, reviewing, hookAt, mergeBoot, left>>

\* A pass needs the live head to be the approved one; a context that passed is
\* cached.  Anything else the forge says blocks.
Preflight(m) ==
    /\ merges[m].pc = "preflight"
    /\ \/ /\ prHead = merges[m].sha /\ forgeMerged = NoSha
          /\ ctxCache' = merges[m].sha
          /\ Attempt(m, MergeAt(m, "enter"))
       \/ ctxCache' = ctxCache /\ Attempt(m, MergeAt(m, "block"))
    /\ Stay /\ MergeStep /\ UNCHANGED <<forge, marks>>

\* approved -> merging; a lost race ends the attempt and leaves the cached context.
EnterMerging(m) ==
    /\ merges[m].pc = "enter"
    /\ Shift("approved", "merging", "auto_merge")
    /\ IF column = "approved" THEN Attempt(m, MergeAt(m, "merge")) /\ UNCHANGED marks
                              ELSE Attempt(m, MergeIdle) /\ Mark({"left over"})
    /\ MergeStep /\ UNCHANGED <<forge, ctxCache>>

\* A blocked task goes through merging to needs_human.
Block(m) ==
    /\ merges[m].pc = "block"
    /\ Shift("approved", "merging", "auto_merge")
    /\ Attempt(m, IF column = "approved" THEN MergeAt(m, "park") ELSE MergeIdle)
    /\ MergeStep /\ UNCHANGED <<forge, ctxCache, marks>>

\* mutant: the merge request names no sha
AcceptsAnyHead == ctxCache # NoSha /\ forgeMerged = NoSha

\* PUT merge with sha = approvedSha: the forge answers 409 for any other head.
Accepts == ctxCache # NoSha /\ prHead = ctxCache /\ forgeMerged = NoSha

\* The cached context is taken; without one the call throws.  A refusal and a
\* lost answer are the same throw.
CallMerge(m) ==
    /\ merges[m].pc \in {"merge", "force"}
    /\ ctxCache' = NoSha
    /\ \/ Attempt(m, MergeAt(m, "park")) /\ UNCHANGED <<forge, marks>>
       \/ /\ Accepts
          /\ forgeMerged' = prHead
          /\ \/ Attempt(m, MergeAt(m, "confirm"))
                /\ Mark(IF merges[m].pc = "force" THEN {"forced"} ELSE {})
             \/ "answer" \in ReviewFaults /\ Attempt(m, MergeAt(m, "park"))
                /\ Mark({"lost answer"})
          /\ UNCHANGED prHead
    /\ Stay /\ MergeStep

\* mutant: nobody parks the task when the merge throws
ParkNothing(m) ==
    /\ merges[m].pc = "park"
    /\ Attempt(m, MergeIdle)
    /\ Stay /\ MergeStep /\ UNCHANGED <<forge, ctxCache, marks>>

Park(m) ==
    /\ merges[m].pc = "park"
    /\ Shift("merging", "needs_human", "auto_merge")
    /\ Attempt(m, MergeIdle)
    /\ MergeStep /\ UNCHANGED <<forge, ctxCache, marks>>

\* mutant: the merge of a task that is still approved is confirmed
ConfirmApproved(m) ==
    /\ merges[m].pc = "confirm"
    /\ Shift("approved", "done", "forge_merge")
    /\ Attempt(m, MergeIdle)
    /\ MergeStep /\ UNCHANGED <<forge, ctxCache, marks>>

\* confirmMergeAndUnblock
Confirm(m) ==
    /\ merges[m].pc = "confirm"
    /\ Shift("merging", "done", "forge_merge")
    /\ Attempt(m, MergeIdle)
    /\ MergeStep /\ UNCHANGED <<forge, ctxCache, marks>>

----------------------------------------------------------------------------
(* A restart *)

\* What the restart tears apart: a verdict on the thread and its round number, a
\* merge at the forge and its record.
Torn ==
    {w \in {"round", "merge"} :
        \/ w = "round" /\ \E c \in RoundCallers : calls[c].pc = "bump"
        \/ w = "merge" /\ \E m \in MergeCallers : merges[m].pc = "confirm"}

\* mutant: the boot pass lists nothing
NoBootRounds == 0

\* listTasksInReview
BootRounds == IF column = "review" THEN 1 ELSE 0

\* Calls, subscriptions and the cached context are gone; the coder's session
\* lives on, of reviewer and queued runs only the row is left.  The boot passes
\* list the tasks in review and approved, the boot query a succeeded run of a
\* coding one; the hook starts at the first event again.
ReviewRestart ==
    /\ Spend("restart")
    /\ calls' = [c \in Callers |-> CallIdle]
    /\ due' = [boot |-> BootRounds, tail |-> 0]
    /\ merges' = [m \in MergeCallers |-> MergeIdle]
    /\ ctxCache' = NoSha
    /\ hookAt' = 0
    /\ mergeBoot' = (column = "approved")
    /\ activeRun' = IF activeRun \in {"none", "coder"} THEN activeRun ELSE "orphan"
    /\ completion' = IF "succeeded" \in marks /\ column = "coding" THEN "due" ELSE "idle"
    /\ Mark({"restart"} \cup Torn)
    /\ Stay /\ UNCHANGED <<mode, head, commits, thread, round, forge>>

\* reconcileOrphansAtBoot comes to the row: the boot does not wait for it, so that
\* a round may ask for its run before.  A coding task fails with the run.
ReconcileOrphan ==
    /\ activeRun = "orphan"
    /\ activeRun' = "none"
    /\ Shift("coding", "failed", "boot_reconcile")
    /\ UNCHANGED <<mode, head, commits, completion, reviewing, forge, merging, marks, left>>

----------------------------------------------------------------------------

Coder == Commit \/ CoderEnds \/ PushHead \/ HandOff \/ ParkTask

Continue(c) ==
    \/ GetDiff(c) \/ OpenReviewer(c) \/ CloseReviewer(c) \/ HarnessVerdict(c)
    \/ RecordVerdict(c) \/ BumpRound(c) \/ Approve(c) \/ SendBack(c) \/ Escalate(c)

Resumes(c) == CreateResumed(c) \/ LaunchResumed(c)

Human ==
    \/ \E d \in {"resume_coding", "force_merge", "reject"} : HumanVerdict(d)
    \/ HumanMove("resume_coding", "coding") \/ HumanMove("force_merge", "merging")
    \/ HumanMove("reject", "cancelled")
    \/ \E e \in OperatorMoves : OperatorMove(e[1], e[2])

MergeContinues(m) ==
    Preflight(m) \/ EnterMerging(m) \/ Block(m) \/ CallMerge(m) \/ Park(m) \/ Confirm(m)

Hook == MergeOnBoot \/ HookApproved \/ HookForced

ReviewMergeNext ==
    \/ Coder
    \/ \E c \in RoundCallers : StartRound(c) \/ Continue(c)
    \/ \E c \in Callers : Resumes(c)
    \/ Human
    \/ Hook
    \/ \E m \in MergeCallers : MergeContinues(m)
    \/ ReviewRestart \/ ReconcileOrphan

ReviewMergeSpec == ReviewMergeInit /\ [][ReviewMergeNext]_reviewMergeVars

----------------------------------------------------------------------------
(* Properties *)

CallPcs == {"idle", "diff", "review", "reading", "record", "bump", "approve", "escalate",
            "resume", "launch", "sendback", "resume_coding", "force_merge", "reject"}

MergePcs == {"idle", "preflight", "enter", "block", "merge", "force", "park", "confirm"}

Marks == {"overlap", "threw", "operator", "merges", "left over", "forced", "lost answer",
          "succeeded", "restart", "round", "merge"}

Verdicts == [round : Nat, sha : Sha, verdict : {"approved", "revise"}]

\* The shapes, and that a verdict under way names the commit it is about.
ReviewMergeTypeOK ==
    /\ mode \in {"judge", "harness"}
    /\ column \in TaskStates /\ round \in Nat
    /\ commits \in 0 .. MaxCommits /\ head \in Sha
    /\ activeRun \in {"none", "queued", "coder", "reviewer", "orphan"}
    /\ completion \in {"idle", "due", "pushed"}
    /\ calls \in [Callers -> [pc : CallPcs, round : Nat, sha : Sha \cup {NoSha},
                              verdict : {"none", "approved", "revise"}, tries : Nat]]
    /\ \A c \in Callers :
          /\ calls[c].pc \in {"review", "reading", "record"} => calls[c].sha \in Sha
          /\ calls[c].pc = "record" => calls[c].verdict # "none"
    /\ due \in [{"boot", "tail"} -> Nat]
    /\ thread \in Seq(Verdicts)
    /\ prHead \in Sha \cup {NoSha} /\ forgeMerged \in Sha \cup {NoSha}
    /\ merges \in [MergeCallers -> [pc : MergePcs, sha : Sha \cup {NoSha}]]
    /\ ctxCache \in Sha \cup {NoSha}
    /\ moves \in Seq({"approved", "forced"}) /\ hookAt \in 0 .. Len(moves)
    /\ mergeBoot \in BOOLEAN
    /\ marks \subseteq Marks /\ left \in [{"http", "human", "restart"} -> Nat]

\* What the forge has merged is a commit some review approved, whatever was pushed
\* meanwhile and whichever context a merge call found in the cache.
MergedIsApproved ==
    forgeMerged # NoSha =>
        \E i \in DOMAIN thread : thread[i].sha = forgeMerged /\ thread[i].verdict = "approved"

\* The board and the forge agree on the merge: done means merged, and a merge is
\* recorded, unless its answer was lost, a restart or the operator came between,
\* or two attempts ran at once.
MergeIsRecorded ==
    /\ column = "done" => forgeMerged # NoSha
    /\ forgeMerged # NoSha /\ marks \cap {"lost answer", "merge", "operator", "merges"} = {} =>
          column = "done" \/ \E m \in MergeCallers : merges[m].pc = "confirm"

\* No coder works on what is approved or being merged, unless two rounds ran at
\* once (one resumes the coder, the other approves) or a restart lost the round
\* that had resumed it.
CoderOffApproved ==
    activeRun = "coder" /\ column \in {"approved", "merging", "done"} =>
        marks \cap {"overlap", "restart", "operator"} # {}

\* An approved task has the approval of its current round on the thread.  Where
\* two rounds overlap, or a restart fell between a verdict and its round number,
\* the verdict that counted may be the one its idempotency key dropped.
ApprovedIsOnRecord ==
    column = "approved" /\ marks \cap {"overlap", "round", "operator"} = {} =>
        \E i \in DOMAIN thread : thread[i].round = round /\ thread[i].verdict = "approved"

RoundIsComing ==
    \/ due["boot"] > 0 \/ due["tail"] > 0
    \/ \E c \in RoundCallers : calls[c].pc # "idle"

\* A task in review has a round in flight or due, unless a round threw: the
\* trigger logs a throw and nobody asks again.
ReviewIsAttended ==
    column = "review" /\ ~RoundIsComing => "threw" \in marks

\* A human's force_merge never merges by itself: it finds a context only when
\* another attempt left one behind or is under way.
ForceNeedsRace == "forced" \in marks => marks \cap {"left over", "merges"} # {}

\* A merging task is done or back with a human, unless the server restarts.
MergingEnds ==
    column = "merging" /\ "restart" \notin marks ~> column # "merging" \/ "restart" \in marks

============================================================================
