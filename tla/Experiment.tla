----------------------------- MODULE Experiment -----------------------------
(***************************************************************************)
(* The experiment loop (src/experiment/engine.ts, its ledger.ts, and       *)
(* src/orchestrator/experimentDispatcher.ts with the git side effects of   *)
(* experimentLiveDeps.ts): edit, commit, evaluate, then keep the commit or *)
(* reset the branch.  Every loop works in the one checkout the server was  *)
(* started with.  A commit is its history: the attempts it is made of.     *)
(***************************************************************************)
EXTENDS Integers, Sequences

CONSTANTS
    Loop,           \* dispatched experiments, one run each
    Lower,          \* those with metric.direction "lower"
    Metric,         \* values an evaluation can report
    NoMetric,       \* null
    Endless,        \* those given neither max_iterations nor an `until` that parses
    MaxIterations,  \* max_iterations of the others; with an `until` alone, a bound on
                    \* the iterations that fit before it
    MaxFollowed,    \* bound on the iterations of an endless loop
    MaxMishaps      \* bound on failed resets, killed runs and restarts

ASSUME ExperimentAssumption ==
    /\ Metric \subseteq Int /\ NoMetric \notin Metric
    /\ Lower \subseteq Loop /\ Endless \subseteq Loop
    /\ MaxIterations \in [Loop \ Endless -> Nat]
    /\ MaxFollowed \in Nat /\ MaxMishaps \in Nat

VARIABLES
    branch,    \* the branch checked out in the repository
    edited,    \* there are uncommitted changes in it
    loopPc,    \* where each loop is
    iteration, \* of each loop
    baseline,  \* baselineMetric
    kept,      \* lastKeptCommit, or null
    attempt,   \* the commit and the metric of the current iteration
    ledger,    \* experiment_ledger by run: status, metric and commit
    expRun,    \* runs.state
    mishaps,
    strayed    \* history: loops that shared the checkout, or missed a reset

repository == <<branch, edited>>
loopLocals == <<iteration, baseline, kept, attempt>>
experimentVars == <<repository, loopPc, loopLocals, ledger, expRun, mishaps, strayed>>

NoCommit == <<>>   \* every commit of a loop has a history
NoAttempt == [commit |-> NoCommit, metric |-> NoMetric]

ExperimentInit ==
    /\ branch = <<>> /\ edited = FALSE
    /\ loopPc = [l \in Loop |-> "idle"]
    /\ iteration = [l \in Loop |-> 1]
    /\ baseline = [l \in Loop |-> NoMetric]
    /\ kept = [l \in Loop |-> NoCommit]
    /\ attempt = [l \in Loop |-> NoAttempt]
    /\ ledger = [l \in Loop |-> <<>>]
    /\ expRun = [l \in Loop |-> "absent"]
    /\ mishaps = 0 /\ strayed = {}

Is(l, pc) == loopPc[l] = pc
Goto(l, pc) == loopPc' = [loopPc EXCEPT ![l] = pc]
Under(l) == loopPc[l] \notin {"idle", "over", "dead"}

ActiveExperiment == {"queued", "starting", "running", "finishing"}

\* transitionRun with expectedFrom; the dispatcher ignores a refusal.
MoveExperiment(l, from, to) ==
    expRun' = IF expRun[l] = from THEN [expRun EXCEPT ![l] = to] ELSE expRun

----------------------------------------------------------------------------
(* dispatchExperiment *)

CreateExperiment(l) ==
    /\ Is(l, "idle") /\ Goto(l, "create")
    /\ expRun' = [expRun EXCEPT ![l] = "queued"]
    /\ strayed' = LET others == {k \in Loop : Under(k)}
                  IN IF others = {} THEN strayed ELSE strayed \cup others \cup {l}
    /\ UNCHANGED <<repository, loopLocals, ledger, mishaps>>

StartExperiment(l) ==
    /\ \/ Is(l, "create") /\ Goto(l, "start") /\ MoveExperiment(l, "queued", "starting")
       \/ Is(l, "start") /\ Goto(l, "next") /\ MoveExperiment(l, "starting", "running")
    /\ UNCHANGED <<repository, loopLocals, ledger, mishaps, strayed>>

\* mutant: what the loop throws goes past the end of its run
FinishWithoutCatch(l) ==
    /\ \/ Is(l, "loopDone") /\ Goto(l, "succeed") /\ MoveExperiment(l, "running", "finishing")
       \/ Is(l, "loopThrew") /\ Goto(l, "over") /\ UNCHANGED expRun
       \/ Is(l, "succeed") /\ Goto(l, "over") /\ MoveExperiment(l, "finishing", "succeeded")
    /\ UNCHANGED <<repository, loopLocals, ledger, mishaps, strayed>>

\* "loopDone" is the normal return, "loopThrew" the catch.
FinishExperiment(l) ==
    /\ \/ Is(l, "loopDone") /\ Goto(l, "succeed") /\ MoveExperiment(l, "running", "finishing")
       \/ Is(l, "loopThrew") /\ Goto(l, "fail") /\ MoveExperiment(l, "running", "finishing")
       \/ Is(l, "succeed") /\ Goto(l, "over") /\ MoveExperiment(l, "finishing", "succeeded")
       \/ Is(l, "fail") /\ Goto(l, "over") /\ MoveExperiment(l, "finishing", "failed")
    /\ UNCHANGED <<repository, loopLocals, ledger, mishaps, strayed>>

\* The operator's stop, or the budget sweep: the row moves, the loop goes on.
KillExperiment(l) ==
    /\ expRun[l] \in ActiveExperiment /\ mishaps < MaxMishaps
    /\ expRun' = [expRun EXCEPT ![l] = "killed"]
    /\ mishaps' = mishaps + 1
    /\ UNCHANGED <<repository, loopPc, loopLocals, ledger, strayed>>

\* The loops die where they are; the boot interrupts the runs.
RestartExperiments ==
    /\ mishaps < MaxMishaps /\ \E l \in Loop : Under(l)
    /\ loopPc' = [l \in Loop |-> IF Under(l) THEN "dead" ELSE loopPc[l]]
    /\ expRun' = [l \in Loop |-> IF expRun[l] \in ActiveExperiment THEN "interrupted"
                                                                   ELSE expRun[l]]
    /\ mishaps' = mishaps + 1
    /\ UNCHANGED <<repository, loopLocals, ledger, strayed>>

----------------------------------------------------------------------------
(* runExperimentIteration *)

LastIteration(l) == IF l \in Endless THEN MaxFollowed ELSE MaxIterations[l]

\* The loop ends after max_iterations, or when `until` has passed, and one that was
\* given neither goes on: the model leaves it where it has followed it to.
NextIteration(l) ==
    /\ Is(l, "next")
    /\ \/ iteration[l] <= LastIteration(l) /\ Goto(l, "edit")
       \/ l \notin Endless /\ Goto(l, "loopDone")
    /\ attempt' = [attempt EXCEPT ![l] = NoAttempt]
    /\ UNCHANGED <<repository, iteration, baseline, kept, ledger, expRun, mishaps, strayed>>

\* One turn of the agent, which may change nothing, or fail half way.
ProduceEdit(l) ==
    /\ Is(l, "edit")
    /\ edited' \in {edited, TRUE}
    /\ Goto(l, "commit") \/ Goto(l, "crash")
    /\ UNCHANGED <<branch, loopLocals, ledger, expRun, mishaps, strayed>>

\* git add, status, commit: whatever is in the tree.
CommitEdit(l) ==
    /\ Is(l, "commit")
    /\ \/ /\ edited
          /\ branch' = Append(branch, <<l, iteration[l]>>) /\ edited' = FALSE
          /\ Goto(l, "sha")
       \/ Goto(l, "crash") /\ UNCHANGED repository
    /\ UNCHANGED <<loopLocals, ledger, expRun, mishaps, strayed>>

\* git rev-parse HEAD; if it fails the commit is there all the same.
ReadSha(l) ==
    /\ Is(l, "sha")
    /\ \/ Goto(l, "eval") /\ attempt' = [attempt EXCEPT ![l].commit = branch]
       \/ Goto(l, "crash") /\ UNCHANGED attempt
    /\ UNCHANGED <<repository, iteration, baseline, kept, ledger, expRun, mishaps, strayed>>

\* mutant: a tie counts as an improvement
NotWorse(l, m) ==
    baseline[l] = NoMetric
      \/ IF l \in Lower THEN m <= baseline[l] ELSE m >= baseline[l]

\* The first metric always improves, a tie never does.
Improved(l, m) ==
    baseline[l] = NoMetric
      \/ IF l \in Lower THEN m < baseline[l] ELSE m > baseline[l]

\* evalRunner in a checkout of its own; a failure and a missing metric crash.
Evaluate(l) ==
    /\ Is(l, "eval")
    /\ \/ /\ Goto(l, "crash") /\ UNCHANGED attempt
       \/ \E m \in Metric :
            /\ attempt' = [attempt EXCEPT ![l].metric = m]
            /\ Goto(l, IF Improved(l, m) THEN "keep" ELSE "discard")
    /\ UNCHANGED <<repository, iteration, baseline, kept, ledger, expRun, mishaps, strayed>>

AppendLedgerEntry(l, status) ==
    ledger' = [ledger EXCEPT ![l] =
        Append(@, [status |-> status, commit |-> attempt[l].commit,
                   metric |-> IF status = "crash" THEN NoMetric ELSE attempt[l].metric])]

\* mutant: the iteration is not counted
NextUpUncounted(l) == Goto(l, "next") /\ UNCHANGED iteration

NextUp(l) == Goto(l, "next") /\ iteration' = [iteration EXCEPT ![l] = @ + 1]

KeepAttempt(l) ==
    /\ Is(l, "keep") /\ AppendLedgerEntry(l, "keep") /\ NextUp(l)
    /\ baseline' = [baseline EXCEPT ![l] = attempt[l].metric]
    /\ kept' = [kept EXCEPT ![l] = attempt[l].commit]
    /\ UNCHANGED <<repository, attempt, expRun, mishaps, strayed>>

\* mutant: reset to HEAD, whatever was kept
ResetToHead(l) == edited' = FALSE /\ UNCHANGED branch

\* git reset --hard; without a kept commit HEAD stays where it is.
ResetHard(l) == branch' = IF kept[l] = NoCommit THEN branch ELSE kept[l]

\* And git clean.
Reset(l) == ResetHard(l) /\ edited' = FALSE

\* A crash swallows a failed reset, a discard lets it out of the loop.
ResetBranch(l) ==
    /\ \/ Is(l, "crash") /\ Goto(l, "crashed")
       \/ Is(l, "discard") /\ Goto(l, "discarded")
    /\ Reset(l)
    /\ UNCHANGED <<loopLocals, ledger, expRun, mishaps, strayed>>

\* It may fail between the two, with what is untracked still there.
ResetFails(l) ==
    /\ mishaps < MaxMishaps /\ mishaps' = mishaps + 1
    /\ \/ UNCHANGED repository
       \/ ResetHard(l) /\ edited' \in {edited, FALSE}
    /\ \/ Is(l, "crash") /\ Goto(l, "crashed")
       \/ Is(l, "discard") /\ Goto(l, "loopThrew")
    /\ strayed' = strayed \cup {l}
    /\ UNCHANGED <<loopLocals, ledger, expRun>>

RecordFailure(l) ==
    /\ \/ Is(l, "crashed") /\ AppendLedgerEntry(l, "crash")
       \/ Is(l, "discarded") /\ AppendLedgerEntry(l, "discard")
    /\ NextUp(l)
    /\ UNCHANGED <<repository, baseline, kept, attempt, expRun, mishaps, strayed>>

----------------------------------------------------------------------------

\* What the process does next for a loop once it is dispatched.
LoopStep(l) ==
    \/ StartExperiment(l) \/ FinishExperiment(l) \/ NextIteration(l) \/ ProduceEdit(l)
    \/ CommitEdit(l) \/ ReadSha(l) \/ Evaluate(l) \/ KeepAttempt(l)
    \/ ResetBranch(l) \/ ResetFails(l) \/ RecordFailure(l)

ExperimentNext ==
    \/ \E l \in Loop : CreateExperiment(l) \/ LoopStep(l) \/ KillExperiment(l)
    \/ RestartExperiments

ExperimentSpec == ExperimentInit /\ [][ExperimentNext]_experimentVars

----------------------------------------------------------------------------
(* Properties *)

LoopPcs == {"idle", "create", "start", "next", "edit", "commit", "sha", "eval", "keep",
            "discard", "discarded", "crash", "crashed", "loopDone", "loopThrew", "succeed",
            "fail", "over", "dead"}

Attempts == [commit : Seq(Loop \X Nat), metric : Metric \cup {NoMetric}]

LedgerRows == [status : {"keep", "discard", "crash"}, commit : Seq(Loop \X Nat),
               metric : Metric \cup {NoMetric}]

\* The shapes; an iteration past max_iterations is never begun.
ExperimentTypeOK ==
    /\ edited \in BOOLEAN /\ loopPc \in [Loop -> LoopPcs]
    /\ iteration \in [Loop -> Nat \ {0}]
    /\ \A l \in Loop : iteration[l] <= LastIteration(l) + 1
    /\ baseline \in [Loop -> Metric \cup {NoMetric}]
    /\ kept \in [Loop -> Seq(Loop \X Nat)] /\ branch \in Seq(Loop \X Nat)
    /\ attempt \in [Loop -> Attempts] /\ ledger \in [Loop -> Seq(LedgerRows)]
    /\ \A l \in Loop : Len(ledger[l]) < iteration[l]
    /\ \A l \in Loop : baseline[l] = NoMetric <=> kept[l] = NoCommit

KeptRows(l) == {i \in DOMAIN ledger[l] : ledger[l][i].status = "keep"}

\* Between two iterations the branch is at the commit of the last kept row, and
\* since the first kept one nothing is on it but kept attempts: also after
\* crashes, discards and a killed run.  Except for a loop that shared the
\* checkout with another or had a reset fail.
BranchIsKept ==
    \A l \in Loop \ strayed : Is(l, "next") /\ KeptRows(l) # {} =>
        /\ branch = kept[l]
        /\ \A i \in 1..(iteration[l] - 1) :
              (\E j \in KeptRows(l) : j <= i) =>
                  ((\E k \in DOMAIN branch : branch[k] = <<l, i>>) <=> i \in KeptRows(l))

\* The loop keeps the promise of KeepBest.
Climb == INSTANCE KeepBest
           WITH best <- baseline,
                rows <- [l \in Loop |->
                           [i \in DOMAIN ledger[l] |->
                              <<ledger[l][i].status, ledger[l][i].metric>>]]

ClimbSpec == Climb!Spec

\* Every dispatched loop that has max_iterations or an `until` comes to its end, and
\* its run does not stay active: also when a reset throws out of the loop, when the
\* operator has killed the run, and beside a loop that never ends.
LoopEnds ==
    \A l \in Loop \ Endless :
        Under(l) ~> ~Under(l) /\ expRun[l] \notin ActiveExperiment

=============================================================================
