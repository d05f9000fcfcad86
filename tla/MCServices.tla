----------------------------- MODULE MCServices -----------------------------
(***************************************************************************)
(* The services around the coder loop, checked side by side: a behaviour   *)
(* is one of one of them, the state of the others stays what it was.       *)
(***************************************************************************)
EXTENDS ReviewMerge, Capacity, WorktreeLock, Experiment, Triggers, ReviewPolicy, TLC

CONSTANTS e1, e2, nightly, k1, none

MCOperatorMoves == {<<"approved", "merging">>, <<"merging", "needs_human">>}
MCBudget(http, human, restart) == [http |-> http, human |-> human, restart |-> restart]
MCBudgets == {MCBudget(1, 0, 0), MCBudget(0, 1, 1), MCBudget(0, 2, 0), MCBudget(0, 0, 2)}
MCProviderRuns == 1..3
MCMaxIterations == e1 :> 2
MCNoMetric == -1
MCDeliveries == {<<nightly, k1, "manual">>}
MCDiff(lines, security, declared) ==
    [lines |-> lines, files |-> 1, security |-> security, declared |-> declared]
MCDiffs == {MCDiff(5, FALSE, "trivial"), MCDiff(5, FALSE, "lite"),
            MCDiff(5, TRUE, "trivial"), MCDiff(50, FALSE, "trivial")}
MCFinding == [key : {"a", "b"}, severity : 2..4, sure : BOOLEAN]
MCVerifiers == {[k \in {"a", "b"} |-> [keep |-> keep, severity |-> s]] :
                  keep \in BOOLEAN, s \in {2, 4}}

VARIABLE part   \* the service this behaviour is of

Services == {"review", "capacity", "lock", "experiment", "triggers", "policy"}

servicesVars == <<part, reviewMergeVars, capacityVars, worktreeLockVars, experimentVars,
                  triggersVars, reviewPolicyVars>>

ServicesInit ==
    /\ part \in Services
    /\ ReviewMergeInit /\ CapacityInit /\ WorktreeLockInit /\ ExperimentInit
    /\ TriggersInit /\ ReviewPolicyInit
    /\ part = "review" \/ (mode = "judge" /\ left = MCBudget(1, 0, 0))
    /\ part = "policy" \/ reviewed = MCDiff(5, FALSE, "trivial")

\* A step of one service.
Review(A) ==
    /\ part = "review" /\ A
    /\ UNCHANGED <<part, capacityVars, worktreeLockVars, experimentVars, triggersVars,
                   reviewPolicyVars>>
Provider(A) ==
    /\ part = "capacity" /\ A
    /\ UNCHANGED <<part, reviewMergeVars, worktreeLockVars, experimentVars, triggersVars,
                   reviewPolicyVars>>
Worktree(A) ==
    /\ part = "lock" /\ A
    /\ UNCHANGED <<part, reviewMergeVars, capacityVars, experimentVars, triggersVars,
                   reviewPolicyVars>>
Experiments(A) ==
    /\ part = "experiment" /\ A
    /\ UNCHANGED <<part, reviewMergeVars, capacityVars, worktreeLockVars, triggersVars,
                   reviewPolicyVars>>
Scheduling(A) ==
    /\ part = "triggers" /\ A
    /\ UNCHANGED <<part, reviewMergeVars, capacityVars, worktreeLockVars, experimentVars,
                   reviewPolicyVars>>
Policy(A) ==
    /\ part = "policy" /\ A
    /\ UNCHANGED <<part, reviewMergeVars, capacityVars, worktreeLockVars, experimentVars,
                   triggersVars>>

ServicesNext ==
    \/ Review(ReviewMergeNext)
    \/ Provider(CapacityNext)
    \/ Worktree(WorktreeLockNext)
    \/ Experiments(ExperimentNext)
    \/ Scheduling(TriggersNext)
    \/ Policy(ReviewPolicyNext)

\* The fairness of the two services that have a liveness property.
ServicesSpec ==
    /\ ServicesInit /\ [][ServicesNext]_servicesVars
    /\ \A m \in MergeCallers : WF_merges(part = "review" /\ MergeContinues(m))
    /\ WF_hookAt(part = "review" /\ (HookApproved \/ HookForced))
    /\ \A l \in Loop : WF_loopPc(part = "experiment" /\ LoopStep(l))

\* Every service's state has the shapes its module gives.
ServicesTypeOK ==
    /\ ReviewMergeTypeOK /\ CapacityTypeOK /\ WorktreeLockTypeOK
    /\ ExperimentTypeOK /\ TriggersTypeOK /\ ReviewPolicyTypeOK

=============================================================================
