-------------------------- MODULE CoderLoopProofs --------------------------
(***************************************************************************)
(* Proofs about the coder loop, for every value of its constants: that its *)
(* state is well formed, that it implements the board, and what the board  *)
(* therefore gives every reader of the tables; that the scheduler keeps to *)
(* its slots and leaves no queued run behind; that what is under review is *)
(* backed by a run; that a coding task is forgotten for no cause but the   *)
(* four that StrandedIsExplained names; and on which conditions a coder is *)
(* left in peace, and the boot recovers what the server lost, as the       *)
(* documents say they always are.                                          *)
(***************************************************************************)
EXTENDS CoderLoop, FiniteSetTheorems, TLAPS

----------------------------------------------------------------------------
(* Type correctness *)

\* A fresh server has the shapes TypeOK gives its state.
LEMMA InitType == Init => TypeOK
  BY BoundsAssumption, TaskAssumption
  DEF Init, TypeOK, NothingInFlight, TickOff, SpawnIdle, ResumeIdle, CompletionIdle,
      SpawnPcs, SpawnCalls, CompletionCalls, TriagePcs,
      ResumeCalls, TaskStates, RunStates, ActiveRunStates, TerminalRunStates, RunId, None,
      ResumeKinds, TriageSources, CompletionSources, Readers

\* countActiveCoderRuns counts a finite set: the free slots of a fill pass are a number.
LEMMA BusyType == ASSUME TypeOK PROVE Busy \in Nat
  <1>1. IsFiniteSet(1..MaxRuns)
    BY FS_Interval, BoundsAssumption
  <1>2. ActiveCoderRuns \subseteq 1..MaxRuns
    BY DEF ActiveCoderRuns, RunId
  <1> QED
    BY <1>1, <1>2, FS_Subset, FS_CardinalityType DEF Busy

\* Triage decides to retry or to hand over, and nothing else.
LEMMA DecisionsType == ASSUME NEW r PROVE Decisions(r) \subseteq {"retry", "human"}
  BY DEF Decisions

\* A completion in flight is parking or handing off a run, whichever trigger began it.
LEMMA CompleteRunType ==
  ASSUME TypeOK, NEW s \in CompletionSources, NEW r \in RunId, CompleteRun(s, r)
  PROVE  /\ prOpen' \in [Task -> BOOLEAN]
         /\ completion' \in [CompletionSources -> CompletionCalls]
  <1>1. PICK outcome \in CompletionOutcomes :
          /\ prOpen' = PrAfter(outcome, runTask[r])
          /\ completion' = [completion EXCEPT ![s] =
                IF outcome = "throw" THEN CompletionIdle ELSE [pc |-> outcome, run |-> r]]
    BY DEF CompleteRun
  <1>2. outcome \in {"park", "handoff", "throw"}
    BY DEF CompletionOutcomes
  <1>3. prOpen' \in [Task -> BOOLEAN]
    BY <1>1 DEF TypeOK, PrAfter
  <1>4. completion' \in [CompletionSources -> CompletionCalls]
    BY <1>1, <1>2 DEF TypeOK, CompletionCalls
  <1> QED BY <1>3, <1>4

\* Reading a failed run's preconditions leaves a decision in flight or none.
LEMMA TriageReadType ==
  ASSUME TypeOK, NEW s \in TriageSources, NEW r \in RunId, TriageRead(s, r)
  PROVE  triage' \in [TriageSources -> [RunId -> TriagePcs]]
  <1>1. PICK pc \in {"retry", "human", "idle"} : SetTriage(s, r, pc)
    BY DecisionsType DEF TriageRead
  <1> QED BY <1>1 DEF TypeOK, SetTriage, TriagePcs

\* A spawn in flight names its task and its run, and belongs to a fill pass that
\* still has a slot to give it.
LEMMA SpawnNamed ==
  ASSUME TypeOK, spawn.pc # "idle"
  PROVE  /\ spawn \in [pc : SpawnPcs \ {"idle"}, task : Task, run : RunId]
         /\ tick.on /\ tick.free \in Nat /\ tick.free > 0
  BY DEF TypeOK, SpawnCalls, SpawnIdle

\* A spawn that goes from one await to the next keeps its task, run and slot.
LEMMA SpawnAdvances ==
  ASSUME TypeOK, spawn.pc # "idle", NEW pc \in SpawnPcs \ {"idle"},
         spawn' = [spawn EXCEPT !.pc = pc], tick' = tick
  PROVE  spawn' \in SpawnCalls /\ tick'.on /\ tick'.free > 0
  BY SpawnNamed DEF SpawnCalls

\* Every handler of the loop keeps the shapes of the rows and of the calls in flight.
LEMMA TypeStep ==
  ASSUME TypeOK, [Next]_vars PROVE TypeOK'
  <1>. USE DEF TypeOK, rows, runRows, boot, requests, counters, None, SpawnIdle, ResumeIdle,
               CompletionIdle, TickOff, SpawnCalls, ResumeCalls, CompletionCalls, SpawnPcs,
               TriagePcs, MoveTask, MoveRun, Guarded, Takes, TaskStates, RunStates,
               ActiveRunStates, TerminalRunStates, ResumeKinds, TriageSources,
               CompletionSources, Readers, InsertRun, AwaitResume, SetTriage, Post
  <1>1. ASSUME NEW t \in Task, PromoteDraft(t) PROVE TypeOK'
    BY <1>1 DEF PromoteDraft, Recompute, JumpedAfter
  <1>2. ASSUME NEW t \in Task, NEW to \in TaskStates, ApiTransition(t, to) PROVE TypeOK'
    BY <1>2 DEF ApiTransition, Recompute, MergedAfter, JumpedAfter
  <1>46. ASSUME NEW t \in Task, AskReady(t) PROVE TypeOK'
    BY <1>46 DEF AskReady
  <1>47. ASSUME NEW t \in Task, TakeReady(t) PROVE TypeOK'
    BY <1>47 DEF TakeReady, JumpedAfter
  <1>3. ASSUME TickStart PROVE TypeOK'
    <2>1. Busy \in Nat /\ MaxSlots - Busy \in Nat
      BY <1>3, BusyType, BoundsAssumption DEF TickStart
    <2> QED BY <1>3, <2>1 DEF TickStart
  <1>4. ASSUME TickEnd PROVE TypeOK'
    BY <1>4 DEF TickEnd
  <1>5. ASSUME NEW t \in Task, TickSkip(t) PROVE TypeOK'
    BY <1>5 DEF TickSkip
  <1>6. ASSUME NEW t \in Task, CreateClaimRun(t) PROVE TypeOK'
    BY SMTT(30), <1>6 DEF CreateClaimRun, FreshRuns
  <1>7. ASSUME ClaimTask PROVE TypeOK'
    <2>1. \E pc \in {"launch", "rollback"} : spawn' = [spawn EXCEPT !.pc = pc]
      BY <1>7 DEF ClaimTask
    <2>2. spawn.pc # "idle" /\ spawn' \in SpawnCalls /\ tick'.on /\ tick'.free > 0
      BY <1>7, <2>1, SpawnAdvances DEF ClaimTask
    <2>3. spawn.task \in Task /\ spawn.run \in RunId
      BY <2>2, SpawnNamed
    <2>4. claimedBy' \in [Task -> RunId \cup {None}]
      BY ZenonT(60), <1>7, <2>3 DEF ClaimTask
    <2> QED BY <1>7, <2>2, <2>3, <2>4 DEF ClaimTask
  <1>8. ASSUME RollbackClaim PROVE TypeOK'
    BY <1>8 DEF RollbackClaim
  <1>9. ASSUME SpawnLaunch PROVE TypeOK'
    <2>1. spawn.pc # "idle" /\ spawn' \in SpawnCalls /\ tick'.on /\ tick'.free > 0
      BY <1>9, SpawnAdvances DEF SpawnLaunch
    <2>2. spawn.task \in Task /\ spawn.run \in RunId
      BY <2>1, SpawnNamed
    <2> QED BY <1>9, <2>1, <2>2 DEF SpawnLaunch
  <1>10. ASSUME SpawnThrow PROVE TypeOK'
    <2>1. spawn.pc # "idle" /\ spawn' \in SpawnCalls /\ tick'.on /\ tick'.free > 0
      BY <1>10, SpawnAdvances DEF SpawnThrow
    <2>2. spawn.task \in Task /\ spawn.run \in RunId
      BY <2>1, SpawnNamed
    <2> QED BY <1>10, <2>1, <2>2 DEF SpawnThrow
  <1>11. ASSUME SpawnConfirm PROVE TypeOK'
    <2>1. spawn.run \in RunId /\ tick.free \in Nat /\ tick.free > 0
      BY <1>11, SpawnNamed DEF SpawnConfirm
    <2>2. CASE runState[spawn.run] = "queued"
      <3>a. tick \in [on : BOOLEAN, free : Nat, todo : SUBSET Task]
        OBVIOUS
      <3>b. tick' = [tick EXCEPT !.free = tick.free - 1]
        BY <1>11, <2>2 DEF SpawnConfirm
      <3>c. tick.free - 1 \in Nat
        BY <2>1
      <3>1. tick' \in [on : BOOLEAN, free : Nat, todo : SUBSET Task]
        BY ONLY <3>a, <3>b, <3>c, ZenonT(30)
      <3> QED BY <1>11, <2>1, <2>2, <3>1 DEF SpawnConfirm
    <2>3. CASE runState[spawn.run] # "queued"
      <3>1. spawn' \in SpawnCalls /\ tick'.on /\ tick'.free > 0
        BY <1>11, <2>3, SpawnAdvances DEF SpawnConfirm
      <3> QED BY ZenonT(60), <1>11, <2>1, <2>3, <3>1 DEF SpawnConfirm
    <2> QED BY <2>2, <2>3
  <1>12. ASSUME SpawnRollbackRun PROVE TypeOK'
    <2>1. spawn.pc # "idle" /\ spawn' \in SpawnCalls /\ tick'.on /\ tick'.free > 0
      BY <1>12, SpawnAdvances DEF SpawnRollbackRun
    <2>2. spawn.task \in Task /\ spawn.run \in RunId
      BY <2>1, SpawnNamed
    <2> QED BY <1>12, <2>1, <2>2 DEF SpawnRollbackRun
  <1>13. ASSUME SpawnRollbackTask PROVE TypeOK'
    BY <1>13 DEF SpawnRollbackTask
  <1>14. ASSUME NEW t \in Task, ReviseResume(t) PROVE TypeOK'
    BY <1>14 DEF ReviseResume
  <1>15. ASSUME NEW t \in Task, HumanResume(t) PROVE TypeOK'
    BY <1>15 DEF HumanResume
  <1>16. ASSUME NEW t \in Task, ReviseMove(t) PROVE TypeOK'
    BY <1>16 DEF ReviseMove
  <1>17. ASSUME NEW k \in ResumeKinds, NEW t \in Task, ResumeCreate(k, t) PROVE TypeOK'
    BY <1>17 DEF ResumeCreate, FreshRuns
  <1>18. ASSUME NEW k \in ResumeKinds, NEW t \in Task, ResumeThrow(k, t) PROVE TypeOK'
    BY <1>18 DEF ResumeThrow
  <1>19. ASSUME NEW k \in ResumeKinds, NEW t \in Task, ResumeLaunch(k, t) PROVE TypeOK'
    <2>1. resume[k][t].run \in RunId
      <3>1. resume[k][t] \in ResumeCalls OBVIOUS
      <3> QED BY <1>19, <3>1 DEF ResumeLaunch
    <2> QED BY <1>19, <2>1 DEF ResumeLaunch
  <1>20. ASSUME NEW k \in ResumeKinds, NEW t \in Task, ResumeConfirm(k, t) PROVE TypeOK'
    BY <1>20 DEF ResumeConfirm
  <1>21. ASSUME NEW r \in RunId, SessionStart(r) PROVE TypeOK'
    BY <1>21 DEF SessionStart, HookMove
  <1>22. ASSUME NEW r \in RunId, PreToolUse(r) PROVE TypeOK'
    BY <1>22 DEF PreToolUse, HookMove
  <1>23. ASSUME NEW r \in RunId, PostToolUse(r) PROVE TypeOK'
    BY <1>23 DEF PostToolUse, HookMove
  <1>24. ASSUME NEW r \in RunId, StopInBackground(r) PROVE TypeOK'
    BY <1>24 DEF StopInBackground, HookMove
  <1>25. ASSUME NEW r \in RunId, Stop(r) PROVE TypeOK'
    BY ZenonT(60), <1>25 DEF Stop, HookMove
  <1>26. ASSUME NEW r \in RunId, Watchdog(r, "failed") PROVE TypeOK'
    BY <1>26 DEF Watchdog
  <1>27. ASSUME NEW r \in RunId, Watchdog(r, "succeeded") PROVE TypeOK'
    BY <1>27 DEF Watchdog
  <1>28. ASSUME NEW r \in RunId, GraceFinish(r) PROVE TypeOK'
    BY <1>28 DEF GraceFinish
  <1>29. ASSUME NEW r \in RunId, BudgetPick(r) PROVE TypeOK'
    BY <1>29 DEF BudgetPick, Started
  <1>30. ASSUME NEW r \in RunId, ReapRun(r) PROVE TypeOK'
    BY <1>30 DEF ReapRun
  <1>31. ASSUME HookTriage PROVE TypeOK'
    <2> DEFINE r == Head(inbox["scheduler"])
    <2>1. r \in RunId /\ inbox' \in [Readers -> Seq(RunId)]
      BY <1>31 DEF HookTriage
    <2>2. triage' \in [TriageSources -> [RunId -> TriagePcs]]
      BY <1>31, <2>1, TriageReadType DEF HookTriage
    <2> QED BY <1>31, <2>1, <2>2 DEF HookTriage
  <1>32. ASSUME NEW r \in RunId, BudgetTriage(r) PROVE TypeOK'
    <2>1. triage' \in [TriageSources -> [RunId -> TriagePcs]]
      BY <1>32, TriageReadType DEF BudgetTriage
    <2> QED BY <1>32, <2>1 DEF BudgetTriage
  <1>33. ASSUME NEW s \in TriageSources, NEW r \in RunId, TriageHuman(s, r) PROVE TypeOK'
    BY <1>33 DEF TriageHuman
  <1>34. ASSUME NEW s \in TriageSources, NEW r \in RunId, TriageRetry(s, r) PROVE TypeOK'
    BY <1>34 DEF TriageRetry
  <1>35. ASSUME NEW s \in TriageSources, NEW r \in RunId, TriageDemote(s, r) PROVE TypeOK'
    <2>1. jumped' \subseteq Task
      BY <1>35 DEF TriageDemote, JumpedAfter
    <2>2. taskState' \in [Task -> TaskStates]
      BY <1>35 DEF TriageDemote, Recompute
    <2> QED BY <1>35, <2>1, <2>2 DEF TriageDemote
  <1>36. ASSUME CompleteFromEvent PROVE TypeOK'
    <2>1. Head(inbox["completion"]) \in RunId /\ inbox' \in [Readers -> Seq(RunId)]
      BY <1>36 DEF CompleteFromEvent
    <2>2. /\ prOpen' \in [Task -> BOOLEAN]
          /\ completion' \in [CompletionSources -> CompletionCalls]
      BY <1>36, <2>1, CompleteRunType DEF CompleteFromEvent
    <2> QED BY <1>36, <2>1, <2>2 DEF CompleteFromEvent, CompleteRun
  <1>37. ASSUME NEW r \in RunId, CompleteAtBoot(r) PROVE TypeOK'
    <2>1. /\ prOpen' \in [Task -> BOOLEAN]
          /\ completion' \in [CompletionSources -> CompletionCalls]
      BY <1>37, CompleteRunType DEF CompleteAtBoot
    <2> QED BY <1>37, <2>1 DEF CompleteAtBoot, CompleteRun
  <1>38. ASSUME NEW s \in CompletionSources, CompletionPark(s) PROVE TypeOK'
    BY <1>38 DEF CompletionPark, CompletionMove
  <1>39. ASSUME NEW s \in CompletionSources, CompletionHandoff(s) PROVE TypeOK'
    BY <1>39 DEF CompletionHandoff, CompletionMove
  <1>40. ASSUME Restart PROVE TypeOK'
    BY <1>40 DEF Restart, Recompute, InDoubt
  <1>41. ASSUME BootFailTask PROVE TypeOK'
    BY <1>41 DEF BootFailTask
  <1>42. ASSUME StartTriggers PROVE TypeOK'
    BY <1>42 DEF StartTriggers, PendingAtBoot
  <1>43. ASSUME NEW r \in RunId, BootCheck(r) PROVE TypeOK'
    BY SMTT(30), <1>43 DEF BootCheck
  <1>44. ASSUME NEW r \in RunId, StopRun(r) PROVE TypeOK'
    BY <1>44 DEF StopRun
  <1>45. CASE UNCHANGED vars BY <1>45 DEF vars
  <1>. QED BY ONLY [Next]_vars, <1>1, <1>2, <1>3, <1>4, <1>5, <1>6, <1>7, <1>8, <1>9,
                  <1>10, <1>11, <1>12, <1>13, <1>14, <1>15, <1>16, <1>17, <1>18, <1>19,
                  <1>20, <1>21, <1>22, <1>23, <1>24, <1>25, <1>26, <1>27, <1>28, <1>29,
                  <1>30, <1>31, <1>32, <1>33, <1>34, <1>35, <1>36, <1>37, <1>38, <1>39,
                  <1>40, <1>41, <1>42, <1>43, <1>44, <1>45, <1>46, <1>47
    DEF Next, Board, Tick, Spawn, Resume, ResumeStep, Hooks, Poll, Triage, TriageStep,
        Completion, Boot

\* For any tasks and limits, every reachable state is well formed: in particular a
\* spawn in flight always names a task and a run and holds a slot of its fill pass.
THEOREM TypeCorrect == Spec => []TypeOK
  BY InitType, TypeStep, PTL DEF Spec

----------------------------------------------------------------------------
(* The loop implements the board *)

\* recomputeReadiness promotes only backlog tasks whose prerequisites are merged.
LEMMA RecomputePromotes ==
  ASSUME NEW ts \in [Task -> TaskStates], NEW ms,
         merged' = ms, taskState' = Recompute(ts, ms)
  PROVE  B!Promote(ts, ms)
  <1> DEFINE chosen == {t \in Task : ts[t] = "backlog" /\ DepsMerged(t, ms)}
  <1>1. chosen \in SUBSET {t \in Task : ts[t] = "backlog" /\ \A d \in B!Prereqs(t) : ms[d]}
    BY DEF DepsMerged, Prereqs, B!Prereqs
  <1>2. taskState' = [t \in Task |-> IF t \in chosen THEN "ready" ELSE ts[t]]
    BY DEF Recompute
  <1> QED BY <1>1, <1>2 DEF B!Promote

\* A move that recomputes nothing promotes nobody.
LEMMA NoPromotion ==
  ASSUME NEW ts \in [Task -> TaskStates], NEW ms, taskState' = ts
  PROVE  B!Promote(ts, ms)
  <1>1. {} \in SUBSET {t \in Task : ts[t] = "backlog" /\ \A d \in B!Prereqs(t) : ms[d]}
    OBVIOUS
  <1>2. taskState' = [t \in Task |-> IF t \in {} THEN "ready" ELSE ts[t]]
    OBVIOUS
  <1> QED BY <1>1, <1>2 DEF B!Promote

\* Both specifications speak of the same two state machines.
LEMMA SameEdges ==
  /\ B!TaskEdges = TaskEdges /\ B!RunEdges = RunEdges
  /\ B!TaskStates = TaskStates /\ B!RunStates = RunStates
  /\ B!ActiveRunStates = ActiveRunStates
  BY DEF B!TaskEdges, TaskEdges, B!RunEdges, RunEdges,
         B!TaskStates, TaskStates, B!RunStates, RunStates, B!ActiveRunStates, ActiveRunStates,
         B!TerminalTaskStates, TerminalTaskStates, B!TerminalRunStates, TerminalRunStates

\* Both know the same prerequisites, and so the same tasks past the gate.
LEMMA SameJumps ==
  ASSUME NEW t, NEW to PROVE JumpedAfter(t, to) = B!JumpedAfter(t, to)
  BY DEF JumpedAfter, B!JumpedAfter, DepsMerged, Prereqs, B!Prereqs

\* A guarded move of a task, other than to backlog or out of it, is a move of the
\* board or a lost race.
LEMMA MoveTaskRefines ==
  ASSUME TypeOK, NEW t \in Task \cup {None}, NEW from \in TaskStates, NEW to \in TaskStates,
         to \notin {"done", "ready"},
         MoveTask(t, from, to), UNCHANGED <<merged, jumped, runState, runTask>>,
         to # "backlog"
  PROVE  [B!Next]_(B!vars)
  <1>1. CASE t \in Task /\ Takes(taskState, TaskEdges, t, from, to)
    <2>1. taskState' = [taskState EXCEPT ![t] = to]
      BY <1>1 DEF MoveTask, Guarded
    <2>2. B!Promote([taskState EXCEPT ![t] = to], merged')
      BY <2>1, NoPromotion DEF TypeOK
    <2>3. <<taskState[t], to>> \in TaskEdges
      BY <1>1 DEF Takes
    <2>4. jumped' = B!JumpedAfter(t, to)
      BY DEF B!JumpedAfter
    <2>5. B!MoveTask(t, to)
      BY <2>2, <2>3, <2>4, SameEdges DEF B!MoveTask, B!runRows
    <2> QED BY <1>1, <2>5, SameEdges DEF B!Next
  <1>2. CASE ~(t \in Task /\ Takes(taskState, TaskEdges, t, from, to))
    <2>1. taskState' = taskState
      BY <1>2, TaskAssumption DEF MoveTask, Guarded, TypeOK
    <2> QED BY <2>1 DEF B!vars
  <1> QED BY <1>1, <1>2

\* A guarded move of a run is a move of the board or a lost race.
LEMMA MoveRunRefines ==
  ASSUME TypeOK, NEW r \in RunId, NEW from, NEW to \in RunStates,
         MoveRun(r, from, to), UNCHANGED <<taskState, merged, jumped, runTask>>
  PROVE  [B!Next]_(B!vars)
  <1>1. CASE Takes(runState, RunEdges, r, from, to)
    <2>1. B!MoveRun(r, to)
      BY <1>1, SameEdges DEF MoveRun, Guarded, Takes, B!MoveRun, B!taskRows
    <2> QED BY <2>1, SameEdges DEF B!Next
  <1>2. CASE ~Takes(runState, RunEdges, r, from, to)
    BY <1>2 DEF MoveRun, Guarded, B!vars
  <1> QED BY <1>1, <1>2

\* An insert that passes the partial unique index is one the board allows.
LEMMA InsertRunRefines ==
  ASSUME NEW t \in Task, NEW r \in FreshRuns, CanInsertRun(t), InsertRun(t, r),
         UNCHANGED <<taskState, merged, jumped>>
  PROVE  [B!Next]_(B!vars)
  <1>1. r \in RunId /\ B!InsertRun(t, r)
    BY SameEdges DEF FreshRuns, CanInsertRun, InsertRun, ActiveRuns, B!InsertRun, B!ActiveRuns,
                     B!taskRows
  <1> QED BY <1>1 DEF B!Next

\* A handler that writes neither table is invisible on the board.
LEMMA StutterRefines ==
  ASSUME UNCHANGED <<taskState, merged, jumped, runState, runTask>> PROVE [B!Next]_(B!vars)
  BY DEF B!vars

\* A completion in flight names its run.
LEMMA CompletionNamed ==
  ASSUME TypeOK, NEW s \in CompletionSources, completion[s].pc # "idle"
  PROVE  completion[s] \in [pc : {"park", "handoff"}, run : RunId]
  <1>1. completion[s] \in CompletionCalls
    BY DEF TypeOK
  <1> QED BY <1>1 DEF CompletionCalls, CompletionIdle

\* Every action of the loop is one step of the board or none: the rows are
\* written one guarded move at a time, through legal edges only.
LEMMA StepRefines == ASSUME TypeOK, [Next]_vars PROVE [B!Next]_(B!vars)
  <1>. USE DEF rows, runRows, boot, requests, counters
  <1>1. ASSUME TickStart PROVE [B!Next]_(B!vars)
    BY <1>1, StutterRefines DEF TickStart
  <1>2. ASSUME TickEnd PROVE [B!Next]_(B!vars)
    BY <1>2, StutterRefines DEF TickEnd
  <1>3. ASSUME NEW t \in Task, TickSkip(t) PROVE [B!Next]_(B!vars)
    BY <1>3, StutterRefines DEF TickSkip
  <1>4. ASSUME SpawnLaunch PROVE [B!Next]_(B!vars)
    BY <1>4, StutterRefines DEF SpawnLaunch
  <1>5. ASSUME SpawnThrow PROVE [B!Next]_(B!vars)
    BY <1>5, StutterRefines DEF SpawnThrow
  <1>6. ASSUME NEW t \in Task, ReviseResume(t) PROVE [B!Next]_(B!vars)
    BY <1>6, StutterRefines DEF ReviseResume
  <1>7. ASSUME NEW k \in ResumeKinds, NEW t \in Task, ResumeThrow(k, t) PROVE [B!Next]_(B!vars)
    BY <1>7, StutterRefines DEF ResumeThrow
  <1>8. ASSUME NEW k \in ResumeKinds, NEW t \in Task, ResumeLaunch(k, t) PROVE [B!Next]_(B!vars)
    BY <1>8, StutterRefines DEF ResumeLaunch
  <1>9. ASSUME NEW r \in RunId, BudgetPick(r) PROVE [B!Next]_(B!vars)
    BY <1>9, StutterRefines DEF BudgetPick
  <1>10. ASSUME HookTriage PROVE [B!Next]_(B!vars)
    BY <1>10, StutterRefines DEF HookTriage
  <1>11. ASSUME NEW r \in RunId, BudgetTriage(r) PROVE [B!Next]_(B!vars)
    BY <1>11, StutterRefines DEF BudgetTriage
  <1>12. ASSUME CompleteFromEvent PROVE [B!Next]_(B!vars)
    BY <1>12, StutterRefines DEF CompleteFromEvent, CompleteRun
  <1>13. ASSUME NEW r \in RunId, CompleteAtBoot(r) PROVE [B!Next]_(B!vars)
    BY <1>13, StutterRefines DEF CompleteAtBoot, CompleteRun
  <1>14. ASSUME StartTriggers PROVE [B!Next]_(B!vars)
    BY <1>14, StutterRefines DEF StartTriggers
  <1>15. ASSUME ClaimTask PROVE [B!Next]_(B!vars)
    <2>1. spawn.task \in Task \cup {None}
      BY <1>15, SpawnNamed DEF ClaimTask, TypeOK
    <2>2. "ready" \in TaskStates /\ "coding" \in TaskStates
      BY DEF TaskStates
    <2> QED BY <1>15, <2>1, <2>2, MoveTaskRefines DEF ClaimTask
  <1>16. ASSUME SpawnRollbackTask PROVE [B!Next]_(B!vars)
    <2>1. spawn.task \in Task \cup {None}
      BY <1>16, SpawnNamed DEF SpawnRollbackTask, TypeOK
    <2>2. "coding" \in TaskStates /\ "failed" \in TaskStates
      BY DEF TaskStates
    <2> QED BY <1>16, <2>1, <2>2, MoveTaskRefines DEF SpawnRollbackTask
  <1>17. ASSUME NEW t \in Task, HumanResume(t) PROVE [B!Next]_(B!vars)
    <2>1. t \in Task \cup {None}
      BY <1>17 DEF HumanResume, TypeOK
    <2>2. "needs_human" \in TaskStates /\ "coding" \in TaskStates
      BY DEF TaskStates
    <2> QED BY <1>17, <2>1, <2>2, MoveTaskRefines DEF HumanResume
  <1>18. ASSUME NEW t \in Task, ReviseMove(t) PROVE [B!Next]_(B!vars)
    <2>1. t \in Task \cup {None}
      BY <1>18 DEF ReviseMove, TypeOK
    <2>2. "review" \in TaskStates /\ "coding" \in TaskStates
      BY DEF TaskStates
    <2> QED BY <1>18, <2>1, <2>2, MoveTaskRefines DEF ReviseMove
  <1>19. ASSUME NEW s \in TriageSources, NEW r \in RunId, TriageHuman(s, r) PROVE [B!Next]_(B!vars)
    <2>1. runTask[r] \in Task \cup {None}
      BY <1>19 DEF TriageHuman, TypeOK
    <2>2. "coding" \in TaskStates /\ "needs_human" \in TaskStates
      BY DEF TaskStates
    <2> QED BY <1>19, <2>1, <2>2, MoveTaskRefines DEF TriageHuman
  <1>20. ASSUME NEW s \in TriageSources, NEW r \in RunId, TriageRetry(s, r) PROVE [B!Next]_(B!vars)
    <2>1. runTask[r] \in Task \cup {None}
      BY <1>20 DEF TriageRetry, TypeOK
    <2>2. "coding" \in TaskStates /\ "failed" \in TaskStates
      BY DEF TaskStates
    <2> QED BY <1>20, <2>1, <2>2, MoveTaskRefines DEF TriageRetry
  <1>21. ASSUME NEW s \in CompletionSources, CompletionPark(s) PROVE [B!Next]_(B!vars)
    <2>1. completion[s].run \in RunId
      BY <1>21, CompletionNamed DEF CompletionPark, CompletionMove
    <2>2. runTask[completion[s].run] \in Task \cup {None}
      BY <2>1 DEF TypeOK
    <2>3. "coding" \in TaskStates /\ "needs_human" \in TaskStates
      BY DEF TaskStates
    <2> QED BY <1>21, <2>2, <2>3, MoveTaskRefines DEF CompletionPark, CompletionMove
  <1>22. ASSUME NEW s \in CompletionSources, CompletionHandoff(s) PROVE [B!Next]_(B!vars)
    <2>1. completion[s].run \in RunId
      BY <1>22, CompletionNamed DEF CompletionHandoff, CompletionMove
    <2>2. runTask[completion[s].run] \in Task \cup {None}
      BY <2>1 DEF TypeOK
    <2>3. "coding" \in TaskStates /\ "review" \in TaskStates
      BY DEF TaskStates
    <2> QED BY <1>22, <2>2, <2>3, MoveTaskRefines DEF CompletionHandoff, CompletionMove
  <1>23. ASSUME BootFailTask PROVE [B!Next]_(B!vars)
    <2>1. runTask[bootFail] \in Task \cup {None}
      BY <1>23 DEF BootFailTask, TypeOK
    <2>2. "coding" \in TaskStates /\ "failed" \in TaskStates
      BY DEF TaskStates
    <2> QED BY <1>23, <2>1, <2>2, MoveTaskRefines DEF BootFailTask
  <1>24. ASSUME RollbackClaim PROVE [B!Next]_(B!vars)
    <2>1. spawn.run \in RunId /\ "killed" \in RunStates
      BY <1>24, SpawnNamed DEF RollbackClaim, RunStates, ActiveRunStates, TerminalRunStates
    <2> QED BY <1>24, <2>1, MoveRunRefines DEF RollbackClaim
  <1>25. ASSUME SpawnConfirm PROVE [B!Next]_(B!vars)
    <2>1. spawn.run \in RunId /\ "starting" \in RunStates
      BY <1>25, SpawnNamed DEF SpawnConfirm, RunStates, ActiveRunStates, TerminalRunStates
    <2> QED BY <1>25, <2>1, MoveRunRefines DEF SpawnConfirm
  <1>26. ASSUME SpawnRollbackRun PROVE [B!Next]_(B!vars)
    <2>1. spawn.run \in RunId /\ "killed" \in RunStates
      BY <1>26, SpawnNamed DEF SpawnRollbackRun, RunStates, ActiveRunStates, TerminalRunStates
    <2> QED BY <1>26, <2>1, MoveRunRefines DEF SpawnRollbackRun
  <1>27. ASSUME NEW k \in ResumeKinds, NEW t \in Task, ResumeConfirm(k, t) PROVE [B!Next]_(B!vars)
    <2>1. resume[k][t] \in ResumeCalls
      BY DEF TypeOK
    <2>2. resume[k][t].run \in RunId /\ "starting" \in RunStates
      BY <1>27, <2>1 DEF ResumeConfirm, ResumeCalls, ResumeIdle, RunStates, ActiveRunStates
    <2> QED BY <1>27, <2>2, MoveRunRefines DEF ResumeConfirm
  <1>28. ASSUME NEW r \in RunId, SessionStart(r) PROVE [B!Next]_(B!vars)
    <2>1. r \in RunId /\ "running" \in RunStates
      BY <1>28 DEF SessionStart, HookMove, RunStates, ActiveRunStates, TerminalRunStates
    <2> QED BY <1>28, <2>1, MoveRunRefines DEF SessionStart, HookMove
  <1>29. ASSUME NEW r \in RunId, PreToolUse(r) PROVE [B!Next]_(B!vars)
    <2>1. r \in RunId /\ "awaiting_input" \in RunStates
      BY <1>29 DEF PreToolUse, HookMove, RunStates, ActiveRunStates, TerminalRunStates
    <2> QED BY <1>29, <2>1, MoveRunRefines DEF PreToolUse, HookMove
  <1>30. ASSUME NEW r \in RunId, PostToolUse(r) PROVE [B!Next]_(B!vars)
    <2>1. r \in RunId /\ "running" \in RunStates
      BY <1>30 DEF PostToolUse, HookMove, RunStates, ActiveRunStates, TerminalRunStates
    <2> QED BY <1>30, <2>1, MoveRunRefines DEF PostToolUse, HookMove
  <1>31. ASSUME NEW r \in RunId, StopInBackground(r) PROVE [B!Next]_(B!vars)
    <2>1. r \in RunId /\ "background_waiting" \in RunStates
      BY <1>31 DEF StopInBackground, HookMove, RunStates, ActiveRunStates, TerminalRunStates
    <2> QED BY <1>31, <2>1, MoveRunRefines DEF StopInBackground, HookMove
  <1>32. ASSUME NEW r \in RunId, Stop(r) PROVE [B!Next]_(B!vars)
    <2>1. r \in RunId /\ "finishing" \in RunStates
      BY <1>32 DEF Stop, HookMove, RunStates, ActiveRunStates, TerminalRunStates
    <2> QED BY <1>32, <2>1, MoveRunRefines DEF Stop, HookMove
  <1>33. ASSUME NEW r \in RunId, Watchdog(r, "failed") PROVE [B!Next]_(B!vars)
    <2>1. r \in RunId /\ "failed" \in RunStates
      BY <1>33 DEF Watchdog, RunStates, ActiveRunStates, TerminalRunStates
    <2> QED BY <1>33, <2>1, MoveRunRefines DEF Watchdog
  <1>34. ASSUME NEW r \in RunId, Watchdog(r, "succeeded") PROVE [B!Next]_(B!vars)
    <2>1. r \in RunId /\ "succeeded" \in RunStates
      BY <1>34 DEF Watchdog, RunStates, ActiveRunStates, TerminalRunStates
    <2> QED BY <1>34, <2>1, MoveRunRefines DEF Watchdog
  <1>35. ASSUME NEW r \in RunId, GraceFinish(r) PROVE [B!Next]_(B!vars)
    <2>1. r \in RunId /\ "succeeded" \in RunStates
      BY <1>35 DEF GraceFinish, RunStates, ActiveRunStates, TerminalRunStates
    <2> QED BY <1>35, <2>1, MoveRunRefines DEF GraceFinish
  <1>36. ASSUME NEW r \in RunId, ReapRun(r) PROVE [B!Next]_(B!vars)
    <2>1. r \in RunId /\ "killed" \in RunStates
      BY <1>36 DEF ReapRun, RunStates, ActiveRunStates, TerminalRunStates
    <2> QED BY <1>36, <2>1, MoveRunRefines DEF ReapRun
  <1>37. ASSUME NEW r \in RunId, StopRun(r) PROVE [B!Next]_(B!vars)
    <2>1. r \in RunId /\ "killed" \in RunStates
      BY <1>37 DEF StopRun, RunStates, ActiveRunStates, TerminalRunStates
    <2> QED BY <1>37, <2>1, MoveRunRefines DEF StopRun
  <1>38. ASSUME NEW r \in RunId, BootCheck(r) PROVE [B!Next]_(B!vars)
    <2>1. CASE session[r] = "up"
      BY <1>38, <2>1, StutterRefines DEF BootCheck
    <2>2. CASE session[r] # "up"
      <3>1. "interrupted" \in RunStates
        BY DEF RunStates, TerminalRunStates
      <3> QED BY <1>38, <2>2, <3>1, MoveRunRefines DEF BootCheck
    <2> QED BY <2>1, <2>2
  <1>39. ASSUME NEW t \in Task, CreateClaimRun(t) PROVE [B!Next]_(B!vars)
    BY <1>39, InsertRunRefines DEF CreateClaimRun
  <1>40. ASSUME NEW k \in ResumeKinds, NEW t \in Task, ResumeCreate(k, t) PROVE [B!Next]_(B!vars)
    BY <1>40, InsertRunRefines DEF ResumeCreate
  <1>41. ASSUME NEW t \in Task, PromoteDraft(t) PROVE [B!Next]_(B!vars)
    <2> DEFINE moved == [taskState EXCEPT ![t] = "backlog"]
    <2>1. moved \in [Task -> TaskStates] /\ "backlog" \in TaskStates
      BY DEF TypeOK, TaskStates
    <2>2. merged' = merged /\ B!Promote(moved, merged')
      BY <1>41, <2>1, RecomputePromotes DEF PromoteDraft
    <2>3. <<taskState[t], "backlog">> \in TaskEdges
      BY <1>41 DEF PromoteDraft, TaskEdges
    <2>4. jumped' = B!JumpedAfter(t, "backlog")
      BY <1>41, SameJumps DEF PromoteDraft
    <2>5. B!MoveTask(t, "backlog")
      BY <1>41, <2>2, <2>3, <2>4, SameEdges DEF PromoteDraft, B!MoveTask, B!runRows
    <2> QED BY <2>1, <2>5, SameEdges DEF B!Next
  <1>42. ASSUME NEW t \in Task, NEW to \in TaskStates, ApiTransition(t, to) PROVE [B!Next]_(B!vars)
    <2> DEFINE moved == [taskState EXCEPT ![t] = to]
    <2>1. moved \in [Task -> TaskStates]
      BY DEF TypeOK
    <2>2. merged' = IF to = "done" THEN [merged EXCEPT ![t] = TRUE] ELSE merged
      BY <1>42 DEF ApiTransition, MergedAfter
    <2>3. B!Promote(moved, merged')
      BY <1>42, <2>1, RecomputePromotes, NoPromotion DEF ApiTransition
    <2>4. <<taskState[t], to>> \in TaskEdges
      BY <1>42, ApiEdgesAssumption DEF ApiTransition
    <2>5. jumped' = B!JumpedAfter(t, to)
      BY <1>42, SameJumps DEF ApiTransition
    <2>6. B!MoveTask(t, to)
      BY <1>42, <2>2, <2>3, <2>4, <2>5, SameEdges DEF ApiTransition, B!MoveTask, B!runRows
    <2> QED BY <2>6, SameEdges DEF B!Next
  <1>46. ASSUME NEW t \in Task, AskReady(t) PROVE [B!Next]_(B!vars)
    BY <1>46, StutterRefines DEF AskReady
  <1>47. ASSUME NEW t \in Task, TakeReady(t) PROVE [B!Next]_(B!vars)
    <2>1. CASE taskState[t] = "backlog"
      <3>1. <<taskState[t], "ready">> \in TaskEdges /\ "ready" \in TaskStates
        BY <2>1 DEF TaskEdges, TaskStates
      <3>2. taskState' = [taskState EXCEPT ![t] = "ready"]
        BY <1>47, <2>1, <3>1 DEF TakeReady, MoveTask, Guarded, Takes
      <3>3. B!Promote([taskState EXCEPT ![t] = "ready"], merged')
        BY <3>1, <3>2, NoPromotion DEF TypeOK
      <3>4. jumped' = B!JumpedAfter(t, "ready")
        BY <1>47, <2>1, SameJumps DEF TakeReady
      <3>5. B!MoveTask(t, "ready")
        BY <1>47, <3>1, <3>3, <3>4, SameEdges DEF TakeReady, B!MoveTask, B!runRows
      <3> QED BY <3>1, <3>5, SameEdges DEF B!Next
    <2>2. CASE taskState[t] # "backlog"
      <3>1. taskState' = taskState
        BY <1>47, <2>2 DEF TakeReady, MoveTask, Guarded, Takes
      <3> QED BY <1>47, <2>2, <3>1, StutterRefines DEF TakeReady
    <2> QED BY <2>1, <2>2
  <1>43. ASSUME NEW s \in TriageSources, NEW r \in RunId, TriageDemote(s, r) PROVE [B!Next]_(B!vars)
    <2> DEFINE t == runTask[r]
    <2> DEFINE moved == [taskState EXCEPT ![t] = "backlog"]
    <2>1. moved \in [Task -> TaskStates] /\ "backlog" \in TaskStates
      BY DEF TypeOK, TaskStates
    <2>2. CASE taskState[t] = "failed" /\ t \in Task
      <3>1. merged' = merged /\ B!Promote(moved, merged')
        BY <1>43, <2>1, <2>2, RecomputePromotes DEF TriageDemote
      <3>2. <<taskState[t], "backlog">> \in TaskEdges
        BY <2>2 DEF TaskEdges
      <3>3. jumped' = B!JumpedAfter(t, "backlog")
        BY <1>43, <2>2, SameJumps DEF TriageDemote
      <3>4. B!MoveTask(t, "backlog")
        BY <1>43, <3>1, <3>2, <3>3, SameEdges DEF TriageDemote, B!MoveTask, B!runRows
      <3> QED BY <2>1, <2>2, <3>4, SameEdges DEF B!Next
    <2>3. CASE taskState[t] = "failed" /\ t \notin Task
      <3>1. moved = taskState
        BY <2>3 DEF TypeOK
      <3>2. merged' = merged /\ B!Promote(taskState, merged)
        BY <1>43, <2>1, <2>3, <3>1, RecomputePromotes DEF TriageDemote
      <3>3. jumped' = jumped
        BY <1>43, <2>3 DEF TriageDemote, JumpedAfter, TypeOK
      <3>4. B!Unblock
        BY <1>43, <3>2, <3>3 DEF TriageDemote, B!Unblock, B!runRows
      <3> QED BY <3>4 DEF B!Next
    <2>4. CASE taskState[t] # "failed"
      BY <1>43, <2>4, StutterRefines DEF TriageDemote
    <2> QED BY <2>2, <2>3, <2>4
  <1>44. ASSUME Restart PROVE [B!Next]_(B!vars)
    <2>1. merged' = merged /\ B!Promote(taskState, merged)
      BY <1>44, RecomputePromotes DEF Restart, TypeOK
    <2>2. B!Unblock
      BY <1>44, <2>1 DEF Restart, B!Unblock, B!runRows
    <2> QED BY <2>2 DEF B!Next
  <1>45. CASE UNCHANGED vars
    BY <1>45, StutterRefines DEF vars
  <1>. QED BY ONLY [Next]_vars, <1>1, <1>2, <1>3, <1>4, <1>5, <1>6, <1>7, <1>8, <1>9,
                  <1>10, <1>11, <1>12, <1>13, <1>14, <1>15, <1>16, <1>17, <1>18, <1>19,
                  <1>20, <1>21, <1>22, <1>23, <1>24, <1>25, <1>26, <1>27, <1>28, <1>29,
                  <1>30, <1>31, <1>32, <1>33, <1>34, <1>35, <1>36, <1>37, <1>38, <1>39,
                  <1>40, <1>41, <1>42, <1>43, <1>44, <1>45, <1>46, <1>47
    DEF Next, Board, Tick, Spawn, Resume, ResumeStep, Hooks, Poll, Triage, TriageStep,
        Completion, Boot

\* For any tasks, dependencies and limits, the coder loop with its crashes, lost
\* races and restarts implements what the tasks and runs tables promise (Board).
THEOREM Refinement == Spec => BoardSpec
  <1>1. Init => B!Init
    BY DEF Init, B!Init, None
  <1> QED BY <1>1, StepRefines, TypeCorrect, PTL DEF Spec, BoardSpec, B!Spec


----------------------------------------------------------------------------
(* What the board promises, the loop keeps *)

BP == INSTANCE BoardProofs

\* The board of BoardProofs is the board of CoderLoop.
LEMMA SameBoard == BoardSpec => BP!Spec
  <1>1. B!Init => BP!Init
    BY DEF B!Init, BP!Init
  <1>2. [B!Next]_(B!vars) => [BP!Next]_(BP!vars)
    BY DEF B!Next, BP!Next, B!vars, BP!vars, B!MoveTask, BP!MoveTask, B!JumpedAfter, BP!JumpedAfter, B!Unblock, BP!Unblock,
           B!InsertRun, BP!InsertRun, B!MoveRun, BP!MoveRun, B!Promote, BP!Promote,
           B!Prereqs, BP!Prereqs, B!ActiveRuns, BP!ActiveRuns, B!taskRows, BP!taskRows,
           B!runRows, BP!runRows, B!TaskEdges, BP!TaskEdges, B!RunEdges, BP!RunEdges,
           B!TaskStates, BP!TaskStates, B!RunStates, BP!RunStates, B!ActiveRunStates, BP!ActiveRunStates,
           B!TerminalTaskStates, BP!TerminalTaskStates,
           B!TerminalRunStates, BP!TerminalRunStates
  <1> QED BY <1>1, <1>2, PTL DEF BoardSpec, B!Spec, BP!Spec

\* For any tasks, dependencies and limits, through every crash, restart, lost
\* race, resume, failed spawn and late request: no task ever has two active runs,
\* a merge is on record for the done tasks and no others, and a task passes backlog
\* before its prerequisites are merged only when a late POST to "ready" takes it.
THEOREM BoardInvariantsHold == Spec => [](OneActiveRunPerTask /\ MergedIffDone /\ DependencyGate)
  <1>1. BP!OneActiveRunPerTask /\ BP!MergedIffDone /\ BP!DependencyGate =>
          OneActiveRunPerTask /\ MergedIffDone /\ DependencyGate
    BY DEF BP!OneActiveRunPerTask, BP!MergedIffDone, BP!DependencyGate, OneActiveRunPerTask,
           MergedIffDone, DependencyGate, BP!ActiveRuns, ActiveRuns, BP!ActiveRunStates,
           ActiveRunStates, BP!Prereqs, Prereqs
  <1> QED BY <1>1, Refinement, SameBoard, BP!BoardInvariants, PTL

\* Only the link of a late request takes a task past the gate.
LEMMA JumpedStep ==
  ASSUME TypeOK, [Next]_vars PROVE jumped' \subseteq jumped \cup asked
  <1> USE DEF rows, runRows, boot, requests, counters
  <1>1. ASSUME NEW t \in Task, PromoteDraft(t) PROVE jumped' \subseteq jumped
    BY <1>1 DEF PromoteDraft, JumpedAfter
  <1>2. ASSUME NEW t \in Task, NEW to \in TaskStates, ApiTransition(t, to)
        PROVE  jumped' \subseteq jumped
    <2>1. to # "ready"
      BY <1>2, ApiEdgesAssumption DEF ApiTransition, TaskEdges, SystemOnlyEdges
    <2> QED BY <1>2, <2>1 DEF ApiTransition, JumpedAfter
  <1>3. ASSUME NEW t \in Task, AskReady(t) PROVE jumped' = jumped
    BY <1>3 DEF AskReady
  <1>4. ASSUME NEW t \in Task, TakeReady(t) PROVE jumped' \subseteq jumped \cup asked
    BY <1>4 DEF TakeReady, JumpedAfter
  <1>5. CASE Tick
    BY <1>5 DEF Tick, TickStart, TickEnd, TickSkip, CreateClaimRun
  <1>6. CASE Spawn
    BY <1>6 DEF Spawn, ClaimTask, RollbackClaim, SpawnLaunch, SpawnThrow, SpawnConfirm,
                SpawnRollbackRun, SpawnRollbackTask
  <1>7. CASE Resume
    BY <1>7 DEF Resume, ResumeStep, ReviseResume, HumanResume, ReviseMove, ResumeCreate,
                ResumeThrow, ResumeLaunch, ResumeConfirm
  <1>8. CASE Hooks \/ Poll \/ \E r \in RunId : StopRun(r)
    BY <1>8 DEF Hooks, SessionStart, PreToolUse, PostToolUse, StopInBackground, Stop, HookMove,
                Poll, Watchdog, GraceFinish, BudgetPick, ReapRun, StopRun
  <1>9. CASE Triage
    BY <1>9 DEF Triage, HookTriage, BudgetTriage, TriageStep, TriageHuman, TriageRetry,
                TriageDemote, JumpedAfter
  <1>10. CASE Completion
    BY <1>10 DEF Completion, CompleteFromEvent, CompleteAtBoot, CompleteRun, CompletionPark,
                 CompletionHandoff, CompletionMove
  <1>11. CASE Boot
    BY <1>11 DEF Boot, Restart, BootFailTask, StartTriggers, BootCheck
  <1>12. CASE UNCHANGED vars
    BY <1>12 DEF vars
  <1> QED BY <1>1, <1>2, <1>3, <1>4, <1>5, <1>6, <1>7, <1>8, <1>9, <1>10, <1>11, <1>12
          DEF Next, Board

\* The gate of the documents, without exception, for every task that nobody asks to
\* become ready: no claim, triage, requeue, resume, completion or restart lets one
\* past its unmerged prerequisites.  If nobody asks at all, ReadyWhenMerged holds.
THEOREM GateHoldsForTheOthers ==
  Spec => []/\ \A t \in Task \ ReadyAsked :
                taskState[t] \notin {"draft", "backlog", "cancelled"} => DepsMerged(t, merged)
            /\ ReadyAsked = {} => ReadyWhenMerged
  <1>1. Init => jumped \subseteq ReadyAsked
    BY DEF Init
  <1>2. TypeOK /\ jumped \subseteq ReadyAsked /\ [Next]_vars => (jumped \subseteq ReadyAsked)'
    BY JumpedStep DEF TypeOK
  <1>3. ASSUME jumped \subseteq ReadyAsked, DependencyGate
        PROVE  /\ \A t \in Task \ ReadyAsked :
                     taskState[t] \notin {"draft", "backlog", "cancelled"} => DepsMerged(t, merged)
               /\ ReadyAsked = {} => ReadyWhenMerged
    BY <1>3 DEF DependencyGate, DepsMerged, ReadyWhenMerged
  <1> QED BY <1>1, <1>2, <1>3, TypeCorrect, BoardInvariantsHold, PTL DEF Spec

\* OneActiveRunPerTask: claims, resumes and restarts never give a task two active runs.
THEOREM OneRunAtATime == Spec => []OneActiveRunPerTask
  BY BoardInvariantsHold, PTL

\* MergedIffDone: a merge is on record for the done tasks and no others.
THEOREM MergeRecordsAgree == Spec => []MergedIffDone
  BY BoardInvariantsHold, PTL

----------------------------------------------------------------------------
(* Runs and the calls that hold them *)

\* What becomes of a run that was never started.
Unstarted == {"queued", "killed", "interrupted"}

\* Ids are taken in order, and a run has its task, and nothing else, from its insert on.
RunRows ==
    \A r \in RunId :
        /\ runState[r] # "absent" =>
              runTask[r] \in Task /\ \A q \in RunId : q < r => runState[q] # "absent"
        /\ runState[r] = "absent" =>
              /\ runTask[r] = None /\ r \notin resumed /\ r \notin agentId
              /\ session[r] = "none" /\ bootLeft[r] = "none"

\* The run a spawn holds is its own: nobody else starts it, and its task is no
\* candidate of the pass any more.  A resume holds a run that a resume created.
SpawnHolds ==
    spawn.pc # "idle" =>
        /\ spawn.run \notin resumed /\ runTask[spawn.run] = spawn.task
        /\ runState[spawn.run] \in Unstarted
        /\ spawn.pc = "failtask" => runState[spawn.run] # "queued"
        /\ spawn.task \notin tick.todo

ResumeHolds ==
    \A k \in ResumeKinds, t \in Task : resume[k][t].pc \in {"launch", "confirm"} =>
        resume[k][t].run \in resumed /\ runTask[resume[k][t].run] = t

RunInv == RunRows /\ SpawnHolds /\ ResumeHolds

\* A guarded move touches one run, along an edge: no move begins or ends at a row
\* that is not there, and none begins at a terminal state.
LEMMA MoveRunEffect ==
  ASSUME TypeOK, NEW r \in RunId, NEW from, NEW to, MoveRun(r, from, to)
  PROVE  /\ \A q \in RunId : q # r => runState'[q] = runState[q]
         /\ \A q \in RunId : (runState'[q] = "absent") <=> (runState[q] = "absent")
         /\ \A q \in RunId : runState[q] \in TerminalRunStates => runState'[q] = runState[q]
         /\ \/ runState' = runState
            \/ /\ <<from, to>> \in RunEdges /\ runState[r] = from /\ runState'[r] = to
               /\ from \in ActiveRunStates /\ to \in RunStates \ {"queued", "absent"}
  <1>1. CASE <<from, to>> \in RunEdges /\ runState[r] = from
    <2>1. from \in ActiveRunStates /\ from \notin TerminalRunStates \cup {"absent"}
          /\ to \in RunStates \ {"queued", "absent"}
      BY <1>1 DEF RunEdges, ActiveRunStates, TerminalRunStates, RunStates
    <2>2. runState' = [runState EXCEPT ![r] = to]
      BY <1>1 DEF MoveRun, Guarded, Takes
    <2> QED BY <1>1, <2>1, <2>2 DEF TypeOK
  <1>2. CASE ~(<<from, to>> \in RunEdges /\ runState[r] = from)
    BY <1>2 DEF MoveRun, Guarded, Takes
  <1> QED BY <1>1, <1>2

\* A resume in flight names its run.
LEMMA ResumeNamed ==
  ASSUME TypeOK, NEW k \in ResumeKinds, NEW t \in Task
  PROVE  /\ resume[k][t].pc \in {"idle", "create", "move", "launch", "confirm"}
         /\ resume[k][t].pc \in {"launch", "confirm"} => resume[k][t].run \in RunId
         /\ resume[k][t].pc \in {"idle", "create", "move"} => resume[k][t].run = None
  <1>1. resume[k][t] \in ResumeCalls
    BY DEF TypeOK
  <1> QED BY <1>1 DEF ResumeCalls, ResumeIdle, None

\* A handler that moves at most one existing run, and changes no call, keeps RunInv.
LEMMA RunInvMove ==
  ASSUME TypeOK, RunInv, NEW r \in RunId, NEW from, NEW to, MoveRun(r, from, to),
         from # "queued" \/ to # "starting",
         UNCHANGED <<runTask, resumed, spawn, resume, tick>>,
         agentId' \in {agentId, agentId \cup {r}}, agentId' # agentId => runState[r] # "absent",
         \A q \in RunId : session'[q] # session[q] => runState[q] # "absent",
         \A q \in RunId : bootLeft'[q] # bootLeft[q] => runState[q] # "absent"
  PROVE  RunInv'
  <1>1. RunRows'
    BY MoveRunEffect DEF RunInv, RunRows
  <1>2. SpawnHolds'
    <2> SUFFICES ASSUME spawn.pc # "idle" PROVE SpawnHolds'
      BY DEF SpawnHolds
    <2>1. spawn.run \in RunId /\ runState[spawn.run] \in Unstarted
      BY SpawnNamed DEF RunInv, SpawnHolds, Unstarted
    <2>2. runState'[spawn.run] \in {runState[spawn.run]} \cup {"killed", "interrupted"}
      <3>1. CASE runState'[spawn.run] = runState[spawn.run]
        BY <3>1
      <3>2. CASE runState'[spawn.run] # runState[spawn.run]
        <4>1. r = spawn.run /\ <<from, to>> \in RunEdges /\ runState[r] = from
              /\ runState'[r] = to /\ from = "queued"
          BY <2>1, <3>2, MoveRunEffect DEF Unstarted, TerminalRunStates
        <4>2. to \in {"killed", "interrupted"}
          BY <4>1 DEF RunEdges, ActiveRunStates, TerminalRunStates
        <4> QED BY <4>1, <4>2
      <3> QED BY <3>1, <3>2
    <2> QED BY <2>1, <2>2, MoveRunEffect DEF RunInv, SpawnHolds, Unstarted
  <1>3. ResumeHolds'
    BY DEF RunInv, ResumeHolds
  <1> QED BY <1>1, <1>2, <1>3 DEF RunInv

\* A handler that touches neither runs nor the calls that hold them keeps RunInv.
LEMMA RunInvStutter ==
  ASSUME RunInv, UNCHANGED <<runState, runTask, resumed, agentId, session, bootLeft, spawn,
                             resume, tick>>
  PROVE  RunInv'
  BY DEF RunInv, RunRows, SpawnHolds, ResumeHolds

\* Every handler keeps it: ids are fresh, spawns and resumes start only what they hold.
LEMMA RunInvStep == ASSUME TypeOK, RunInv, [Next]_vars PROVE RunInv'
  <1> USE DEF rows, runRows, boot, counters
  <1>1. CASE Board
    BY <1>1, RunInvStutter DEF Board, PromoteDraft, AskReady, TakeReady, ApiTransition
  <1>2. CASE Triage
    BY <1>2, RunInvStutter
    DEF Triage, HookTriage, BudgetTriage, TriageStep, TriageHuman, TriageRetry, TriageDemote
  <1>3. CASE Completion
    BY <1>3, RunInvStutter
    DEF Completion, CompleteFromEvent, CompleteAtBoot, CompleteRun, CompletionPark,
        CompletionHandoff, CompletionMove
  <1>4. CASE BootFailTask \/ StartTriggers \/ UNCHANGED vars
    BY <1>4, RunInvStutter DEF BootFailTask, StartTriggers, vars
  <1>5. CASE TickStart \/ TickEnd \/ \E t \in Task : TickSkip(t)
    <2>1. spawn.pc = "idle"
      BY <1>5 DEF TickStart, TickEnd, TickSkip, TypeOK
    <2> QED BY <1>5, <2>1 DEF TickStart, TickEnd, TickSkip, RunInv, RunRows, SpawnHolds, ResumeHolds
  <1>6. ASSUME NEW t \in Task, CreateClaimRun(t) PROVE RunInv'
    <2>1. PICK r \in FreshRuns : InsertRun(t, r) /\ spawn' = [pc |-> "claim", task |-> t, run |-> r]
      BY <1>6 DEF CreateClaimRun
    <2>2. r \in RunId /\ runState[r] = "absent" /\ \A q \in RunId : q < r => runState[q] # "absent"
      BY DEF FreshRuns
    <2>3. RunRows'
      BY <1>6, <2>1, <2>2 DEF CreateClaimRun, InsertRun, RunInv, RunRows, TypeOK
    <2>4. SpawnHolds'
      BY <1>6, <2>1, <2>2 DEF CreateClaimRun, InsertRun, RunInv, RunRows, SpawnHolds, Unstarted, TypeOK
    <2>5. ResumeHolds'
      BY <1>6, <2>1, <2>2, ResumeNamed
      DEF CreateClaimRun, InsertRun, RunInv, RunRows, ResumeHolds, TypeOK
    <2> QED BY <2>3, <2>4, <2>5 DEF RunInv
  <1>7. ASSUME NEW k \in ResumeKinds, NEW t \in Task, ResumeCreate(k, t) PROVE RunInv'
    <2>1. PICK r \in FreshRuns : /\ InsertRun(t, r) /\ resumed' = resumed \cup {r}
                                 /\ AwaitResume(k, t, "launch", r)
      BY <1>7 DEF ResumeCreate
    <2>2. r \in RunId /\ runState[r] = "absent" /\ \A q \in RunId : q < r => runState[q] # "absent"
      BY DEF FreshRuns
    <2>3. RunRows'
      BY <1>7, <2>1, <2>2 DEF ResumeCreate, InsertRun, RunInv, RunRows, TypeOK
    <2>4. SpawnHolds'
      <3>1. CASE spawn.pc = "idle"
        BY <1>7, <3>1 DEF ResumeCreate, SpawnHolds
      <3>2. CASE spawn.pc # "idle"
        <4>1. spawn.run \in RunId /\ runState[spawn.run] # "absent" /\ spawn.run # r
          BY <2>2, <3>2, SpawnNamed DEF RunInv, SpawnHolds, Unstarted, TerminalRunStates
        <4> QED BY <1>7, <2>1, <3>2, <4>1 DEF ResumeCreate, InsertRun, RunInv, SpawnHolds, TypeOK
      <3> QED BY <3>1, <3>2
    <2>5. ResumeHolds'
      BY <1>7, <2>1, <2>2, ResumeNamed
      DEF ResumeCreate, InsertRun, AwaitResume, RunInv, RunRows, ResumeHolds, TypeOK
    <2> QED BY <2>3, <2>4, <2>5 DEF RunInv
  <1>8. CASE ClaimTask \/ RollbackClaim \/ SpawnThrow \/ SpawnRollbackRun \/ SpawnRollbackTask
    <2>1. spawn.pc # "idle" /\ spawn.run \in RunId /\ runState[spawn.run] \in Unstarted
      BY <1>8, SpawnNamed
      DEF ClaimTask, RollbackClaim, SpawnThrow, SpawnRollbackRun, SpawnRollbackTask, RunInv,
          SpawnHolds, Unstarted
    <2>2. RunRows'
      BY <1>8, <2>1, MoveRunEffect
      DEF ClaimTask, RollbackClaim, SpawnThrow, SpawnRollbackRun, SpawnRollbackTask, RunInv, RunRows
    <2>3. SpawnRollbackRun => runState'[spawn.run] \in Unstarted \ {"queued"}
      BY <2>1, MoveRunEffect
      DEF SpawnRollbackRun, MoveRun, Guarded, Takes, Unstarted, RunEdges, ActiveRunStates,
          TerminalRunStates, TypeOK
    <2>4. SpawnHolds'
      BY <1>8, <2>1, <2>3, SpawnNamed
      DEF ClaimTask, RollbackClaim, SpawnThrow, SpawnRollbackRun, SpawnRollbackTask, RunInv,
          SpawnHolds, SpawnIdle
    <2>5. ResumeHolds'
      BY <1>8
      DEF ClaimTask, RollbackClaim, SpawnThrow, SpawnRollbackRun, SpawnRollbackTask, RunInv,
          ResumeHolds
    <2> QED BY <2>2, <2>4, <2>5 DEF RunInv
  <1>9. CASE SpawnLaunch \/ SpawnConfirm
    <2>1. spawn.pc # "idle" /\ spawn.run \in RunId /\ runState[spawn.run] \in Unstarted
          /\ runState[spawn.run] # "absent"
      BY <1>9, SpawnNamed
      DEF SpawnLaunch, SpawnConfirm, RunInv, SpawnHolds, Unstarted, TerminalRunStates
    <2>a. \A q \in RunId : q # spawn.run => session'[q] = session[q]
      BY <1>9, <2>1 DEF SpawnLaunch, SpawnConfirm, TypeOK
    <2>b. \A q \in RunId : (runState'[q] = "absent") <=> (runState[q] = "absent")
      BY <1>9, <2>1, MoveRunEffect DEF SpawnLaunch, SpawnConfirm
    <2>c. UNCHANGED <<runTask, agentId, resumed, bootLeft>>
      BY <1>9 DEF SpawnLaunch, SpawnConfirm
    <2>2. RunRows'
      BY <2>1, <2>a, <2>b, <2>c DEF RunInv, RunRows
    <2>3. SpawnHolds'
      BY <1>9, <2>1, SpawnNamed
      DEF SpawnLaunch, SpawnConfirm, MoveRun, Guarded, Takes, RunInv, SpawnHolds, SpawnIdle
    <2>4. ResumeHolds'
      BY <1>9 DEF SpawnLaunch, SpawnConfirm, RunInv, ResumeHolds
    <2> QED BY <2>2, <2>3, <2>4 DEF RunInv
  <1>10. ASSUME NEW t \in Task, ReviseResume(t) \/ HumanResume(t) \/ ReviseMove(t) PROVE RunInv'
    <2>1. UNCHANGED <<runState, runTask, agentId, session, resumed, bootLeft, spawn, tick>>
      BY <1>10 DEF ReviseResume, HumanResume, ReviseMove
    <2>2. \A k \in ResumeKinds, u \in Task :
            resume'[k][u] = resume[k][u] \/ resume'[k][u].pc \in {"create", "idle"}
      <3>1. PICK k \in {"review", "human"}, pc \in {"create", "idle"} : AwaitResume(k, t, pc, None)
        BY <1>10 DEF ReviseResume, HumanResume, ReviseMove
      <3> QED BY <3>1 DEF AwaitResume, TypeOK, ResumeKinds
    <2>3. RunRows' /\ SpawnHolds'
      BY <2>1 DEF RunInv, RunRows, SpawnHolds
    <2>4. ResumeHolds'
      BY <2>1, <2>2 DEF RunInv, ResumeHolds
    <2> QED BY <2>3, <2>4 DEF RunInv
  <1>11. ASSUME NEW k \in ResumeKinds, NEW t \in Task, ResumeThrow(k, t) PROVE RunInv'
    BY <1>11 DEF ResumeThrow, AwaitResume, RunInv, RunRows, SpawnHolds, ResumeHolds, TypeOK
  <1>12. ASSUME NEW k \in ResumeKinds, NEW t \in Task, ResumeLaunch(k, t) PROVE RunInv'
    <2>1. resume[k][t].run \in resumed /\ runTask[resume[k][t].run] = t
      BY <1>12 DEF ResumeLaunch, RunInv, ResumeHolds
    <2>2. \A q \in RunId : q # resume[k][t].run => session'[q] = session[q]
      BY <1>12 DEF ResumeLaunch, TypeOK
    <2>3. RunRows'
      BY <1>12, <2>1, <2>2 DEF ResumeLaunch, RunInv, RunRows
    <2>4. SpawnHolds'
      BY <1>12 DEF ResumeLaunch, RunInv, SpawnHolds
    <2>5. ResumeHolds'
      BY <1>12, <2>1 DEF ResumeLaunch, AwaitResume, RunInv, ResumeHolds, TypeOK
    <2> QED BY <2>3, <2>4, <2>5 DEF RunInv
  <1>13. ASSUME NEW k \in ResumeKinds, NEW t \in Task, ResumeConfirm(k, t) PROVE RunInv'
    <2> DEFINE r == resume[k][t].run
    <2>1. r \in resumed /\ r \in RunId /\ runState[r] # "absent" /\ MoveRun(r, "queued", "starting")
      BY <1>13, ResumeNamed DEF ResumeConfirm, RunInv, RunRows, ResumeHolds
    <2>a. \A q \in RunId : q # r => session'[q] = session[q]
      BY <1>13, <2>1 DEF ResumeConfirm, TypeOK
    <2>b. \A q \in RunId : (runState'[q] = "absent") <=> (runState[q] = "absent")
      BY <2>1, MoveRunEffect
    <2>c. UNCHANGED <<runTask, agentId, resumed, bootLeft>>
      BY <1>13 DEF ResumeConfirm
    <2>2. RunRows'
      BY <2>1, <2>a, <2>b, <2>c DEF RunInv, RunRows
    <2>3. SpawnHolds'
      <3>1. spawn.pc # "idle" => spawn.run \in RunId /\ spawn.run # r
        BY <2>1, SpawnNamed DEF RunInv, SpawnHolds
      <3>2. spawn.pc # "idle" => runState'[spawn.run] = runState[spawn.run]
        BY <2>1, <3>1, MoveRunEffect
      <3>3. UNCHANGED <<runTask, resumed, tick, spawn>>
        BY <1>13 DEF ResumeConfirm
      <3> HIDE DEF r
      <3> QED BY <3>2, <3>3 DEF RunInv, SpawnHolds
    <2>4. ResumeHolds'
      BY <1>13 DEF ResumeConfirm, AwaitResume, RunInv, ResumeHolds, TypeOK
    <2> QED BY <2>2, <2>3, <2>4 DEF RunInv
  <1>14. ASSUME NEW r \in RunId,
                SessionStart(r) \/ PreToolUse(r) \/ PostToolUse(r) \/ StopInBackground(r) \/ Stop(r)
         PROVE  RunInv'
    BY <1>14, RunInvMove
    DEF SessionStart, PreToolUse, PostToolUse, StopInBackground, Stop, HookMove
  <1>15. ASSUME NEW r \in RunId,
                Watchdog(r, "failed") \/ Watchdog(r, "succeeded") \/ GraceFinish(r)
                  \/ ReapRun(r) \/ StopRun(r)
         PROVE  RunInv'
    BY <1>15, RunInvMove DEF Watchdog, GraceFinish, ReapRun, StopRun
  <1>16. ASSUME NEW r \in RunId, BudgetPick(r) PROVE RunInv'
    BY <1>16 DEF BudgetPick, Started, ActiveRunStates, RunInv, RunRows, SpawnHolds, ResumeHolds, TypeOK
  <1>17. CASE Restart
    BY <1>17
    DEF Restart, InDoubt, SpawnIdle, ResumeIdle, RunInv, RunRows, SpawnHolds, ResumeHolds,
        ActiveRunStates, TypeOK
  <1>18. ASSUME NEW r \in RunId, BootCheck(r) PROVE RunInv'
    <2>1. CASE session[r] = "up"
      BY <1>18, <2>1 DEF BootCheck, RunInv, RunRows, SpawnHolds, ResumeHolds, TypeOK
    <2>2. CASE session[r] # "up"
      BY <1>18, <2>2, RunInvMove DEF BootCheck, RunInv, RunRows, TypeOK
    <2> QED BY <2>1, <2>2
  <1> QED BY <1>1, <1>2, <1>3, <1>4, <1>5, <1>6, <1>7, <1>8, <1>9, <1>10, <1>11, <1>12, <1>13,
             <1>14, <1>15, <1>16, <1>17, <1>18
          DEF Next, Tick, Spawn, Resume, ResumeStep, Hooks, Poll, Boot

\* A fresh server has no run and no call.
LEMMA RunInvInit == Init => RunInv
  BY DEF Init, NothingInFlight, SpawnIdle, ResumeIdle, RunInv, RunRows, SpawnHolds, ResumeHolds

\* Every handler finds runs and the calls that hold them in step.
LEMMA RunsInStep == Spec => []RunInv
  BY TypeCorrect, RunInvInit, RunInvStep, PTL DEF Spec

----------------------------------------------------------------------------
(* The slots of the scheduler *)

\* The runs that count against the slots: active, and not created by a resume.
Scheduled == ActiveCoderRuns \ resumed

\* The run whose slot the fill pass has yet to subtract.
Unpaid == IF spawn.pc = "idle" THEN {} ELSE {spawn.run}

\* The free slots of a fill pass are free: the pass counted them once, and every run
\* it started since then is paid for, but the one of the spawn in flight.
SlotsInv ==
    /\ Cardinality(Scheduled) <= MaxSlots
    /\ tick.on => Cardinality(Scheduled \ Unpaid) + tick.free <= MaxSlots

\* The slots in use can be counted.
LEMMA ScheduledFinite ==
  ASSUME NEW S, S \subseteq RunId PROVE IsFiniteSet(S) /\ Cardinality(S) \in Nat
  <1>1. IsFiniteSet(RunId)
    BY FS_Interval, BoundsAssumption DEF RunId
  <1> QED BY <1>1, FS_Subset, FS_CardinalityType

\* Fewer runs take fewer slots.
LEMMA FewerSlots ==
  ASSUME NEW S, NEW R, S \subseteq RunId, R \subseteq S
  PROVE  Cardinality(R) \in Nat /\ Cardinality(S) \in Nat /\ Cardinality(R) <= Cardinality(S)
  BY ScheduledFinite, FS_Subset

\* One more run takes at most one slot.
LEMMA OneMoreSlot ==
  ASSUME NEW S, NEW R, NEW r \in RunId, S \subseteq RunId, R \subseteq S \cup {r}
  PROVE  Cardinality(R) \in Nat /\ Cardinality(S) \in Nat /\ Cardinality(R) <= Cardinality(S) + 1
  <1>1. Cardinality(S \cup {r}) = IF r \in S THEN Cardinality(S) ELSE Cardinality(S) + 1
    BY ScheduledFinite, FS_AddElement
  <1>2. Cardinality(R) \in Nat /\ Cardinality(R) <= Cardinality(S \cup {r})
    BY FewerSlots
  <1>3. Cardinality(S) \in Nat
    BY ScheduledFinite
  <1> QED BY <1>1, <1>2, <1>3

\* The scheduler's runs are runs, before and after any step.
LEMMA ScheduledRuns == Scheduled \subseteq RunId /\ ActiveCoderRuns \subseteq RunId
  BY DEF Scheduled, ActiveCoderRuns

\* A guarded move starts no run: an active run was active before it.
LEMMA MoveRunActive ==
  ASSUME TypeOK, NEW r \in RunId, NEW from, NEW to, MoveRun(r, from, to)
  PROVE  ActiveCoderRuns' \subseteq ActiveCoderRuns
  <1> SUFFICES ASSUME NEW q \in RunId, runState'[q] \in ActiveRunStates
               PROVE  runState[q] \in ActiveRunStates
    BY DEF ActiveCoderRuns
  <1>1. \/ runState'[q] = runState[q]
        \/ q = r /\ runState[q] = from /\ from \in ActiveRunStates
    BY MoveRunEffect
  <1> QED BY <1>1

\* A step that gives no run to the scheduler and no slot to the pass is safe.
LEMMA SlotsKept ==
  ASSUME TypeOK, TypeOK', SlotsInv, Scheduled' \subseteq Scheduled,
         Scheduled' \ Unpaid' \subseteq Scheduled \ Unpaid,
         tick'.on => tick.on /\ tick'.free <= tick.free
  PROVE  SlotsInv'
  <1>1. /\ Cardinality(Scheduled') \in Nat /\ Cardinality(Scheduled) \in Nat
        /\ Cardinality(Scheduled') <= Cardinality(Scheduled)
    BY FewerSlots, ScheduledRuns
  <1>2. /\ Cardinality(Scheduled' \ Unpaid') \in Nat /\ Cardinality(Scheduled \ Unpaid) \in Nat
        /\ Cardinality(Scheduled' \ Unpaid') <= Cardinality(Scheduled \ Unpaid)
    <2>1. Scheduled \ Unpaid \subseteq RunId
      BY ScheduledRuns
    <2> QED BY <2>1, FewerSlots
  <1>3. tick.free \in Nat /\ tick'.free \in Nat
    BY DEF TypeOK
  <1>4. MaxSlots \in Nat
    BY BoundsAssumption
  <1> QED BY <1>1, <1>2, <1>3, <1>4 DEF SlotsInv

\* A handler of neither the pass nor the spawn that starts no scheduled run is safe.
LEMMA SlotsElsewhere ==
  ASSUME TypeOK, TypeOK', SlotsInv, Scheduled' \subseteq Scheduled, UNCHANGED <<tick, spawn>>
  PROVE  SlotsInv'
  <1>1. tick.free \in Nat
    BY DEF TypeOK
  <1>2. Unpaid' = Unpaid
    BY DEF Unpaid
  <1>3. Scheduled' \ Unpaid' \subseteq Scheduled \ Unpaid
    BY <1>2
  <1>4. tick'.on => tick.on /\ tick'.free <= tick.free
    BY <1>1
  <1> QED BY <1>3, <1>4, SlotsKept

\* A spawn's own steps.
LEMMA SlotsSpawn ==
  ASSUME TypeOK, TypeOK', RunInv, SlotsInv, Spawn PROVE SlotsInv'
  <1> DEFINE r == spawn.run
  <1>1. spawn.pc # "idle" /\ r \in RunId /\ resumed' = resumed /\ r \notin resumed
        /\ runState[r] \in Unstarted
    BY SpawnNamed
    DEF Spawn, ClaimTask, RollbackClaim, SpawnLaunch, SpawnThrow, SpawnConfirm,
        SpawnRollbackRun, SpawnRollbackTask, runRows, RunInv, SpawnHolds, Unstarted
  <1>2. ActiveCoderRuns' \subseteq ActiveCoderRuns
    <2>1. UNCHANGED runState \/ \E from, to : MoveRun(r, from, to)
      BY DEF Spawn, ClaimTask, RollbackClaim, SpawnLaunch, SpawnThrow, SpawnConfirm,
             SpawnRollbackRun, SpawnRollbackTask, runRows
    <2> QED BY <1>1, <2>1, MoveRunActive DEF ActiveCoderRuns
  <1>3. Scheduled' \subseteq Scheduled
    BY <1>1, <1>2 DEF Scheduled
  <1>4. tick.free \in Nat /\ tick.free > 0 /\ tick.on
    BY <1>1, SpawnNamed
  <1>5. ASSUME NEW pc \in SpawnPcs \ {"idle"}, spawn' = [spawn EXCEPT !.pc = pc], tick' = tick
        PROVE  SlotsInv'
    <2>1. spawn'.pc = pc /\ spawn'.run = spawn.run
      BY <1>1, <1>5, SpawnNamed
    <2>2. Unpaid' = Unpaid
      BY <1>1, <2>1 DEF Unpaid, SpawnPcs
    <2>3. Scheduled' \ Unpaid' \subseteq Scheduled \ Unpaid
      BY <1>3, <2>2
    <2>4. tick'.on => tick.on /\ tick'.free <= tick.free
      BY <1>4, <1>5
    <2> QED BY <1>3, <2>3, <2>4, SlotsKept
  <1>6. CASE ClaimTask \/ SpawnLaunch \/ SpawnThrow \/ SpawnRollbackRun
    <2>1. tick' = tick /\ \E pc \in SpawnPcs \ {"idle"} : spawn' = [spawn EXCEPT !.pc = pc]
      BY <1>6 DEF ClaimTask, SpawnLaunch, SpawnThrow, SpawnRollbackRun, SpawnPcs
    <2> QED BY <1>5, <2>1
  <1>7. ASSUME spawn' = SpawnIdle, tick' = tick, r \notin ActiveCoderRuns' PROVE SlotsInv'
    <2>1. Scheduled' \ Unpaid' \subseteq Scheduled \ Unpaid
      BY <1>1, <1>3, <1>7 DEF Unpaid, Scheduled
    <2>2. tick'.on => tick.on /\ tick'.free <= tick.free
      BY <1>4, <1>7
    <2> QED BY <1>3, <2>1, <2>2, SlotsKept
  <1>8. CASE RollbackClaim
    <2>1. runState'[r] \notin ActiveRunStates
      <3>1. CASE runState[r] = "queued"
        BY <1>1, <1>8, <3>1
        DEF RollbackClaim, MoveRun, Guarded, Takes, RunEdges, ActiveRunStates, TypeOK
      <3>2. CASE runState[r] # "queued"
        BY <1>1, <1>8, <3>2, MoveRunEffect
        DEF RollbackClaim, Unstarted, ActiveRunStates, TerminalRunStates
      <3> QED BY <3>1, <3>2
    <2> QED BY <1>7, <1>8, <2>1 DEF RollbackClaim, ActiveCoderRuns
  <1>9. CASE SpawnRollbackTask
    BY <1>1, <1>7, <1>9
    DEF SpawnRollbackTask, runRows, RunInv, SpawnHolds, Unstarted, ActiveCoderRuns,
        ActiveRunStates
  <1>10. CASE SpawnConfirm /\ runState[r] # "queued"
    <2>1. tick' = tick /\ spawn' = [spawn EXCEPT !.pc = "fail"]
      BY <1>10 DEF SpawnConfirm
    <2> QED BY <1>5, <2>1 DEF SpawnPcs
  <1>11. CASE SpawnConfirm /\ runState[r] = "queued"
    <2>1. spawn' = SpawnIdle /\ tick' = [tick EXCEPT !.free = tick.free - 1]
      BY <1>11 DEF SpawnConfirm
    <2>2. tick'.free = tick.free - 1
      BY <2>1 DEF TypeOK
    <2>3. Unpaid' = {} /\ Unpaid = {r}
      BY <1>1, <2>1 DEF Unpaid, SpawnIdle
    <2>4. Scheduled \ Unpaid \subseteq RunId
      BY ScheduledRuns
    <2>5. Scheduled' \subseteq (Scheduled \ Unpaid) \cup {r}
      BY <1>3, <2>3
    <2>6. /\ Cardinality(Scheduled') \in Nat /\ Cardinality(Scheduled \ Unpaid) \in Nat
          /\ Cardinality(Scheduled') <= Cardinality(Scheduled \ Unpaid) + 1
      BY ONLY <1>1, <2>4, <2>5, OneMoreSlot
    <2>7. Cardinality(Scheduled \ Unpaid) + tick.free <= MaxSlots
      BY <1>4 DEF SlotsInv
    <2>8. Scheduled' \ Unpaid' = Scheduled'
      BY <2>3
    <2>9. Cardinality(Scheduled' \ Unpaid') = Cardinality(Scheduled')
      BY ONLY <2>8
    <2>10. /\ Cardinality(Scheduled') <= MaxSlots
           /\ Cardinality(Scheduled') + tick'.free <= MaxSlots
      BY <1>4, <2>2, <2>6, <2>7, BoundsAssumption
    <2> QED BY <2>9, <2>10 DEF SlotsInv
  <1> QED BY <1>6, <1>8, <1>9, <1>10, <1>11 DEF Spawn

\* The pass's own steps.
LEMMA SlotsTick ==
  ASSUME TypeOK, TypeOK', RunInv, SlotsInv, Tick PROVE SlotsInv'
  <1>1. spawn.pc = "idle" /\ Unpaid = {}
    BY DEF Tick, TickStart, TickEnd, TickSkip, CreateClaimRun, TypeOK, Unpaid
  <1>2. CASE TickStart
    <2>1. Unpaid' = {} /\ Scheduled' = Scheduled
      BY <1>1, <1>2 DEF TickStart, Unpaid, Scheduled, ActiveCoderRuns, runRows
    <2>2. Cardinality(Scheduled) \in Nat /\ Busy \in Nat /\ Cardinality(Scheduled) <= Busy
      BY FewerSlots, ScheduledRuns DEF Busy, Scheduled
    <2>3. tick'.free = MaxSlots - Busy
      BY <1>2 DEF TickStart
    <2>4. Scheduled' \ Unpaid' = Scheduled
      BY <2>1
    <2> QED BY <2>1, <2>2, <2>3, <2>4, BoundsAssumption DEF SlotsInv
  <1>3. CASE TickEnd \/ \E t \in Task : TickSkip(t)
    <2>1. UNCHANGED <<runState, resumed, spawn>>
          /\ (tick' = TickOff \/ \E t \in Task : tick' = [tick EXCEPT !.todo = tick.todo \ {t}])
      BY <1>3 DEF TickEnd, TickSkip, runRows
    <2>a. tick \in [on : BOOLEAN, free : Nat, todo : SUBSET Task]
      BY DEF TypeOK
    <2>b. tick' = TickOff => ~tick'.on
      BY DEF TickOff
    <2>c. ASSUME NEW t \in Task, tick' = [tick EXCEPT !.todo = tick.todo \ {t}]
          PROVE  tick'.on = tick.on /\ tick'.free = tick.free
      BY ONLY <2>a, <2>c, Zenon
    <2>d. tick.free \in Nat
      BY <2>a
    <2>2. tick'.on => tick.on /\ tick'.free <= tick.free
      <3>1. CASE \E t \in Task : tick' = [tick EXCEPT !.todo = tick.todo \ {t}]
        <4>1. tick'.on = tick.on /\ tick'.free = tick.free
          BY <2>c, <3>1, Zenon
        <4> QED BY <2>d, <4>1
      <3> QED BY <2>1, <2>b, <3>1
    <2>3. Scheduled' = Scheduled /\ Unpaid' = Unpaid
      BY <2>1 DEF Scheduled, ActiveCoderRuns, Unpaid
    <2> QED BY <2>2, <2>3, SlotsKept
  <1>4. ASSUME NEW t \in Task, CreateClaimRun(t) PROVE SlotsInv'
    <2>1. PICK r \in FreshRuns : InsertRun(t, r) /\ spawn' = [pc |-> "claim", task |-> t, run |-> r]
      BY <1>4 DEF CreateClaimRun
    <2>2. r \in RunId /\ runState[r] = "absent" /\ r \notin Scheduled
      BY DEF FreshRuns, Scheduled, ActiveCoderRuns, ActiveRunStates
    <2>3. Scheduled' \subseteq Scheduled \cup {r}
      BY <1>4, <2>1, <2>2
      DEF CreateClaimRun, InsertRun, Scheduled, ActiveCoderRuns, TypeOK
    <2>4. Unpaid' = {r}
      BY <2>1 DEF Unpaid
    <2>5. tick'.free = tick.free /\ tick.free \in Nat /\ tick.free > 0 /\ tick.on
      BY <1>4 DEF CreateClaimRun, TypeOK
    <2>6. /\ Cardinality(Scheduled') \in Nat /\ Cardinality(Scheduled) \in Nat
          /\ Cardinality(Scheduled') <= Cardinality(Scheduled) + 1
      BY <2>2, <2>3, OneMoreSlot, ScheduledRuns
    <2>7. /\ Cardinality(Scheduled' \ Unpaid') \in Nat
          /\ Cardinality(Scheduled' \ Unpaid') <= Cardinality(Scheduled)
      BY <2>3, <2>4, FewerSlots, ScheduledRuns
    <2>8. Cardinality(Scheduled) + tick.free <= MaxSlots
      <3>1. Scheduled \ Unpaid = Scheduled
        BY <1>1
      <3> QED BY <2>5, <3>1 DEF SlotsInv
    <2> QED BY <2>5, <2>6, <2>7, <2>8, BoundsAssumption DEF SlotsInv
  <1> QED BY <1>2, <1>3, <1>4 DEF Tick

\* Every handler keeps the count.
LEMMA SlotsStep ==
  ASSUME TypeOK, TypeOK', RunInv, SlotsInv, [Next]_vars PROVE SlotsInv'
  <1> USE DEF rows, runRows, boot, counters
  <1>1. CASE Tick
    BY <1>1, SlotsTick
  <1>2. CASE Spawn
    BY <1>2, SlotsSpawn
  <1>3. CASE Restart
    <2>1. Scheduled' = Scheduled
      BY <1>3 DEF Restart, Scheduled, ActiveCoderRuns
    <2>2. ~tick'.on
      BY <1>3 DEF Restart, TickOff
    <2> QED BY <2>1, <2>2 DEF SlotsInv
  <1>4. ASSUME NEW k \in ResumeKinds, NEW t \in Task, ResumeCreate(k, t) PROVE SlotsInv'
    <2>1. PICK r \in FreshRuns : InsertRun(t, r) /\ resumed' = resumed \cup {r}
      BY <1>4 DEF ResumeCreate
    <2>2. Scheduled' \subseteq Scheduled
      BY <2>1 DEF InsertRun, Scheduled, ActiveCoderRuns, TypeOK
    <2> QED BY <1>4, <2>2, SlotsElsewhere DEF ResumeCreate
  <1>5. ASSUME UNCHANGED <<tick, spawn, resumed>>,
               UNCHANGED runState \/ \E r \in RunId : \E from, to : MoveRun(r, from, to)
        PROVE  SlotsInv'
    <2>1. ActiveCoderRuns' \subseteq ActiveCoderRuns
      BY <1>5, MoveRunActive DEF ActiveCoderRuns
    <2>2. Scheduled' \subseteq Scheduled
      BY <1>5, <2>1 DEF Scheduled
    <2> QED BY <1>5, <2>2, SlotsElsewhere
  <1>6. CASE Board \/ UNCHANGED vars
    BY <1>5, <1>6 DEF Board, PromoteDraft, AskReady, TakeReady, ApiTransition, vars
  <1>7. CASE Triage
    BY <1>5, <1>7
    DEF Triage, HookTriage, BudgetTriage, TriageStep, TriageHuman, TriageRetry, TriageDemote
  <1>8. CASE Completion
    BY <1>5, <1>8
    DEF Completion, CompleteFromEvent, CompleteAtBoot, CompleteRun, CompletionPark,
        CompletionHandoff, CompletionMove
  <1>9. ASSUME NEW t \in Task, ReviseResume(t) \/ HumanResume(t) \/ ReviseMove(t) PROVE SlotsInv'
    BY <1>5, <1>9 DEF ReviseResume, HumanResume, ReviseMove
  <1>10. ASSUME NEW k \in ResumeKinds, NEW t \in Task,
                ResumeThrow(k, t) \/ ResumeLaunch(k, t)
         PROVE  SlotsInv'
    BY <1>5, <1>10 DEF ResumeThrow, ResumeLaunch
  <1>11. ASSUME NEW k \in ResumeKinds, NEW t \in Task, ResumeConfirm(k, t) PROVE SlotsInv'
    <2>1. resume[k][t].run \in RunId
      BY <1>11, ResumeNamed DEF ResumeConfirm
    <2> QED BY <1>5, <1>11, <2>1 DEF ResumeConfirm
  <1>12. CASE Hooks
    BY <1>5, <1>12
    DEF Hooks, SessionStart, PreToolUse, PostToolUse, StopInBackground, Stop, HookMove
  <1>13. CASE Poll \/ \E r \in RunId : StopRun(r)
    BY <1>5, <1>13 DEF Poll, Watchdog, GraceFinish, BudgetPick, ReapRun, StopRun
  <1>14. CASE BootFailTask \/ StartTriggers \/ \E r \in RunId : BootCheck(r)
    BY <1>5, <1>14 DEF BootFailTask, StartTriggers, BootCheck
  <1> QED BY <1>1, <1>2, <1>3, <1>4, <1>6, <1>7, <1>8, <1>9, <1>10, <1>11, <1>12, <1>13, <1>14
          DEF Next, Resume, ResumeStep, Boot

\* A fresh server holds no slot.
LEMMA SlotsInit == Init => SlotsInv
  <1> SUFFICES ASSUME Init PROVE SlotsInv
    OBVIOUS
  <1>1. Scheduled = {} /\ ~tick.on
    BY DEF Init, NothingInFlight, TickOff, Scheduled, ActiveCoderRuns, ActiveRunStates
  <1> QED BY <1>1, FS_EmptySet, BoundsAssumption DEF SlotsInv

\* SchedulerSlots: for any number of slots, tasks and runs, across lost claims, spawns that
\* throw, restarts and runs that end meanwhile, no fill pass takes a slot that is not there.
THEOREM SlotsHold == Spec => []SchedulerSlots
  <1>1. SlotsInv => SchedulerSlots
    BY DEF SlotsInv, SchedulerSlots, Scheduled
  <1> QED BY <1>1, TypeCorrect, RunsInStep, SlotsInit, SlotsStep, PTL DEF Spec

----------------------------------------------------------------------------
(* No queued run is left behind *)

\* A handler outside the spawn and the boot leaves every queued run where it was: it
\* queues none that the scheduler owns, and does not touch the session of one.
LEMMA ZombieElsewhere ==
  ASSUME NoQueuedZombie, UNCHANGED <<spawn, bootLeft, restarts>>,
         \A q \in RunId \ resumed' : runState'[q] = "queued" =>
            runState[q] = "queued" /\ q \notin resumed /\ session'[q] = session[q]
  PROVE  NoQueuedZombie'
  BY DEF NoQueuedZombie

\* A guarded move queues no run.
LEMMA MoveRunQueued ==
  ASSUME TypeOK, NEW r \in RunId, NEW from, NEW to, MoveRun(r, from, to)
  PROVE  /\ \A q \in RunId : runState'[q] = "queued" => runState[q] = "queued"
         /\ <<from, to>> \in RunEdges => runState'[r] = to \/ runState[r] # from
  <1>1. \A q \in RunId : runState'[q] = "queued" => runState[q] = "queued"
    BY MoveRunEffect
  <1>2. <<from, to>> \in RunEdges => runState'[r] = to \/ runState[r] # from
    BY DEF MoveRun, Guarded, Takes, TypeOK
  <1> QED BY <1>1, <1>2

\* A spawn ends when its run is no longer queued, and not before.
LEMMA ZombieSpawn ==
  ASSUME TypeOK, RunInv, NoQueuedZombie, Spawn PROVE NoQueuedZombie'
  <1> DEFINE r == spawn.run
  <1> USE DEF rows, runRows, boot, counters
  <1>1. spawn.pc # "idle" /\ r \in RunId /\ runState[r] \in Unstarted
    BY SpawnNamed
    DEF Spawn, ClaimTask, RollbackClaim, SpawnLaunch, SpawnThrow, SpawnConfirm,
        SpawnRollbackRun, SpawnRollbackTask, RunInv, SpawnHolds, Unstarted
  <1>2. UNCHANGED <<resumed, bootLeft, restarts>> /\ \A q \in RunId \ {r} : session'[q] = session[q]
    BY <1>1
    DEF Spawn, ClaimTask, RollbackClaim, SpawnLaunch, SpawnThrow, SpawnConfirm,
        SpawnRollbackRun, SpawnRollbackTask, TypeOK
  <1>3. /\ \A q \in RunId : runState'[q] = "queued" => runState[q] = "queued"
        /\ RollbackClaim \/ SpawnRollbackRun \/ SpawnConfirm => runState'[r] # "queued"
    <2>1. UNCHANGED runState \/ \E from, to : MoveRun(r, from, to)
      BY DEF Spawn, ClaimTask, RollbackClaim, SpawnLaunch, SpawnThrow, SpawnConfirm,
             SpawnRollbackRun, SpawnRollbackTask
    <2>2. \A q \in RunId : runState'[q] = "queued" => runState[q] = "queued"
      BY <1>1, <2>1, MoveRunQueued
    <2>3. ASSUME RollbackClaim \/ SpawnRollbackRun \/ SpawnConfirm, runState[r] = "queued"
          PROVE  runState'[r] # "queued"
      <3>1. PICK to \in {"killed", "starting"} : MoveRun(r, "queued", to)
        BY <2>3 DEF RollbackClaim, SpawnRollbackRun, SpawnConfirm
      <3> QED BY ZenonT(60), <1>1, <2>3, <3>1, MoveRunQueued DEF RunEdges, ActiveRunStates
    <2> QED BY <1>1, <2>2, <2>3
  <1>4. CASE \E pc \in SpawnPcs \ {"idle", "failtask"} : spawn' = [spawn EXCEPT !.pc = pc]
    <2>1. spawn'.run = r /\ spawn'.pc \in SpawnPcs \ {"idle", "failtask"}
      BY <1>1, <1>4, SpawnNamed
    <2> QED BY <1>2, <1>3, <2>1 DEF NoQueuedZombie
  <1>5. ASSUME runState'[r] # "queued" PROVE NoQueuedZombie'
    BY <1>1, <1>2, <1>3, <1>5 DEF NoQueuedZombie
  <1>6. CASE SpawnRollbackTask
    <2>1. runState'[r] # "queued"
      BY <1>6 DEF SpawnRollbackTask, RunInv, SpawnHolds, TerminalRunStates
    <2> QED BY <1>5, <2>1
  <1>7. CASE ClaimTask \/ SpawnLaunch \/ SpawnThrow
    <2>1. \E pc \in SpawnPcs \ {"idle", "failtask"} : spawn' = [spawn EXCEPT !.pc = pc]
      BY <1>7 DEF ClaimTask, SpawnLaunch, SpawnThrow, SpawnPcs
    <2> QED BY <1>4, <2>1
  <1> QED BY <1>3, <1>5, <1>6, <1>7 DEF Spawn

\* Every handler, and a restart, leaves each queued run with an owner, or with the boot,
\* or with a session that outlived the server.
LEMMA ZombieStep ==
  ASSUME TypeOK, RunInv, NoQueuedZombie, [Next]_vars PROVE NoQueuedZombie'
  <1> USE DEF rows, runRows, boot, counters
  <1>1. CASE Spawn
    BY <1>1, ZombieSpawn
  <1>2. CASE Restart
    BY <1>2
    DEF Restart, InDoubt, ActiveRunStates, NoQueuedZombie, TypeOK
  <1>3. ASSUME NEW t \in Task, CreateClaimRun(t) PROVE NoQueuedZombie'
    <2>1. spawn.pc = "idle" /\ UNCHANGED <<session, resumed, bootLeft, restarts>>
      BY <1>3 DEF CreateClaimRun
    <2>2. PICK r \in FreshRuns : InsertRun(t, r) /\ spawn' = [pc |-> "claim", task |-> t, run |-> r]
      BY <1>3 DEF CreateClaimRun
    <2>3. \A q \in RunId : q # r => runState'[q] = runState[q]
      BY <2>2 DEF InsertRun, TypeOK
    <2> QED BY <2>1, <2>2, <2>3 DEF NoQueuedZombie, SpawnPcs
  <1>4. ASSUME NEW k \in ResumeKinds, NEW t \in Task, ResumeCreate(k, t) PROVE NoQueuedZombie'
    <2>1. PICK r \in FreshRuns : InsertRun(t, r) /\ resumed' = resumed \cup {r}
      BY <1>4 DEF ResumeCreate
    <2>2. \A q \in RunId : q # r => runState'[q] = runState[q]
      BY <2>1 DEF InsertRun, TypeOK
    <2> QED BY <1>4, <2>1, <2>2, ZombieElsewhere DEF ResumeCreate
  <1>5. ASSUME NEW r \in RunId, BootCheck(r) PROVE NoQueuedZombie'
    <2>1. CASE session[r] = "up"
      BY <1>5, <2>1 DEF BootCheck, NoQueuedZombie, TypeOK
    <2>2. CASE session[r] # "up"
      <3>1. MoveRun(r, bootLeft[r], "interrupted")
        BY <1>5, <2>2 DEF BootCheck
      <3>2. bootLeft[r] = "queued" => runState'[r] # "queued"
        BY <3>1, MoveRunQueued DEF RunEdges, ActiveRunStates
      <3>3. /\ \A q \in RunId : runState'[q] = "queued" => runState[q] = "queued"
            /\ \A q \in RunId : q # r => bootLeft'[q] = bootLeft[q]
            /\ UNCHANGED <<spawn, restarts, resumed, session>>
        BY <1>5, <3>1, MoveRunQueued DEF BootCheck, TypeOK
      <3> QED BY <2>2, <3>2, <3>3 DEF NoQueuedZombie
    <2> QED BY <2>1, <2>2
  <1>6. ASSUME UNCHANGED <<spawn, bootLeft, restarts, resumed>>,
               UNCHANGED runState \/ \E r \in RunId : \E from, to : MoveRun(r, from, to),
               \A q \in RunId \ resumed : runState[q] = "queued" => session'[q] = session[q]
        PROVE  NoQueuedZombie'
    <2>1. \A q \in RunId : runState'[q] = "queued" => runState[q] = "queued"
      BY <1>6, MoveRunQueued
    <2> QED BY <1>6, <2>1, ZombieElsewhere
  <1>7. CASE Board \/ UNCHANGED vars
    BY <1>6, <1>7 DEF Board, PromoteDraft, AskReady, TakeReady, ApiTransition, vars
  <1>8. CASE Triage
    BY <1>6, <1>8
    DEF Triage, HookTriage, BudgetTriage, TriageStep, TriageHuman, TriageRetry, TriageDemote
  <1>9. CASE Completion
    BY <1>6, <1>9
    DEF Completion, CompleteFromEvent, CompleteAtBoot, CompleteRun, CompletionPark,
        CompletionHandoff, CompletionMove
  <1>10. CASE TickStart \/ TickEnd \/ \E t \in Task : TickSkip(t)
    <2>1. UNCHANGED <<runState, spawn, bootLeft, restarts, resumed, session>>
      BY <1>10 DEF TickStart, TickEnd, TickSkip
    <2> QED BY <1>6, <2>1
  <1>11. ASSUME NEW t \in Task, ReviseResume(t) \/ HumanResume(t) \/ ReviseMove(t)
         PROVE  NoQueuedZombie'
    BY <1>6, <1>11 DEF ReviseResume, HumanResume, ReviseMove
  <1>12. ASSUME NEW k \in ResumeKinds, NEW t \in Task, ResumeThrow(k, t) \/ ResumeLaunch(k, t)
         PROVE  NoQueuedZombie'
    <2>1. ResumeLaunch(k, t) => resume[k][t].run \in resumed
      BY DEF ResumeLaunch, RunInv, ResumeHolds
    <2>2. \A q \in RunId \ resumed : session'[q] = session[q]
      BY <1>12, <2>1 DEF ResumeThrow, ResumeLaunch, TypeOK
    <2> QED BY <1>6, <1>12, <2>2 DEF ResumeThrow, ResumeLaunch
  <1>13. ASSUME NEW k \in ResumeKinds, NEW t \in Task, ResumeConfirm(k, t) PROVE NoQueuedZombie'
    <2>1. resume[k][t].run \in RunId /\ resume[k][t].run \in resumed
      BY <1>13, ResumeNamed DEF ResumeConfirm, RunInv, ResumeHolds
    <2>2. \A q \in RunId \ resumed : session'[q] = session[q]
      BY <1>13, <2>1 DEF ResumeConfirm, TypeOK
    <2> QED BY <1>6, <1>13, <2>1, <2>2 DEF ResumeConfirm
  <1>14. CASE Hooks
    BY <1>6, <1>14
    DEF Hooks, SessionStart, PreToolUse, PostToolUse, StopInBackground, Stop, HookMove
  <1>15. CASE Poll \/ \E r \in RunId : StopRun(r)
    <2>1. \A q \in RunId : runState[q] = "queued" => session'[q] = session[q]
      BY <1>15
      DEF Poll, Watchdog, GraceFinish, BudgetPick, ReapRun, StopRun, Started, TypeOK
    <2> QED BY <1>6, <1>15, <2>1 DEF Poll, Watchdog, GraceFinish, BudgetPick, ReapRun, StopRun
  <1>16. CASE BootFailTask \/ StartTriggers
    BY <1>6, <1>16 DEF BootFailTask, StartTriggers
  <1> QED BY <1>1, <1>2, <1>3, <1>4, <1>5, <1>7, <1>8, <1>9, <1>10, <1>11, <1>12, <1>13, <1>14,
             <1>15, <1>16
          DEF Next, Tick, Resume, ResumeStep, Boot

\* NoQueuedZombie: without a restart no lost claim and no failed launch leaves a queued run
\* behind; with restarts only the boot's blind spot does, a session that outlived the server.
THEOREM QueuedRunsAreOwned == Spec => []NoQueuedZombie
  <1>1. Init => NoQueuedZombie
    BY DEF Init, NoQueuedZombie
  <1> QED BY <1>1, TypeCorrect, RunsInStep, ZombieStep, PTL DEF Spec

----------------------------------------------------------------------------
(* What is under review has a pull request of a run that succeeded *)

\* The runs table is written in two ways: a fresh row is inserted, for a task with no
\* active run, or one row is moved.
LEMMA RunWrites ==
  ASSUME TypeOK, [Next]_vars
  PROVE  \/ \E t \in Task, r \in FreshRuns :
               /\ CanInsertRun(t) /\ InsertRun(t, r)
               /\ \/ resumed' = resumed \cup {r} /\ \E k \in ResumeKinds : ResumeCreate(k, t)
                  \/ /\ CreateClaimRun(t) /\ resumed' = resumed
                     /\ spawn' = [pc |-> "claim", task |-> t, run |-> r]
         \/ /\ UNCHANGED <<runTask, resumed>>
            /\ UNCHANGED runState \/ \E r \in RunId : \E from, to : MoveRun(r, from, to)
  <1> DEFINE Inserts == \E t \in Task, r \in FreshRuns :
               /\ CanInsertRun(t) /\ InsertRun(t, r)
               /\ \/ resumed' = resumed \cup {r} /\ \E k \in ResumeKinds : ResumeCreate(k, t)
                  \/ /\ CreateClaimRun(t) /\ resumed' = resumed
                     /\ spawn' = [pc |-> "claim", task |-> t, run |-> r]
             Moves == /\ UNCHANGED <<runTask, resumed>>
                      /\ UNCHANGED runState \/ \E r \in RunId : \E from, to : MoveRun(r, from, to)
  <1> USE DEF rows, runRows, boot, counters
  <1>1. CASE Board \/ UNCHANGED vars
    BY <1>1 DEF Board, PromoteDraft, AskReady, TakeReady, ApiTransition, vars
  <1>2. ASSUME NEW t \in Task, CreateClaimRun(t) PROVE Inserts
    BY <1>2 DEF CreateClaimRun
  <1>3. ASSUME NEW k \in ResumeKinds, NEW t \in Task, ResumeCreate(k, t) PROVE Inserts
    BY <1>3 DEF ResumeCreate
  <1>4. CASE TickStart \/ TickEnd \/ \E t \in Task : TickSkip(t)
    BY <1>4 DEF TickStart, TickEnd, TickSkip
  <1>5. CASE Spawn
    <2>1. spawn.run \in RunId
      BY <1>5, SpawnNamed
      DEF Spawn, ClaimTask, RollbackClaim, SpawnLaunch, SpawnThrow, SpawnConfirm,
          SpawnRollbackRun, SpawnRollbackTask
    <2> QED BY <1>5, <2>1
        DEF Spawn, ClaimTask, RollbackClaim, SpawnLaunch, SpawnThrow, SpawnConfirm,
            SpawnRollbackRun, SpawnRollbackTask
  <1>6. ASSUME NEW t \in Task, ReviseResume(t) \/ HumanResume(t) \/ ReviseMove(t) PROVE Moves
    BY <1>6 DEF ReviseResume, HumanResume, ReviseMove
  <1>7. ASSUME NEW k \in ResumeKinds, NEW t \in Task, ResumeThrow(k, t) \/ ResumeLaunch(k, t)
        PROVE  Moves
    BY <1>7 DEF ResumeThrow, ResumeLaunch
  <1>8. ASSUME NEW k \in ResumeKinds, NEW t \in Task, ResumeConfirm(k, t) PROVE Moves
    <2>1. resume[k][t].run \in RunId
      BY <1>8, ResumeNamed DEF ResumeConfirm
    <2> QED BY <1>8, <2>1 DEF ResumeConfirm
  <1>9. CASE Hooks
    BY <1>9
    DEF Hooks, SessionStart, PreToolUse, PostToolUse, StopInBackground, Stop, HookMove
  <1>10. CASE Poll \/ \E r \in RunId : StopRun(r)
    BY <1>10 DEF Poll, Watchdog, GraceFinish, BudgetPick, ReapRun, StopRun
  <1>11. CASE Triage
    BY <1>11
    DEF Triage, HookTriage, BudgetTriage, TriageStep, TriageHuman, TriageRetry, TriageDemote
  <1>12. CASE Completion
    BY <1>12
    DEF Completion, CompleteFromEvent, CompleteAtBoot, CompleteRun, CompletionPark,
        CompletionHandoff, CompletionMove
  <1>13. CASE Boot
    BY <1>13 DEF Boot, Restart, BootFailTask, StartTriggers, BootCheck
  <1> QED BY <1>1, <1>2, <1>3, <1>4, <1>5, <1>6, <1>7, <1>8, <1>9, <1>10, <1>11, <1>12, <1>13
          DEF Next, Tick, Resume, ResumeStep

\* A row of the runs table stays, keeps its task and its origin, and never leaves a
\* terminal state.
LEMMA RunsStay ==
  ASSUME TypeOK, [Next]_vars, NEW r \in RunId, runState[r] # "absent"
  PROVE  /\ runTask'[r] = runTask[r] /\ runState'[r] # "absent"
         /\ (r \in resumed') <=> (r \in resumed)
         /\ runState[r] \in TerminalRunStates => runState'[r] = runState[r]
         /\ runState'[r] \in ActiveRunStates => runState[r] \in ActiveRunStates
  <1>1. ASSUME NEW t \in Task, NEW q \in FreshRuns, InsertRun(t, q),
               resumed' = resumed \/ resumed' = resumed \cup {q}
        PROVE  /\ runTask'[r] = runTask[r] /\ runState'[r] = runState[r]
               /\ (r \in resumed') <=> (r \in resumed)
    <2>1. q # r
      BY DEF FreshRuns
    <2> QED BY <1>1, <2>1 DEF InsertRun, TypeOK
  <1>2. ASSUME NEW q \in RunId, NEW from, NEW to, MoveRun(q, from, to)
        PROVE  /\ runState'[r] # "absent"
               /\ runState[r] \in TerminalRunStates => runState'[r] = runState[r]
               /\ runState'[r] \in ActiveRunStates => runState[r] \in ActiveRunStates
    <2>1. ActiveCoderRuns' \subseteq ActiveCoderRuns
      BY <1>2, MoveRunActive
    <2>2. /\ runState'[r] # "absent"
          /\ runState[r] \in TerminalRunStates => runState'[r] = runState[r]
      BY <1>2, MoveRunEffect
    <2> QED BY <2>1, <2>2 DEF ActiveCoderRuns
  <1> QED BY <1>1, <1>2, RunWrites

\* The completions that are due or under way are those of runs that succeeded; one that
\* hands its task over has opened the pull request.
CompletionsBacked ==
    /\ \A n \in DOMAIN inbox["completion"] : runState[inbox["completion"][n]] = "succeeded"
    /\ \A r \in bootDue : runState[r] = "succeeded"
    /\ \A s \in CompletionSources : completion[s].pc # "idle" =>
          /\ runState[completion[s].run] = "succeeded"
          /\ completion[s].pc = "handoff" => prOpen[runTask[completion[s].run]]

BackedInv == CompletionsBacked /\ ReviewIsBacked

\* A step that begins no completion keeps all of it.
LEMMA BackedElsewhere ==
  ASSUME TypeOK, TypeOK', RunInv, BackedInv, [Next]_vars, prOpen' = prOpen,
         \A s \in CompletionSources : completion'[s].pc # "idle" => completion'[s] = completion[s],
         \A r \in bootDue' : r \in bootDue \/ runState'[r] = "succeeded",
         \A n \in DOMAIN inbox'["completion"] :
            \/ runState'[inbox'["completion"][n]] = "succeeded"
            \/ \E m \in DOMAIN inbox["completion"] : inbox["completion"][m] = inbox'["completion"][n],
         \A t \in Task : taskState'[t] \in {"review", "approved"} =>
            taskState[t] \in {"review", "approved"} \/ prOpen[t]
  PROVE  BackedInv'
  <1>1. \A r \in RunId : runState[r] = "succeeded" =>
           runState'[r] = "succeeded" /\ runTask'[r] = runTask[r] /\ runTask[r] \in Task
    BY RunsStay DEF TerminalRunStates, RunInv, RunRows
  <1>2. inbox["completion"] \in Seq(RunId) /\ bootDue \subseteq RunId
    BY DEF TypeOK, Readers
  <1>3. \A n \in DOMAIN inbox["completion"] : inbox["completion"][n] \in RunId
    BY <1>2
  <1>4. \A n \in DOMAIN inbox'["completion"] : runState'[inbox'["completion"][n]] = "succeeded"
    BY <1>1, <1>3 DEF BackedInv, CompletionsBacked
  <1>5. \A r \in bootDue' : runState'[r] = "succeeded"
    BY <1>1, <1>2 DEF BackedInv, CompletionsBacked
  <1>6. ASSUME NEW s \in CompletionSources, completion'[s].pc # "idle"
        PROVE  /\ runState'[completion'[s].run] = "succeeded"
               /\ completion'[s].pc = "handoff" => prOpen'[runTask'[completion'[s].run]]
    <2>1. completion'[s] = completion[s] /\ completion[s].run \in RunId
      BY <1>6, CompletionNamed
    <2> QED BY <1>1, <1>6, <2>1 DEF BackedInv, CompletionsBacked
  <1>7. ReviewIsBacked'
    BY <1>1 DEF BackedInv, ReviewIsBacked
  <1> QED BY <1>4, <1>5, <1>6, <1>7 DEF BackedInv, CompletionsBacked

\* A guarded move of a task moves that task alone, along an edge, or nothing.
LEMMA MoveTaskEffect ==
  ASSUME TypeOK, NEW t, NEW from, NEW to, MoveTask(t, from, to), NEW u \in Task
  PROVE  \/ taskState'[u] = taskState[u]
         \/ /\ u = t /\ taskState[u] = from /\ taskState'[u] = to
            /\ <<from, to>> \in TaskEdges
  BY DEF MoveTask, Guarded, Takes, TypeOK

\* recomputeReadiness moves backlog tasks to ready and no others.
LEMMA RecomputeEffect ==
  ASSUME NEW ts, NEW ms, NEW u \in Task
  PROVE  \/ Recompute(ts, ms)[u] = ts[u]
         \/ ts[u] = "backlog" /\ Recompute(ts, ms)[u] = "ready"
  BY DEF Recompute

\* Where a task goes in one step: along an edge, and from backlog on to ready.
LEMMA TaskSteps ==
  ASSUME TypeOK, [Next]_vars, NEW t \in Task
  PROVE  \/ taskState'[t] = taskState[t]
         \/ <<taskState[t], taskState'[t]>> \in TaskEdges
         \/ taskState'[t] = "ready" /\ taskState[t] \in {"draft", "failed"}
  <1> DEFINE Goes == \/ taskState'[t] = taskState[t]
                     \/ <<taskState[t], taskState'[t]>> \in TaskEdges
                     \/ taskState'[t] = "ready" /\ taskState[t] \in {"draft", "failed"}
  <1>1. [B!Next]_(B!vars)
    BY StepRefines
  <1>2. ASSUME NEW moved, NEW ms, B!Promote(moved, ms)
        PROVE  taskState'[t] = moved[t] \/ (moved[t] = "backlog" /\ taskState'[t] = "ready")
    BY <1>2 DEF B!Promote
  <1>3. ASSUME NEW u \in Task, NEW to \in TaskStates, B!MoveTask(u, to) PROVE Goes
    <2>1. <<taskState[u], to>> \in TaskEdges
      BY <1>3, SameEdges DEF B!MoveTask
    <2> DEFINE moved == [taskState EXCEPT ![u] = to]
    <2>2. taskState'[t] = moved[t] \/ (moved[t] = "backlog" /\ taskState'[t] = "ready")
      BY <1>2, <1>3 DEF B!MoveTask
    <2>3. \/ moved[t] = taskState[t]
          \/ t = u /\ moved[t] = to
      BY DEF TypeOK
    <2>4. <<"backlog", "ready">> \in TaskEdges
          /\ (to = "backlog" => taskState[u] \in {"draft", "failed"})
      BY <2>1 DEF TaskEdges
    <2> HIDE DEF moved
    <2> QED BY <2>1, <2>2, <2>3, <2>4
  <1>4. CASE B!Unblock
    BY <1>2, <1>4 DEF B!Unblock, TaskEdges
  <1>5. CASE UNCHANGED taskState
    BY <1>5
  <1> QED BY <1>1, <1>3, <1>4, <1>5, SameEdges
          DEF B!Next, B!InsertRun, B!MoveRun, B!taskRows, B!vars

\* What moves a task into coding, review or approved: an operator, the claim, a resume,
\* or the completion's handoff.
LEMMA TaskEntered ==
  ASSUME TypeOK, [Next]_vars, NEW t \in Task, taskState'[t] # taskState[t],
         taskState'[t] \in {"coding", "review", "approved"}
  PROVE  \/ ApiTransition(t, taskState'[t])
         \/ ClaimTask /\ t = spawn.task /\ taskState[t] = "ready" /\ taskState'[t] = "coding"
         \/ (HumanResume(t) \/ ReviseMove(t)) /\ taskState'[t] = "coding"
         \/ \E s \in CompletionSources :
               CompletionHandoff(s) /\ t = runTask[completion[s].run] /\ taskState'[t] = "review"
  <1> DEFINE Entered ==
               \/ ApiTransition(t, taskState'[t])
               \/ ClaimTask /\ t = spawn.task /\ taskState[t] = "ready" /\ taskState'[t] = "coding"
               \/ (HumanResume(t) \/ ReviseMove(t)) /\ taskState'[t] = "coding"
               \/ \E s \in CompletionSources :
                     CompletionHandoff(s) /\ t = runTask[completion[s].run] /\ taskState'[t] = "review"
  <1> USE DEF rows, runRows, boot, counters
  <1>0. taskState'[t] # taskState[t] /\ taskState'[t] \in {"coding", "review", "approved"}
    OBVIOUS
  <1>1. ASSUME UNCHANGED taskState \/ \E ts, ms : taskState' = Recompute(ts, ms) /\
               \A u \in Task : ts[u] \in {"coding", "review", "approved"} => taskState[u] = ts[u]
        PROVE  FALSE
    <2>1. PICK ts, ms : /\ taskState' = Recompute(ts, ms)
                        /\ \A u \in Task : ts[u] \in {"coding", "review", "approved"} =>
                                           taskState[u] = ts[u]
      BY <1>1
    <2>2. taskState'[t] = ts[t]
      BY <2>1, RecomputeEffect
    <2> QED BY ONLY <1>0, <2>1, <2>2, t \in Task
  <1>m. ASSUME NEW u, NEW from, NEW to, MoveTask(u, from, to)
        PROVE  t = u /\ taskState[t] = from /\ taskState'[t] = to
    BY ZenonT(60), <1>m, MoveTaskEffect
  <1>2. ASSUME NEW u, NEW from, NEW to, MoveTask(u, from, to),
               to \notin {"coding", "review", "approved"}
        PROVE  FALSE
    BY <1>m, <1>2
  <1>3. ASSUME NEW u \in Task, NEW to \in TaskStates, ApiTransition(u, to) PROVE Entered
    <2>1. \/ taskState' = [taskState EXCEPT ![u] = to]
          \/ taskState' = Recompute([taskState EXCEPT ![u] = to], merged') /\ to = "done"
      BY <1>3 DEF ApiTransition
    <2>2. CASE taskState' = [taskState EXCEPT ![u] = to]
      BY <1>3, <2>2 DEF TypeOK
    <2>3. CASE taskState' = Recompute([taskState EXCEPT ![u] = to], merged') /\ to = "done"
      <3>1. \A v \in Task : [taskState EXCEPT ![u] = to][v] \in {"coding", "review", "approved"} =>
              taskState[v] = [taskState EXCEPT ![u] = to][v]
        BY <2>3 DEF TypeOK
      <3> QED BY <1>1, <2>3, <3>1
    <2> QED BY <2>1, <2>2, <2>3
  <1>4. ASSUME NEW u \in Task, PromoteDraft(u) PROVE FALSE
    <2>1. \A v \in Task : [taskState EXCEPT ![u] = "backlog"][v] \in {"coding", "review", "approved"} =>
            taskState[v] = [taskState EXCEPT ![u] = "backlog"][v]
      BY DEF TypeOK
    <2> QED BY <1>1, <1>4, <2>1 DEF PromoteDraft
  <1>14. ASSUME NEW u \in Task, AskReady(u) \/ TakeReady(u) PROVE FALSE
    BY <1>1, <1>2, <1>14 DEF AskReady, TakeReady
  <1>5. CASE Tick \/ UNCHANGED vars
    BY <1>1, <1>5 DEF Tick, TickStart, TickEnd, TickSkip, CreateClaimRun, vars
  <1>6. CASE Spawn
    <2>1. spawn.task \in Task
      BY <1>6, SpawnNamed
      DEF Spawn, ClaimTask, RollbackClaim, SpawnLaunch, SpawnThrow, SpawnConfirm,
          SpawnRollbackRun, SpawnRollbackTask
    <2>2. CASE ClaimTask
      <3>1. MoveTask(spawn.task, "ready", "coding")
        BY <2>2 DEF ClaimTask
      <3>2. t = spawn.task /\ taskState[t] = "ready" /\ taskState'[t] = "coding"
        BY <1>m, <3>1
      <3> QED BY ONLY <2>2, <3>2, Zenon
    <2>3. CASE SpawnRollbackTask
      BY <1>2, <2>1, <2>3 DEF SpawnRollbackTask
    <2> QED BY <1>1, <1>6, <2>2, <2>3
        DEF Spawn, RollbackClaim, SpawnLaunch, SpawnThrow, SpawnConfirm, SpawnRollbackRun
  <1>7. CASE Resume
    <2>1. ASSUME NEW u \in Task, HumanResume(u) \/ ReviseMove(u) PROVE Entered
      <3>1. PICK from \in {"needs_human", "review"} : MoveTask(u, from, "coding")
        BY <2>1 DEF HumanResume, ReviseMove
      <3>2. t = u /\ taskState'[t] = "coding"
        BY <1>m, <3>1
      <3> QED BY <2>1, <3>2
    <2>2. ASSUME NEW u \in Task, NEW k \in ResumeKinds, ReviseResume(u) \/ ResumeStep(k, u)
          PROVE  UNCHANGED taskState
      BY <2>2
      DEF ResumeStep, ReviseResume, ResumeCreate, ResumeThrow, ResumeLaunch, ResumeConfirm
    <2>3. ResumeKinds # {}
      BY DEF ResumeKinds
    <2> QED BY <1>1, <1>7, <2>1, <2>2, <2>3 DEF Resume
  <1>8. CASE Hooks
    BY <1>1, <1>8
    DEF Hooks, SessionStart, PreToolUse, PostToolUse, StopInBackground, Stop, HookMove
  <1>9. CASE Poll \/ \E r \in RunId : StopRun(r)
    BY <1>1, <1>9 DEF Poll, Watchdog, GraceFinish, BudgetPick, ReapRun, StopRun
  <1>10. CASE Triage
    <2>1. CASE HookTriage \/ \E r \in RunId : BudgetTriage(r)
      BY <1>1, <2>1 DEF HookTriage, BudgetTriage
    <2>2. ASSUME NEW s \in TriageSources, NEW r \in RunId, TriageHuman(s, r) \/ TriageRetry(s, r)
          PROVE  FALSE
      <3>1. runTask[r] \in Task \cup {None}
        BY DEF TypeOK
      <3>2. \E to \in {"needs_human", "failed"} : MoveTask(runTask[r], "coding", to)
        BY <2>2 DEF TriageHuman, TriageRetry
      <3> QED BY ONLY <1>2, <3>1, <3>2
    <2>3. ASSUME NEW s \in TriageSources, NEW r \in RunId, TriageDemote(s, r) PROVE FALSE
      <3>1. \A v \in Task :
              [taskState EXCEPT ![runTask[r]] = "backlog"][v] \in {"coding", "review", "approved"} =>
              taskState[v] = [taskState EXCEPT ![runTask[r]] = "backlog"][v]
        BY DEF TypeOK
      <3>2. \/ taskState' = taskState
            \/ taskState' = Recompute([taskState EXCEPT ![runTask[r]] = "backlog"], merged)
        BY <2>3 DEF TriageDemote
      <3>3. CASE taskState' = Recompute([taskState EXCEPT ![runTask[r]] = "backlog"], merged)
        BY ONLY <1>1, <3>1, <3>3
      <3> QED BY <1>1, <3>2, <3>3
    <2> QED BY <1>10, <2>1, <2>2, <2>3 DEF Triage, TriageStep
  <1>11. CASE CompleteFromEvent \/ \E r \in RunId : CompleteAtBoot(r)
    BY <1>1, <1>11 DEF CompleteFromEvent, CompleteAtBoot, CompleteRun
  <1>12. ASSUME NEW s \in CompletionSources, CompletionPark(s) \/ CompletionHandoff(s) PROVE Entered
    <2>1. runTask[completion[s].run] \in Task \cup {None}
      <3>1. completion[s].pc # "idle"
        BY <1>12 DEF CompletionPark, CompletionHandoff, CompletionMove
      <3> QED BY <3>1, CompletionNamed DEF TypeOK
    <2>2. CASE CompletionPark(s)
      <3>1. MoveTask(runTask[completion[s].run], "coding", "needs_human")
        BY <2>2 DEF CompletionPark, CompletionMove
      <3> QED BY ONLY <1>2, <2>1, <3>1
    <2>3. CASE CompletionHandoff(s)
      <3>1. MoveTask(runTask[completion[s].run], "coding", "review")
        BY <2>3 DEF CompletionHandoff, CompletionMove
      <3>2. t = runTask[completion[s].run] /\ taskState'[t] = "review"
        BY <1>m, <3>1
      <3> QED BY <2>3, <3>2, Zenon
    <2> QED BY <1>12, <2>2, <2>3
  <1>13. CASE Boot
    <2>1. ASSUME NEW r \in RunId, BootCheck(r) PROVE FALSE
      BY <1>1, <2>1 DEF BootCheck
    <2>2. CASE BootFailTask
      <3>1. runTask[bootFail] \in Task \cup {None}
        BY <2>2 DEF BootFailTask, TypeOK
      <3> QED BY <1>2, <2>2, <3>1 DEF BootFailTask
    <2>3. CASE Restart
      BY <1>1, <2>3 DEF Restart
    <2>4. CASE StartTriggers
      BY <1>1, <2>4 DEF StartTriggers
    <2> QED BY <1>13, <2>1, <2>2, <2>3, <2>4 DEF Boot
  <1> QED BY <1>3, <1>4, <1>5, <1>6, <1>7, <1>8, <1>9, <1>10, <1>11, <1>12, <1>13, <1>14
          DEF Next, Board, Completion

\* The edge into review that is not the completion's is an operator's.
NoApiReview == <<"coding", "review">> \notin ApiEdges

\* Then a task comes into review by the completion's handoff alone.
LEMMA ReviewEntered ==
  ASSUME TypeOK, NoApiReview, [Next]_vars, NEW t \in Task,
         taskState'[t] \in {"review", "approved"}, taskState[t] \notin {"review", "approved"}
  PROVE  \E s \in CompletionSources : CompletionHandoff(s) /\ t = runTask[completion[s].run]
  <1>1. ASSUME ApiTransition(t, taskState'[t]) PROVE FALSE
    <2>1. <<taskState[t], taskState'[t]>> \in TaskEdges
          /\ <<taskState[t], taskState'[t]>> # <<"coding", "review">>
      BY <1>1, ApiEdgesAssumption DEF ApiTransition, NoApiReview
    <2> QED BY <2>1 DEF TaskEdges
  <1> QED BY <1>1, TaskEntered

\* A completion begins with a run that succeeded, and opens the PR of that run's task.
LEMMA BackedCompletion ==
  ASSUME TypeOK, TypeOK', RunInv, BackedInv, [Next]_vars,
         NEW s \in CompletionSources, NEW r \in RunId, runState[r] = "succeeded", CompleteRun(s, r),
         \A q \in bootDue' : q \in bootDue,
         \A n \in DOMAIN inbox'["completion"] :
            \E m \in DOMAIN inbox["completion"] : inbox["completion"][m] = inbox'["completion"][n]
  PROVE  BackedInv'
  <1>1. PICK outcome \in CompletionOutcomes :
          /\ prOpen' = PrAfter(outcome, runTask[r])
          /\ completion' = [completion EXCEPT ![s] =
                IF outcome = "throw" THEN CompletionIdle ELSE [pc |-> outcome, run |-> r]]
    BY DEF CompleteRun
  <1>2. UNCHANGED <<taskState, runState, runTask>>
    BY DEF CompleteRun, runRows
  <1>3. runTask[r] \in Task
    BY DEF RunInv, RunRows
  <1>4. \A t \in Task : /\ prOpen[t] => prOpen'[t]
                        /\ prOpen'[t] => prOpen[t] \/ t = runTask[r]
                        /\ outcome = "handoff" => prOpen'[runTask[r]]
    BY <1>1, <1>3 DEF PrAfter, TypeOK
  <1>5. ASSUME NEW c \in CompletionSources, completion'[c].pc # "idle"
        PROVE  /\ runState'[completion'[c].run] = "succeeded"
               /\ completion'[c].pc = "handoff" => prOpen'[runTask'[completion'[c].run]]
    <2>1. CASE c = s
      <3>1. completion'[c] = [pc |-> outcome, run |-> r]
        BY <1>1, <1>5, <2>1 DEF TypeOK, CompletionIdle
      <3>2. completion'[c].pc = outcome /\ completion'[c].run = r
        BY ONLY <3>1
      <3>3. runState'[r] = "succeeded" /\ (outcome = "handoff" => prOpen'[runTask'[r]])
        BY <1>2, <1>3, <1>4
      <3> QED BY ONLY <3>2, <3>3, Zenon
    <2>2. CASE c # s
      <3>1. completion'[c] = completion[c] /\ completion[c].run \in RunId
        BY <1>1, <1>5, <2>2, CompletionNamed DEF TypeOK
      <3>2. runState[completion[c].run] = "succeeded" /\ runTask[completion[c].run] \in Task
        BY <1>5, <3>1 DEF BackedInv, CompletionsBacked, RunInv, RunRows
      <3> QED BY <1>2, <1>4, <1>5, <3>1, <3>2 DEF BackedInv, CompletionsBacked
    <2> QED BY <2>1, <2>2
  <1>6. ReviewIsBacked'
    <2>1. \A t \in Task : taskState[t] \in {"review", "approved"} => prOpen'[t]
      BY <1>4 DEF BackedInv, ReviewIsBacked
    <2>2. \A t \in Task : prOpen'[t] => \E q \in RunId : runTask[q] = t /\ runState[q] = "succeeded"
      BY <1>4 DEF BackedInv, ReviewIsBacked
    <2> QED BY <1>2, <2>1, <2>2 DEF ReviewIsBacked
  <1>7. \A n \in DOMAIN inbox'["completion"] : runState'[inbox'["completion"][n]] = "succeeded"
    BY <1>2 DEF BackedInv, CompletionsBacked
  <1>8. \A q \in bootDue' : runState'[q] = "succeeded"
    BY <1>2 DEF BackedInv, CompletionsBacked
  <1> QED BY <1>5, <1>6, <1>7, <1>8 DEF BackedInv, CompletionsBacked

\* What is left of a buffer was in it.
LEMMA TailKeeps ==
  ASSUME NEW S, NEW s \in Seq(S), s # <<>>, NEW n \in DOMAIN Tail(s)
  PROVE  \E m \in DOMAIN s : s[m] = Tail(s)[n]
  <1>1. n \in 1..(Len(s) - 1) /\ Tail(s)[n] = s[n + 1] /\ n + 1 \in DOMAIN s
    OBVIOUS
  <1> QED BY <1>1

\* What is in a buffer after a post was in it or is what was posted.
LEMMA AppendAdds ==
  ASSUME NEW S, NEW s \in Seq(S), NEW e \in S, NEW n \in DOMAIN Append(s, e)
  PROVE  Append(s, e)[n] = e \/ \E m \in DOMAIN s : s[m] = Append(s, e)[n]
  <1>1. n \in 1..(Len(s) + 1)
    OBVIOUS
  <1>2. CASE n = Len(s) + 1
    BY <1>2
  <1>3. CASE n \in 1..Len(s)
    <2>1. n \in DOMAIN s /\ s[n] = Append(s, e)[n]
      BY <1>3
    <2> QED BY <2>1
  <1> QED BY <1>1, <1>2, <1>3

\* Every handler keeps reviews and completions backed.
LEMMA BackedStep ==
  ASSUME TypeOK, TypeOK', RunInv, BackedInv, NoApiReview, [Next]_vars PROVE BackedInv'
  <1> USE DEF rows, runRows, boot, counters
  <1>1. \A t \in Task : taskState'[t] \in {"review", "approved"} =>
           taskState[t] \in {"review", "approved"} \/ prOpen[t]
    <2> SUFFICES ASSUME NEW t \in Task, taskState'[t] \in {"review", "approved"},
                        taskState[t] \notin {"review", "approved"}
                 PROVE  prOpen[t]
      OBVIOUS
    <2>1. PICK s \in CompletionSources : CompletionHandoff(s) /\ t = runTask[completion[s].run]
      BY ReviewEntered
    <2> QED BY <2>1 DEF CompletionHandoff, CompletionMove, BackedInv, CompletionsBacked
  <1>2. inbox \in [Readers -> Seq(RunId)] /\ inbox["completion"] \in Seq(RunId)
    BY DEF TypeOK, Readers
  <1>3. CASE CompleteFromEvent
    <2> DEFINE r == Head(inbox["completion"])
    <2>1. inbox["completion"] # <<>> /\ CompleteRun("tail", r) /\ bootDue' = bootDue
          /\ inbox' = [inbox EXCEPT !["completion"] = Tail(inbox["completion"])]
      BY <1>3 DEF CompleteFromEvent
    <2>2. r \in RunId /\ r = inbox["completion"][1] /\ 1 \in DOMAIN inbox["completion"]
      BY <1>2, <2>1
    <2>3. runState[r] = "succeeded"
      BY <2>2 DEF BackedInv, CompletionsBacked
    <2>4. inbox'["completion"] = Tail(inbox["completion"])
      BY <1>2, <2>1 DEF Readers
    <2>5. \A n \in DOMAIN inbox'["completion"] :
            \E m \in DOMAIN inbox["completion"] : inbox["completion"][m] = inbox'["completion"][n]
      BY <1>2, <2>1, <2>4, TailKeeps
    <2> QED BY <2>1, <2>2, <2>3, <2>5, BackedCompletion DEF CompletionSources
  <1>4. ASSUME NEW r \in RunId, CompleteAtBoot(r) PROVE BackedInv'
    <2>1. CompleteRun("boot", r) /\ runState[r] = "succeeded" /\ inbox' = inbox
          /\ bootDue' = bootDue \ {r}
      BY <1>4 DEF CompleteAtBoot, BackedInv, CompletionsBacked
    <2> QED BY <2>1, BackedCompletion DEF CompletionSources
  <1>5. ASSUME prOpen' = prOpen,
               \A s \in CompletionSources :
                  completion'[s].pc # "idle" => completion'[s] = completion[s],
               \A r \in bootDue' : r \in bootDue \/ runState'[r] = "succeeded",
               inbox'["completion"] = inbox["completion"] \/ inbox'["completion"] = <<>>
        PROVE  BackedInv'
    <2>1. \A n \in DOMAIN inbox'["completion"] :
            \E m \in DOMAIN inbox["completion"] : inbox["completion"][m] = inbox'["completion"][n]
      BY <1>5
    <2> QED BY <1>1, <1>5, <2>1, BackedElsewhere
  <1>6. ASSUME UNCHANGED <<prOpen, completion, bootDue, inbox>> PROVE BackedInv'
    BY <1>5, <1>6
  <1>7. CASE Board \/ Tick \/ UNCHANGED vars
    BY <1>6, <1>7
    DEF Board, PromoteDraft, AskReady, TakeReady, ApiTransition, Tick, TickStart, TickEnd, TickSkip, CreateClaimRun, vars
  <1>8. CASE Spawn
    BY <1>6, <1>8
    DEF Spawn, ClaimTask, RollbackClaim, SpawnLaunch, SpawnThrow, SpawnConfirm,
        SpawnRollbackRun, SpawnRollbackTask
  <1>9. CASE Resume
    BY <1>6, <1>9
    DEF Resume, ResumeStep, ReviseResume, HumanResume, ReviseMove, ResumeCreate, ResumeThrow,
        ResumeLaunch, ResumeConfirm
  <1>10. CASE Hooks
    BY <1>6, <1>10
    DEF Hooks, SessionStart, PreToolUse, PostToolUse, StopInBackground, Stop, HookMove
  <1>11. ASSUME NEW r \in RunId, BudgetPick(r) \/ ReapRun(r) \/ StopRun(r) PROVE BackedInv'
    BY <1>6, <1>11 DEF BudgetPick, ReapRun, StopRun
  <1>12. ASSUME NEW r \in RunId, Watchdog(r, "failed") PROVE BackedInv'
    <2>1. inbox'["completion"] = inbox["completion"]
      BY <1>2, <1>12 DEF Watchdog, Post, Readers
    <2>2. UNCHANGED <<prOpen, completion, bootDue>>
      BY <1>12 DEF Watchdog
    <2> QED BY <1>5, <2>1, <2>2
  <1>13. ASSUME NEW r \in RunId, Watchdog(r, "succeeded") \/ GraceFinish(r) PROVE BackedInv'
    <2>1. inbox'["completion"] = Append(inbox["completion"], r)
      BY <1>2, <1>13 DEF Watchdog, GraceFinish, Post, Readers
    <2>2. UNCHANGED <<prOpen, completion, bootDue>>
      BY <1>13 DEF Watchdog, GraceFinish
    <2>3. runState'[r] = "succeeded"
      BY <1>13 DEF Watchdog, GraceFinish, MoveRun, Guarded, Takes, RunEdges, TypeOK
    <2>4. \A n \in DOMAIN inbox'["completion"] :
            \/ runState'[inbox'["completion"][n]] = "succeeded"
            \/ \E m \in DOMAIN inbox["completion"] : inbox["completion"][m] = inbox'["completion"][n]
      BY <1>2, <2>1, <2>3, AppendAdds
    <2>5. /\ \A s \in CompletionSources :
                completion'[s].pc # "idle" => completion'[s] = completion[s]
          /\ \A q \in bootDue' : q \in bootDue \/ runState'[q] = "succeeded"
      BY <2>2
    <2> QED BY <1>1, <2>2, <2>4, <2>5, BackedElsewhere
  <1>14. CASE HookTriage
    <2>1. inbox'["completion"] = inbox["completion"] /\ UNCHANGED <<prOpen, completion, bootDue>>
      BY <1>2, <1>14 DEF HookTriage, Readers
    <2> QED BY <1>5, <2>1
  <1>15. CASE \/ \E r \in RunId : BudgetTriage(r)
              \/ \E s \in TriageSources, r \in RunId : TriageStep(s, r)
    BY <1>6, <1>15 DEF BudgetTriage, TriageStep, TriageHuman, TriageRetry, TriageDemote
  <1>16. ASSUME NEW s \in CompletionSources, CompletionPark(s) \/ CompletionHandoff(s)
         PROVE  BackedInv'
    <2>1. UNCHANGED <<prOpen, bootDue, inbox>> /\ completion' = [completion EXCEPT ![s] = CompletionIdle]
      BY <1>16 DEF CompletionPark, CompletionHandoff, CompletionMove
    <2>2. \A c \in CompletionSources : completion'[c].pc # "idle" => completion'[c] = completion[c]
      BY <2>1 DEF CompletionIdle, TypeOK
    <2> QED BY <1>5, <2>1, <2>2
  <1>17. CASE Restart
    <2>1. prOpen' = prOpen /\ bootDue' = {} /\ inbox'["completion"] = <<>>
      BY <1>17 DEF Restart, Readers
    <2>2. \A c \in CompletionSources : completion'[c].pc = "idle"
      BY <1>17 DEF Restart, CompletionIdle
    <2> QED BY <1>5, <2>1, <2>2
  <1>18. CASE StartTriggers
    <2>1. UNCHANGED <<prOpen, completion, inbox, runState>> /\ bootDue' = PendingAtBoot
      BY <1>18 DEF StartTriggers
    <2>2. \A r \in bootDue' : runState'[r] = "succeeded"
      BY <2>1 DEF PendingAtBoot
    <2> QED BY <1>5, <2>1, <2>2
  <1>19. CASE BootFailTask \/ \E r \in RunId : BootCheck(r)
    BY <1>6, <1>19 DEF BootFailTask, BootCheck
  <1> QED BY <1>3, <1>4, <1>7, <1>8, <1>9, <1>10, <1>11, <1>12, <1>13, <1>14, <1>15, <1>16, <1>17,
             <1>18, <1>19
          DEF Next, Poll, Triage, Completion, Boot

\* ReviewIsBacked, for boards whose operators do not move a task into review themselves:
\* whatever is lost, late or repeated, what is under review has a PR, and a PR a run that
\* succeeded.  With the edge coding -> review open to operators it does not hold.
THEOREM ReviewsAreBacked == NoApiReview /\ Spec => []ReviewIsBacked
  <1>1. Init => BackedInv
    BY DEF Init, NothingInFlight, CompletionIdle, Readers, BackedInv, CompletionsBacked, ReviewIsBacked
  <1>2. BackedInv => ReviewIsBacked
    BY DEF BackedInv
  <1> SUFFICES ASSUME NoApiReview PROVE Spec => []ReviewIsBacked
    OBVIOUS
  <1> QED BY <1>1, <1>2, TypeCorrect, RunsInStep, BackedStep, PTL DEF Spec

----------------------------------------------------------------------------
(* Whose run a task's latest run is *)

\* A coder of the task was resumed.
Resumed(t) == \E r \in resumed : runTask[r] = t

\* An active run is the latest of its task.
ActiveIsLatest ==
    \A t \in Task, r \in RunId : runTask[r] = t /\ runState[r] \in ActiveRunStates => LatestRun(t, r)

\* While a spawn is under way its task gets no younger run, but by a resume.
SpawnNewest ==
    spawn.pc # "idle" => \A q \in RunId \ resumed : runTask[q] = spawn.task => q <= spawn.run

\* A revise verdict that waits to move the task has resumed its coder, and no resume is
\* under way, or was, that is not counted.
ResumesKnown ==
    /\ \A k \in ResumeKinds, t \in Task : resume[k][t].pc = "move" => Resumed(t)
    /\ resumes = 0 =>
          resumed = {} /\ \A k \in ResumeKinds, t \in Task : resume[k][t].pc = "idle"

LatestInv == ActiveIsLatest /\ SpawnNewest /\ ResumesKnown

\* A fresh run is younger than every run there is.
LEMMA FreshIsYoungest ==
  ASSUME RunInv, NEW r \in FreshRuns, NEW q \in RunId, runTask[q] \in Task
  PROVE  q < r
  <1>1. r \in Nat /\ q \in Nat /\ r \in RunId /\ runState[r] = "absent"
    BY DEF FreshRuns, RunId
  <1>2. runState[q] # "absent"
    BY TaskAssumption DEF RunInv, RunRows, None
  <1>3. ~(r < q) /\ q # r
    BY <1>1, <1>2 DEF RunInv, RunRows
  <1> QED BY <1>1, <1>3

\* A task once resumed stays so.
LEMMA ResumedStays ==
  ASSUME TypeOK, RunInv, [Next]_vars, NEW t \in Task, Resumed(t) PROVE Resumed(t)'
  <1>1. PICK r \in resumed : runTask[r] = t
    BY DEF Resumed
  <1>2. r \in RunId /\ runState[r] # "absent"
    BY <1>1 DEF TypeOK, RunInv, RunRows
  <1>3. r \in resumed' /\ runTask'[r] = t
    BY <1>1, <1>2, RunsStay
  <1> QED BY <1>3 DEF Resumed

\* The latest run of a task is superseded by a resume or by a new claim of the task.
LEMMA LatestStays ==
  ASSUME TypeOK, RunInv, [Next]_vars, NEW t \in Task, ~Resumed(t)', ~CreateClaimRun(t)
  PROVE  \A q \in RunId : (runTask'[q] = t) <=> (runTask[q] = t)
  <1>1. ASSUME NEW u \in Task, NEW q \in FreshRuns, InsertRun(u, q), u # t
        PROVE  \A p \in RunId : (runTask'[p] = t) <=> (runTask[p] = t)
    <2>1. runTask[q] = None /\ None # t
      BY TaskAssumption DEF FreshRuns, RunInv, RunRows, None
    <2> QED BY <1>1, <2>1 DEF InsertRun, TypeOK, FreshRuns
  <1>2. ASSUME NEW q \in FreshRuns, InsertRun(t, q), resumed' = resumed \cup {q} PROVE FALSE
    <2>1. runTask'[q] = t
      BY <1>2 DEF InsertRun, TypeOK, FreshRuns
    <2> QED BY <1>2, <2>1 DEF Resumed
  <1> QED BY <1>1, <1>2, RunWrites

\* Every handler that inserts a run sees that the task has none at work.
LEMMA ActiveIsLatestStep ==
  ASSUME TypeOK, RunInv, ActiveIsLatest, [Next]_vars PROVE ActiveIsLatest'
  <1> SUFFICES ASSUME NEW t \in Task, NEW r \in RunId, runTask'[r] = t,
                      runState'[r] \in ActiveRunStates, NEW p \in RunId, runTask'[p] = t
               PROVE  p <= r
    BY DEF ActiveIsLatest, LatestRun
  <1>1. p \in Nat /\ r \in Nat
    BY DEF RunId
  <1>2. CASE UNCHANGED runTask
    <2>1. runState[r] # "absent"
      BY <1>2, TaskAssumption DEF RunInv, RunRows, None
    <2>2. runState[r] \in ActiveRunStates
      BY <2>1, RunsStay
    <2> QED BY <1>2, <2>2 DEF ActiveIsLatest, LatestRun
  <1>3. ASSUME NEW u \in Task, NEW q \in FreshRuns, CanInsertRun(u), InsertRun(u, q) PROVE p <= r
    <2>1. /\ \A o \in RunId : o # q => runTask'[o] = runTask[o] /\ runState'[o] = runState[o]
          /\ runTask'[q] = u /\ q \in RunId
      BY <1>3 DEF InsertRun, TypeOK, FreshRuns
    <2>2. CASE r = q
      <3>1. p # q => p < q
        BY <2>1, FreshIsYoungest
      <3> QED BY <1>1, <2>2, <3>1
    <2>3. CASE r # q
      <3>1. runTask[r] = t /\ runState[r] \in ActiveRunStates
        BY <2>1, <2>3
      <3>2. u # t
        BY <1>3, <3>1 DEF CanInsertRun, ActiveRuns
      <3>3. runTask[p] = t
        BY <2>1, <3>2
      <3> QED BY <3>1, <3>3 DEF ActiveIsLatest, LatestRun
    <2> QED BY <2>2, <2>3
  <1> QED BY <1>2, <1>3, RunWrites

\* A spawn is begun by the claim, goes from await to await with its task and run, and ends.
LEMMA SpawnWrites ==
  ASSUME TypeOK, [Next]_vars
  PROVE  \/ UNCHANGED spawn
         \/ spawn' = SpawnIdle
         \/ \E t \in Task : CreateClaimRun(t)
         \/ /\ spawn.pc # "idle" /\ spawn'.task = spawn.task /\ spawn'.run = spawn.run
            /\ \/ ClaimTask /\ spawn.pc = "claim" /\ spawn'.pc \in {"launch", "rollback"}
               \/ spawn'.pc \in {"confirm", "fail", "failtask"}
  <1> DEFINE Advances == /\ spawn.pc # "idle" /\ spawn'.task = spawn.task /\ spawn'.run = spawn.run
                         /\ \/ ClaimTask /\ spawn.pc = "claim" /\ spawn'.pc \in {"launch", "rollback"}
                            \/ spawn'.pc \in {"confirm", "fail", "failtask"}
             Kept == UNCHANGED spawn \/ spawn' = SpawnIdle \/ \E t \in Task : CreateClaimRun(t)
  <1>1. ASSUME spawn.pc # "idle", NEW pc, spawn' = [spawn EXCEPT !.pc = pc]
        PROVE  spawn'.task = spawn.task /\ spawn'.run = spawn.run /\ spawn'.pc = pc
    BY <1>1, SpawnNamed
  <1>2. CASE ClaimTask
    <2>1. spawn.pc = "claim" /\ \E pc \in {"launch", "rollback"} : spawn' = [spawn EXCEPT !.pc = pc]
      BY <1>2 DEF ClaimTask
    <2>2. Advances
      BY <1>1, <1>2, <2>1
    <2> QED BY <2>2
  <1>3. CASE SpawnLaunch \/ SpawnThrow \/ SpawnRollbackRun \/ (SpawnConfirm /\ spawn' # SpawnIdle)
    <2>1. /\ spawn.pc # "idle"
          /\ \E pc \in {"confirm", "fail", "failtask"} : spawn' = [spawn EXCEPT !.pc = pc]
      BY <1>3 DEF SpawnLaunch, SpawnThrow, SpawnRollbackRun, SpawnConfirm
    <2>2. Advances
      BY <1>1, <2>1
    <2> QED BY <2>2
  <1>4. CASE RollbackClaim \/ SpawnRollbackTask \/ (SpawnConfirm /\ spawn' = SpawnIdle)
    BY <1>4 DEF RollbackClaim, SpawnRollbackTask
  <1>5. CASE Board \/ Tick \/ UNCHANGED vars
    BY <1>5
    DEF Board, PromoteDraft, AskReady, TakeReady, ApiTransition, Tick, TickStart, TickEnd, TickSkip, vars
  <1>6. CASE Resume
    <2>1. UNCHANGED spawn
      BY <1>6
      DEF Resume, ResumeStep, ReviseResume, HumanResume, ReviseMove, ResumeCreate, ResumeThrow,
          ResumeLaunch, ResumeConfirm
    <2> QED BY <2>1
  <1>7. CASE Hooks
    BY <1>7
    DEF Hooks, SessionStart, PreToolUse, PostToolUse, StopInBackground, Stop, HookMove
  <1>8. CASE Poll \/ \E r \in RunId : StopRun(r)
    BY <1>8 DEF Poll, Watchdog, GraceFinish, BudgetPick, ReapRun, StopRun
  <1>9. CASE Triage
    BY <1>9
    DEF Triage, HookTriage, BudgetTriage, TriageStep, TriageHuman, TriageRetry, TriageDemote
  <1>10. CASE Completion
    BY <1>10
    DEF Completion, CompleteFromEvent, CompleteAtBoot, CompleteRun, CompletionPark,
        CompletionHandoff, CompletionMove
  <1>11. CASE Boot
    BY <1>11 DEF Boot, Restart, BootFailTask, StartTriggers, BootCheck
  <1> QED BY <1>2, <1>3, <1>4, <1>5, <1>6, <1>7, <1>8, <1>9, <1>10, <1>11
          DEF Next, Spawn

\* No claim of a task is made while a spawn is under way, and a resume marks its run.
LEMMA SpawnNewestStep ==
  ASSUME TypeOK, RunInv, SpawnNewest, [Next]_vars PROVE SpawnNewest'
  <1> SUFFICES ASSUME spawn'.pc # "idle", NEW q \in RunId, q \notin resumed',
                      runTask'[q] = spawn'.task
               PROVE  q <= spawn'.run
    BY DEF SpawnNewest
  <1>1. ASSUME NEW t \in Task, CreateClaimRun(t) PROVE q <= spawn'.run
    <2>1. PICK r \in FreshRuns : InsertRun(t, r) /\ spawn' = [pc |-> "claim", task |-> t, run |-> r]
      BY <1>1 DEF CreateClaimRun
    <2>2. q # r => q < r
      <3>1. q # r => runTask[q] = t
        BY <2>1 DEF InsertRun, TypeOK, FreshRuns
      <3> QED BY <3>1, FreshIsYoungest
    <2> QED BY <2>1, <2>2 DEF RunId, FreshRuns
  <1>2. ASSUME spawn.pc # "idle", spawn'.task = spawn.task, spawn'.run = spawn.run
        PROVE  q <= spawn'.run
    <2>1. \A t \in Task : ~CreateClaimRun(t)
      BY <1>2 DEF CreateClaimRun
    <2>2. runTask[q] = spawn.task /\ q \notin resumed
      <3>1. ASSUME NEW u \in Task, NEW p \in FreshRuns, InsertRun(u, p), resumed' = resumed \cup {p}
            PROVE  runTask'[q] = runTask[q] /\ q \notin resumed
        BY <3>1 DEF InsertRun, TypeOK, FreshRuns
      <3> QED BY <1>2, <2>1, <3>1, RunWrites
    <2> QED BY <1>2, <2>2 DEF SpawnNewest
  <1> QED BY <1>1, <1>2, SpawnWrites DEF SpawnIdle

\* A resume in flight is begun and counted, goes on by its own steps, or is cut short.
LEMMA ResumeWrites ==
  ASSUME TypeOK, [Next]_vars, NEW k \in ResumeKinds, NEW t \in Task
  PROVE  /\ \/ resume'[k][t] = resume[k][t]
            \/ resume'[k][t].pc = "idle"
            \/ resume'[k][t].pc = "create" /\ resumes' = resumes + 1
            \/ resume[k][t].pc # "idle" /\ ResumeStep(k, t)
         /\ resumes' \in {resumes, resumes + 1}
  <1> USE DEF rows, runRows, boot, counters
  <1> DEFINE Writes == /\ \/ resume'[k][t] = resume[k][t]
                          \/ resume'[k][t].pc = "idle"
                          \/ resume'[k][t].pc = "create" /\ resumes' = resumes + 1
                          \/ resume[k][t].pc # "idle" /\ ResumeStep(k, t)
                       /\ resumes' \in {resumes, resumes + 1}
  <1>1. ASSUME UNCHANGED <<resume, resumes>> PROVE Writes
    BY <1>1
  <1>2. ASSUME NEW j \in ResumeKinds, NEW u \in Task, NEW pc, NEW r, AwaitResume(j, u, pc, r)
        PROVE  resume'[k][t] = IF j = k /\ u = t THEN [pc |-> pc, run |-> r] ELSE resume[k][t]
    BY <1>2 DEF AwaitResume, TypeOK
  <1>3. ASSUME NEW u \in Task, ReviseResume(u) \/ HumanResume(u) PROVE Writes
    <2>1. PICK j \in ResumeKinds : AwaitResume(j, u, "create", None)
      BY <1>3 DEF ReviseResume, HumanResume, ResumeKinds
    <2>2. resume'[k][t] = IF j = k /\ u = t THEN [pc |-> "create", run |-> None] ELSE resume[k][t]
      BY <1>2, <2>1
    <2>3. resumes' = resumes + 1
      BY <1>3 DEF ReviseResume, HumanResume
    <2> QED BY <2>2, <2>3
  <1>4. ASSUME NEW u \in Task, ReviseMove(u) PROVE Writes
    <2>1. AwaitResume("review", u, "idle", None) /\ resumes' = resumes
      BY <1>4 DEF ReviseMove
    <2>2. resume'[k][t] = IF "review" = k /\ u = t THEN [pc |-> "idle", run |-> None] ELSE resume[k][t]
      BY <1>2, <2>1 DEF ResumeKinds
    <2> QED BY <2>1, <2>2
  <1>5. ASSUME NEW j \in ResumeKinds, NEW u \in Task, ResumeStep(j, u) PROVE Writes
    <2>1. resume[j][u].pc # "idle" /\ resumes' = resumes
      BY <1>5 DEF ResumeStep, ResumeCreate, ResumeThrow, ResumeLaunch, ResumeConfirm
    <2>2. CASE j = k /\ u = t
      BY <1>5, <2>1, <2>2
    <2>3. CASE ~(j = k /\ u = t)
      <3>1. \E pc, r : AwaitResume(j, u, pc, r)
        BY <1>5 DEF ResumeStep, ResumeCreate, ResumeThrow, ResumeLaunch, ResumeConfirm
      <3>2. resume'[k][t] = resume[k][t]
        BY <1>2, <2>3, <3>1
      <3> QED BY <2>1, <3>2
    <2> QED BY <2>2, <2>3
  <1>6. CASE Restart
    BY <1>6 DEF Restart, ResumeIdle
  <1>7. CASE Board \/ Tick \/ UNCHANGED vars
    BY <1>1, <1>7
    DEF Board, PromoteDraft, AskReady, TakeReady, ApiTransition, Tick, TickStart, TickEnd, TickSkip, CreateClaimRun, vars
  <1>8. CASE Spawn
    BY <1>1, <1>8
    DEF Spawn, ClaimTask, RollbackClaim, SpawnLaunch, SpawnThrow, SpawnConfirm,
        SpawnRollbackRun, SpawnRollbackTask
  <1>9. CASE Hooks
    BY <1>1, <1>9
    DEF Hooks, SessionStart, PreToolUse, PostToolUse, StopInBackground, Stop, HookMove
  <1>10. CASE Poll \/ \E r \in RunId : StopRun(r)
    BY <1>1, <1>10 DEF Poll, Watchdog, GraceFinish, BudgetPick, ReapRun, StopRun
  <1>11. CASE Triage
    BY <1>1, <1>11
    DEF Triage, HookTriage, BudgetTriage, TriageStep, TriageHuman, TriageRetry, TriageDemote
  <1>12. CASE Completion
    BY <1>1, <1>12
    DEF Completion, CompleteFromEvent, CompleteAtBoot, CompleteRun, CompletionPark,
        CompletionHandoff, CompletionMove
  <1>13. CASE BootFailTask \/ StartTriggers \/ \E r \in RunId : BootCheck(r)
    BY <1>1, <1>13 DEF BootFailTask, StartTriggers, BootCheck
  <1> QED BY <1>3, <1>4, <1>5, <1>6, <1>7, <1>8, <1>9, <1>10, <1>11, <1>12, <1>13
          DEF Next, Resume, Boot

\* A confirmed resume has created its run; without a resume there is none.
LEMMA ResumesKnownStep ==
  ASSUME TypeOK, TypeOK', RunInv, ResumesKnown, [Next]_vars PROVE ResumesKnown'
  <1>1. ASSUME NEW k \in ResumeKinds, NEW t \in Task, resume'[k][t].pc = "move" PROVE Resumed(t)'
    <2>1. CASE resume'[k][t] = resume[k][t]
      BY <1>1, <2>1, ResumedStays DEF ResumesKnown
    <2>2. CASE ResumeStep(k, t)
      <3>1. ResumeConfirm(k, t)
        BY <1>1, <2>2
        DEF ResumeStep, ResumeCreate, ResumeThrow, ResumeLaunch, AwaitResume, TypeOK
      <3>2. Resumed(t)
        BY <3>1 DEF ResumeConfirm, RunInv, ResumeHolds, Resumed
      <3> QED BY <3>2, ResumedStays
    <2> QED BY <1>1, <2>1, <2>2, ResumeWrites
  <1>2. ASSUME resumes' = 0
        PROVE  resumed' = {} /\ \A k \in ResumeKinds, t \in Task : resume'[k][t].pc = "idle"
    <2>1. CASE Task = {}
      <3>1. resumed = {}
        BY <2>1 DEF RunInv, RunRows, TypeOK
      <3> QED BY <2>1, <3>1, RunWrites
    <2>2. CASE Task # {}
      <3>1. resumes = 0 /\ resumes' # resumes + 1
        <4>1. "review" \in ResumeKinds /\ resumes \in Nat
          BY DEF ResumeKinds, TypeOK
        <4> QED BY <1>2, <2>2, <4>1, ResumeWrites
      <3>2. \A k \in ResumeKinds, t \in Task : resume[k][t].pc = "idle" /\ ~ResumeCreate(k, t)
        BY <3>1 DEF ResumesKnown, ResumeCreate
      <3>3. resumed' = resumed /\ resumed = {}
        BY <3>1, <3>2, RunWrites DEF ResumesKnown
      <3> QED BY <3>1, <3>2, <3>3, ResumeWrites
    <2> QED BY <2>1, <2>2
  <1> QED BY <1>1, <1>2 DEF ResumesKnown

\* The latest run of a task is known through every step.
LEMMA LatestHolds == Spec => []LatestInv
  <1>1. Init => LatestInv
    BY DEF Init, NothingInFlight, SpawnIdle, ResumeIdle, LatestInv, ActiveIsLatest, SpawnNewest,
           ResumesKnown, ActiveRunStates
  <1>2. TypeOK /\ TypeOK' /\ RunInv /\ LatestInv /\ [Next]_vars => LatestInv'
    BY ActiveIsLatestStep, SpawnNewestStep, ResumesKnownStep DEF LatestInv
  <1> QED BY <1>1, <1>2, TypeCorrect, RunsInStep, PTL DEF Spec

----------------------------------------------------------------------------
(* Who writes what *)

\* What each part of the loop leaves alone.
LEMMA Frames ==
  /\ Board => UNCHANGED <<prOpen, runRows, tick, spawn, resume, inbox, triage, completion, boot,
                          counters>>
  /\ Tick => UNCHANGED <<rows, agentId, session, resumed, resume, inbox, triage, completion, boot,
                         counters>>
  /\ Spawn => UNCHANGED <<merged, prOpen, runTask, agentId, resumed, resume, inbox, triage,
                          completion, boot, counters>>
  /\ Resume => UNCHANGED <<claimedBy, merged, prOpen, agentId, tick, spawn, inbox, triage,
                           completion, boot, restarts>>
  /\ Hooks => UNCHANGED <<rows, runTask, session, resumed, tick, spawn, resume, inbox, triage,
                          completion, boot, counters>>
  /\ Poll => UNCHANGED <<rows, runTask, agentId, resumed, tick, spawn, resume, completion, boot,
                         counters>>
  /\ Triage => UNCHANGED <<claimedBy, merged, prOpen, runRows, tick, spawn, resume, completion,
                           boot, counters>>
  /\ Completion => UNCHANGED <<claimedBy, merged, runRows, tick, spawn, resume, triage, phase,
                               bootLeft, bootFail, counters>>
  /\ Boot => UNCHANGED <<claimedBy, merged, prOpen, runTask, agentId, resumed, resumes>>
  /\ \A r : StopRun(r) => UNCHANGED <<rows, runTask, agentId, session, resumed, tick, spawn,
                                      resume, inbox, triage, completion, boot, counters>>
  <1> USE DEF rows, runRows, boot, counters
  <1>1. Board => UNCHANGED <<prOpen, runRows, tick, spawn, resume, inbox, triage, completion, boot,
                             counters>>
    BY DEF Board, PromoteDraft, AskReady, TakeReady, ApiTransition
  <1>2. Tick => UNCHANGED <<rows, agentId, session, resumed, resume, inbox, triage, completion,
                            boot, counters>>
    BY DEF Tick, TickStart, TickEnd, TickSkip, CreateClaimRun
  <1>3. Spawn => UNCHANGED <<merged, prOpen, runTask, agentId, resumed, resume, inbox, triage,
                             completion, boot, counters>>
    BY DEF Spawn, ClaimTask, RollbackClaim, SpawnLaunch, SpawnThrow, SpawnConfirm,
           SpawnRollbackRun, SpawnRollbackTask
  <1>4. Resume => UNCHANGED <<claimedBy, merged, prOpen, agentId, tick, spawn, inbox, triage,
                              completion, boot, restarts>>
    BY DEF Resume, ResumeStep, ReviseResume, HumanResume, ReviseMove, ResumeCreate, ResumeThrow,
           ResumeLaunch, ResumeConfirm
  <1>5. Hooks => UNCHANGED <<rows, runTask, session, resumed, tick, spawn, resume, inbox, triage,
                             completion, boot, counters>>
    BY DEF Hooks, SessionStart, PreToolUse, PostToolUse, StopInBackground, Stop, HookMove
  <1>6. Poll => UNCHANGED <<rows, runTask, agentId, resumed, tick, spawn, resume, completion, boot,
                            counters>>
    BY DEF Poll, Watchdog, GraceFinish, BudgetPick, ReapRun
  <1>7. Triage => UNCHANGED <<claimedBy, merged, prOpen, runRows, tick, spawn, resume, completion,
                              boot, counters>>
    BY DEF Triage, HookTriage, BudgetTriage, TriageStep, TriageHuman, TriageRetry, TriageDemote
  <1>8. Completion => UNCHANGED <<claimedBy, merged, runRows, tick, spawn, resume, triage, phase,
                                  bootLeft, bootFail, counters>>
    BY DEF Completion, CompleteFromEvent, CompleteAtBoot, CompleteRun, CompletionPark,
           CompletionHandoff, CompletionMove
  <1>9. Boot => UNCHANGED <<claimedBy, merged, prOpen, runTask, agentId, resumed, resumes>>
    BY DEF Boot, Restart, BootFailTask, StartTriggers, BootCheck
  <1>10. \A r : StopRun(r) => UNCHANGED <<rows, runTask, agentId, session, resumed, tick, spawn,
                                          resume, inbox, triage, completion, boot, counters>>
    BY DEF StopRun
  <1> QED BY ONLY <1>1, <1>2, <1>3, <1>4, <1>5, <1>6, <1>7, <1>8, <1>9, <1>10

\* A restart is counted, and nothing else is one.
LEMMA RestartWrites ==
  ASSUME TypeOK, [Next]_vars
  PROVE  /\ restarts' # restarts => Restart
         /\ restarts' = 0 => restarts = 0 /\ ~Restart
  <1>1. Restart => restarts' = restarts + 1
    BY DEF Restart
  <1>2. ~Restart => restarts' = restarts
    <2>1. Boot /\ ~Restart => restarts' = restarts
      BY DEF Boot, BootFailTask, StartTriggers, BootCheck, counters
    <2>2. UNCHANGED vars => restarts' = restarts
      BY DEF vars, counters
    <2> QED BY <2>1, <2>2, Frames DEF Next, counters
  <1>3. restarts \in Nat
    BY DEF TypeOK
  <1> QED BY <1>1, <1>2, <1>3

\* Operators take no task into coding themselves.
NoApiCoding == \A s \in TaskStates : <<s, "coding">> \notin ApiEdges

\* Then nobody but the claim writes claimed_by.
LEMMA ClaimWrites ==
  ASSUME TypeOK, NoApiCoding, [Next]_vars PROVE claimedBy' = claimedBy \/ ClaimTask
  <1>1. Board => claimedBy' = claimedBy
    <2>1. ASSUME NEW t \in Task, NEW to \in TaskStates, ApiTransition(t, to)
          PROVE  claimedBy' = claimedBy
      BY <2>1 DEF ApiTransition, NoApiCoding, TypeOK
    <2>2. ASSUME NEW t \in Task, PromoteDraft(t) \/ AskReady(t) \/ TakeReady(t)
          PROVE  claimedBy' = claimedBy
      BY <2>2 DEF PromoteDraft, AskReady, TakeReady, rows
    <2> QED BY <2>1, <2>2 DEF Board
  <1>2. Spawn => claimedBy' = claimedBy \/ ClaimTask
    BY DEF Spawn, RollbackClaim, SpawnLaunch, SpawnThrow, SpawnConfirm, SpawnRollbackRun,
           SpawnRollbackTask, rows
  <1>3. UNCHANGED vars => claimedBy' = claimedBy
    BY DEF vars, rows
  <1> QED BY <1>1, <1>2, <1>3, Frames DEF Next, rows

\* Only the start of a pass makes a task a candidate.
LEMMA TickWrites ==
  ASSUME TypeOK, [Next]_vars PROVE TickStart \/ tick'.todo \subseteq tick.todo
  <1>1. ASSUME tick' = tick PROVE tick'.todo \subseteq tick.todo
    BY <1>1
  <1>2. ASSUME NEW t, tick' = [tick EXCEPT !.todo = tick.todo \ {t}]
        PROVE  tick'.todo \subseteq tick.todo
    <2>1. tick \in [on : BOOLEAN, free : Nat, todo : SUBSET Task]
      BY DEF TypeOK
    <2>2. tick'.todo = tick.todo \ {t}
      BY ONLY <1>2, <2>1, Zenon
    <2> QED BY <2>2
  <1>3. ASSUME NEW n, tick' = [tick EXCEPT !.free = n] PROVE tick'.todo \subseteq tick.todo
    <2>1. tick \in [on : BOOLEAN, free : Nat, todo : SUBSET Task]
      BY DEF TypeOK
    <2>2. tick'.todo = tick.todo
      BY ONLY <1>3, <2>1, Zenon
    <2> QED BY <2>2
  <1>4. CASE Tick
    <2>1. \/ TickStart
          \/ tick' = TickOff
          \/ \E t : tick' = [tick EXCEPT !.todo = tick.todo \ {t}]
      BY <1>4 DEF Tick, TickEnd, TickSkip, CreateClaimRun
    <2>2. tick' = TickOff => tick'.todo = {}
      BY DEF TickOff
    <2> QED BY <1>2, <2>1, <2>2
  <1>5. CASE Spawn
    <2>1. tick' = tick \/ tick' = [tick EXCEPT !.free = tick.free - 1]
      BY <1>5
      DEF Spawn, ClaimTask, RollbackClaim, SpawnLaunch, SpawnThrow, SpawnConfirm,
          SpawnRollbackRun, SpawnRollbackTask
    <2> QED BY <1>1, <1>3, <2>1
  <1>6. CASE Boot
    <2>1. tick' = tick \/ tick' = TickOff
      BY <1>6 DEF Boot, Restart, BootFailTask, StartTriggers, BootCheck
    <2>2. tick' = TickOff => tick'.todo = {}
      BY DEF TickOff
    <2> QED BY <1>1, <2>1, <2>2
  <1>7. CASE UNCHANGED vars
    BY <1>1, <1>7 DEF vars
  <1> QED BY <1>1, <1>4, <1>5, <1>6, <1>7, Frames DEF Next

\* Who writes about a session: a launch brings it up; a confirmation that lost its race, the
\* budget or the end of the server takes it down.
LEMMA SessionWrites ==
  ASSUME TypeOK, [Next]_vars, NEW q \in RunId, session'[q] # session[q]
  PROVE  \/ SpawnLaunch /\ q = spawn.run /\ session'[q] = "up"
         \/ SpawnConfirm /\ q = spawn.run /\ runState[q] # "queued"
         \/ \E k \in ResumeKinds, t \in Task :
               (ResumeLaunch(k, t) \/ ResumeConfirm(k, t)) /\ q = resume[k][t].run
         \/ BudgetPick(q)
         \/ Restart
  <1> DEFINE Writes == \/ SpawnLaunch /\ q = spawn.run /\ session'[q] = "up"
                       \/ SpawnConfirm /\ q = spawn.run /\ runState[q] # "queued"
                       \/ \E k \in ResumeKinds, t \in Task :
                             (ResumeLaunch(k, t) \/ ResumeConfirm(k, t)) /\ q = resume[k][t].run
                       \/ BudgetPick(q)
                       \/ Restart
  <1>0. ASSUME NEW p, NEW x, session' = [session EXCEPT ![p] = x] PROVE q = p /\ session'[q] = x
    BY <1>0 DEF TypeOK
  <1>1. CASE Spawn
    <2>1. CASE SpawnLaunch
      <3>1. q = spawn.run /\ session'[q] = "up"
        BY <1>0, <2>1 DEF SpawnLaunch
      <3> QED BY <2>1, <3>1
    <2>2. CASE SpawnConfirm
      <3>1. runState[spawn.run] # "queued" /\ session' = [session EXCEPT ![spawn.run] = "dead"]
        BY <2>2 DEF SpawnConfirm
      <3>2. q = spawn.run
        BY <1>0, <3>1
      <3> QED BY <2>2, <3>1, <3>2
    <2> QED BY <1>1, <2>1, <2>2
        DEF Spawn, ClaimTask, RollbackClaim, SpawnThrow, SpawnRollbackRun, SpawnRollbackTask, runRows
  <1>2. CASE Resume
    <2>1. PICK k \in ResumeKinds, t \in Task : ResumeLaunch(k, t) \/ ResumeConfirm(k, t)
      BY <1>2
      DEF Resume, ResumeStep, ReviseResume, HumanResume, ReviseMove, ResumeCreate, ResumeThrow, runRows
    <2>2. \E x : session' = [session EXCEPT ![resume[k][t].run] = x]
      BY <2>1 DEF ResumeLaunch, ResumeConfirm
    <2>3. q = resume[k][t].run
      BY <1>0, <2>2
    <2> QED BY <2>1, <2>3
  <1>3. CASE Poll
    <2>1. PICK r \in RunId : BudgetPick(r)
      BY <1>3 DEF Poll, Watchdog, GraceFinish, ReapRun
    <2>2. q = r
      BY <1>0, <2>1 DEF BudgetPick
    <2> QED BY <2>1, <2>2
  <1>4. CASE Boot
    BY <1>4 DEF Boot, BootFailTask, StartTriggers, BootCheck, runRows
  <1>5. CASE UNCHANGED vars
    BY <1>5 DEF vars, runRows
  <1> QED BY <1>1, <1>2, <1>3, <1>4, <1>5, Frames DEF Next, runRows

\* Agents are known from their SessionStart on.
LEMMA AgentWrites ==
  ASSUME [Next]_vars, agentId' # agentId
  PROVE  \E r \in RunId : SessionStart(r)
  <1>1. Hooks => (agentId' = agentId \/ \E r \in RunId : SessionStart(r))
    BY DEF Hooks, PreToolUse, PostToolUse, StopInBackground, Stop
  <1>2. UNCHANGED vars => agentId' = agentId
    BY DEF vars, runRows
  <1> QED BY <1>1, <1>2, Frames DEF Next, runRows

\* How an active run comes to an end.
LEMMA RunEnds ==
  ASSUME TypeOK, [Next]_vars, NEW r \in RunId, runState[r] \in ActiveRunStates,
         runState'[r] \notin ActiveRunStates
  PROVE  \/ Watchdog(r, "failed") /\ runState'[r] = "failed"
         \/ (Watchdog(r, "succeeded") \/ GraceFinish(r)) /\ runState'[r] = "succeeded"
         \/ RollbackClaim /\ spawn.run = r
         \/ SpawnRollbackRun /\ spawn.run = r /\ runState'[r] = "killed"
         \/ ReapRun(r) /\ runState'[r] = "killed"
         \/ StopRun(r) /\ runState'[r] = "killed"
         \/ BootCheck(r)
  <1> DEFINE Ends == \/ Watchdog(r, "failed") /\ runState'[r] = "failed"
                     \/ (Watchdog(r, "succeeded") \/ GraceFinish(r)) /\ runState'[r] = "succeeded"
                     \/ RollbackClaim /\ spawn.run = r
                     \/ SpawnRollbackRun /\ spawn.run = r /\ runState'[r] = "killed"
                     \/ ReapRun(r) /\ runState'[r] = "killed"
                     \/ StopRun(r) /\ runState'[r] = "killed"
                     \/ BootCheck(r)
  <1> USE DEF runRows
  <1>0. ASSUME NEW q, NEW from, NEW to, MoveRun(q, from, to)
        PROVE  q = r /\ runState'[r] = to /\ to \notin ActiveRunStates
    BY <1>0 DEF MoveRun, Guarded, Takes, TypeOK
  <1>i. ASSUME NEW t, NEW q \in FreshRuns, InsertRun(t, q) PROVE FALSE
    <2>1. q # r
      BY DEF FreshRuns, ActiveRunStates
    <2> QED BY <1>i, <2>1 DEF InsertRun, TypeOK
  <1>1. CASE Spawn
    <2>1. ASSUME SpawnConfirm PROVE FALSE
      <3>1. "starting" \in ActiveRunStates /\ MoveRun(spawn.run, "queued", "starting")
        BY <2>1 DEF SpawnConfirm, ActiveRunStates
      <3> QED BY <1>0, <3>1
    <2>2. CASE RollbackClaim
      <3>1. spawn.run = r
        BY <1>0, <2>2 DEF RollbackClaim
      <3> QED BY <2>2, <3>1
    <2>3. CASE SpawnRollbackRun
      <3>1. spawn.run = r /\ runState'[r] = "killed"
        BY <1>0, <2>3 DEF SpawnRollbackRun
      <3> QED BY <2>3, <3>1
    <2> QED BY <1>1, <2>1, <2>2, <2>3
        DEF Spawn, ClaimTask, SpawnLaunch, SpawnThrow, SpawnRollbackTask
  <1>2. ASSUME Resume PROVE FALSE
    <2>1. ASSUME NEW k \in ResumeKinds, NEW t \in Task, ResumeConfirm(k, t) PROVE FALSE
      <3>1. "starting" \in ActiveRunStates /\ MoveRun(resume[k][t].run, "queued", "starting")
        BY <2>1 DEF ResumeConfirm, ActiveRunStates
      <3> QED BY <1>0, <3>1
    <2>2. ASSUME NEW k \in ResumeKinds, NEW t \in Task, ResumeCreate(k, t) PROVE FALSE
      BY <1>i, <2>2 DEF ResumeCreate
    <2> QED BY <1>2, <2>1, <2>2
        DEF Resume, ResumeStep, ReviseResume, HumanResume, ReviseMove, ResumeThrow, ResumeLaunch
  <1>3. ASSUME Tick PROVE FALSE
    <2>1. ASSUME NEW t \in Task, CreateClaimRun(t) PROVE FALSE
      BY <1>i, <2>1 DEF CreateClaimRun
    <2> QED BY <1>3, <2>1 DEF Tick, TickStart, TickEnd, TickSkip
  <1>4. ASSUME Hooks PROVE FALSE
    <2>1. PICK q \in RunId, from, to \in ActiveRunStates : MoveRun(q, from, to)
      BY <1>4
      DEF Hooks, SessionStart, PreToolUse, PostToolUse, StopInBackground, Stop, HookMove,
          ActiveRunStates
    <2> QED BY <1>0, <2>1
  <1>5. CASE Poll
    <2>1. ASSUME NEW q \in RunId, NEW to, Watchdog(q, to) PROVE q = r /\ runState'[r] = to
      BY <1>0, <2>1 DEF Watchdog
    <2>2. ASSUME NEW q \in RunId, GraceFinish(q) PROVE q = r /\ runState'[r] = "succeeded"
      BY <1>0, <2>2 DEF GraceFinish
    <2>3. ASSUME NEW q \in RunId, ReapRun(q) PROVE q = r /\ runState'[r] = "killed"
      BY <1>0, <2>3 DEF ReapRun
    <2>4. ASSUME NEW q \in RunId, BudgetPick(q) PROVE FALSE
      BY <2>4 DEF BudgetPick
    <2>5. PICK q \in RunId : \/ Watchdog(q, "failed") \/ Watchdog(q, "succeeded") \/ GraceFinish(q)
                             \/ BudgetPick(q) \/ ReapRun(q)
      BY <1>5 DEF Poll
    <2> QED BY <2>1, <2>2, <2>3, <2>4, <2>5
  <1>6. ASSUME NEW q \in RunId, StopRun(q) PROVE Ends
    <2>1. q = r /\ runState'[r] = "killed"
      BY <1>0, <1>6 DEF StopRun
    <2> QED BY <1>6, <2>1
  <1>7. CASE Boot
    <2>1. ASSUME NEW q \in RunId, BootCheck(q) PROVE q = r
      <3>1. MoveRun(q, bootLeft[q], "interrupted")
        BY <2>1 DEF BootCheck
      <3> QED BY <1>0, <3>1
    <2> QED BY <1>7, <2>1 DEF Boot, Restart, BootFailTask, StartTriggers
  <1>8. UNCHANGED vars => FALSE
    BY DEF vars
  <1> QED BY <1>1, <1>2, <1>3, <1>4, <1>5, <1>6, <1>7, <1>8, Frames DEF Next

\* A run's event is in a buffer.
Posted(i, r) == \E n \in DOMAIN inbox[i] : inbox[i][n] = r

\* The step that ends a run and says so to a reader.
Reports(i, r) ==
    \/ i = "scheduler" /\ Watchdog(r, "failed")
    \/ i = "completion" /\ (Watchdog(r, "succeeded") \/ GraceFinish(r))

\* A buffer grows at its end, by the report of a run, and its reader takes its first event.
LEMMA InboxWrites ==
  ASSUME TypeOK, [Next]_vars, NEW i \in Readers
  PROVE  \/ inbox'[i] = inbox[i]
         \/ \E r \in RunId : inbox'[i] = Append(inbox[i], r) /\ Reports(i, r)
         \/ i = "scheduler" /\ HookTriage /\ inbox'[i] = Tail(inbox[i])
         \/ i = "completion" /\ CompleteFromEvent /\ inbox'[i] = Tail(inbox[i])
         \/ Restart
  <1> DEFINE Writes == \/ inbox'[i] = inbox[i]
                       \/ \E r \in RunId : inbox'[i] = Append(inbox[i], r) /\ Reports(i, r)
                       \/ i = "scheduler" /\ HookTriage /\ inbox'[i] = Tail(inbox[i])
                       \/ i = "completion" /\ CompleteFromEvent /\ inbox'[i] = Tail(inbox[i])
                       \/ Restart
  <1>0. inbox \in [Readers -> Seq(RunId)]
    BY DEF TypeOK
  <1>1. CASE Poll
    <2>1. ASSUME NEW j \in Readers, NEW r \in RunId, Post(j, r)
          PROVE  inbox'[i] = inbox[i] \/ (i = j /\ inbox'[i] = Append(inbox[i], r))
      BY <1>0, <2>1 DEF Post
    <2>2. UNCHANGED inbox \/ \E j \in Readers, r \in RunId : Post(j, r) /\ Reports(j, r)
      BY <1>1 DEF Poll, Watchdog, GraceFinish, BudgetPick, ReapRun, Readers, Reports
    <2> QED BY <2>1, <2>2
  <1>2. CASE Triage
    <2>1. CASE HookTriage
      <3>1. inbox' = [inbox EXCEPT !["scheduler"] = Tail(inbox["scheduler"])]
        BY <2>1 DEF HookTriage
      <3>2. inbox'[i] = IF i = "scheduler" THEN Tail(inbox[i]) ELSE inbox[i]
        BY <1>0, <3>1
      <3> QED BY <2>1, <3>2
    <2>2. CASE ~HookTriage
      BY <1>2, <2>2 DEF Triage, BudgetTriage, TriageStep, TriageHuman, TriageRetry, TriageDemote
    <2> QED BY <2>1, <2>2
  <1>3. CASE Completion
    <2>1. CASE CompleteFromEvent
      <3>1. inbox' = [inbox EXCEPT !["completion"] = Tail(inbox["completion"])]
        BY <2>1 DEF CompleteFromEvent
      <3>2. inbox'[i] = IF i = "completion" THEN Tail(inbox[i]) ELSE inbox[i]
        BY <1>0, <3>1
      <3> QED BY <2>1, <3>2
    <2>2. CASE ~CompleteFromEvent
      BY <1>3, <2>2 DEF Completion, CompleteAtBoot, CompletionPark, CompletionHandoff, CompletionMove
    <2> QED BY <2>1, <2>2
  <1>4. CASE Boot
    BY <1>4 DEF Boot, BootFailTask, StartTriggers, BootCheck
  <1>5. CASE UNCHANGED vars
    BY <1>5 DEF vars
  <1> QED BY <1>1, <1>2, <1>3, <1>4, <1>5, Frames DEF Next

\* So an event stays in its buffer until its reader takes it from the front.
LEMMA PostedStays ==
  ASSUME TypeOK, [Next]_vars, NEW i \in Readers, NEW r \in RunId, Posted(i, r)
  PROVE  \/ Posted(i, r)'
         \/ i = "scheduler" /\ HookTriage /\ r = Head(inbox[i])
         \/ i = "completion" /\ CompleteFromEvent /\ r = Head(inbox[i])
         \/ Restart
  <1>1. inbox[i] \in Seq(RunId)
    BY DEF TypeOK
  <1>2. PICK n \in DOMAIN inbox[i] : inbox[i][n] = r
    BY DEF Posted
  <1>3. ASSUME inbox'[i] = inbox[i] PROVE Posted(i, r)'
    BY <1>2, <1>3 DEF Posted
  <1>4. ASSUME NEW q \in RunId, inbox'[i] = Append(inbox[i], q) PROVE Posted(i, r)'
    <2>1. n \in DOMAIN inbox'[i] /\ inbox'[i][n] = r
      BY <1>1, <1>2, <1>4
    <2> QED BY <2>1 DEF Posted
  <1>5. ASSUME inbox'[i] = Tail(inbox[i]) PROVE Posted(i, r)' \/ r = Head(inbox[i])
    <2>1. CASE n = 1
      BY <1>1, <1>2, <2>1
    <2>2. CASE n # 1
      <3>1. n - 1 \in DOMAIN inbox'[i] /\ inbox'[i][n - 1] = r
        BY <1>1, <1>2, <1>5, <2>2
      <3> QED BY <3>1 DEF Posted
    <2> QED BY <2>1, <2>2
  <1> QED BY <1>3, <1>4, <1>5, InboxWrites

\* A triage in flight goes on by its own steps.
LEMMA TriageWrites ==
  ASSUME TypeOK, [Next]_vars, NEW s \in TriageSources, NEW r \in RunId
  PROVE  \/ triage'[s][r] = triage[s][r]
         \/ triage[s][r] = "idle"
         \/ s = "budget" /\ triage[s][r] = "reap" /\ ReapRun(r) /\ triage'[s][r] = "due"
         \/ s = "budget" /\ triage[s][r] = "due" /\ BudgetTriage(r)
         \/ TriageStep(s, r)
         \/ Restart
  <1> DEFINE Writes == \/ triage'[s][r] = triage[s][r]
                       \/ triage[s][r] = "idle"
                       \/ s = "budget" /\ triage[s][r] = "reap" /\ ReapRun(r) /\ triage'[s][r] = "due"
                       \/ s = "budget" /\ triage[s][r] = "due" /\ BudgetTriage(r)
                       \/ TriageStep(s, r)
                       \/ Restart
  <1>0. ASSUME NEW j \in TriageSources, NEW q \in RunId, NEW pc, SetTriage(j, q, pc)
        PROVE  triage'[s][r] = IF j = s /\ q = r THEN pc ELSE triage[s][r]
    BY <1>0 DEF SetTriage, TypeOK
  <1>1. CASE Poll
    <2>1. ASSUME NEW q \in RunId, BudgetPick(q) PROVE Writes
      <3>1. triage["budget"][q] = "idle" /\ SetTriage("budget", q, "reap") /\ "budget" \in TriageSources
        BY <2>1 DEF BudgetPick, TriageSources
      <3>2. triage'[s][r] = IF "budget" = s /\ q = r THEN "reap" ELSE triage[s][r]
        BY <1>0, <3>1
      <3> QED BY <3>1, <3>2
    <2>2. ASSUME NEW q \in RunId, ReapRun(q) PROVE Writes
      <3>1. triage["budget"][q] = "reap" /\ SetTriage("budget", q, "due") /\ "budget" \in TriageSources
        BY <2>2 DEF ReapRun, TriageSources
      <3>2. triage'[s][r] = IF "budget" = s /\ q = r THEN "due" ELSE triage[s][r]
        BY <1>0, <3>1
      <3> QED BY <2>2, <3>1, <3>2
    <2> QED BY <1>1, <2>1, <2>2 DEF Poll, Watchdog, GraceFinish
  <1>2. CASE Triage
    <2>1. CASE HookTriage
      <3>1. /\ \A q \in RunId : triage["hook"][q] = "idle"
            /\ Head(inbox["scheduler"]) \in RunId
            /\ \E pc : SetTriage("hook", Head(inbox["scheduler"]), pc)
        BY <2>1 DEF HookTriage, TriageRead, TypeOK, Readers
      <3>2. "hook" \in TriageSources
        BY DEF TriageSources
      <3> QED BY <1>0, <3>1, <3>2
    <2>2. ASSUME NEW q \in RunId, BudgetTriage(q) PROVE Writes
      <3>1. triage["budget"][q] = "due" /\ \E pc : SetTriage("budget", q, pc)
        BY <2>2 DEF BudgetTriage, TriageRead
      <3>2. "budget" \in TriageSources
        BY DEF TriageSources
      <3>3. triage'[s][r] = triage[s][r] \/ ("budget" = s /\ q = r)
        BY <1>0, <3>1, <3>2
      <3> QED BY <2>2, <3>1, <3>3
    <2>3. ASSUME NEW j \in TriageSources, NEW q \in RunId, TriageStep(j, q) PROVE Writes
      <3>1. \E pc : SetTriage(j, q, pc)
        BY <2>3 DEF TriageStep, TriageHuman, TriageRetry, TriageDemote
      <3>2. triage'[s][r] = triage[s][r] \/ (j = s /\ q = r)
        BY <1>0, <3>1
      <3> QED BY <2>3, <3>2
    <2> QED BY <1>2, <2>1, <2>2, <2>3 DEF Triage
  <1>3. CASE Boot
    BY <1>3 DEF Boot, BootFailTask, StartTriggers, BootCheck
  <1>4. CASE UNCHANGED vars
    BY <1>4 DEF vars
  <1> QED BY <1>1, <1>2, <1>3, <1>4, Frames DEF Next

----------------------------------------------------------------------------
(* The first life of the server *)

\* Only the boot interrupts a run.
LEMMA Interrupts ==
  ASSUME TypeOK, [Next]_vars, NEW r \in RunId, runState[r] # "interrupted",
         runState'[r] = "interrupted"
  PROVE  BootCheck(r)
  <1>1. "interrupted" \notin ActiveRunStates
    BY DEF ActiveRunStates
  <1>2. CASE runState[r] = "absent"
    <2>1. ASSUME NEW u, NEW q \in FreshRuns, InsertRun(u, q) PROVE FALSE
      BY <1>2, <2>1 DEF InsertRun, FreshRuns, TypeOK
    <2> QED BY <1>2, <2>1, RunWrites, MoveRunEffect
  <1>3. CASE runState[r] \in TerminalRunStates
    <2>1. runState[r] # "absent"
      BY <1>3 DEF TerminalRunStates
    <2> QED BY <1>3, <2>1, RunsStay
  <1>4. CASE runState[r] \in ActiveRunStates
    <2>1. RollbackClaim /\ spawn.run = r => runState'[r] = "killed" \/ runState' = runState
      BY DEF RollbackClaim, MoveRun, Guarded, TypeOK
    <2> QED BY <1>1, <1>4, <2>1, RunEnds
  <1> QED BY <1>2, <1>3, <1>4 DEF TypeOK, RunStates

\* Until the first restart there is no boot, and nothing of a boot.
FirstLife ==
    restarts = 0 =>
        /\ phase = "up" /\ bootDue = {} /\ bootFail = None /\ completion["boot"].pc = "idle"
        /\ \A r \in RunId : bootLeft[r] = "none" /\ runState[r] # "interrupted"

\* Whatever happens, only a restart ends the first life.
LEMMA FirstLifeStep == ASSUME TypeOK, FirstLife, [Next]_vars PROVE FirstLife'
  <1> SUFFICES ASSUME restarts' = 0 PROVE FirstLife'
    BY DEF FirstLife
  <1>1. restarts = 0 /\ ~Restart
    BY RestartWrites
  <1>2. ~Boot
    BY <1>1 DEF Boot, FirstLife, BootFailTask, StartTriggers, BootCheck
  <1>3. /\ UNCHANGED <<phase, bootDue, bootFail, bootLeft>>
        /\ completion'["boot"].pc = "idle"
    <2>1. CASE Completion
      <3>1. \A r \in RunId : ~CompleteAtBoot(r)
        BY <1>1 DEF FirstLife, CompleteAtBoot
      <3>2. UNCHANGED bootDue
        BY <2>1, <3>1
        DEF Completion, CompleteFromEvent, CompletionPark, CompletionHandoff, CompletionMove, boot
      <3>3. \E s \in CompletionSources : \E c :
               completion' = [completion EXCEPT ![s] = c] /\ (s # "boot" \/ c = CompletionIdle)
        BY <2>1, <3>1
        DEF Completion, CompleteFromEvent, CompleteRun, CompletionPark, CompletionHandoff,
            CompletionMove, CompletionSources
      <3>4. completion'["boot"].pc = "idle"
        BY <1>1, <3>3 DEF FirstLife, TypeOK, CompletionSources, CompletionIdle
      <3> QED BY <2>1, <3>2, <3>4, Frames
    <2>2. UNCHANGED vars => UNCHANGED <<boot, completion>>
      BY DEF vars
    <2>3. CASE ~Completion
      <3>1. UNCHANGED <<boot, completion>>
        BY <1>2, <2>2, <2>3, Frames DEF Next
      <3> QED BY <1>1, <3>1 DEF boot, FirstLife
    <2> QED BY <2>1, <2>3
  <1>4. \A r \in RunId : runState'[r] # "interrupted"
    BY <1>1, <1>2, Interrupts DEF FirstLife, Boot
  <1> QED BY <1>1, <1>3, <1>4 DEF FirstLife

\* A run is started by the spawn or the resume that holds it.
LEMMA RunStarts ==
  ASSUME TypeOK, [Next]_vars, NEW r \in RunId, runState[r] = "queued",
         runState'[r] \in ActiveRunStates \ {"queued"}
  PROVE  \/ SpawnConfirm /\ spawn.run = r
         \/ \E k \in ResumeKinds, t \in Task : ResumeConfirm(k, t) /\ resume[k][t].run = r
  <1> USE DEF runRows
  <1>0. ASSUME NEW q, NEW from, NEW to, MoveRun(q, from, to)
        PROVE  q = r /\ from = "queued" /\ to \notin {"killed", "interrupted"}
    BY <1>0 DEF MoveRun, Guarded, Takes, TypeOK, ActiveRunStates
  <1>i. ASSUME NEW t, NEW q \in FreshRuns, InsertRun(t, q) PROVE FALSE
    BY <1>i DEF InsertRun, FreshRuns, TypeOK
  <1>1. CASE Spawn
    <2>1. ~RollbackClaim /\ ~SpawnRollbackRun
      BY <1>0 DEF RollbackClaim, SpawnRollbackRun
    <2>2. SpawnConfirm
      BY <1>1, <2>1 DEF Spawn, ClaimTask, SpawnLaunch, SpawnThrow, SpawnRollbackTask
    <2>3. spawn.run = r
      BY <1>0, <2>2 DEF SpawnConfirm
    <2> QED BY <2>2, <2>3
  <1>2. CASE Resume
    <2>1. ASSUME NEW k \in ResumeKinds, NEW t \in Task, ResumeCreate(k, t) PROVE FALSE
      BY <1>i, <2>1 DEF ResumeCreate
    <2>2. PICK k \in ResumeKinds, t \in Task : ResumeConfirm(k, t)
      BY <1>2, <2>1
      DEF Resume, ResumeStep, ReviseResume, HumanResume, ReviseMove, ResumeThrow, ResumeLaunch
    <2>3. resume[k][t].run = r
      BY <1>0, <2>2 DEF ResumeConfirm
    <2> QED BY <2>2, <2>3
  <1>3. ASSUME Tick PROVE FALSE
    <2>1. ASSUME NEW t \in Task, CreateClaimRun(t) PROVE FALSE
      BY <1>i, <2>1 DEF CreateClaimRun
    <2> QED BY <1>3, <2>1 DEF Tick, TickStart, TickEnd, TickSkip
  <1>4. ASSUME Hooks PROVE FALSE
    <2>1. \E q \in RunId, from \in ActiveRunStates \ {"queued"} : \E to : MoveRun(q, from, to)
      BY <1>4
      DEF Hooks, SessionStart, PreToolUse, PostToolUse, StopInBackground, Stop, HookMove,
          ActiveRunStates
    <2> QED BY <1>0, <2>1
  <1>5. ASSUME Poll PROVE FALSE
    BY <1>0, <1>5 DEF Poll, Watchdog, GraceFinish, BudgetPick, ReapRun
  <1>6. ASSUME NEW q \in RunId, StopRun(q) PROVE FALSE
    BY <1>0, <1>6 DEF StopRun
  <1>7. ASSUME Boot PROVE FALSE
    BY <1>0, <1>7 DEF Boot, Restart, BootFailTask, StartTriggers, BootCheck
  <1>8. UNCHANGED vars => FALSE
    BY DEF vars
  <1> QED BY <1>1, <1>2, <1>3, <1>4, <1>5, <1>6, <1>7, <1>8, Frames DEF Next

\* Until the first restart a run the scheduler started has its session, unless the budget
\* sweep has just killed it; and a spawn waits for the confirmation of a launched session.
SessionKept ==
    restarts = 0 =>
        /\ \A r \in RunId \ resumed :
              Started(r) => session[r] = "up" \/ triage["budget"][r] = "reap"
        /\ spawn.pc = "confirm" => session[spawn.run] = "up"

\* A session of a run that a resume did not create is written by the spawn before the run
\* starts, and by the budget after it did.
LEMMA SessionWritten ==
  ASSUME TypeOK, RunInv, [Next]_vars, restarts' = 0, NEW q \in RunId, q \notin resumed,
         session'[q] # session[q]
  PROVE  \/ SpawnLaunch /\ q = spawn.run /\ session'[q] = "up"
         \/ SpawnConfirm /\ q = spawn.run /\ runState[q] \in Unstarted \ {"queued"}
         \/ BudgetPick(q)
  <1>1. ~Restart
    BY RestartWrites
  <1>2. ASSUME NEW k \in ResumeKinds, NEW t \in Task, ResumeLaunch(k, t) \/ ResumeConfirm(k, t)
        PROVE  resume[k][t].run \in resumed
    BY <1>2 DEF ResumeLaunch, ResumeConfirm, RunInv, ResumeHolds
  <1>3. SpawnConfirm => runState[spawn.run] \in Unstarted
    BY DEF SpawnConfirm, RunInv, SpawnHolds
  <1> QED BY <1>1, <1>2, <1>3, SessionWrites

\* The spawn keeps it, and so does everyone else.
LEMMA SessionKeptStep ==
  ASSUME TypeOK, RunInv, SessionKept, [Next]_vars PROVE SessionKept'
  <1> SUFFICES ASSUME restarts' = 0 PROVE SessionKept'
    BY DEF SessionKept
  <1>1. restarts = 0 /\ ~Restart
    BY RestartWrites
  <1>2. ASSUME NEW r \in RunId, r \notin resumed', runState'[r] \in ActiveRunStates \ {"queued"},
               session'[r] # "up"
        PROVE  triage'["budget"][r] = "reap"
    <2>1. CASE runState[r] \in ActiveRunStates \ {"queued"}
      <3>1. runState[r] # "absent" /\ runState[r] \notin Unstarted
        BY <2>1 DEF ActiveRunStates, Unstarted
      <3>2. r \notin resumed
        BY <1>2, <3>1, RunsStay
      <3>3. CASE session[r] = "up"
        <4>1. BudgetPick(r)
          BY <1>2, <3>1, <3>2, <3>3, SessionWritten
        <4> QED BY <4>1 DEF BudgetPick, SetTriage, TypeOK, TriageSources
      <3>4. CASE session[r] # "up"
        <4>1. triage["budget"][r] = "reap" /\ "budget" \in TriageSources
          BY <1>1, <2>1, <3>2, <3>4 DEF SessionKept, Started, TriageSources
        <4>2. ~ReapRun(r)
          <5>1. ReapRun(r) => runState'[r] = "killed"
            BY <2>1 DEF ReapRun, MoveRun, Guarded, Takes, RunEdges, TypeOK
          <5> QED BY <1>2, <5>1 DEF ActiveRunStates
        <4>3. ~TriageStep("budget", r)
          BY <4>1 DEF TriageStep, TriageHuman, TriageRetry, TriageDemote
        <4> QED BY <1>1, <4>1, <4>2, <4>3, TriageWrites
      <3> QED BY <3>3, <3>4
    <2>2. CASE runState[r] = "queued"
      <3>1. r \notin resumed
        BY <1>2, <2>2, RunsStay
      <3>2. SpawnConfirm /\ spawn.run = r
        BY <1>2, <2>2, <3>1, RunStarts DEF ResumeConfirm, RunInv, ResumeHolds
      <3>3. session'[r] = session[r] /\ session[r] = "up"
        BY <1>1, <2>2, <3>2 DEF SpawnConfirm, SessionKept
      <3> QED BY <1>2, <3>3
    <2>3. CASE runState[r] = "absent"
      <3>1. ASSUME NEW u, NEW q \in FreshRuns, InsertRun(u, q) PROVE FALSE
        BY <1>2, <2>3, <3>1 DEF InsertRun, FreshRuns, TypeOK, ActiveRunStates
      <3> QED BY <1>2, <2>3, <3>1, RunWrites, MoveRunEffect DEF ActiveRunStates
    <2>4. CASE runState[r] \in TerminalRunStates
      <3>1. runState[r] # "absent" /\ runState[r] \notin ActiveRunStates
        BY <2>4 DEF TerminalRunStates, ActiveRunStates
      <3> QED BY <1>2, <3>1, RunsStay
    <2> QED BY <2>1, <2>2, <2>3, <2>4 DEF TypeOK, RunStates
  <1>3. ASSUME spawn'.pc = "confirm" PROVE session'[spawn'.run] = "up"
    <2>1. CASE spawn' = spawn
      <3>1. /\ spawn.run \in RunId /\ spawn.run \notin resumed /\ session[spawn.run] = "up"
            /\ runState[spawn.run] \in Unstarted
        BY <1>1, <1>3, <2>1, SpawnNamed DEF SessionKept, RunInv, SpawnHolds
      <3>2. ~SpawnConfirm
        BY <1>3, <2>1, SpawnNamed DEF SpawnConfirm, SpawnIdle
      <3>3. ~BudgetPick(spawn.run)
        BY <3>1 DEF BudgetPick, Started, ActiveRunStates, Unstarted
      <3> QED BY <2>1, <3>1, <3>2, <3>3, SessionWritten
    <2>2. CASE spawn' # spawn
      <3>1. ~\E t \in Task : CreateClaimRun(t)
        BY <1>3 DEF CreateClaimRun
      <3>2. SpawnLaunch
        <4>1. CASE Spawn
          <5>1. ASSUME NEW pc \in SpawnPcs \ {"confirm"}, spawn' = [spawn EXCEPT !.pc = pc], spawn.pc # "idle"
                PROVE FALSE
            BY <1>3, <5>1, SpawnNamed
          <5>2. ASSUME spawn' = SpawnIdle PROVE FALSE
            BY <1>3, <5>2 DEF SpawnIdle
          <5> QED BY <4>1, <5>1, <5>2
              DEF Spawn, ClaimTask, RollbackClaim, SpawnThrow, SpawnConfirm, SpawnRollbackRun,
                  SpawnRollbackTask, SpawnPcs
        <4>2. CASE Tick
          BY <2>2, <3>1, <4>2 DEF Tick, TickStart, TickEnd, TickSkip
        <4>3. CASE Boot
          <5>1. UNCHANGED spawn
            BY <1>1, <4>3 DEF Boot, BootFailTask, StartTriggers, BootCheck
          <5> QED BY <2>2, <5>1
        <4>4. UNCHANGED vars => FALSE
          BY <2>2 DEF vars
        <4> QED BY <2>2, <4>1, <4>2, <4>3, <4>4, Frames DEF Next
      <3>3. spawn.run \in RunId /\ spawn' = [spawn EXCEPT !.pc = "confirm"]
            /\ session' = [session EXCEPT ![spawn.run] = "up"]
        BY <3>2, SpawnNamed DEF SpawnLaunch
      <3>4. spawn'.run = spawn.run
        BY <3>2, <3>3, SpawnNamed DEF SpawnLaunch
      <3> QED BY <3>3, <3>4 DEF TypeOK
    <2> QED BY <2>1, <2>2
  <1> QED BY <1>2, <1>3 DEF SessionKept, Started

----------------------------------------------------------------------------
(* The claim *)

\* A task comes into coding by its claim, a human's resume or a revise verdict.
LEMMA CodingEntered ==
  ASSUME TypeOK, NoApiCoding, [Next]_vars, NEW t \in Task,
         taskState'[t] = "coding", taskState[t] # "coding"
  PROVE  \/ ClaimTask /\ t = spawn.task /\ taskState[t] = "ready"
         \/ HumanResume(t) /\ taskState[t] = "needs_human"
         \/ ReviseMove(t) /\ taskState[t] = "review"
  <1>1. ~ApiTransition(t, "coding")
    BY DEF ApiTransition, NoApiCoding, TypeOK
  <1>2. HumanResume(t) => taskState[t] = "needs_human"
    BY DEF HumanResume
  <1>3. ReviseMove(t) => taskState[t] = "review"
    BY DEF ReviseMove, MoveTask, Guarded, Takes
  <1> QED BY <1>1, <1>2, <1>3, TaskEntered

\* Cancelled is final.
LEMMA CancelledStays ==
  ASSUME TypeOK, [Next]_vars, NEW t \in Task, taskState[t] = "cancelled"
  PROVE  taskState'[t] = "cancelled"
  BY TaskSteps DEF TaskEdges, TaskStates, TerminalTaskStates

\* A ready task is claimed or cancelled, by nobody but the spawn that has it.
LEMMA ReadyStays ==
  ASSUME TypeOK, NoApiCoding, [Next]_vars, NEW t \in Task, taskState[t] \in {"ready", "cancelled"},
         ~(ClaimTask /\ t = spawn.task)
  PROVE  taskState'[t] \in {"ready", "cancelled"}
  <1>1. taskState'[t] # "coding"
    BY CodingEntered
  <1> QED BY <1>1, TaskSteps DEF TaskEdges, TaskStates, TerminalTaskStates

\* A run waits for its claim until the claim is made.
LEMMA ClaimAwaited ==
  ASSUME [Next]_vars, spawn.pc = "claim", ~ClaimTask, ~Restart PROVE UNCHANGED spawn
  <1>1. ~Tick \/ UNCHANGED spawn
    BY DEF Tick, TickStart, TickEnd, TickSkip, CreateClaimRun
  <1>2. ~Spawn
    BY DEF Spawn, RollbackClaim, SpawnLaunch, SpawnThrow, SpawnConfirm, SpawnRollbackRun,
           SpawnRollbackTask
  <1>3. Boot => UNCHANGED spawn
    BY DEF Boot, BootFailTask, StartTriggers, BootCheck
  <1>4. UNCHANGED vars => UNCHANGED spawn
    BY DEF vars
  <1> QED BY <1>1, <1>2, <1>3, <1>4, Frames DEF Next

\* The candidates of a pass and the task about to be claimed are ready, but for those
\* cancelled since.
Claimable ==
    \A t \in Task : t \in tick.todo \/ (spawn.pc = "claim" /\ spawn.task = t) =>
        taskState[t] \in {"ready", "cancelled"}

\* A claim is lost to a cancel and to nothing else.
RollingBack == spawn.pc = "rollback" => taskState[spawn.task] = "cancelled"

\* Until the first restart the latest run of a task, if no resume created it, is the one
\* that signed the task, or is about to.
ClaimRecorded ==
    restarts = 0 => \A t \in Task, r \in RunId :
        LatestRun(t, r) /\ r \notin resumed /\ taskState[t] # "cancelled" =>
            claimedBy[t] = r \/ (spawn.pc = "claim" /\ spawn.run = r)

ClaimInv == Claimable /\ RollingBack /\ ClaimRecorded

\* A pass takes its candidates from the ready tasks, and claims none twice.
LEMMA ClaimableStep ==
  ASSUME TypeOK, RunInv, NoApiCoding, Claimable, [Next]_vars PROVE Claimable'
  <1> SUFFICES ASSUME NEW t \in Task, t \in tick'.todo \/ (spawn'.pc = "claim" /\ spawn'.task = t)
               PROVE  taskState'[t] \in {"ready", "cancelled"}
    BY DEF Claimable
  <1>1. CASE TickStart
    <2>1. spawn' = spawn /\ taskState' = taskState
          /\ tick'.todo = {u \in Task : taskState[u] = "ready"}
      BY <1>1 DEF TickStart, rows
    <2> QED BY <2>1 DEF Claimable
  <1>2. CASE t \in tick.todo
    <2>1. ClaimTask => t # spawn.task
      BY <1>2 DEF ClaimTask, RunInv, SpawnHolds
    <2> QED BY <1>2, <2>1, ReadyStays DEF Claimable
  <1>3. CASE spawn'.pc = "claim" /\ spawn'.task = t
    <2>1. CASE UNCHANGED spawn
      <3>1. ~ClaimTask
        BY <1>3, <2>1, SpawnNamed DEF ClaimTask
      <3> QED BY <1>3, <2>1, <3>1, ReadyStays DEF Claimable
    <2>2. ASSUME NEW u \in Task, CreateClaimRun(u) PROVE t \in tick.todo
      BY <1>3, <2>2 DEF CreateClaimRun
    <2> QED BY <1>2, <1>3, <2>1, <2>2, SpawnWrites DEF SpawnIdle
  <1> QED BY <1>1, <1>2, <1>3, TickWrites

\* So only a cancel comes before the claim.
LEMMA RollingBackStep ==
  ASSUME TypeOK, Claimable, RollingBack, [Next]_vars PROVE RollingBack'
  <1> SUFFICES ASSUME spawn'.pc = "rollback" PROVE taskState'[spawn'.task] = "cancelled"
    BY DEF RollingBack
  <1>1. CASE UNCHANGED spawn
    <2>1. spawn.task \in Task /\ taskState[spawn.task] = "cancelled"
      BY <1>1, SpawnNamed DEF RollingBack
    <2> QED BY <1>1, <2>1, CancelledStays
  <1>2. CASE ClaimTask /\ spawn.pc = "claim" /\ spawn'.task = spawn.task
    <2>1. spawn.task \in Task
      BY <1>2, SpawnNamed
    <2>2. taskState[spawn.task] # "ready"
      <3>1. taskState[spawn.task] = "ready" => spawn' = [spawn EXCEPT !.pc = "launch"]
        BY <1>2 DEF ClaimTask
      <3> QED BY <1>2, <3>1, SpawnNamed
    <2>3. taskState[spawn.task] = "cancelled"
      BY <1>2, <2>1, <2>2 DEF Claimable
    <2> QED BY <1>2, <2>1, <2>3, CancelledStays
  <1> QED BY <1>1, <1>2, SpawnWrites DEF SpawnIdle, CreateClaimRun

\* The claim signs the task with the run it has just created.
LEMMA ClaimRecordedStep ==
  ASSUME TypeOK, RunInv, SpawnNewest, NoApiCoding, Claimable, ClaimRecorded, [Next]_vars
  PROVE  ClaimRecorded'
  <1> SUFFICES ASSUME restarts' = 0, NEW t \in Task, NEW r \in RunId, LatestRun(t, r)',
                      r \notin resumed', taskState'[t] # "cancelled"
               PROVE  claimedBy'[t] = r \/ (spawn'.pc = "claim" /\ spawn'.run = r)
    BY DEF ClaimRecorded
  <1>0. restarts = 0 /\ ~Restart /\ taskState[t] # "cancelled"
    BY RestartWrites, CancelledStays
  <1>1. ASSUME NEW u \in Task, NEW q \in FreshRuns, InsertRun(u, q), u = t PROVE q = r
    <2>1. runTask'[q] = t /\ q \in RunId /\ q <= r
      BY <1>1 DEF InsertRun, FreshRuns, TypeOK, LatestRun
    <2>2. q # r => r < q
      <3>1. q # r => runTask[r] = t
        BY <1>1 DEF InsertRun, FreshRuns, TypeOK, LatestRun
      <3> QED BY <3>1, FreshIsYoungest
    <2> QED BY <2>1, <2>2 DEF RunId
  <1>2. CASE LatestRun(t, r) /\ r \notin resumed
    <2>1. CASE ClaimTask
      <3>1. /\ spawn.pc = "claim" /\ spawn.task \in Task /\ spawn.run \in RunId
            /\ runTask[spawn.run] = spawn.task
        BY <2>1, SpawnNamed DEF ClaimTask, RunInv, SpawnHolds
      <3>2. CASE spawn.task = t
        <4>1. r <= spawn.run /\ spawn.run <= r
          BY <1>2, <3>1, <3>2 DEF SpawnNewest, LatestRun
        <4>2. taskState[t] = "ready"
          BY <1>0, <3>1, <3>2 DEF Claimable
        <4>3. claimedBy'[t] = spawn.run
          BY <2>1, <3>2, <4>2 DEF ClaimTask, TypeOK
        <4> QED BY <3>1, <4>1, <4>3 DEF RunId
      <3>3. CASE spawn.task # t
        <4>1. spawn.run # r
          BY <1>2, <3>1, <3>3 DEF LatestRun
        <4>2. claimedBy'[t] = claimedBy[t]
          BY <2>1, <3>3 DEF ClaimTask, TypeOK
        <4> QED BY <1>0, <1>2, <4>1, <4>2 DEF ClaimRecorded
      <3> QED BY <3>2, <3>3
    <2>2. CASE ~ClaimTask
      BY <1>0, <1>2, <2>2, ClaimWrites, ClaimAwaited DEF ClaimRecorded
    <2> QED BY <2>1, <2>2
  <1>3. CASE UNCHANGED <<runTask, resumed>>
    BY <1>2, <1>3 DEF LatestRun
  <1>4. ASSUME NEW u \in Task, NEW q \in FreshRuns, CanInsertRun(u), InsertRun(u, q), u # t,
               resumed \subseteq resumed'
        PROVE  LatestRun(t, r) /\ r \notin resumed
    <2>1. runTask[q] = None /\ None # t
      BY TaskAssumption DEF FreshRuns, RunInv, RunRows, None
    <2>2. \A p \in RunId : (runTask'[p] = t) <=> (runTask[p] = t)
      BY <1>4, <2>1 DEF InsertRun, TypeOK, FreshRuns
    <2> QED BY <1>4, <2>2 DEF LatestRun
  <1> QED BY <1>1, <1>2, <1>3, <1>4, RunWrites

\* Whoever holds a latest run holds the claim of its task.
LEMMA ClaimsInStep == NoApiCoding /\ Spec => []ClaimInv
  <1>1. Init => ClaimInv
    BY TaskAssumption
    DEF Init, NothingInFlight, TickOff, SpawnIdle, ClaimInv, Claimable, RollingBack, ClaimRecorded,
        LatestRun, None
  <1> SUFFICES ASSUME NoApiCoding PROVE Spec => []ClaimInv
    OBVIOUS
  <1>2. TypeOK /\ RunInv /\ LatestInv /\ ClaimInv /\ [Next]_vars => ClaimInv'
    BY ClaimableStep, RollingBackStep, ClaimRecordedStep DEF ClaimInv, LatestInv
  <1> QED BY <1>1, <1>2, TypeCorrect, RunsInStep, LatestHolds, PTL DEF Spec

\* The first life's invariants hold of every behaviour.
LEMMA FirstLifeHolds == Spec => [](FirstLife /\ SessionKept)
  <1>1. Init => FirstLife /\ SessionKept
    BY DEF Init, NothingInFlight, SpawnIdle, CompletionIdle, CompletionSources, Started,
           ActiveRunStates, FirstLife, SessionKept
  <1>2. TypeOK /\ RunInv /\ FirstLife /\ SessionKept /\ [Next]_vars => (FirstLife /\ SessionKept)'
    BY FirstLifeStep, SessionKeptStep
  <1> QED BY <1>1, <1>2, TypeCorrect, RunsInStep, PTL DEF Spec

----------------------------------------------------------------------------
(* Who takes a coding task further *)

\* The completion trigger has the run, in its buffer or in a call.
CompletionHas(r) ==
    Posted("completion", r) \/ (completion["tail"].pc # "idle" /\ completion["tail"].run = r)

\* Triage has it: in the scheduler's buffer, in a call, or on its way from the budget sweep.
InTriage(r) == \E s \in TriageSources : triage[s][r] \in {"retry", "human"}
Reaped(r) == triage["budget"][r] \in {"reap", "due"}
TriageHas(r) == Posted("scheduler", r) \/ InTriage(r) \/ Reaped(r)

\* The spawn that claimed the task has it.
SpawnHas(r) == spawn.run = r /\ spawn.pc \in {"launch", "confirm", "fail", "failtask"}

\* A run is at work, or its end is somebody's business: all but the end of a run that
\* succeeded and whose completion threw, and of one that the operator stopped.
TakenFurther(r) ==
    \/ runState[r] \in ActiveRunStates
    \/ runState[r] = "succeeded" /\ ("forge" \in Faults \/ CompletionHas(r))
    \/ runState[r] = "failed" /\ TriageHas(r)
    \/ /\ runState[r] = "killed"
       /\ \/ "stop" \in Faults /\ session[r] = "up"
          \/ TriageHas(r)
          \/ SpawnHas(r)

\* All that is known of the loop's calls.
LoopInv ==
    TypeOK /\ RunInv /\ NoQueuedZombie /\ LatestInv /\ ClaimInv /\ FirstLife /\ SessionKept

\* A step, not a restart, that finds t coding and leaves it so.
Coding(t) == [Next]_vars /\ ~Restart /\ taskState[t] = "coding" /\ taskState'[t] = "coding"

\* The call about a run that still pins its task to coding moves it on.
LEMMA PinnedMoves ==
  ASSUME TypeOK, NEW t \in Task, taskState[t] = "coding",
         NEW to, <<"coding", to>> \in TaskEdges, MoveTask(t, "coding", to)
  PROVE  taskState'[t] # "coding"
  <1>1. to # "coding"
    BY DEF TaskEdges, TaskStates, TerminalTaskStates
  <1> QED BY <1>1 DEF MoveTask, Guarded, Takes, TypeOK

\* A completion keeps its run until its task has left coding.
LEMMA CallKeeps ==
  ASSUME TypeOK, NEW t \in Task, Coding(t), NEW s \in CompletionSources,
         completion[s].pc # "idle", runTask[completion[s].run] = t
  PROVE  completion'[s] = completion[s]
  <1>0. [Next]_vars /\ ~Restart
    BY DEF Coding
  <1>. completion = [i \in CompletionSources |-> completion[i]]
    BY DEF TypeOK
  <1>1. completion[s].pc \in {"park", "handoff"}
    BY DEF TypeOK, CompletionCalls, CompletionIdle
  <1>2. ~CompletionPark(s) /\ ~CompletionHandoff(s)
    <2>1. <<"coding", "needs_human">> \in TaskEdges /\ <<"coding", "review">> \in TaskEdges
      BY DEF TaskEdges
    <2> QED BY <2>1, PinnedMoves DEF Coding, CompletionPark, CompletionHandoff, CompletionMove
  <1>3. CASE Completion
    <2>1. ASSUME NEW i \in CompletionSources, NEW r, CompleteRun(i, r)
          PROVE  completion'[s] = completion[s]
      <3>1. PICK outcome \in CompletionOutcomes :
              completion' = [completion EXCEPT ![i] =
                IF outcome = "throw" THEN CompletionIdle ELSE [pc |-> outcome, run |-> r]]
        BY <2>1 DEF CompleteRun
      <3>2. i # s
        BY <2>1 DEF CompleteRun
      <3> QED BY <3>1, <3>2
    <2>2. ASSUME NEW i \in CompletionSources, CompletionPark(i) \/ CompletionHandoff(i)
          PROVE  completion'[s] = completion[s]
      <3>1. completion' = [completion EXCEPT ![i] = CompletionIdle]
        BY <2>2 DEF CompletionPark, CompletionHandoff, CompletionMove
      <3>2. i # s
        BY <1>2, <2>2
      <3> QED BY <3>1, <3>2
    <2> QED BY <1>3, <2>1, <2>2 DEF Completion, CompleteFromEvent, CompleteAtBoot, CompletionSources
  <1>4. CASE ~Completion
    <2>1. Boot => UNCHANGED completion
      BY <1>0 DEF Boot, BootFailTask, StartTriggers, BootCheck
    <2>2. UNCHANGED vars => UNCHANGED completion
      BY DEF vars
    <2> QED BY <1>0, <1>4, <2>1, <2>2, Frames DEF Next
  <1> QED BY <1>3, <1>4

\* The completion trigger keeps its run until its task has left coding, or throws.
LEMMA CompletionKeeps ==
  ASSUME TypeOK, NEW t \in Task, Coding(t), NEW r \in RunId, runTask[r] = t, CompletionHas(r),
         "forge" \notin Faults
  PROVE  CompletionHas(r)'
  <1>0. [Next]_vars /\ ~Restart /\ "tail" \in CompletionSources /\ "completion" \in Readers
    BY DEF Coding, CompletionSources, Readers
  <1>1. CASE Posted("completion", r)
    <2>1. ASSUME CompleteFromEvent, r = Head(inbox["completion"]) PROVE CompletionHas(r)'
      <3>1. PICK outcome \in CompletionOutcomes :
              completion' = [completion EXCEPT !["tail"] =
                IF outcome = "throw" THEN CompletionIdle ELSE [pc |-> outcome, run |-> r]]
        BY <2>1 DEF CompleteFromEvent, CompleteRun
      <3>2. outcome \in {"park", "handoff"}
        BY DEF CompletionOutcomes
      <3>3. completion'["tail"] = [pc |-> outcome, run |-> r]
        BY <1>0, <3>1, <3>2 DEF TypeOK
      <3> QED BY <3>2, <3>3 DEF CompletionHas
    <2> QED BY <1>0, <1>1, <2>1, PostedStays DEF CompletionHas
  <1>2. CASE completion["tail"].pc # "idle" /\ completion["tail"].run = r
    <2>1. completion'["tail"] = completion["tail"]
      BY <1>0, <1>2, CallKeeps
    <2> QED BY <1>2, <2>1 DEF CompletionHas
  <1> QED BY <1>1, <1>2 DEF CompletionHas

\* Triage finds the run that signed its coding task, and decides.
LEMMA TriageDecides ==
  ASSUME TypeOK, NEW t \in Task, Coding(t), NEW r \in RunId, runTask[r] = t, claimedBy[t] = r,
         runState[r] \in {"failed", "killed"}, NEW s \in TriageSources, TriageRead(s, r)
  PROVE  InTriage(r)'
  <1>1. TriageApplies(r)
    BY DEF TriageApplies, Coding
  <1>2. \E pc \in {"retry", "human"} : SetTriage(s, r, pc)
    BY <1>1, DecisionsType DEF TriageRead
  <1>3. triage'[s][r] \in {"retry", "human"}
    BY <1>2 DEF SetTriage, TypeOK
  <1> QED BY <1>3 DEF InTriage

\* Triage keeps a failed or reaped run until its task has left coding.
LEMMA TriageKeeps ==
  ASSUME TypeOK, NEW t \in Task, Coding(t), NEW r \in RunId, runTask[r] = t, claimedBy[t] = r,
         runState[r] \in {"failed", "killed"}, TriageHas(r)
  PROVE  TriageHas(r)'
  <1>0. /\ [Next]_vars /\ ~Restart
        /\ "scheduler" \in Readers /\ "hook" \in TriageSources /\ "budget" \in TriageSources
    BY DEF Coding, Readers, TriageSources
  <1>1. CASE Posted("scheduler", r)
    <2>1. ASSUME HookTriage, r = Head(inbox["scheduler"]) PROVE InTriage(r)'
      BY <1>0, <2>1, TriageDecides DEF HookTriage
    <2> QED BY <1>0, <1>1, <2>1, PostedStays DEF TriageHas
  <1>2. ASSUME NEW s \in TriageSources, triage[s][r] \in {"retry", "human"} PROVE InTriage(r)'
    <2>1. ~TriageStep(s, r)
      <3>1. /\ <<"coding", "needs_human">> \in TaskEdges /\ <<"coding", "failed">> \in TaskEdges
            /\ taskState[t] = "coding" /\ taskState'[t] = "coding"
        BY DEF TaskEdges, Coding
      <3>2. ~TriageHuman(s, r) /\ ~TriageRetry(s, r)
        BY <1>0, <3>1, PinnedMoves DEF TriageHuman, TriageRetry
      <3> QED BY <1>2, <3>2 DEF TriageStep, TriageDemote
    <2>2. triage'[s][r] = triage[s][r]
      BY <1>0, <1>2, <2>1, TriageWrites
    <2> QED BY <1>2, <2>2 DEF InTriage
  <1>3. CASE Reaped(r)
    <2>1. BudgetTriage(r) => InTriage(r)'
      BY <1>0, TriageDecides DEF BudgetTriage
    <2>2. ~TriageStep("budget", r)
      BY <1>3 DEF Reaped, TriageStep, TriageHuman, TriageRetry, TriageDemote
    <2>3. Reaped(r)' \/ InTriage(r)'
      BY <1>0, <1>3, <2>1, <2>2, TriageWrites DEF Reaped
    <2> QED BY <2>3 DEF TriageHas
  <1> QED BY <1>1, <1>2, <1>3 DEF TriageHas, InTriage

\* How a spawn ends.
LEMMA SpawnEnds ==
  ASSUME TypeOK, [Next]_vars, spawn.pc # "idle", spawn'.pc = "idle"
  PROVE  \/ RollbackClaim
         \/ SpawnConfirm /\ runState[spawn.run] = "queued"
         \/ SpawnRollbackTask
         \/ Restart
  <1>1. spawn' # spawn
    OBVIOUS
  <1>2. ASSUME NEW pc \in SpawnPcs \ {"idle"}, spawn' = [spawn EXCEPT !.pc = pc] PROVE FALSE
    BY <1>2, SpawnNamed
  <1>3. ~Tick
    BY <1>1 DEF Tick, TickStart, TickEnd, TickSkip, CreateClaimRun
  <1>4. Boot => Restart
    BY <1>1 DEF Boot, BootFailTask, StartTriggers, BootCheck
  <1>5. UNCHANGED vars => spawn' = spawn
    BY DEF vars
  <1>6. ~ClaimTask /\ ~SpawnLaunch /\ ~SpawnThrow /\ ~SpawnRollbackRun
    BY <1>2 DEF ClaimTask, SpawnLaunch, SpawnThrow, SpawnRollbackRun, SpawnPcs
  <1>7. SpawnConfirm => runState[spawn.run] = "queued"
    BY <1>2 DEF SpawnConfirm, SpawnPcs
  <1> QED BY <1>1, <1>3, <1>4, <1>5, <1>6, <1>7, Frames DEF Next, Spawn

\* The spawn keeps a killed run until its task has left coding.
LEMMA SpawnKeeps ==
  ASSUME LoopInv, NEW t \in Task, Coding(t), NEW r \in RunId, runTask[r] = t,
         runState[r] = "killed", SpawnHas(r)
  PROVE  SpawnHas(r)'
  <1>0. /\ TypeOK /\ [Next]_vars /\ ~Restart /\ spawn.pc # "idle"
        /\ spawn.task = t /\ taskState[t] = "coding" /\ taskState'[t] = "coding"
    BY DEF Coding, LoopInv, RunInv, SpawnHolds, SpawnHas
  <1>1. spawn'.pc # "idle"
    <2>1. ~SpawnRollbackTask
      <3>1. <<"coding", "failed">> \in TaskEdges
        BY DEF TaskEdges
      <3> QED BY <1>0, <3>1, PinnedMoves DEF SpawnRollbackTask
    <2>2. ~RollbackClaim
      BY DEF RollbackClaim, SpawnHas
    <2> QED BY <1>0, <2>1, <2>2, SpawnEnds DEF SpawnHas
  <1>2. spawn' = SpawnIdle => spawn'.pc = "idle"
    BY DEF SpawnIdle
  <1>3. ~ClaimTask /\ \A u \in Task : ~CreateClaimRun(u)
    BY DEF ClaimTask, CreateClaimRun, SpawnHas
  <1> QED BY <1>0, <1>1, <1>2, <1>3, SpawnWrites DEF SpawnHas

\* The session of a killed run lives on, unless its own spawn takes it down.
LEMMA SessionKeeps ==
  ASSUME LoopInv, [Next]_vars, restarts' = 0, NEW r \in RunId, r \notin resumed,
         runState[r] = "killed", session[r] = "up"
  PROVE  session'[r] = "up" \/ SpawnHas(r)'
  <1>1. TypeOK /\ RunInv
    BY DEF LoopInv
  <1>2. ~BudgetPick(r)
    BY DEF BudgetPick, Started, ActiveRunStates
  <1>3. ASSUME SpawnConfirm, r = spawn.run PROVE SpawnHas(r)'
    <2>1. spawn.pc # "idle" /\ spawn' = [spawn EXCEPT !.pc = "fail"]
      BY <1>3 DEF SpawnConfirm
    <2>2. spawn'.pc = "fail" /\ spawn'.run = spawn.run
      BY <1>1, <2>1, SpawnNamed
    <2> QED BY <1>3, <2>2 DEF SpawnHas
  <1> QED BY <1>1, <1>2, <1>3, SessionWritten

\* A report is in the buffer of its reader.
LEMMA PostArrives ==
  ASSUME TypeOK, NEW i \in Readers, NEW r \in RunId, Post(i, r) PROVE Posted(i, r)'
  <1>1. inbox[i] \in Seq(RunId) /\ inbox'[i] = Append(inbox[i], r)
    BY DEF Post, TypeOK
  <1>2. Len(inbox[i]) + 1 \in DOMAIN inbox'[i] /\ inbox'[i][Len(inbox[i]) + 1] = r
    BY <1>1
  <1> QED BY <1>2 DEF Posted

\* The end of a coding task's latest run is somebody's business.
LEMMA EndIsTaken ==
  ASSUME LoopInv, NEW t \in Task, Coding(t), restarts' = 0, NEW r \in RunId, LatestRun(t, r),
         r \notin resumed, runState[r] \in ActiveRunStates, runState'[r] \notin ActiveRunStates
  PROVE  TakenFurther(r)'
  <1>0. /\ TypeOK /\ [Next]_vars /\ runTask[r] = t /\ taskState[t] = "coding"
        /\ restarts = 0 /\ "scheduler" \in Readers /\ "completion" \in Readers
        /\ "budget" \in TriageSources
    BY RestartWrites DEF Coding, LoopInv, LatestRun, Readers, TriageSources
  <1>1. ASSUME NEW i \in Readers, Post(i, r) PROVE Posted(i, r)'
    BY <1>0, <1>1, PostArrives
  <1>2. CASE Watchdog(r, "failed") /\ runState'[r] = "failed"
    <2>1. Post("scheduler", r)
      BY <1>2 DEF Watchdog
    <2>2. Posted("scheduler", r)'
      BY <1>0, <1>1, <2>1
    <2> QED BY <1>2, <2>2 DEF TakenFurther, TriageHas
  <1>3. CASE (Watchdog(r, "succeeded") \/ GraceFinish(r)) /\ runState'[r] = "succeeded"
    <2>1. Post("completion", r)
      BY <1>3 DEF Watchdog, GraceFinish
    <2>2. Posted("completion", r)'
      BY <1>0, <1>1, <2>1
    <2> QED BY <1>3, <2>2 DEF TakenFurther, CompletionHas
  <1>4. CASE RollbackClaim /\ spawn.run = r
    <2>1. spawn.task = t /\ taskState[spawn.task] = "cancelled"
      BY <1>0, <1>4 DEF RollbackClaim, LoopInv, ClaimInv, RollingBack, RunInv, SpawnHolds
    <2> QED BY <1>0, <2>1
  <1>5. CASE SpawnRollbackRun /\ spawn.run = r /\ runState'[r] = "killed"
    <2>1. spawn.pc # "idle" /\ spawn' = [spawn EXCEPT !.pc = "failtask"]
      BY <1>5 DEF SpawnRollbackRun
    <2>2. spawn'.pc = "failtask" /\ spawn'.run = r
      BY <1>0, <1>5, <2>1, SpawnNamed
    <2> QED BY <1>5, <2>2 DEF TakenFurther, SpawnHas
  <1>6. CASE ReapRun(r) /\ runState'[r] = "killed"
    <2>1. triage'["budget"][r] = "due"
      BY <1>0, <1>6 DEF ReapRun, SetTriage, TypeOK
    <2> QED BY <1>6, <2>1 DEF TakenFurther, TriageHas, Reaped
  <1>7. CASE StopRun(r) /\ runState'[r] = "killed"
    <2>1. "stop" \in Faults /\ UNCHANGED <<session, triage, spawn>>
      BY <1>7 DEF StopRun, runRows
    <2>2. CASE Started(r)
      <3>1. session[r] = "up" \/ triage["budget"][r] = "reap"
        BY <1>0, <2>2 DEF LoopInv, SessionKept
      <3> QED BY <1>7, <2>1, <3>1 DEF TakenFurther, TriageHas, Reaped
    <2>3. CASE runState[r] = "queued"
      <3>1. spawn.run = r /\ spawn.pc \in SpawnPcs \ {"idle", "failtask"}
        BY <1>0, <2>3 DEF LoopInv, NoQueuedZombie
      <3>2. spawn.task = t
        BY <1>0, <3>1 DEF LoopInv, RunInv, SpawnHolds
      <3>3. spawn.pc \notin {"claim", "rollback"}
        BY <1>0, <3>2 DEF LoopInv, ClaimInv, Claimable, RollingBack
      <3>4. SpawnHas(r)'
        BY <2>1, <3>1, <3>3 DEF SpawnHas, SpawnPcs
      <3> QED BY <1>7, <3>4 DEF TakenFurther
    <2> QED BY <2>2, <2>3 DEF Started
  <1>8. ~BootCheck(r)
    BY <1>0 DEF BootCheck, LoopInv, FirstLife
  <1> QED BY <1>0, <1>2, <1>3, <1>4, <1>5, <1>6, <1>7, <1>8, RunEnds

\* What is taken further stays so until the task has left coding.
LEMMA TakenStays ==
  ASSUME LoopInv, NEW t \in Task, Coding(t), restarts' = 0, NEW r \in RunId, LatestRun(t, r),
         r \notin resumed, TakenFurther(r)
  PROVE  TakenFurther(r)'
  <1>0. TypeOK /\ [Next]_vars /\ runTask[r] = t
    BY DEF Coding, LoopInv, LatestRun
  <1>c. claimedBy[t] = r
    <2>1. restarts = 0 /\ taskState[t] = "coding"
      BY <1>0, RestartWrites DEF Coding
    <2>2. ~(spawn.pc = "claim" /\ spawn.run = r)
      BY <1>0, <2>1 DEF LoopInv, ClaimInv, Claimable, RunInv, SpawnHolds
    <2> QED BY <2>1, <2>2 DEF LoopInv, ClaimInv, ClaimRecorded
  <1>1. CASE runState[r] \in ActiveRunStates
    BY <1>1, EndIsTaken DEF TakenFurther
  <1>2. CASE runState[r] \in TerminalRunStates
    <2>1. runState[r] \notin ActiveRunStates /\ runState[r] # "absent"
      BY <1>2 DEF ActiveRunStates, TerminalRunStates
    <2>2. runState'[r] = runState[r]
      BY <1>0, <1>2, <2>1, RunsStay
    <2>3. CASE runState[r] = "succeeded" /\ ("forge" \in Faults \/ CompletionHas(r))
      BY <1>0, <2>2, <2>3, CompletionKeeps DEF TakenFurther
    <2>4. CASE runState[r] \in {"failed", "killed"} /\ TriageHas(r)
      BY <1>0, <1>c, <2>2, <2>4, TriageKeeps DEF TakenFurther
    <2>5. CASE runState[r] = "killed" /\ SpawnHas(r)
      BY <1>0, <2>2, <2>5, SpawnKeeps DEF TakenFurther
    <2>6. CASE runState[r] = "killed" /\ "stop" \in Faults /\ session[r] = "up"
      BY <1>0, <2>2, <2>6, SessionKeeps DEF TakenFurther
    <2> QED BY <2>1, <2>3, <2>4, <2>5, <2>6 DEF TakenFurther
  <1> QED BY <1>1, <1>2 DEF TakenFurther, TerminalRunStates

\* A human's resume that is about to look for a session finds one or throws.
LEMMA CreateAwaited ==
  ASSUME TypeOK, [Next]_vars, ~Restart, NEW k \in ResumeKinds, NEW t \in Task,
         resume[k][t].pc = "create"
  PROVE  resume'[k][t] = resume[k][t] \/ ResumeCreate(k, t) \/ ResumeThrow(k, t)
  <1>1. CASE Resume
    <2>1. ASSUME NEW j \in ResumeKinds, NEW u \in Task, NEW pc, NEW q, AwaitResume(j, u, pc, q)
          PROVE  resume'[k][t] = resume[k][t] \/ (j = k /\ u = t)
      BY <2>1 DEF AwaitResume, TypeOK
    <2>2. ASSUME NEW u \in Task, ReviseResume(u) \/ HumanResume(u) \/ ReviseMove(u)
          PROVE  resume'[k][t] = resume[k][t]
      <3>1. \E j \in ResumeKinds : \E pc, q : /\ AwaitResume(j, u, pc, q)
                                              /\ resume[j][u].pc # "create"
        BY <2>2 DEF ReviseResume, HumanResume, ReviseMove, ResumeKinds
      <3> QED BY <2>1, <3>1
    <2>3. ASSUME NEW j \in ResumeKinds, NEW u \in Task, ResumeStep(j, u), ~(j = k /\ u = t)
          PROVE  resume'[k][t] = resume[k][t]
      <3>1. \E pc, q : AwaitResume(j, u, pc, q)
        BY <2>3 DEF ResumeStep, ResumeCreate, ResumeThrow, ResumeLaunch, ResumeConfirm
      <3> QED BY <2>1, <2>3, <3>1
    <2>4. ~ResumeLaunch(k, t) /\ ~ResumeConfirm(k, t)
      BY DEF ResumeLaunch, ResumeConfirm
    <2> QED BY <1>1, <2>2, <2>3, <2>4 DEF Resume, ResumeStep
  <1>2. CASE ~Resume
    <2>1. Boot => UNCHANGED resume
      BY DEF Boot, BootFailTask, StartTriggers, BootCheck
    <2>2. UNCHANGED vars => UNCHANGED resume
      BY DEF vars
    <2>3. UNCHANGED resume
      BY <1>2, <2>1, <2>2, Frames DEF Next
    <2> QED BY <2>3
  <1> QED BY <1>1, <1>2

\* A coding task is taken further by its latest run or by the human who resumes it, until a
\* coder of it was resumed or a human resumed a task that has no session.
TaskCovered(t) ==
    \/ Resumed(t)
    \/ \E r \in RunId : LatestRun(t, r) /\ TakenFurther(r)
    \/ resume["human"][t].pc = "create"
    \/ resumes > 0 /\ ~HasAgentId(t)

CodingCovered == restarts = 0 => \A t \in Task : taskState[t] = "coding" => TaskCovered(t)

\* A task that stays coding without a resume gets no other run.
LEMMA LatestKept ==
  ASSUME LoopInv, NEW t \in Task, Coding(t), ~Resumed(t)', NEW r \in RunId
  PROVE  LatestRun(t, r)' <=> LatestRun(t, r)
  <1>1. TypeOK /\ RunInv /\ [Next]_vars
    BY DEF LoopInv, Coding
  <1>2. ~CreateClaimRun(t)
    BY DEF CreateClaimRun, Coding, LoopInv, ClaimInv, Claimable
  <1>3. \A q \in RunId : (runTask'[q] = t) <=> (runTask[q] = t)
    BY <1>1, <1>2, LatestStays
  <1> QED BY <1>3 DEF LatestRun

\* What covers a task that stays coding still does after the step.
LEMMA CoverStays ==
  ASSUME LoopInv, NEW t \in Task, Coding(t), restarts' = 0, TaskCovered(t) PROVE TaskCovered(t)'
  <1> SUFFICES ASSUME ~Resumed(t)' PROVE TaskCovered(t)'
    BY DEF TaskCovered
  <1>0. /\ TypeOK /\ RunInv /\ [Next]_vars /\ ~Restart /\ restarts = 0
        /\ "human" \in ResumeKinds
    BY RestartWrites DEF Coding, LoopInv, ResumeKinds
  <1>1. ~Resumed(t)
    BY <1>0, ResumedStays
  <1>2. ASSUME NEW r \in RunId, LatestRun(t, r), TakenFurther(r) PROVE TaskCovered(t)'
    <2>1. r \notin resumed
      BY <1>1, <1>2 DEF Resumed, LatestRun
    <2>2. TakenFurther(r)' /\ LatestRun(t, r)'
      BY <1>2, <2>1, TakenStays, LatestKept
    <2> QED BY <2>2 DEF TaskCovered
  <1>3. resumes \in Nat /\ resumes' \in {resumes, resumes + 1}
    BY <1>0, ResumeWrites DEF TypeOK
  <1>4. ASSUME resumes > 0, ~HasAgentId(t) PROVE TaskCovered(t)'
    <2>1. CASE agentId' = agentId
      <3>1. ASSUME NEW r \in agentId PROVE runTask'[r] = runTask[r]
        <4>1. r \in RunId /\ runState[r] # "absent"
          BY <1>0, <3>1 DEF TypeOK, RunInv, RunRows
        <4> QED BY <1>0, <4>1, RunsStay
      <3>2. ~HasAgentId(t)'
        BY <1>4, <2>1, <3>1 DEF HasAgentId
      <3> QED BY <1>3, <1>4, <3>2 DEF TaskCovered
    <2>2. CASE agentId' # agentId
      <3>1. PICK r \in RunId : SessionStart(r)
        BY <1>0, <2>2, AgentWrites
      <3>2. /\ agentId' = agentId \cup {r} /\ runTask' = runTask /\ resumed' = resumed
            /\ runState[r] = "starting" /\ runState'[r] = "running"
        BY <1>0, <3>1 DEF SessionStart, HookMove, MoveRun, Guarded, Takes, RunEdges, TypeOK
      <3>3. CASE runTask[r] = t
        <4>1. LatestRun(t, r)
          BY <3>2, <3>3 DEF LoopInv, LatestInv, ActiveIsLatest, ActiveRunStates
        <4>2. LatestRun(t, r)' /\ TakenFurther(r)'
          BY <3>2, <4>1, LatestKept DEF TakenFurther, ActiveRunStates
        <4> QED BY <4>2 DEF TaskCovered
      <3>4. CASE runTask[r] # t
        <4>1. ~HasAgentId(t)'
          BY <1>4, <3>2, <3>4 DEF HasAgentId
        <4> QED BY <1>3, <1>4, <4>1 DEF TaskCovered
      <3> QED BY <3>3, <3>4
    <2> QED BY <2>1, <2>2
  <1>5. ASSUME resume["human"][t].pc = "create" PROVE TaskCovered(t)'
    <2>1. ~ResumeCreate("human", t)
      <3>1. ASSUME NEW r \in FreshRuns, InsertRun(t, r), resumed' = resumed \cup {r} PROVE FALSE
        BY <1>0, <3>1 DEF InsertRun, FreshRuns, Resumed, TypeOK
      <3> QED BY <3>1 DEF ResumeCreate
    <2>2. CASE ResumeThrow("human", t)
      <3>1. /\ ~(HasAgentId(t) /\ CanInsertRun(t)) /\ UNCHANGED <<runTask, runState, agentId, resumes>>
        BY <1>5, <2>2 DEF ResumeThrow, runRows, counters
      <3>2. resumes > 0
        BY <1>0, <1>3, <1>5 DEF LoopInv, LatestInv, ResumesKnown
      <3>3. CASE ~HasAgentId(t)
        BY <3>1, <3>2, <3>3 DEF TaskCovered, HasAgentId
      <3>4. CASE ~CanInsertRun(t)
        <4>1. PICK r \in RunId : runTask[r] = t /\ runState[r] \in ActiveRunStates
          BY <3>4 DEF CanInsertRun, ActiveRuns
        <4>2. LatestRun(t, r) /\ TakenFurther(r)
          BY <4>1 DEF LoopInv, LatestInv, ActiveIsLatest, TakenFurther
        <4> QED BY <1>2, <4>2
      <3> QED BY <3>1, <3>3, <3>4
    <2> QED BY <1>0, <1>5, <2>1, <2>2, CreateAwaited DEF TaskCovered
  <1> QED BY <1>1, <1>2, <1>4, <1>5 DEF TaskCovered

\* Whoever takes a task into coding covers it.
LEMMA CoverBegins ==
  ASSUME LoopInv, NoApiCoding, [Next]_vars, restarts' = 0, NEW t \in Task,
         taskState[t] # "coding", taskState'[t] = "coding"
  PROVE  TaskCovered(t)'
  <1> SUFFICES ASSUME ~Resumed(t)' PROVE TaskCovered(t)'
    BY DEF TaskCovered
  <1>0. TypeOK /\ RunInv /\ "human" \in ResumeKinds /\ "review" \in ResumeKinds /\ restarts = 0
    BY RestartWrites DEF LoopInv, ResumeKinds
  <1>1. ~Resumed(t)
    BY <1>0, ResumedStays
  <1>2. CASE ClaimTask /\ t = spawn.task /\ taskState[t] = "ready"
    <2> DEFINE r == spawn.run
    <2>1. /\ spawn.pc # "idle" /\ r \in RunId /\ runTask[r] = t
          /\ runState[r] \in {"queued", "killed"}
      BY <1>0, <1>2, SpawnNamed
      DEF ClaimTask, RunInv, SpawnHolds, Unstarted, LoopInv, FirstLife
    <2>2. UNCHANGED <<runTask, runState, resumed>> /\ spawn' = [spawn EXCEPT !.pc = "launch"]
      BY <1>2 DEF ClaimTask, runRows
    <2>3. spawn'.pc = "launch" /\ spawn'.run = r
      BY <1>0, <2>1, <2>2, SpawnNamed
    <2>4. \A q \in RunId : runTask[q] = t => q <= r
      BY <1>1, <1>2, <2>1 DEF Resumed, LoopInv, LatestInv, SpawnNewest
    <2>5. LatestRun(t, r)'
      BY <2>1, <2>2, <2>3, <2>4 DEF LatestRun
    <2>6. TakenFurther(r)'
      BY <2>1, <2>2, <2>3 DEF TakenFurther, SpawnHas, ActiveRunStates
    <2> QED BY <2>1, <2>3, <2>5, <2>6 DEF TaskCovered
  <1>3. CASE HumanResume(t)
    BY <1>0, <1>3 DEF HumanResume, AwaitResume, TaskCovered, TypeOK
  <1>4. CASE ReviseMove(t)
    BY <1>0, <1>1, <1>4 DEF ReviseMove, LoopInv, LatestInv, ResumesKnown
  <1> QED BY <1>0, <1>2, <1>3, <1>4, CodingEntered

\* Nobody drops a coding task.
LEMMA CoveredStep == ASSUME LoopInv, NoApiCoding, CodingCovered, [Next]_vars PROVE CodingCovered'
  <1> SUFFICES ASSUME restarts' = 0, NEW t \in Task, taskState'[t] = "coding"
               PROVE  TaskCovered(t)'
    BY DEF CodingCovered
  <1>1. restarts = 0
    BY RestartWrites DEF LoopInv
  <1> QED BY <1>1, RestartWrites, CoverStays, CoverBegins DEF CodingCovered, Coding, LoopInv

\* A coding task is covered until the first restart.
LEMMA CodingIsCovered == NoApiCoding /\ Spec => [](LoopInv /\ CodingCovered)
  <1> SUFFICES ASSUME NoApiCoding PROVE Spec => [](LoopInv /\ CodingCovered)
    OBVIOUS
  <1>1. Spec => []LoopInv
    <2>1. TypeOK /\ RunInv /\ NoQueuedZombie /\ LatestInv /\ ClaimInv /\ (FirstLife /\ SessionKept)
            <=> LoopInv
      BY DEF LoopInv
    <2>2. Spec => []ClaimInv
      BY ClaimsInStep
    <2> QED BY <2>1, <2>2, TypeCorrect, RunsInStep, QueuedRunsAreOwned, LatestHolds, FirstLifeHolds, PTL
  <1>2. Init => CodingCovered
    BY DEF Init, CodingCovered
  <1>3. LoopInv /\ CodingCovered /\ [Next]_vars => CodingCovered'
    BY CoveredStep
  <1> QED BY <1>1, <1>2, <1>3, PTL DEF Spec

\* Who covers a task by its run attends to it.
LEMMA TakenIsAttended ==
  ASSUME LoopInv, NEW t \in Task, NEW r \in RunId, LatestRun(t, r),
         CompletionHas(r) \/ TriageHas(r) \/ SpawnHas(r)
  PROVE  Attended(t)
  <1>1. /\ r \in {q \in RunId : runTask[q] = t}
        /\ "completion" \in Readers /\ "scheduler" \in Readers
        /\ "tail" \in CompletionSources /\ "budget" \in TriageSources
    BY DEF LatestRun, Readers, CompletionSources, TriageSources
  <1>2. CASE CompletionHas(r)
    BY <1>1, <1>2 DEF CompletionHas, Posted, Attended
  <1>3. CASE TriageHas(r)
    <2>1. Posted("scheduler", r) \/ \E s \in TriageSources : triage[s][r] # "idle"
      BY <1>1, <1>3 DEF TriageHas, InTriage, Reaped
    <2> QED BY <1>1, <2>1 DEF Posted, Attended
  <1>4. CASE SpawnHas(r)
    <2>1. spawn.pc # "idle" /\ spawn.task = t
      BY <1>1, <1>4 DEF SpawnHas, LoopInv, RunInv, SpawnHolds
    <2> QED BY <2>1 DEF Attended
  <1> QED BY <1>2, <1>3, <1>4

\* StrandedIsExplained, for boards whose operators take no task into coding themselves:
\* without a restart a coding task that nobody takes further has one of the four causes, and
\* no failed spawn, reaped agent, lost claim or late triage is one.
THEOREM StrandedHasACause == NoApiCoding /\ Spec => []StrandedIsExplained
  <1> SUFFICES ASSUME NoApiCoding PROVE Spec => []StrandedIsExplained
    OBVIOUS
  <1>1. ASSUME LoopInv, CodingCovered PROVE StrandedIsExplained
    <2> SUFFICES ASSUME restarts = 0, NEW t \in Task, Stranded(t), ~Resumed(t),
                        ~(resumes > 0 /\ ~HasAgentId(t))
                 PROVE  \E r \in RunId : LatestRun(t, r) /\ \/ runState[r] = "succeeded"
                                                            \/ runState[r] = "killed" /\ session[r] = "up"
      BY DEF StrandedIsExplained, Resumed
    <2>1. ActiveRuns(t) = {}
      <3> SUFFICES ASSUME NEW r \in ActiveRuns(t) PROVE FALSE
        OBVIOUS
      <3>1. r \in RunId /\ runTask[r] = t /\ runState[r] = "queued" /\ spawn.run # r
        BY DEF ActiveRuns, Stranded, Orphan
      <3>2. r \notin resumed
        BY <3>1 DEF Resumed
      <3> QED BY <1>1, <3>1, <3>2 DEF LoopInv, NoQueuedZombie
    <2>2. ~Attended(t) /\ taskState[t] = "coding"
      BY <2>1 DEF Stranded
    <2>3. resume["human"][t].pc # "create"
      BY <2>2 DEF Attended, ResumeKinds
    <2>4. PICK r \in RunId : LatestRun(t, r) /\ TakenFurther(r)
      BY <1>1, <2>2, <2>3 DEF CodingCovered, TaskCovered
    <2>5. runState[r] \notin ActiveRunStates
      BY <2>1, <2>4 DEF ActiveRuns, LatestRun
    <2>6. ~CompletionHas(r) /\ ~TriageHas(r) /\ ~SpawnHas(r)
      BY <1>1, <2>2, <2>4, TakenIsAttended
    <2> QED BY <2>4, <2>5, <2>6 DEF TakenFurther
  <1> QED BY <1>1, CodingIsCovered, PTL

\* CodingAttended, where only a launch may throw: without a restart and without a resume no
\* coding task is forgotten, however the pass, the spawn, the watchdog, the budget sweep,
\* triage and the completion come in each other's way.
THEOREM CodingIsAttended ==
  NoApiCoding /\ Faults \subseteq {"spawn"} /\ Spec =>
      [](restarts = 0 /\ resumes = 0 => CodingAttended)
  <1> SUFFICES ASSUME NoApiCoding, Faults \subseteq {"spawn"}
               PROVE  Spec => [](restarts = 0 /\ resumes = 0 => CodingAttended)
    OBVIOUS
  <1>1. ASSUME LoopInv, CodingCovered, restarts = 0, resumes = 0 PROVE CodingAttended
    <2> SUFFICES ASSUME NEW t \in Task, taskState[t] = "coding" PROVE Attended(t)
      BY DEF CodingAttended
    <2>1. resumed = {} /\ resume["human"][t].pc # "create"
      BY <1>1 DEF LoopInv, LatestInv, ResumesKnown, ResumeKinds
    <2>2. PICK r \in RunId : LatestRun(t, r) /\ TakenFurther(r)
      BY <1>1, <2>1 DEF CodingCovered, TaskCovered, Resumed
    <2>3. CASE runState[r] \in ActiveRunStates
      BY <2>2, <2>3 DEF Attended, ActiveRuns, LatestRun
    <2>4. CASE CompletionHas(r) \/ TriageHas(r) \/ SpawnHas(r)
      BY <1>1, <2>2, <2>4, TakenIsAttended
    <2> QED BY <2>2, <2>3, <2>4 DEF TakenFurther
  <1> QED BY <1>1, CodingIsCovered, PTL

----------------------------------------------------------------------------
(* When a coder is left in peace *)

\* A step that changes the triage of run r by source s.
TriageTurn(s, r) ==
    \/ s = "budget" /\ BudgetPick(r) /\ triage'[s][r] = "reap"
    \/ s = "budget" /\ ReapRun(r) /\ triage[s][r] = "reap" /\ triage'[s][r] = "due"
    \/ /\ s = "hook" /\ HookTriage /\ inbox["scheduler"] # <<>>
       /\ r = Head(inbox["scheduler"]) /\ TriageApplies(r)
    \/ /\ s = "budget" /\ BudgetTriage(r) /\ triage[s][r] = "due"
       /\ triage'[s][r] \in {"idle", "retry", "human"}
       /\ triage'[s][r] # "idle" => TriageApplies(r)
    \/ TriageStep(s, r) /\ triage'[s][r] \in {"idle", "demote"}

\* There is no other.
LEMMA TriageTurns ==
  ASSUME TypeOK, [Next]_vars, ~Restart, NEW s \in TriageSources, NEW r \in RunId,
         triage'[s][r] # triage[s][r]
  PROVE  TriageTurn(s, r)
  <1>0. ASSUME NEW j \in TriageSources, NEW q \in RunId, NEW pc, SetTriage(j, q, pc)
        PROVE  j = s /\ q = r /\ triage'[s][r] = pc
    BY <1>0 DEF SetTriage, TypeOK
  <1>a. "budget" \in TriageSources /\ "hook" \in TriageSources
    BY DEF TriageSources
  <1>1. CASE Poll
    <2>1. ASSUME NEW q \in RunId, BudgetPick(q) PROVE TriageTurn(s, r)
      <3>1. SetTriage("budget", q, "reap")
        BY <2>1 DEF BudgetPick
      <3>2. s = "budget" /\ q = r /\ triage'[s][r] = "reap"
        BY <1>0, <1>a, <3>1
      <3> QED BY <2>1, <3>2 DEF TriageTurn
    <2>2. ASSUME NEW q \in RunId, ReapRun(q) PROVE TriageTurn(s, r)
      <3>1. SetTriage("budget", q, "due") /\ triage["budget"][q] = "reap"
        BY <2>2 DEF ReapRun
      <3>2. s = "budget" /\ q = r /\ triage'[s][r] = "due"
        BY <1>0, <1>a, <3>1
      <3> QED BY <2>2, <3>1, <3>2 DEF TriageTurn
    <2> QED BY <1>1, <2>1, <2>2 DEF Poll, Watchdog, GraceFinish
  <1>2. CASE Triage
    <2>1. CASE HookTriage
      <3> DEFINE q == Head(inbox["scheduler"])
      <3>1. q \in RunId /\ inbox["scheduler"] # <<>> /\ triage["hook"][q] = "idle"
        BY <2>1 DEF HookTriage, TypeOK, Readers
      <3>2. \/ TriageApplies(q) /\ \E pc : SetTriage("hook", q, pc)
            \/ SetTriage("hook", q, "idle")
        BY <2>1 DEF HookTriage, TriageRead
      <3> HIDE DEF q
      <3>3. s = "hook" /\ q = r
        BY <1>0, <1>a, <3>1, <3>2
      <3>4. TriageApplies(q)
        BY <1>0, <1>a, <3>1, <3>2, <3>3
      <3> QED BY <2>1, <3>1, <3>3, <3>4 DEF q, TriageTurn
    <2>2. ASSUME NEW q \in RunId, BudgetTriage(q) PROVE TriageTurn(s, r)
      <3>1. /\ triage["budget"][q] = "due"
            /\ \/ TriageApplies(q) /\ \E pc \in {"retry", "human"} : SetTriage("budget", q, pc)
               \/ SetTriage("budget", q, "idle")
        BY <2>2, DecisionsType DEF BudgetTriage, TriageRead
      <3>2. s = "budget" /\ q = r
        BY <1>0, <1>a, <3>1
      <3>3. \/ TriageApplies(q) /\ triage'[s][r] \in {"retry", "human"}
            \/ triage'[s][r] = "idle"
        BY <1>0, <1>a, <3>1
      <3> QED BY <2>2, <3>1, <3>2, <3>3 DEF TriageTurn
    <2>3. ASSUME NEW j \in TriageSources, NEW q \in RunId, TriageStep(j, q) PROVE TriageTurn(s, r)
      <3>1. \E pc \in {"idle", "demote"} : SetTriage(j, q, pc)
        BY <2>3 DEF TriageStep, TriageHuman, TriageRetry, TriageDemote
      <3>2. j = s /\ q = r /\ triage'[s][r] \in {"idle", "demote"}
        BY <1>0, <3>1
      <3> QED BY <2>3, <3>2 DEF TriageTurn
    <2> QED BY <1>2, <2>1, <2>2, <2>3 DEF Triage
  <1>3. CASE Boot
    BY <1>3 DEF Boot, BootFailTask, StartTriggers, BootCheck
  <1>4. CASE UNCHANGED vars
    BY <1>4 DEF vars
  <1> QED BY <1>1, <1>2, <1>3, <1>4, Frames DEF Next

\* A resume in flight is begun, goes on and ends by its own steps.
LEMMA ResumeTurns ==
  ASSUME TypeOK, [Next]_vars, ~Restart, NEW k \in ResumeKinds, NEW t \in Task,
         resume'[k][t] # resume[k][t]
  PROVE  \/ k = "review" /\ (ReviseResume(t) \/ ReviseMove(t))
         \/ k = "human" /\ HumanResume(t)
         \/ ResumeStep(k, t)
  <1>0. ASSUME NEW j \in ResumeKinds, NEW u \in Task, NEW pc, NEW q, AwaitResume(j, u, pc, q)
        PROVE  j = k /\ u = t
    BY <1>0 DEF AwaitResume, TypeOK
  <1>1. CASE Resume
    <2>1. ASSUME NEW u \in Task, ReviseResume(u) \/ ReviseMove(u) PROVE k = "review" /\ u = t
      <3>1. \E pc, q : AwaitResume("review", u, pc, q)
        BY <2>1 DEF ReviseResume, ReviseMove
      <3> QED BY <1>0, <3>1 DEF ResumeKinds
    <2>2. ASSUME NEW u \in Task, HumanResume(u) PROVE k = "human" /\ u = t
      <3>1. \E pc, q : AwaitResume("human", u, pc, q)
        BY <2>2 DEF HumanResume
      <3> QED BY <1>0, <3>1 DEF ResumeKinds
    <2>3. ASSUME NEW j \in ResumeKinds, NEW u \in Task, ResumeStep(j, u) PROVE j = k /\ u = t
      <3>1. \E pc, q : AwaitResume(j, u, pc, q)
        BY <2>3 DEF ResumeStep, ResumeCreate, ResumeThrow, ResumeLaunch, ResumeConfirm
      <3> QED BY <1>0, <3>1
    <2> QED BY <1>1, <2>1, <2>2, <2>3 DEF Resume
  <1>2. CASE ~Resume
    <2>1. Boot => UNCHANGED resume
      BY DEF Boot, BootFailTask, StartTriggers, BootCheck
    <2>2. UNCHANGED vars => UNCHANGED resume
      BY DEF vars
    <2> QED BY <1>2, <2>1, <2>2, Frames DEF Next
  <1> QED BY <1>1, <1>2

\* A completion is taken from the buffer, and ends by its own steps.
LEMMA CompletionTurns ==
  ASSUME TypeOK, [Next]_vars, ~Restart, completion'["tail"] # completion["tail"]
  PROVE  \/ /\ CompleteFromEvent /\ completion["tail"].pc = "idle"
            /\ (completion'["tail"].pc # "idle" => completion'["tail"].run = Head(inbox["completion"]))
         \/ /\ CompletionPark("tail") \/ CompletionHandoff("tail")
            /\ completion'["tail"].pc = "idle"
  <1>a. "tail" \in CompletionSources
    BY DEF CompletionSources
  <1>1. CASE Completion
    <2>1. CASE CompleteFromEvent
      <3>1. /\ completion["tail"].pc = "idle"
            /\ \E outcome : completion' = [completion EXCEPT !["tail"] =
                 IF outcome = "throw" THEN CompletionIdle
                                      ELSE [pc |-> outcome, run |-> Head(inbox["completion"])]]
        BY <2>1 DEF CompleteFromEvent, CompleteRun
      <3>2. \E outcome : completion'["tail"] =
                 IF outcome = "throw" THEN CompletionIdle
                                      ELSE [pc |-> outcome, run |-> Head(inbox["completion"])]
        BY <1>a, <3>1 DEF TypeOK
      <3> QED BY <2>1, <3>1, <3>2 DEF CompletionIdle
    <2>2. ASSUME NEW r \in RunId, CompleteAtBoot(r) PROVE FALSE
      <3>1. \E c : completion' = [completion EXCEPT !["boot"] = c]
        BY <2>2 DEF CompleteAtBoot, CompleteRun
      <3> QED BY <1>a, <3>1 DEF TypeOK
    <2>3. ASSUME NEW c \in CompletionSources, CompletionPark(c) \/ CompletionHandoff(c)
          PROVE  c = "tail" /\ completion'["tail"].pc = "idle"
      <3>1. completion' = [completion EXCEPT ![c] = CompletionIdle]
        BY <2>3 DEF CompletionPark, CompletionHandoff, CompletionMove
      <3> QED BY <1>a, <3>1 DEF TypeOK, CompletionIdle
    <2> QED BY <1>1, <2>1, <2>2, <2>3 DEF Completion
  <1>2. CASE ~Completion
    <2>1. Boot => UNCHANGED completion
      BY DEF Boot, BootFailTask, StartTriggers, BootCheck
    <2>2. UNCHANGED vars => UNCHANGED completion
      BY DEF vars
    <2> QED BY <1>2, <2>1, <2>2, Frames DEF Next
  <1> QED BY <1>1, <1>2

\* The end of the run is to be dealt with: by the completion trigger, or by triage if the
\* run failed or was killed.
Due(r) == CompletionHas(r) \/ (runState[r] \in {"failed", "killed"} /\ TriageHas(r))

\* What is in a buffer or a call about a run says how it ended.
Filed ==
    \A r \in RunId :
        /\ CompletionHas(r) => runState[r] = "succeeded"
        /\ Posted("scheduler", r) \/ triage["hook"][r] # "idle" => runState[r] = "failed"
        /\ triage["budget"][r] # "idle" => runState[r] \notin {"absent", "queued"}
        /\ triage["budget"][r] = "due" => runState[r] \in {"succeeded", "killed"}
        /\ triage["budget"][r] \in {"retry", "human"} => runState[r] = "killed"

\* A run's end is reported once.
Once ==
    /\ \A i \in Readers : \A m, n \in DOMAIN inbox[i] : inbox[i][m] = inbox[i][n] => m = n
    /\ \A r \in RunId :
          /\ Posted("completion", r) =>
                ~(completion["tail"].pc # "idle" /\ completion["tail"].run = r)
          /\ Posted("scheduler", r) => triage["hook"][r] = "idle"

\* The watchdog does not fail a run that the budget sweep is about to reap.
ReapWins == \A r \in RunId : triage["budget"][r] = "reap" => runState[r] # "failed"

\* What was not in a buffer is reported.
LEMMA PostedBegins ==
  ASSUME TypeOK, [Next]_vars, ~Restart, NEW i \in Readers, NEW r \in RunId, Posted(i, r)'
  PROVE  Posted(i, r) \/ Reports(i, r)
  <1>1. PICK n \in DOMAIN inbox'[i] : inbox'[i][n] = r
    BY DEF Posted
  <1>2. inbox[i] \in Seq(RunId)
    BY DEF TypeOK
  <1>3. CASE inbox'[i] = inbox[i]
    BY <1>1, <1>3 DEF Posted
  <1>4. ASSUME inbox[i] # <<>>, inbox'[i] = Tail(inbox[i]) PROVE Posted(i, r)
    <2>1. \E m \in DOMAIN inbox[i] : inbox[i][m] = r
      BY <1>1, <1>2, <1>4, TailKeeps
    <2> QED BY <2>1 DEF Posted
  <1>5. ASSUME NEW q \in RunId, inbox'[i] = Append(inbox[i], q), Reports(i, q)
        PROVE  Posted(i, r) \/ Reports(i, r)
    <2>1. r = q \/ \E m \in DOMAIN inbox[i] : inbox[i][m] = r
      BY <1>1, <1>2, <1>5, AppendAdds
    <2> QED BY <1>5, <2>1 DEF Posted
  <1>6. HookTriage => inbox["scheduler"] # <<>>
    BY DEF HookTriage
  <1>7. CompleteFromEvent => inbox["completion"] # <<>>
    BY DEF CompleteFromEvent
  <1> QED BY <1>3, <1>4, <1>5, <1>6, <1>7, InboxWrites

\* A report is of a run that was at work.
LEMMA ReportEnds ==
  ASSUME TypeOK, NEW i \in Readers, NEW r \in RunId, Reports(i, r)
  PROVE  /\ Started(r) /\ runState[r] \in {"running", "finishing"}
         /\ i = "scheduler" => runState'[r] = "failed"
         /\ i = "completion" => runState'[r] = "succeeded"
         /\ UNCHANGED <<triage, completion>>
  <1>1. "running" \in ActiveRunStates \ {"queued"} /\ "finishing" \in ActiveRunStates \ {"queued"}
    BY DEF ActiveRunStates
  <1>2. ASSUME NEW to \in {"failed", "succeeded"}, Watchdog(r, to)
        PROVE  runState[r] = "running" /\ runState'[r] = to /\ UNCHANGED <<triage, completion>>
    BY <1>2 DEF Watchdog, MoveRun, Guarded, Takes, RunEdges, TypeOK
  <1>3. ASSUME GraceFinish(r)
        PROVE  runState[r] = "finishing" /\ runState'[r] = "succeeded"
               /\ UNCHANGED <<triage, completion>>
    BY <1>3 DEF GraceFinish, MoveRun, Guarded, Takes, RunEdges, TypeOK
  <1>4. CASE i = "scheduler"
    BY <1>1, <1>2, <1>4 DEF Reports, Started
  <1>5. CASE i = "completion"
    BY <1>1, <1>2, <1>3, <1>5 DEF Reports, Started
  <1> QED BY <1>4, <1>5 DEF Readers

\* The head of a buffer is in it.
LEMMA HeadPosted ==
  ASSUME TypeOK, NEW i \in Readers, inbox[i] # <<>>
  PROVE  Head(inbox[i]) \in RunId /\ Posted(i, Head(inbox[i]))
  <1>1. inbox[i] \in Seq(RunId)
    BY DEF TypeOK
  <1>2. 1 \in DOMAIN inbox[i] /\ inbox[i][1] = Head(inbox[i]) /\ Head(inbox[i]) \in RunId
    BY <1>1
  <1> QED BY <1>2 DEF Posted

\* The completion trigger gets a run by its report.
LEMMA CompletionBegins ==
  ASSUME TypeOK, [Next]_vars, ~Restart, NEW r \in RunId, CompletionHas(r)'
  PROVE  CompletionHas(r) \/ Reports("completion", r)
  <1>1. "completion" \in Readers
    BY DEF Readers
  <1>2. CASE Posted("completion", r)'
    BY <1>1, <1>2, PostedBegins DEF CompletionHas
  <1>3. CASE completion'["tail"].pc # "idle" /\ completion'["tail"].run = r
    <2>1. CASE completion'["tail"] = completion["tail"]
      BY <1>3, <2>1 DEF CompletionHas
    <2>2. CASE completion'["tail"] # completion["tail"]
      <3>1. CompleteFromEvent /\ r = Head(inbox["completion"])
        BY <1>3, <2>2, CompletionTurns
      <3>2. Posted("completion", r)
        BY <1>1, <3>1, HeadPosted DEF CompleteFromEvent
      <3> QED BY <3>2 DEF CompletionHas
    <2> QED BY <2>1, <2>2
  <1> QED BY <1>2, <1>3 DEF CompletionHas

\* Triage gets it by its report or from the budget sweep.
LEMMA TriageBegins ==
  ASSUME TypeOK, [Next]_vars, ~Restart, NEW r \in RunId, TriageHas(r)'
  PROVE  TriageHas(r) \/ Reports("scheduler", r) \/ BudgetPick(r)
  <1>1. "scheduler" \in Readers /\ "budget" \in TriageSources /\ "hook" \in TriageSources
    BY DEF Readers, TriageSources
  <1>2. CASE Posted("scheduler", r)'
    BY <1>1, <1>2, PostedBegins DEF TriageHas
  <1>3. ASSUME NEW s \in TriageSources, triage'[s][r] \in {"retry", "human"} PROVE TriageHas(r)
    <2>1. CASE triage'[s][r] = triage[s][r]
      BY <1>3, <2>1 DEF TriageHas, InTriage
    <2>2. CASE triage'[s][r] # triage[s][r]
      <3>1. TriageTurn(s, r)
        BY <2>2, TriageTurns
      <3>2. \/ r = Head(inbox["scheduler"]) /\ inbox["scheduler"] # <<>>
            \/ triage["budget"][r] = "due"
        BY <1>3, <3>1 DEF TriageTurn
      <3> QED BY <1>1, <3>2, HeadPosted DEF TriageHas, Reaped
    <2> QED BY <2>1, <2>2
  <1>4. CASE Reaped(r)'
    <2>1. CASE triage'["budget"][r] = triage["budget"][r]
      BY <1>4, <2>1 DEF TriageHas, Reaped
    <2>2. CASE triage'["budget"][r] # triage["budget"][r]
      <3>1. TriageTurn("budget", r)
        BY <1>1, <2>2, TriageTurns
      <3>2. BudgetPick(r) \/ triage["budget"][r] = "reap"
        BY <1>4, <3>1 DEF TriageTurn, Reaped
      <3> QED BY <3>2 DEF TriageHas, Reaped
    <2> QED BY <2>1, <2>2
  <1> QED BY <1>2, <1>3, <1>4 DEF TriageHas, InTriage

\* A run that was started is never queued again.
LEMMA StartedStays ==
  ASSUME TypeOK, [Next]_vars, NEW r \in RunId, runState[r] \notin {"absent", "queued"}
  PROVE  runState'[r] \notin {"absent", "queued"}
  <1>1. ASSUME NEW t, NEW q \in FreshRuns, InsertRun(t, q) PROVE runState'[r] = runState[r]
    BY <1>1 DEF InsertRun, FreshRuns, TypeOK
  <1>2. ASSUME NEW q \in RunId, NEW from, NEW to, MoveRun(q, from, to)
        PROVE  runState'[r] \notin {"absent", "queued"}
    BY <1>2, MoveRunEffect
  <1> QED BY <1>1, <1>2, RunWrites

\* Every handler files a run under its end.
LEMMA FiledStep ==
  ASSUME LoopInv, [Next]_vars, restarts' = 0, ReapWins, Filed PROVE Filed'
  <1> SUFFICES ASSUME NEW r \in RunId
               PROVE  /\ CompletionHas(r)' => runState'[r] = "succeeded"
                      /\ Posted("scheduler", r)' \/ triage'["hook"][r] # "idle" => runState'[r] = "failed"
                      /\ triage'["budget"][r] # "idle" => runState'[r] \notin {"absent", "queued"}
                      /\ triage'["budget"][r] = "due" => runState'[r] \in {"succeeded", "killed"}
                      /\ triage'["budget"][r] \in {"retry", "human"} => runState'[r] = "killed"
    BY DEF Filed
  <1>0. /\ TypeOK /\ RunInv /\ ~Restart /\ restarts = 0
        /\ "scheduler" \in Readers /\ "completion" \in Readers
        /\ "budget" \in TriageSources /\ "hook" \in TriageSources
    BY RestartWrites DEF LoopInv, Readers, TriageSources
  <1>1. ASSUME NEW st \in {"succeeded", "failed", "killed"}, runState[r] = st
        PROVE  runState'[r] = st
    BY <1>0, <1>1, RunsStay DEF TerminalRunStates
  <1>2. ASSUME CompletionHas(r)' PROVE runState'[r] = "succeeded"
    BY <1>0, <1>1, <1>2, CompletionBegins, ReportEnds DEF Filed
  <1>3. ASSUME Posted("scheduler", r)' PROVE runState'[r] = "failed"
    BY <1>0, <1>1, <1>3, PostedBegins, ReportEnds DEF Filed
  <1>4. ASSUME triage'["hook"][r] # "idle" PROVE runState'[r] = "failed"
    <2>1. CASE triage["hook"][r] # "idle"
      BY <1>1, <2>1 DEF Filed
    <2>2. CASE triage["hook"][r] = "idle"
      <3>1. TriageTurn("hook", r)
        BY <1>0, <1>4, <2>2, TriageTurns
      <3>2. ~TriageStep("hook", r)
        BY <2>2 DEF TriageStep, TriageHuman, TriageRetry, TriageDemote
      <3>3. Posted("scheduler", r)
        BY <1>0, <3>1, <3>2, HeadPosted DEF TriageTurn
      <3> QED BY <1>1, <3>3 DEF Filed
    <2> QED BY <2>1, <2>2
  <1>5. ASSUME triage'["budget"][r] # "idle" PROVE runState'[r] \notin {"absent", "queued"}
    <2>1. CASE triage["budget"][r] # "idle"
      BY <1>0, <2>1, StartedStays DEF Filed
    <2>2. CASE triage["budget"][r] = "idle"
      <3>1. TriageTurn("budget", r)
        BY <1>0, <1>5, <2>2, TriageTurns
      <3>2. ~TriageStep("budget", r)
        BY <2>2 DEF TriageStep, TriageHuman, TriageRetry, TriageDemote
      <3>3. runState[r] \notin {"absent", "queued"}
        BY <2>2, <3>1, <3>2 DEF TriageTurn, BudgetPick, Started, ActiveRunStates
      <3> QED BY <1>0, <3>3, StartedStays
    <2> QED BY <2>1, <2>2
  <1>6. ASSUME triage'["budget"][r] = "due" PROVE runState'[r] \in {"succeeded", "killed"}
    <2>1. CASE triage["budget"][r] = "due"
      BY <1>1, <2>1 DEF Filed
    <2>2. CASE triage["budget"][r] # "due"
      <3>1. TriageTurn("budget", r)
        BY <1>0, <1>6, <2>2, TriageTurns
      <3>2. ReapRun(r) /\ triage["budget"][r] = "reap"
        BY <1>6, <3>1 DEF TriageTurn
      <3>3. runState[r] \in ActiveRunStates \cup {"succeeded", "killed"}
        BY <1>0, <3>2 DEF Filed, ReapWins, LoopInv, FirstLife, TypeOK, RunStates, TerminalRunStates
      <3>4. runState[r] \in ActiveRunStates => runState'[r] = "killed"
        BY <1>0, <3>2 DEF ReapRun, MoveRun, Guarded, Takes, RunEdges, TypeOK
      <3> QED BY <1>1, <3>3, <3>4
    <2> QED BY <2>1, <2>2
  <1>7. ASSUME triage'["budget"][r] \in {"retry", "human"} PROVE runState'[r] = "killed"
    <2>1. CASE triage["budget"][r] \in {"retry", "human"}
      BY <1>1, <2>1 DEF Filed
    <2>2. CASE triage["budget"][r] \notin {"retry", "human"}
      <3>1. TriageTurn("budget", r)
        BY <1>0, <1>7, <2>2, TriageTurns
      <3>2. TriageApplies(r) /\ triage["budget"][r] = "due"
        BY <1>7, <3>1 DEF TriageTurn
      <3> QED BY <1>1, <3>2 DEF Filed, TriageApplies
    <2> QED BY <2>1, <2>2
  <1> QED BY <1>2, <1>3, <1>4, <1>5, <1>6, <1>7

\* What a reader has taken from a buffer without repetitions is not in it any more.
LEMMA HeadTaken ==
  ASSUME TypeOK, Once, NEW i \in Readers, inbox[i] # <<>>, inbox'[i] = Tail(inbox[i]),
         NEW r \in RunId, r = Head(inbox[i])
  PROVE  ~Posted(i, r)'
  <1> SUFFICES ASSUME NEW n \in DOMAIN Tail(inbox[i]), Tail(inbox[i])[n] = Head(inbox[i])
               PROVE  FALSE
    BY DEF Posted
  <1>1. inbox[i] \in Seq(RunId)
    BY DEF TypeOK
  <1>2. /\ n \in Nat /\ 1 \in DOMAIN inbox[i] /\ n + 1 \in DOMAIN inbox[i] /\ n + 1 # 1
        /\ inbox[i][n + 1] = Tail(inbox[i])[n] /\ inbox[i][1] = Head(inbox[i])
    BY <1>1
  <1> QED BY <1>2 DEF Once

\* Nor does a buffer without repetitions get one by the report of a run that is not in it.
LEMMA AppendDistinct ==
  ASSUME NEW S, NEW s \in Seq(S), NEW e \in S, \A m \in DOMAIN s : s[m] # e,
         \A m, n \in DOMAIN s : s[m] = s[n] => m = n
  PROVE  \A m, n \in DOMAIN Append(s, e) : Append(s, e)[m] = Append(s, e)[n] => m = n
  <1>1. /\ DOMAIN Append(s, e) = 1..(Len(s) + 1) /\ DOMAIN s = 1..Len(s) /\ Len(s) \in Nat
        /\ Append(s, e)[Len(s) + 1] = e /\ \A m \in 1..Len(s) : Append(s, e)[m] = s[m]
    OBVIOUS
  <1>2. \A m \in DOMAIN Append(s, e) : m \in DOMAIN s \/ m = Len(s) + 1
    BY <1>1
  <1> QED BY <1>1, <1>2

\* Nor by taking its head.
LEMMA TailDistinct ==
  ASSUME NEW S, NEW s \in Seq(S), s # <<>>, \A m, n \in DOMAIN s : s[m] = s[n] => m = n
  PROVE  \A m, n \in DOMAIN Tail(s) : Tail(s)[m] = Tail(s)[n] => m = n
  <1> SUFFICES ASSUME NEW m \in DOMAIN Tail(s), NEW n \in DOMAIN Tail(s), Tail(s)[m] = Tail(s)[n]
               PROVE  m = n
    OBVIOUS
  <1>1. /\ m \in Nat /\ n \in Nat /\ m + 1 \in DOMAIN s /\ n + 1 \in DOMAIN s
        /\ Tail(s)[m] = s[m + 1] /\ Tail(s)[n] = s[n + 1]
    OBVIOUS
  <1>2. m + 1 = n + 1
    BY <1>1
  <1> QED BY <1>1, <1>2

\* A run is reported when it ends, and it ends once.
LEMMA OnceStep ==
  ASSUME TypeOK, [Next]_vars, ~Restart, Filed, Once PROVE Once'
  <1>0. /\ "scheduler" \in Readers /\ "completion" \in Readers /\ "hook" \in TriageSources
    BY DEF Readers, TriageSources
  <1>1. ASSUME NEW i \in Readers, NEW r \in RunId, Reports(i, r)
        PROVE  ~Posted(i, r) /\ ~CompletionHas(r) /\ triage["hook"][r] = "idle"
    <2>1. runState[r] \in {"running", "finishing"}
      BY <1>1, ReportEnds
    <2> QED BY <2>1 DEF Filed, CompletionHas, Readers
  <1>2. ASSUME NEW i \in Readers
        PROVE  \A m, n \in DOMAIN inbox'[i] : inbox'[i][m] = inbox'[i][n] => m = n
    <2>1. inbox[i] \in Seq(RunId) /\ \A m, n \in DOMAIN inbox[i] : inbox[i][m] = inbox[i][n] => m = n
      BY DEF TypeOK, Once
    <2>2. ASSUME NEW r \in RunId, inbox'[i] = Append(inbox[i], r), Reports(i, r)
          PROVE  \A m, n \in DOMAIN inbox'[i] : inbox'[i][m] = inbox'[i][n] => m = n
      <3>1. \A m \in DOMAIN inbox[i] : inbox[i][m] # r
        BY <1>1, <2>2 DEF Posted
      <3> QED BY <2>1, <2>2, <3>1, AppendDistinct
    <2>3. ASSUME inbox[i] # <<>>, inbox'[i] = Tail(inbox[i])
          PROVE  \A m, n \in DOMAIN inbox'[i] : inbox'[i][m] = inbox'[i][n] => m = n
      BY <2>1, <2>3, TailDistinct
    <2> QED BY <2>1, <2>2, <2>3, InboxWrites DEF HookTriage, CompleteFromEvent
  <1>3. ASSUME NEW r \in RunId, Posted("completion", r)', completion'["tail"].pc # "idle",
               completion'["tail"].run = r
        PROVE  FALSE
    <2>1. CASE completion'["tail"] = completion["tail"]
      <3>1. CompletionHas(r) /\ ~Posted("completion", r)
        BY <1>3, <2>1 DEF CompletionHas, Once
      <3> QED BY <1>0, <1>1, <1>3, <3>1, PostedBegins
    <2>2. CASE completion'["tail"] # completion["tail"]
      <3>1. CompleteFromEvent /\ r = Head(inbox["completion"])
        BY <1>3, <2>2, CompletionTurns
      <3>2. inbox["completion"] # <<>> /\ inbox'["completion"] = Tail(inbox["completion"])
        BY <1>0, <3>1 DEF CompleteFromEvent, TypeOK
      <3> QED BY <1>0, <1>3, <3>1, <3>2, HeadTaken
    <2> QED BY <2>1, <2>2
  <1>4. ASSUME NEW r \in RunId, Posted("scheduler", r)' PROVE triage'["hook"][r] = "idle"
    <2>1. CASE triage'["hook"][r] = triage["hook"][r]
      BY <1>0, <1>1, <1>4, <2>1, PostedBegins DEF Once
    <2>2. CASE triage'["hook"][r] # triage["hook"][r]
      <3>1. TriageTurn("hook", r)
        BY <1>0, <2>2, TriageTurns
      <3>2. CASE TriageStep("hook", r)
        <4>1. triage["hook"][r] # "idle"
          BY <3>2 DEF TriageStep, TriageHuman, TriageRetry, TriageDemote
        <4> QED BY <1>0, <1>1, <1>4, <4>1, PostedBegins DEF Once
      <3>3. CASE HookTriage /\ inbox["scheduler"] # <<>> /\ r = Head(inbox["scheduler"])
        <4>1. inbox'["scheduler"] = Tail(inbox["scheduler"])
          BY <1>0, <3>3 DEF HookTriage, TypeOK
        <4> QED BY <1>0, <1>4, <3>3, <4>1, HeadTaken
      <3> QED BY <3>1, <3>2, <3>3 DEF TriageTurn
    <2> QED BY <2>1, <2>2
  <1> QED BY <1>2, <1>3, <1>4 DEF Once

\* The end of a run becomes due when a started run ends.
LEMMA DueBegins ==
  ASSUME LoopInv, [Next]_vars, restarts' = 0, Filed, NEW r \in RunId, Due(r)'
  PROVE  Due(r) \/ Started(r)
  <1>0. /\ TypeOK /\ RunInv /\ ~Restart /\ restarts = 0
        /\ "scheduler" \in Readers /\ "completion" \in Readers
    BY RestartWrites DEF LoopInv, Readers
  <1>1. CASE CompletionHas(r)'
    BY <1>0, <1>1, CompletionBegins, ReportEnds DEF Due
  <1>2. CASE runState'[r] \in {"failed", "killed"} /\ TriageHas(r)'
    <2>1. BudgetPick(r) => Started(r)
      BY DEF BudgetPick
    <2>2. TriageHas(r) \/ Started(r)
      BY <1>0, <1>2, <2>1, TriageBegins, ReportEnds
    <2>3. TriageHas(r) => runState[r] \notin {"absent", "queued"}
      BY DEF Filed, TriageHas, InTriage, Reaped, TriageSources
    <2>4. runState[r] \in TerminalRunStates => runState'[r] = runState[r]
      BY <1>0, RunsStay DEF TerminalRunStates
    <2> QED BY <1>0, <1>2, <2>2, <2>3, <2>4 DEF Due, Started, TypeOK, RunStates
  <1> QED BY <1>1, <1>2 DEF Due

\* A run becomes active by its insert, for a task that has no other.
LEMMA ActiveBegins ==
  ASSUME TypeOK, [Next]_vars, NEW t \in Task, NEW q \in RunId, q \in ActiveRuns(t)',
         q \notin ActiveRuns(t)
  PROVE  /\ CanInsertRun(t)
         /\ \/ CreateClaimRun(t) /\ spawn'.run = q
            \/ \E k \in ResumeKinds : ResumeCreate(k, t)
  <1>1. runTask'[q] = t /\ runState'[q] \in ActiveRunStates
    BY DEF ActiveRuns
  <1>2. ASSUME NEW u \in Task, NEW p \in FreshRuns, InsertRun(u, p) PROVE p = q /\ u = t
    <2>1. p = q
      BY <1>1, <1>2 DEF InsertRun, FreshRuns, ActiveRuns, TypeOK
    <2> QED BY <1>1, <1>2, <2>1 DEF InsertRun, TypeOK
  <1>3. ASSUME NEW r \in RunId, NEW from, NEW to, MoveRun(r, from, to), UNCHANGED runTask PROVE FALSE
    <2>1. ActiveCoderRuns' \subseteq ActiveCoderRuns
      BY <1>3, MoveRunActive
    <2> QED BY <1>1, <1>3, <2>1 DEF ActiveCoderRuns, ActiveRuns
  <1>4. ASSUME UNCHANGED <<runState, runTask>> PROVE FALSE
    BY <1>1, <1>4 DEF ActiveRuns
  <1> QED BY <1>2, <1>3, <1>4, RunWrites

\* A run is started by the spawn or the resume that holds it.
LEMMA StartedBegins ==
  ASSUME TypeOK, [Next]_vars, NEW r \in RunId, Started(r)', ~Started(r)
  PROVE  /\ runState[r] = "queued"
         /\ \/ SpawnConfirm /\ spawn.run = r
            \/ \E k \in ResumeKinds, t \in Task : ResumeConfirm(k, t) /\ resume[k][t].run = r
  <1>1. runState'[r] \in ActiveRunStates \ {"queued"} /\ runState[r] \notin ActiveRunStates \ {"queued"}
    BY DEF Started
  <1>2. runState[r] # "absent"
    <2>1. ASSUME runState[r] = "absent", NEW u, NEW q \in FreshRuns, InsertRun(u, q) PROVE FALSE
      BY <1>1, <2>1 DEF InsertRun, FreshRuns, TypeOK, ActiveRunStates
    <2>2. ASSUME runState[r] = "absent", NEW q \in RunId, NEW from, NEW to, MoveRun(q, from, to) PROVE FALSE
      BY <1>1, <2>2, MoveRunEffect DEF ActiveRunStates
    <2> QED BY <1>1, <2>1, <2>2, RunWrites DEF ActiveRunStates
  <1>3. runState[r] \in ActiveRunStates
    BY <1>1, <1>2, RunsStay
  <1> QED BY <1>1, <1>3, RunStarts

\* The only edge of a coding task that operators take is its cancellation.
ApiCancelsCoding == \A s \in TaskStates : <<"coding", s>> \in ApiEdges => s = "cancelled"

\* While a revise verdict resumes the coder, its task leaves review for coding only, unless
\* it is cancelled.
ReviseKeeps ==
    \A t \in Task : resume["review"][t].pc # "idle" /\ taskState[t] = "review" /\ taskState'[t] # "review" =>
                      taskState'[t] \in {"coding", "cancelled"}

\* The call about run r that moves its coding task t on.
Leaves(t, r) ==
    /\ runTask[r] = t
    /\ \/ \E c \in CompletionSources : /\ completion[c].run = r
                                       /\ CompletionPark(c) \/ CompletionHandoff(c)
       \/ \E s \in TriageSources : triage[s][r] \in {"retry", "human"} /\ TriageStep(s, r)

\* Who takes a task out of coding, if it is not cancelled.
LEMMA TaskLeft ==
  ASSUME LoopInv, ApiCancelsCoding, [Next]_vars, restarts' = 0, NEW t \in Task,
         taskState[t] = "coding", taskState'[t] \notin {"coding", "cancelled"}
  PROVE  (\E r \in RunId : Leaves(t, r)) \/ (SpawnRollbackTask /\ spawn.task = t)
  <1> USE DEF rows
  <1>0. TypeOK /\ ~Restart /\ bootFail = None
    BY RestartWrites DEF LoopInv, FirstLife
  <1>1. ASSUME NEW u, NEW from, NEW to, MoveTask(u, from, to) PROVE u = t /\ from = "coding" /\ to = taskState'[t]
    BY ZenonT(60), <1>0, <1>1, MoveTaskEffect
  <1>2. ~UNCHANGED taskState
    OBVIOUS
  <1>3. ASSUME NEW u \in Task, PromoteDraft(u) PROVE FALSE
    <2> DEFINE moved == [taskState EXCEPT ![u] = "backlog"]
    <2>1. taskState' = Recompute(moved, merged) /\ moved[t] = "coding"
      BY <1>0, <1>3 DEF PromoteDraft, TypeOK
    <2> HIDE DEF moved
    <2> QED BY <2>1, RecomputeEffect
  <1>4. ASSUME NEW u \in Task, NEW to \in TaskStates, ApiTransition(u, to) PROVE FALSE
    <2> DEFINE moved == [taskState EXCEPT ![u] = to]
    <2>1. <<taskState[u], to>> \in ApiEdges /\ (taskState' = moved \/ taskState' = Recompute(moved, merged'))
      BY <1>4 DEF ApiTransition
    <2>2. moved[t] \in {"coding", "cancelled"}
      BY <1>0, <2>1 DEF ApiCancelsCoding, TypeOK
    <2> HIDE DEF moved
    <2> QED BY <2>1, <2>2, RecomputeEffect
  <1>5. CASE Spawn
    <2>1. ~ClaimTask
      BY <1>1 DEF ClaimTask
    <2>2. SpawnRollbackTask
      BY <1>2, <1>5, <2>1
      DEF Spawn, RollbackClaim, SpawnLaunch, SpawnThrow, SpawnConfirm, SpawnRollbackRun
    <2>3. spawn.task = t
      BY <1>1, <2>2 DEF SpawnRollbackTask
    <2> QED BY <2>2, <2>3
  <1>6. ASSUME Resume PROVE FALSE
    <2>1. ASSUME NEW u \in Task, HumanResume(u) \/ ReviseMove(u) PROVE FALSE
      BY <1>1, <2>1 DEF HumanResume, ReviseMove
    <2> QED BY <1>2, <1>6, <2>1
        DEF Resume, ResumeStep, ReviseResume, ResumeCreate, ResumeThrow, ResumeLaunch, ResumeConfirm
  <1>7. CASE Triage
    <2>1. PICK s \in TriageSources, r \in RunId : TriageStep(s, r)
      BY <1>2, <1>7 DEF Triage, HookTriage, BudgetTriage
    <2>2. CASE TriageHuman(s, r) \/ TriageRetry(s, r)
      <3>1. runTask[r] = t
        BY <1>1, <2>2 DEF TriageHuman, TriageRetry
      <3>2. triage[s][r] \in {"retry", "human"}
        BY <2>2 DEF TriageHuman, TriageRetry
      <3> QED BY <2>1, <3>1, <3>2 DEF Leaves
    <2>3. ASSUME TriageDemote(s, r) PROVE FALSE
      <3> DEFINE moved == [taskState EXCEPT ![runTask[r]] = "backlog"]
      <3>1. taskState[runTask[r]] = "failed" /\ taskState' = Recompute(moved, merged)
        BY <1>2, <2>3 DEF TriageDemote
      <3>2. moved[t] = "coding"
        BY <1>0, <3>1 DEF TypeOK
      <3> HIDE DEF moved
      <3> QED BY <3>1, <3>2, RecomputeEffect
    <2> QED BY <2>1, <2>2, <2>3 DEF TriageStep
  <1>8. CASE Completion
    <2>1. PICK c \in CompletionSources : CompletionPark(c) \/ CompletionHandoff(c)
      BY <1>2, <1>8 DEF Completion, CompleteFromEvent, CompleteAtBoot, CompleteRun
    <2>2. runTask[completion[c].run] = t /\ completion[c].pc # "idle"
      BY <1>1, <2>1 DEF CompletionPark, CompletionHandoff, CompletionMove
    <2>3. completion[c].run \in RunId
      BY <1>0, <2>2, CompletionNamed
    <2> QED BY <2>1, <2>2, <2>3 DEF Leaves
  <1>9. ~Boot
    BY <1>0, <1>2 DEF Boot, BootFailTask, StartTriggers, BootCheck
  <1>10. ~UNCHANGED vars
    BY <1>2 DEF vars
  <1>11. ASSUME NEW u \in Task, AskReady(u) \/ TakeReady(u) PROVE FALSE
    BY <1>1, <1>2, <1>11 DEF AskReady, TakeReady
  <1> QED BY <1>2, <1>3, <1>4, <1>5, <1>6, <1>7, <1>8, <1>9, <1>10, <1>11, Frames DEF Next, Board

\* It deals with the end of its run, and is done with it.
LEMMA LeaverDone ==
  ASSUME LoopInv, [Next]_vars, restarts' = 0, ReapWins, Filed, Once, NEW t \in Task,
         NEW r \in RunId, Leaves(t, r)
  PROVE  Due(r) /\ ~Due(r)' /\ ~Started(r)'
  <1>0. /\ TypeOK /\ restarts = 0
        /\ "hook" \in TriageSources /\ "budget" \in TriageSources /\ "tail" \in CompletionSources
    BY RestartWrites DEF LoopInv, TriageSources, CompletionSources
  <1>1. ASSUME NEW c \in CompletionSources, completion[c].run = r,
               CompletionPark(c) \/ CompletionHandoff(c)
        PROVE  Due(r) /\ ~Due(r)' /\ ~Started(r)'
    <2>1. /\ completion[c].pc # "idle" /\ completion' = [completion EXCEPT ![c] = CompletionIdle]
          /\ UNCHANGED <<runState, inbox, triage>>
      BY <1>1 DEF CompletionPark, CompletionHandoff, CompletionMove, runRows
    <2>2. c = "tail"
      BY <1>0, <2>1 DEF LoopInv, FirstLife, CompletionSources
    <2>3. CompletionHas(r) /\ runState[r] = "succeeded" /\ ~Posted("completion", r)
      BY <1>1, <2>1, <2>2 DEF CompletionHas, Filed, Once
    <2>4. completion'["tail"].pc = "idle"
      BY <1>0, <2>1, <2>2 DEF TypeOK, CompletionIdle
    <2>5. ~CompletionHas(r)'
      BY <2>1, <2>3, <2>4 DEF CompletionHas, Posted
    <2> QED BY <2>1, <2>3, <2>5 DEF Due, Started, ActiveRunStates
  <1>2. ASSUME NEW s \in TriageSources, triage[s][r] \in {"retry", "human"}, TriageStep(s, r)
        PROVE  Due(r) /\ ~Due(r)' /\ ~Started(r)'
    <2>1. /\ UNCHANGED <<runState, inbox, completion>>
          /\ \E pc \in {"idle", "demote"} : triage' = [triage EXCEPT ![s][r] = pc]
      BY <1>2 DEF TriageStep, TriageHuman, TriageRetry, TriageDemote, SetTriage, runRows
    <2>2. /\ triage'[s][r] \in {"idle", "demote"}
          /\ \A j \in TriageSources : j # s => triage'[j][r] = triage[j][r]
      <3>1. PICK pc \in {"idle", "demote"} : triage' = [triage EXCEPT ![s][r] = pc]
        BY <2>1
      <3>2. triage'[s][r] = pc
        BY <1>0, <3>1 DEF TypeOK
      <3>3. ASSUME NEW j \in TriageSources, j # s PROVE triage'[j][r] = triage[j][r]
        BY <1>0, <3>1, <3>3 DEF TypeOK
      <3> QED BY <3>2, <3>3
    <2>3. runState[r] = IF s = "hook" THEN "failed" ELSE "killed"
      BY <1>2 DEF Filed, TriageSources
    <2>4. Due(r) /\ ~Started(r)'
      BY <1>2, <2>1, <2>3 DEF Due, TriageHas, InTriage, Started, ActiveRunStates
    <2>5. ~CompletionHas(r)'
      BY <2>1, <2>3 DEF CompletionHas, Posted, Filed
    <2>6. ~Posted("scheduler", r)'
      <3>1. ~Posted("scheduler", r)
        BY <1>2, <2>3 DEF Filed, Once, TriageSources
      <3> QED BY <2>1, <3>1 DEF Posted
    <2>7. ~InTriage(r)'
      BY <2>2, <2>3 DEF InTriage, Filed, TriageSources
    <2>8. ~Reaped(r)'
      BY <1>0, <2>2, <2>3 DEF Reaped, Filed, ReapWins, TriageSources
    <2> QED BY <2>4, <2>5, <2>6, <2>7, <2>8 DEF Due, TriageHas
  <1> QED BY <1>1, <1>2 DEF Leaves

\* A run of the task is at work, or its end is to be dealt with.
Engaged(t, r) == runTask[r] = t /\ (Started(r) \/ Due(r))

\* The spawn is about the task.
OnTask(t) == spawn.pc # "idle" /\ spawn.task = t

\* Where a task is while somebody has it in hand.
InPlace(t) ==
    /\ \A r \in RunId : Engaged(t, r) =>
          \/ taskState[t] = "coding"
          \/ taskState[t] = "review" /\ resume["review"][t].pc = "move"
    /\ OnTask(t) => taskState[t] = IF spawn.pc = "claim" THEN "ready" ELSE "coding"
    /\ resume["review"][t].pc # "idle" => taskState[t] = "review"
    /\ resume["human"][t].pc # "idle" => taskState[t] = "coding"

\* One at a time has it in hand: a run, the spawn or a human's resume.
Alone(t) ==
    /\ \A q, r \in RunId : Engaged(t, q) /\ Engaged(t, r) => q = r
    /\ \A r \in RunId : Engaged(t, r) => ~OnTask(t) /\ resume["human"][t].pc = "idle"
    /\ \A r \in RunId : runTask[r] = t /\ Due(r) => ActiveRuns(t) = {}
    /\ OnTask(t) => resume["human"][t].pc = "idle" /\ ActiveRuns(t) \subseteq {spawn.run}

\* A step of the first life in which nothing comes in the loop's way, at a task that is not
\* cancelled and is where it belongs.
Undisturbed(t) ==
    /\ LoopInv /\ [Next]_vars /\ restarts' = 0 /\ Filed /\ Once
    /\ NoApiCoding /\ ApiCancelsCoding /\ ReapWins /\ ReviseKeeps
    /\ taskState[t] # "cancelled" /\ taskState'[t] # "cancelled" /\ InPlace(t) /\ Alone(t)

\* A run of the task gets to work by the confirmation of the call that holds it.
LEMMA EngagedBegins ==
  ASSUME NEW t \in Task, Undisturbed(t), NEW r \in RunId, Engaged(t, r)', ~Engaged(t, r)
  PROVE  /\ runTask[r] = t /\ runState[r] = "queued" /\ Started(r)'
         /\ \/ SpawnConfirm /\ OnTask(t) /\ spawn.run = r
            \/ \E k \in ResumeKinds : ResumeConfirm(k, t) /\ resume[k][t].run = r
  <1>0. TypeOK /\ RunInv
    BY DEF Undisturbed, LoopInv
  <1>1. ~Started(r) /\ ~Due(r)
    <2>1. Started(r) \/ Due(r) => runState[r] # "absent"
      BY DEF Undisturbed, Due, Filed, Started, ActiveRunStates
    <2>2. Started(r) \/ Due(r) => runTask[r] = t
      BY <1>0, <2>1, RunsStay DEF Undisturbed, Engaged
    <2> QED BY <2>2 DEF Engaged
  <1>2. Started(r)'
    BY <1>1, DueBegins DEF Undisturbed, Engaged
  <1>3. /\ runState[r] = "queued"
        /\ \/ SpawnConfirm /\ spawn.run = r
           \/ \E k \in ResumeKinds, u \in Task : ResumeConfirm(k, u) /\ resume[k][u].run = r
    BY <1>0, <1>1, <1>2, StartedBegins DEF Undisturbed
  <1>4. runTask[r] = t
    BY <1>0, <1>3, RunsStay DEF Undisturbed, Engaged
  <1>5. SpawnConfirm /\ spawn.run = r => OnTask(t)
    BY <1>0, <1>4 DEF SpawnConfirm, RunInv, SpawnHolds, OnTask
  <1>6. ASSUME NEW k \in ResumeKinds, NEW u \in Task, ResumeConfirm(k, u), resume[k][u].run = r
        PROVE  u = t
    BY <1>0, <1>4, <1>6 DEF ResumeConfirm, RunInv, ResumeHolds
  <1> QED BY <1>2, <1>3, <1>4, <1>5, <1>6

\* Whoever takes the task out of coding had it in hand, and has not any more.
LEMMA HandedOn ==
  ASSUME NEW t \in Task, Undisturbed(t), taskState[t] = "coding", taskState'[t] # "coding"
  PROVE  \/ \E r \in RunId : Engaged(t, r) /\ ~Engaged(t, r)'
         \/ OnTask(t) /\ ~OnTask(t)'
  <1>1. ASSUME NEW r \in RunId, Leaves(t, r) PROVE Engaged(t, r) /\ ~Engaged(t, r)'
    <2>1. Due(r) /\ ~Due(r)' /\ ~Started(r)'
      BY <1>1, LeaverDone DEF Undisturbed
    <2> QED BY <1>1, <2>1 DEF Engaged, Leaves
  <1>2. ASSUME SpawnRollbackTask, spawn.task = t PROVE OnTask(t) /\ ~OnTask(t)'
    BY <1>2 DEF SpawnRollbackTask, OnTask, SpawnIdle
  <1> QED BY <1>1, <1>2, TaskLeft DEF Undisturbed

\* Only the verdict itself ends its wait to move the task.
LEMMA MoveAwaited ==
  ASSUME TypeOK, [Next]_vars, ~Restart, NEW t \in Task, resume["review"][t].pc = "move"
  PROVE  resume'["review"][t] = resume["review"][t] \/ ReviseMove(t)
  <1>1. "review" \in ResumeKinds /\ "review" # "human"
    BY DEF ResumeKinds
  <1>2. ~ReviseResume(t) /\ ~ResumeStep("review", t)
    BY DEF ReviseResume, ResumeStep, ResumeCreate, ResumeThrow, ResumeLaunch, ResumeConfirm
  <1> QED BY <1>1, <1>2, ResumeTurns

\* A run at work, or to be dealt with, is one of a coding task or of one that its revise
\* verdict is about to move there.
LEMMA EngagedInPlace ==
  ASSUME NEW t \in Task, Undisturbed(t), NEW r \in RunId, Engaged(t, r)'
  PROVE  \/ taskState'[t] = "coding"
         \/ taskState'[t] = "review" /\ resume'["review"][t].pc = "move"
  <1>0. TypeOK /\ [Next]_vars /\ ~Restart /\ "review" \in ResumeKinds /\ "human" \in ResumeKinds
    BY RestartWrites DEF Undisturbed, LoopInv, ResumeKinds
  <1>1. CASE Engaged(t, r)
    <2>1. CASE taskState[t] = "coding"
      <3>1. ASSUME NEW q \in RunId, Engaged(t, q) PROVE q = r
        BY <1>1, <3>1 DEF Undisturbed, Alone
      <3>2. ~OnTask(t)
        BY <1>1 DEF Undisturbed, Alone
      <3> QED BY <2>1, <3>1, <3>2, HandedOn
    <2>2. CASE taskState[t] = "review" /\ resume["review"][t].pc = "move"
      <3>1. taskState'[t] \in {"review", "coding"}
        BY <2>2 DEF Undisturbed, ReviseKeeps
      <3>2. ReviseMove(t) => taskState'[t] = "coding"
        BY <1>0, <2>2 DEF ReviseMove, MoveTask, Guarded, Takes, TaskEdges, TypeOK
      <3> QED BY <1>0, <2>2, <3>1, <3>2, MoveAwaited
    <2> QED BY <1>1, <2>1, <2>2 DEF Undisturbed, InPlace
  <1>2. CASE ~Engaged(t, r)
    <2>1. CASE SpawnConfirm /\ OnTask(t)
      BY <2>1 DEF SpawnConfirm, rows, Undisturbed, InPlace
    <2>2. ASSUME NEW k \in ResumeKinds, ResumeConfirm(k, t), runState[resume[k][t].run] = "queued"
          PROVE  \/ taskState'[t] = "coding"
                 \/ taskState'[t] = "review" /\ resume'["review"][t].pc = "move"
      <3>1. /\ resume[k][t].pc = "confirm" /\ taskState' = taskState
            /\ AwaitResume(k, t, IF k = "review" THEN "move" ELSE "idle", None)
        BY <2>2 DEF ResumeConfirm, rows
      <3>2. k = "review" => resume'["review"][t].pc = "move"
        BY <1>0, <3>1 DEF AwaitResume, TypeOK
      <3> QED BY <3>1, <3>2 DEF Undisturbed, InPlace, ResumeKinds
    <2> QED BY <1>2, <2>1, <2>2, EngagedBegins
  <1> QED BY <1>1, <1>2

\* The spawn comes to a task by creating its claim's run, and keeps its run to the end.
LEMMA OnTaskWrites ==
  ASSUME TypeOK, [Next]_vars, NEW t \in Task, OnTask(t)'
  PROVE  \/ /\ OnTask(t) /\ spawn'.run = spawn.run /\ ~CreateClaimRun(t)
            /\ spawn'.pc = "claim" => spawn.pc = "claim" /\ ~ClaimTask
         \/ /\ CreateClaimRun(t) /\ spawn'.pc = "claim"
            /\ ~\E k \in ResumeKinds : ResumeCreate(k, t)
  <1>1. spawn' # SpawnIdle
    BY DEF OnTask, SpawnIdle
  <1>2. CASE UNCHANGED spawn
    <2>1. ASSUME spawn.pc = "claim" PROVE ~ClaimTask
      <3>1. ASSUME NEW pc \in {"launch", "rollback"}, spawn' = [spawn EXCEPT !.pc = pc] PROVE FALSE
        BY <1>2, <2>1, <3>1, SpawnNamed
      <3> QED BY <3>1 DEF ClaimTask
    <2> QED BY <1>2, <2>1 DEF OnTask, CreateClaimRun
  <1>3. ASSUME NEW u \in Task, CreateClaimRun(u)
        PROVE  /\ CreateClaimRun(t) /\ spawn'.pc = "claim"
               /\ ~\E k \in ResumeKinds : ResumeCreate(k, t)
    <2>1. spawn.pc = "idle" /\ spawn'.pc = "claim" /\ spawn'.task = u
      BY <1>3 DEF CreateClaimRun
    <2>2. \A k \in ResumeKinds : ResumeCreate(k, t) => spawn' = spawn
      BY DEF ResumeCreate
    <2> QED BY <1>3, <2>1, <2>2 DEF OnTask
  <1>4. CASE /\ spawn.pc # "idle" /\ spawn'.task = spawn.task /\ spawn'.run = spawn.run
             /\ \/ ClaimTask /\ spawn.pc = "claim" /\ spawn'.pc \in {"launch", "rollback"}
                \/ spawn'.pc \in {"confirm", "fail", "failtask"}
    BY <1>4 DEF OnTask, CreateClaimRun
  <1> QED BY <1>1, <1>2, <1>3, <1>4, SpawnWrites

\* A candidate of the pass that is not cancelled is ready.
LEMMA ClaimsReady ==
  ASSUME NEW t \in Task, Undisturbed(t), CreateClaimRun(t)
  PROVE  taskState[t] = "ready" /\ UNCHANGED <<taskState, resume>> /\ CanInsertRun(t)
  BY DEF CreateClaimRun, rows, Undisturbed, LoopInv, ClaimInv, Claimable

\* The task of the spawn is ready until it is claimed, and coding from then on.
LEMMA SpawnInPlace ==
  ASSUME NEW t \in Task, Undisturbed(t), OnTask(t)'
  PROVE  taskState'[t] = IF spawn'.pc = "claim" THEN "ready" ELSE "coding"
  <1>0. TypeOK /\ [Next]_vars /\ ~Restart /\ NoApiCoding
    BY RestartWrites DEF Undisturbed, LoopInv
  <1>1. CASE CreateClaimRun(t) /\ spawn'.pc = "claim"
    BY <1>1, ClaimsReady
  <1>2. CASE OnTask(t) /\ (spawn'.pc = "claim" => spawn.pc = "claim" /\ ~ClaimTask)
    <2>1. CASE spawn.pc = "claim"
      <3>1. taskState[t] = "ready" /\ spawn.task = t
        BY <1>2, <2>1 DEF Undisturbed, InPlace, OnTask
      <3>2. CASE ClaimTask
        <4>1. MoveTask(t, "ready", "coding") /\ <<"ready", "coding">> \in TaskEdges
          BY <3>1, <3>2 DEF ClaimTask, TaskEdges
        <4>2. taskState'[t] = "coding"
          BY <1>0, <3>1, <4>1 DEF MoveTask, Guarded, Takes, TypeOK
        <4> QED BY <1>2, <3>2, <4>2
      <3>3. CASE ~ClaimTask
        <4>1. UNCHANGED spawn
          BY <1>0, <2>1, <3>3, ClaimAwaited
        <4>2. taskState'[t] = "ready"
          BY <1>0, <3>1, <3>3, ReadyStays DEF Undisturbed
        <4> QED BY <2>1, <4>1, <4>2
      <3> QED BY <3>2, <3>3
    <2>2. CASE spawn.pc # "claim"
      <3>1. taskState[t] = "coding" /\ \A r \in RunId : ~Engaged(t, r)
        BY <1>2, <2>2 DEF Undisturbed, InPlace, Alone
      <3>2. taskState'[t] = "coding"
        BY <3>1, HandedOn
      <3> QED BY <1>2, <2>2, <3>2
    <2> QED BY <2>1, <2>2
  <1> QED BY <1>0, <1>1, <1>2, OnTaskWrites

\* The task that a revise verdict resumes is under review.
LEMMA ReviewInPlace ==
  ASSUME NEW t \in Task, Undisturbed(t), resume'["review"][t].pc # "idle"
  PROVE  taskState'[t] = "review"
  <1>0. TypeOK /\ [Next]_vars /\ ~Restart /\ "review" \in ResumeKinds /\ NoApiCoding
    BY RestartWrites DEF Undisturbed, LoopInv, ResumeKinds
  <1>1. ~ReviseMove(t)
    BY <1>0 DEF ReviseMove, AwaitResume, TypeOK
  <1>2. CASE resume'["review"][t] = resume["review"][t]
    <2>1. taskState[t] = "review" /\ taskState'[t] \in {"review", "coding"}
      BY <1>2 DEF Undisturbed, InPlace, ReviseKeeps
    <2> QED BY <1>0, <1>1, <2>1, CodingEntered
  <1>3. CASE ReviseResume(t)
    BY <1>3 DEF ReviseResume, rows
  <1>4. CASE ResumeStep("review", t)
    <2>1. resume["review"][t].pc # "idle" /\ UNCHANGED rows
      BY <1>4 DEF ResumeStep, ResumeCreate, ResumeThrow, ResumeLaunch, ResumeConfirm
    <2> QED BY <2>1 DEF rows, Undisturbed, InPlace
  <1>5. "review" # "human"
    OBVIOUS
  <1> QED BY <1>0, <1>1, <1>2, <1>3, <1>4, <1>5, ResumeTurns

\* A human's resume begins at a task that needs a human.
LEMMA HumanTurns ==
  ASSUME TypeOK, [Next]_vars, ~Restart, NEW t \in Task, resume["human"][t].pc = "idle",
         resume'["human"][t].pc # "idle"
  PROVE  HumanResume(t) /\ taskState[t] = "needs_human" /\ taskState'[t] = "coding"
  <1>1. "human" \in ResumeKinds /\ "review" # "human"
    BY DEF ResumeKinds
  <1>2. ~ResumeStep("human", t)
    BY DEF ResumeStep, ResumeCreate, ResumeThrow, ResumeLaunch, ResumeConfirm
  <1>3. HumanResume(t)
    BY <1>1, <1>2, ResumeTurns
  <1> QED BY <1>3 DEF HumanResume, MoveTask, Guarded, Takes, TaskEdges, TypeOK

\* The task that a human resumes is coding.
LEMMA HumanInPlace ==
  ASSUME NEW t \in Task, Undisturbed(t), resume'["human"][t].pc # "idle"
  PROVE  taskState'[t] = "coding"
  <1>0. TypeOK /\ [Next]_vars /\ ~Restart
    BY RestartWrites DEF Undisturbed, LoopInv
  <1>1. CASE resume["human"][t].pc = "idle"
    BY <1>0, <1>1, HumanTurns
  <1>2. CASE resume["human"][t].pc # "idle"
    <2>1. taskState[t] = "coding" /\ ~OnTask(t) /\ \A r \in RunId : ~Engaged(t, r)
      BY <1>2 DEF Undisturbed, InPlace, Alone
    <2> QED BY <2>1, HandedOn
  <1> QED BY <1>1, <1>2

\* Two active runs of a task are one.
LEMMA OneActive ==
  ASSUME NEW t \in Task, LatestInv, NEW q \in ActiveRuns(t), NEW r \in ActiveRuns(t)
  PROVE  q = r
  <1>1. LatestRun(t, q) /\ LatestRun(t, r) /\ q \in RunId /\ r \in RunId
    BY DEF LatestInv, ActiveIsLatest, ActiveRuns
  <1>2. q <= r /\ r <= q /\ q \in Nat /\ r \in Nat
    BY <1>1 DEF LatestRun, RunId
  <1> QED BY <1>2

\* While a run of the task is at work, or to be dealt with, no resume of it is under way
\* that could start another.
LEMMA NoOtherResume ==
  ASSUME NEW t \in Task, Undisturbed(t), NEW r \in RunId, Engaged(t, r), NEW k \in ResumeKinds
  PROVE  resume[k][t].pc \in {"idle", "move"}
  BY DEF Undisturbed, InPlace, Alone, ResumeKinds

\* No run gets to work beside another.
LEMMA EngagedAlone ==
  ASSUME NEW t \in Task, Undisturbed(t), NEW q \in RunId, NEW r \in RunId,
         Engaged(t, q)', Engaged(t, r)'
  PROVE  q = r
  <1>1. CASE Engaged(t, q) /\ Engaged(t, r)
    BY <1>1 DEF Undisturbed, Alone
  <1>2. ASSUME NEW p \in RunId, NEW n \in RunId, Engaged(t, p), Engaged(t, n)', ~Engaged(t, n)
        PROVE  FALSE
    <2>1. ~OnTask(t)
      BY <1>2 DEF Undisturbed, Alone
    <2>2. PICK k \in ResumeKinds : ResumeConfirm(k, t)
      BY <1>2, <2>1, EngagedBegins
    <2> QED BY <1>2, <2>2, NoOtherResume DEF ResumeConfirm
  <1>3. CASE ~Engaged(t, q) /\ ~Engaged(t, r)
    <2>1. ASSUME NEW p \in RunId, Engaged(t, p)', ~Engaged(t, p) PROVE p \in ActiveRuns(t)
      BY <2>1, EngagedBegins DEF ActiveRuns, ActiveRunStates
    <2> QED BY <1>3, <2>1, OneActive DEF Undisturbed, LoopInv
  <1> QED BY <1>1, <1>2, <1>3

\* Nor beside the spawn or a human's resume.
LEMMA EngagedFree ==
  ASSUME NEW t \in Task, Undisturbed(t), NEW r \in RunId, Engaged(t, r)'
  PROVE  ~OnTask(t)' /\ resume'["human"][t].pc = "idle"
  <1>0. /\ TypeOK /\ [Next]_vars /\ ~Restart
        /\ "review" \in ResumeKinds /\ "human" \in ResumeKinds /\ "review" # "human"
    BY RestartWrites DEF Undisturbed, LoopInv, ResumeKinds
  <1>1. CASE Engaged(t, r)
    <2>1. /\ ~OnTask(t) /\ resume["human"][t].pc = "idle"
          /\ taskState[t] \in {"coding", "review"}
      BY <1>1 DEF Undisturbed, InPlace, Alone
    <2>2. ~OnTask(t)'
      BY <1>0, <2>1, OnTaskWrites, ClaimsReady
    <2>3. resume'["human"][t].pc = "idle"
      BY <1>0, <2>1, HumanTurns
    <2> QED BY <2>2, <2>3
  <1>2. CASE SpawnConfirm /\ OnTask(t) /\ spawn.run = r /\ runState[r] = "queued"
    BY <1>2 DEF SpawnConfirm, OnTask, SpawnIdle, Undisturbed, Alone
  <1>3. ASSUME NEW k \in ResumeKinds, ResumeConfirm(k, t)
        PROVE  ~OnTask(t)' /\ resume'["human"][t].pc = "idle"
    <2>1. /\ resume[k][t].pc = "confirm" /\ spawn' = spawn
          /\ AwaitResume(k, t, IF runState[resume[k][t].run] = "queued" /\ k = "review" THEN "move" ELSE "idle", None)
      BY <1>3 DEF ResumeConfirm
    <2>2. ~OnTask(t)
      BY <2>1 DEF Undisturbed, InPlace, Alone, ResumeKinds
    <2>3. k = "review" => resume["human"][t].pc = "idle"
      BY <2>1 DEF Undisturbed, InPlace
    <2>4. resume'["human"][t].pc = "idle"
      BY <1>0, <2>1, <2>3 DEF AwaitResume, TypeOK, ResumeKinds
    <2> QED BY <2>1, <2>2, <2>4 DEF OnTask
  <1> QED BY <1>1, <1>2, <1>3, EngagedBegins

\* No run becomes active while one of the task is at work or to be dealt with.
LEMMA NoInsertBeside ==
  ASSUME NEW t \in Task, Undisturbed(t), NEW r \in RunId, Engaged(t, r), NEW q \in RunId,
         q \in ActiveRuns(t)'
  PROVE  q \in ActiveRuns(t)
  <1>1. ~CreateClaimRun(t)
    BY ClaimsReady DEF Undisturbed, InPlace
  <1>2. \A k \in ResumeKinds : ~ResumeCreate(k, t)
    BY NoOtherResume DEF ResumeCreate
  <1> QED BY <1>1, <1>2, ActiveBegins DEF Undisturbed, LoopInv

\* A run that is to be dealt with has nobody at work beside it.
LEMMA DueAlone ==
  ASSUME NEW t \in Task, Undisturbed(t), NEW r \in RunId, runTask'[r] = t, Due(r)'
  PROVE  ActiveRuns(t)' = {}
  <1>0. TypeOK /\ RunInv /\ Filed' /\ LatestInv
    BY FiledStep DEF Undisturbed, LoopInv
  <1> SUFFICES ASSUME NEW q \in RunId, q \in ActiveRuns(t)' PROVE FALSE
    BY DEF ActiveRuns
  <1>1. Due(r) \/ Started(r)
    BY DueBegins DEF Undisturbed
  <1>2. runState[r] # "absent"
    BY <1>1 DEF Undisturbed, Due, Filed, Started, ActiveRunStates
  <1>3. runTask[r] = t /\ Engaged(t, r)
    BY <1>0, <1>1, <1>2, RunsStay DEF Undisturbed, Engaged
  <1>4. q \in ActiveRuns(t)
    BY <1>3, NoInsertBeside
  <1>5. Started(r)
    BY <1>1, <1>3, <1>4 DEF Undisturbed, Alone
  <1>6. q = r
    BY <1>0, <1>3, <1>4, <1>5, OneActive DEF ActiveRuns, Started
  <1> QED BY <1>0, <1>6 DEF ActiveRuns, Due, Filed, ActiveRunStates

\* Beside the spawn there is no run of its task but its own.
LEMMA SpawnAlone ==
  ASSUME NEW t \in Task, Undisturbed(t), OnTask(t)'
  PROVE  resume'["human"][t].pc = "idle" /\ ActiveRuns(t)' \subseteq {spawn'.run}
  <1>0. TypeOK /\ [Next]_vars /\ ~Restart
    BY RestartWrites DEF Undisturbed, LoopInv
  <1>1. CASE OnTask(t) /\ spawn'.run = spawn.run /\ ~CreateClaimRun(t)
    <2>1. /\ resume["human"][t].pc = "idle" /\ ActiveRuns(t) \subseteq {spawn.run}
          /\ taskState[t] \in {"ready", "coding"} /\ resume["review"][t].pc = "idle"
      BY <1>1 DEF Undisturbed, InPlace, Alone
    <2>2. resume'["human"][t].pc = "idle"
      BY <1>0, <2>1, HumanTurns
    <2>3. \A k \in ResumeKinds : ~ResumeCreate(k, t)
      BY <2>1 DEF ResumeCreate, ResumeKinds
    <2>4. ASSUME NEW q \in RunId, q \in ActiveRuns(t)' PROVE q = spawn'.run
      <3>1. q \in ActiveRuns(t)
        BY <1>0, <1>1, <2>3, <2>4, ActiveBegins
      <3> QED BY <1>1, <2>1, <3>1
    <2> QED BY <2>2, <2>4 DEF ActiveRuns
  <1>2. CASE CreateClaimRun(t) /\ ~\E k \in ResumeKinds : ResumeCreate(k, t)
    <2>1. taskState[t] = "ready" /\ resume' = resume /\ ActiveRuns(t) = {}
      BY <1>2, ClaimsReady DEF CanInsertRun
    <2>2. resume["human"][t].pc = "idle"
      BY <2>1 DEF Undisturbed, InPlace
    <2>3. ASSUME NEW q \in RunId, q \in ActiveRuns(t)' PROVE q = spawn'.run
      BY <1>0, <1>2, <2>1, <2>3, ActiveBegins
    <2> QED BY <2>1, <2>2, <2>3 DEF ActiveRuns
  <1> QED BY <1>0, <1>1, <1>2, OnTaskWrites

\* Until the first restart every task that is not cancelled is where it belongs, and in one
\* pair of hands.
Peaceful ==
    restarts = 0 =>
        /\ Filed /\ Once
        /\ \A t \in Task : taskState[t] # "cancelled" => InPlace(t) /\ Alone(t)

\* It stays so.
LEMMA PeacefulStep ==
  ASSUME LoopInv, NoApiCoding, ApiCancelsCoding, ReapWins, ReviseKeeps, [Next]_vars, Peaceful
  PROVE  Peaceful'
  <1> SUFFICES ASSUME restarts' = 0 PROVE Peaceful'
    BY DEF Peaceful
  <1>0. TypeOK /\ restarts = 0 /\ ~Restart /\ Filed /\ Once
    BY RestartWrites DEF LoopInv, Peaceful
  <1>1. Filed' /\ Once'
    BY <1>0, FiledStep, OnceStep
  <1>2. ASSUME NEW t \in Task, taskState'[t] # "cancelled" PROVE InPlace(t)' /\ Alone(t)'
    <2>1. taskState[t] # "cancelled"
      BY <1>0, <1>2, CancelledStays
    <2>2. Undisturbed(t)
      BY <1>0, <1>2, <2>1 DEF Undisturbed, Peaceful
    <2>3. InPlace(t)'
      BY <2>2, EngagedInPlace, SpawnInPlace, ReviewInPlace, HumanInPlace DEF InPlace
    <2>4. \A q, r \in RunId : Engaged(t, q)' /\ Engaged(t, r)' => q = r
      BY <2>2, EngagedAlone
    <2>5. Alone(t)'
      BY <2>2, <2>4, EngagedFree, DueAlone, SpawnAlone DEF Alone
    <2> QED BY <2>3, <2>5
  <1> QED BY <1>0, <1>1, <1>2 DEF Peaceful

\* A coding task goes on only when no run of it is at work.
LeftInPeace ==
    \A t \in Task : taskState[t] = "coding" /\ taskState'[t] \notin {"coding", "cancelled"} =>
                      ActiveRuns(t) = {}

\* Whoever takes it on had it in hand.
LEMMA PeaceKept ==
  ASSUME LoopInv, NoApiCoding, ApiCancelsCoding, ReapWins, ReviseKeeps, [Next]_vars, Peaceful,
         restarts' = 0
  PROVE  LeftInPeace
  <1> SUFFICES ASSUME NEW t \in Task, taskState[t] = "coding",
                      taskState'[t] \notin {"coding", "cancelled"}
               PROVE  ActiveRuns(t) = {}
    BY DEF LeftInPeace
  <1>0. TypeOK /\ RunInv /\ restarts = 0 /\ Filed /\ Once /\ Alone(t)
    BY RestartWrites DEF LoopInv, Peaceful
  <1>1. ASSUME NEW r \in RunId, Leaves(t, r) PROVE ActiveRuns(t) = {}
    <2>1. Due(r) /\ runTask[r] = t
      BY <1>0, <1>1, LeaverDone DEF Leaves
    <2> QED BY <1>0, <2>1 DEF Alone
  <1>2. ASSUME SpawnRollbackTask, spawn.task = t PROVE ActiveRuns(t) = {}
    <2>1. /\ spawn.pc = "failtask" /\ ActiveRuns(t) \subseteq {spawn.run}
          /\ runState[spawn.run] \in Unstarted \ {"queued"}
      BY <1>0, <1>2 DEF SpawnRollbackTask, Alone, OnTask, RunInv, SpawnHolds
    <2> QED BY <2>1 DEF ActiveRuns, Unstarted, ActiveRunStates
  <1> QED BY <1>1, <1>2, TaskLeft

\* All of it holds of every behaviour in which nothing comes in the loop's way.
LEMMA PeaceHolds ==
  NoApiCoding /\ ApiCancelsCoding /\ Spec /\ []ReapWins /\ [][ReviseKeeps]_vars => []Peaceful
  <1> SUFFICES ASSUME NoApiCoding, ApiCancelsCoding
               PROVE  Spec /\ []ReapWins /\ [][ReviseKeeps]_vars => []Peaceful
    OBVIOUS
  <1>1. Init => Peaceful
    <2> SUFFICES ASSUME Init PROVE Peaceful
      OBVIOUS
    <2>1. /\ \A r \in RunId : ~CompletionHas(r) /\ ~TriageHas(r) /\ ~Started(r)
          /\ \A i \in Readers : DOMAIN inbox[i] = {}
      BY DEF Init, NothingInFlight, CompletionHas, TriageHas, Posted, InTriage, Reaped, Started,
             ActiveRunStates, CompletionIdle, CompletionSources, Readers, TriageSources
    <2>2. \A t \in Task : InPlace(t) /\ Alone(t)
      BY <2>1 DEF Init, NothingInFlight, SpawnIdle, ResumeIdle, ResumeKinds, InPlace, Alone,
                  Engaged, Due, OnTask
    <2>3. Filed
      BY <2>1 DEF Init, NothingInFlight, Filed, TriageHas, TriageSources
    <2>4. Once
      BY <2>1 DEF Init, NothingInFlight, Once, Posted, Readers
    <2> QED BY <2>2, <2>3, <2>4 DEF Peaceful
  <1>2. UNCHANGED vars => ReviseKeeps
    BY DEF vars, rows, ReviseKeeps
  <1>3. LoopInv /\ ReapWins /\ [Next]_vars /\ [ReviseKeeps]_vars /\ Peaceful => Peaceful'
    BY <1>2, PeacefulStep
  <1>4. Spec => []LoopInv
    BY CodingIsCovered, PTL
  <1> QED BY <1>1, <1>3, <1>4, PTL DEF Spec

\* Until the first restart a coding task goes to review, to a human or back to the board
\* only when no run of it is at work, whatever launches, stops, reaps, reports, resumes and
\* cancels come together, if operators take a task out of coding to cancel it only, if the
\* watchdog fails no run that the budget sweep is reaping, and if a task under review waits
\* for the coder that its verdict resumes.
THEOREM CoderIsLeftInPeace ==
  NoApiCoding /\ ApiCancelsCoding /\ Spec /\ []ReapWins /\ [][ReviseKeeps]_vars =>
      [][restarts' = 0 => LeftInPeace]_vars
  <1> SUFFICES ASSUME NoApiCoding, ApiCancelsCoding
               PROVE  Spec /\ []ReapWins /\ [][ReviseKeeps]_vars =>
                        [][restarts' = 0 => LeftInPeace]_vars
    OBVIOUS
  <1>1. UNCHANGED vars => ReviseKeeps
    BY DEF vars, rows, ReviseKeeps
  <1>2. LoopInv /\ ReapWins /\ Peaceful /\ [Next]_vars /\ [ReviseKeeps]_vars =>
          [restarts' = 0 => LeftInPeace]_vars
    BY <1>1, PeaceKept
  <1>3. Spec => []LoopInv
    BY CodingIsCovered, PTL
  <1>4. Spec /\ []ReapWins /\ [][ReviseKeeps]_vars => []Peaceful
    BY PeaceHolds
  <1> QED BY <1>2, <1>3, <1>4, PTL DEF Spec

\* A step of a triage cancels no task.
LEMMA TriageCancelsNone ==
  ASSUME TypeOK, [Next]_vars, ~Restart, NEW t \in Task, taskState[t] = "coding",
         taskState'[t] = "cancelled"
  PROVE  UNCHANGED triage
  <1>1. ASSUME Triage PROVE FALSE
    <2>1. ASSUME NEW s \in TriageSources, NEW r \in RunId, TriageHuman(s, r) \/ TriageRetry(s, r)
          PROVE  FALSE
      <3>1. ASSUME NEW to \in {"needs_human", "failed"}, MoveTask(runTask[r], "coding", to)
            PROVE  FALSE
        <4>1. taskState'[t] = taskState[t] \/ taskState'[t] = to
          BY ZenonT(60), <3>1, MoveTaskEffect
        <4> QED BY <4>1
      <3>2. \E to \in {"needs_human", "failed"} : MoveTask(runTask[r], "coding", to)
        BY <2>1 DEF TriageHuman, TriageRetry
      <3> QED BY <3>1, <3>2
    <2>2. ASSUME NEW s \in TriageSources, NEW r \in RunId, TriageDemote(s, r) PROVE FALSE
      <3> DEFINE moved == [taskState EXCEPT ![runTask[r]] = "backlog"]
      <3>1. taskState' = taskState \/ taskState' = Recompute(moved, merged)
        BY <2>2 DEF TriageDemote
      <3>2. moved[t] # "cancelled"
        BY DEF TypeOK
      <3> HIDE DEF moved
      <3> QED BY <3>1, <3>2, RecomputeEffect
    <2> QED BY <1>1, <2>1, <2>2 DEF Triage, TriageStep, HookTriage, BudgetTriage, rows
  <1>2. Poll => taskState' = taskState
    BY Frames DEF rows
  <1>3. Boot => UNCHANGED triage
    BY DEF Boot, BootFailTask, StartTriggers, BootCheck
  <1>4. UNCHANGED vars => UNCHANGED triage
    BY DEF vars
  <1> QED BY <1>1, <1>2, <1>3, <1>4, Frames DEF Next

\* ReviewAfterCoder and TriageSparesLiveRun, which the runs find violated: on the same
\* conditions, and on a server that is never restarted, the documents are right.
THEOREM DocumentsKeptUndisturbed ==
  NoApiCoding /\ ApiCancelsCoding /\ MaxRestarts = 0
  /\ Spec /\ []ReapWins /\ [][ReviseKeeps]_vars => ReviewAfterCoder /\ TriageSparesLiveRun
  <1> SUFFICES ASSUME NoApiCoding, ApiCancelsCoding, MaxRestarts = 0
               PROVE  Spec /\ []ReapWins /\ [][ReviseKeeps]_vars =>
                        ReviewAfterCoder /\ TriageSparesLiveRun
    OBVIOUS
  <1> DEFINE Handed == \A t \in Task : taskState[t] = "coding" /\ taskState'[t] = "review" =>
                                         ActiveRuns(t) = {}
             Triaged == \A t \in Task : triage' # triage /\ taskState[t] = "coding"
                                          /\ taskState'[t] # "coding" => ActiveRuns(t) = {}
  <1>1. restarts = 0 /\ TypeOK /\ [Next]_vars => restarts' = 0 /\ ~Restart
    <2>1. ~(restarts = 0 /\ Restart)
      BY DEF Restart
    <2> QED BY <2>1, RestartWrites
  <1>2. Init => restarts = 0
    BY DEF Init
  <1>3. restarts = 0 /\ TypeOK /\ [Next]_vars /\ [restarts' = 0 => LeftInPeace]_vars =>
          [Handed]_vars /\ [Triaged]_vars
    <2>1. ASSUME restarts = 0, TypeOK, [Next]_vars, restarts' = 0 => LeftInPeace
          PROVE  Handed /\ Triaged
      <3>1. LeftInPeace /\ ~Restart
        BY <1>1, <2>1
      <3>2. Handed
        BY <3>1 DEF LeftInPeace
      <3>3. Triaged
        BY <2>1, <3>1, TriageCancelsNone DEF LeftInPeace
      <3> QED BY <3>2, <3>3
    <2> QED BY <2>1
  <1>4. Spec /\ []ReapWins /\ [][ReviseKeeps]_vars => [][restarts' = 0 => LeftInPeace]_vars
    BY CoderIsLeftInPeace
  <1>5. Spec => [](restarts = 0)
    <2>1. restarts = 0 /\ TypeOK /\ [Next]_vars => (restarts = 0)'
      BY <1>1
    <2> QED BY <1>2, <2>1, TypeCorrect, PTL DEF Spec
  <1>6. Spec /\ []ReapWins /\ [][ReviseKeeps]_vars => [][Handed]_vars /\ [][Triaged]_vars
    BY <1>3, <1>4, <1>5, TypeCorrect, PTL DEF Spec
  <1> QED BY <1>6 DEF ReviewAfterCoder, TriageSparesLiveRun

----------------------------------------------------------------------------
(* What the boot recovers *)

\* The completion trigger's boot pass has a run that succeeded: it has yet to look for it,
\* or has it on its list or in a call.
BootHas(r) ==
    \/ phase = "boot"
    \/ r \in bootDue
    \/ completion["boot"].pc # "idle" /\ completion["boot"].run = r

\* A run is at work, or its end is somebody's business, in any life of the server.
Recovered(r) ==
    \/ runState[r] \in ActiveRunStates
    \/ runState[r] = "succeeded" /\ (CompletionHas(r) \/ BootHas(r))
    \/ runState[r] \in {"failed", "killed"} /\ TriageHas(r)
    \/ runState[r] = "killed" /\ SpawnHas(r)
    \/ bootFail = r

\* The latest run of every coding task has signed it, and is taken further.
CodingRecovered ==
    resumes = 0 => \A t \in Task : taskState[t] = "coding" =>
        \E r \in RunId : LatestRun(t, r) /\ claimedBy[t] = r /\ Recovered(r)

\* The boot does not look at the run of a spawn.
SpawnUnseen ==
    spawn.pc # "idle" => bootLeft[spawn.run] = "none" /\ runState[spawn.run] # "interrupted"

\* A restart finds the latest run of every coding task at work or succeeded.
RestartFindsRuns ==
    Restart => \A t \in Task : taskState[t] = "coding" =>
        \E r \in RunId : LatestRun(t, r) /\ runState[r] \in ActiveRunStates \cup {"succeeded"}

\* The boot's list of runs in doubt only gets shorter.
LEMMA LeftShrinks ==
  ASSUME TypeOK, [Next]_vars, ~Restart, NEW r \in RunId
  PROVE  bootLeft'[r] = bootLeft[r] \/ bootLeft'[r] = "none"
  <1>1. CASE Boot
    BY <1>1 DEF Boot, BootFailTask, StartTriggers, BootCheck, TypeOK
  <1>2. CASE Completion
    BY <1>2, Frames
  <1>3. UNCHANGED vars => UNCHANGED bootLeft
    BY DEF vars, boot
  <1> QED BY <1>1, <1>2, <1>3, Frames DEF Next, boot

\* A spawn makes its run after the boot has read the table.
LEMMA SpawnUnseenStep ==
  ASSUME TypeOK, RunInv, SpawnUnseen, [Next]_vars PROVE SpawnUnseen'
  <1> SUFFICES ASSUME spawn'.pc # "idle"
               PROVE  bootLeft'[spawn'.run] = "none" /\ runState'[spawn'.run] # "interrupted"
    BY DEF SpawnUnseen
  <1>0. ~Restart
    BY DEF Restart, SpawnIdle
  <1>1. ASSUME NEW t \in Task, CreateClaimRun(t)
        PROVE  bootLeft'[spawn'.run] = "none" /\ runState'[spawn'.run] # "interrupted"
    <2>1. PICK r \in FreshRuns : InsertRun(t, r) /\ spawn' = [pc |-> "claim", task |-> t, run |-> r]
      BY <1>1 DEF CreateClaimRun
    <2>2. r \in RunId /\ bootLeft[r] = "none" /\ bootLeft' = bootLeft
      BY <1>1, <2>1 DEF FreshRuns, RunInv, RunRows, CreateClaimRun, boot
    <2>3. runState'[r] = "queued"
      BY <2>1, <2>2 DEF InsertRun, TypeOK
    <2> QED BY <2>1, <2>2, <2>3
  <1>2. CASE spawn.pc # "idle" /\ spawn'.run = spawn.run
    <2>1. spawn.run \in RunId /\ bootLeft[spawn.run] = "none" /\ runState[spawn.run] # "interrupted"
      BY <1>2, SpawnNamed DEF SpawnUnseen
    <2>2. ~BootCheck(spawn.run)
      BY <2>1 DEF BootCheck
    <2>3. bootLeft'[spawn.run] = "none"
      BY <1>0, <2>1, LeftShrinks
    <2>4. runState'[spawn.run] # "interrupted"
      BY <2>1, <2>2, Interrupts
    <2> QED BY <1>2, <2>3, <2>4
  <1> QED BY <1>1, <1>2, SpawnWrites DEF SpawnIdle

\* The list of the boot's completions is what its query returned, less what it has begun.
LEMMA DueWrites ==
  ASSUME TypeOK, [Next]_vars, ~Restart
  PROVE  /\ phase' = phase \/ StartTriggers
         /\ bootDue' = bootDue \/ StartTriggers \/ \E r \in RunId : CompleteAtBoot(r)
  <1>1. CASE Boot
    BY <1>1 DEF Boot, BootFailTask, BootCheck, boot
  <1>2. CASE Completion
    BY <1>2, Frames
    DEF Completion, CompleteFromEvent, CompletionPark, CompletionHandoff, CompletionMove, boot
  <1>3. UNCHANGED vars => UNCHANGED <<phase, bootDue>>
    BY DEF vars, boot
  <1> QED BY <1>1, <1>2, <1>3, Frames DEF Next, boot

\* The boot pass keeps a run that succeeded until its task has left coding, or throws.
LEMMA BootKeeps ==
  ASSUME TypeOK, NEW t \in Task, Coding(t), NEW r \in RunId, runTask[r] = t, runTask'[r] = t,
         runState[r] = "succeeded", BootHas(r), "forge" \notin Faults
  PROVE  BootHas(r)'
  <1>0. [Next]_vars /\ ~Restart /\ taskState[t] = "coding" /\ "boot" \in CompletionSources
    BY DEF Coding, CompletionSources
  <1>1. CASE StartTriggers
    <2>1. r \in bootDue'
      BY <1>0, <1>1 DEF StartTriggers, PendingAtBoot
    <2> QED BY <2>1 DEF BootHas
  <1>2. CASE phase = "boot" /\ ~StartTriggers
    <2>1. phase' = "boot"
      BY <1>0, <1>2, DueWrites
    <2> QED BY <2>1 DEF BootHas
  <1>3. CASE r \in bootDue /\ ~StartTriggers
    <2>1. CASE CompleteAtBoot(r)
      <3>1. PICK outcome \in CompletionOutcomes :
              completion' = [completion EXCEPT !["boot"] =
                IF outcome = "throw" THEN CompletionIdle ELSE [pc |-> outcome, run |-> r]]
        BY <2>1 DEF CompleteAtBoot, CompleteRun
      <3>2. outcome \in {"park", "handoff"}
        BY DEF CompletionOutcomes
      <3>3. completion'["boot"] = [pc |-> outcome, run |-> r]
        BY <1>0, <3>1, <3>2 DEF TypeOK
      <3> QED BY <3>2, <3>3 DEF BootHas
    <2>2. CASE ~CompleteAtBoot(r)
      <3>1. r \in bootDue'
        BY <1>0, <1>3, <2>2, DueWrites DEF CompleteAtBoot
      <3> QED BY <3>1 DEF BootHas
    <2> QED BY <2>1, <2>2
  <1>4. CASE completion["boot"].pc # "idle" /\ completion["boot"].run = r
    <2>1. completion'["boot"] = completion["boot"]
      BY <1>0, <1>4, CallKeeps
    <2> QED BY <1>4, <2>1 DEF BootHas
  <1> QED BY <1>1, <1>2, <1>3, <1>4 DEF BootHas

\* The end of a coding task's run is somebody's business, the boot's included.
LEMMA EndIsRecovered ==
  ASSUME LoopInv, Faults \subseteq {"spawn"}, NEW t \in Task, Coding(t), NEW r \in RunId,
         runTask[r] = t, runState[r] \in ActiveRunStates, runState'[r] \notin ActiveRunStates
  PROVE  Recovered(r)'
  <1>0. /\ TypeOK /\ [Next]_vars /\ taskState[t] = "coding"
        /\ "scheduler" \in Readers /\ "completion" \in Readers /\ "budget" \in TriageSources
    BY DEF Coding, LoopInv, Readers, TriageSources
  <1>1. CASE Watchdog(r, "failed") /\ runState'[r] = "failed"
    <2>1. Post("scheduler", r)
      BY <1>1 DEF Watchdog
    <2>2. Posted("scheduler", r)'
      BY <1>0, <2>1, PostArrives
    <2> QED BY <1>1, <2>2 DEF Recovered, TriageHas
  <1>2. CASE (Watchdog(r, "succeeded") \/ GraceFinish(r)) /\ runState'[r] = "succeeded"
    <2>1. Post("completion", r)
      BY <1>2 DEF Watchdog, GraceFinish
    <2>2. Posted("completion", r)'
      BY <1>0, <2>1, PostArrives
    <2> QED BY <1>2, <2>2 DEF Recovered, CompletionHas
  <1>3. CASE RollbackClaim /\ spawn.run = r
    <2>1. spawn.task = t /\ taskState[spawn.task] = "cancelled"
      BY <1>3 DEF RollbackClaim, LoopInv, ClaimInv, RollingBack, RunInv, SpawnHolds
    <2> QED BY <1>0, <2>1
  <1>4. CASE SpawnRollbackRun /\ spawn.run = r /\ runState'[r] = "killed"
    <2>1. spawn.pc # "idle" /\ spawn' = [spawn EXCEPT !.pc = "failtask"]
      BY <1>4 DEF SpawnRollbackRun
    <2>2. spawn'.pc = "failtask" /\ spawn'.run = r
      BY <1>0, <1>4, <2>1, SpawnNamed
    <2> QED BY <1>4, <2>2 DEF Recovered, SpawnHas
  <1>5. CASE ReapRun(r) /\ runState'[r] = "killed"
    <2>1. triage'["budget"][r] = "due"
      BY <1>0, <1>5 DEF ReapRun, SetTriage, TypeOK
    <2> QED BY <1>5, <2>1 DEF Recovered, TriageHas, Reaped
  <1>6. ~StopRun(r)
    BY DEF StopRun
  <1>7. CASE BootCheck(r)
    <2>1. session[r] # "up"
      BY <1>7 DEF BootCheck
    <2>2. runState[r] = bootLeft[r]
      BY <1>7, <2>1 DEF BootCheck, MoveRun, Guarded, Takes, TypeOK
    <2>3. bootFail' = r
      BY <1>7, <2>1, <2>2 DEF BootCheck
    <2> QED BY <2>3 DEF Recovered
  <1> QED BY <1>0, <1>1, <1>2, <1>3, <1>4, <1>5, <1>6, <1>7, RunEnds

\* What is taken further stays so until the task has left coding.
LEMMA RecoveredStays ==
  ASSUME LoopInv, Faults \subseteq {"spawn"}, NEW t \in Task, Coding(t), NEW r \in RunId,
         runTask[r] = t, claimedBy[t] = r, Recovered(r)
  PROVE  Recovered(r)'
  <1>0. TypeOK /\ [Next]_vars /\ ~Restart /\ taskState[t] = "coding" /\ taskState'[t] = "coding"
    BY DEF Coding, LoopInv
  <1>1. CASE runState[r] \in ActiveRunStates
    BY <1>1, EndIsRecovered DEF Recovered
  <1>2. CASE bootFail = r
    <2>1. ~BootFailTask
      <3>1. <<"coding", "failed">> \in TaskEdges
        BY DEF TaskEdges
      <3> QED BY <1>0, <1>2, <3>1, PinnedMoves DEF BootFailTask
    <2>2. r # None
      BY DEF RunId, None
    <2>3. Boot => bootFail' = bootFail
      BY <1>0, <1>2, <2>1, <2>2 DEF Boot, StartTriggers, BootCheck
    <2>4. UNCHANGED vars => bootFail' = bootFail
      BY DEF vars, boot
    <2>5. bootFail' = bootFail
      BY <1>0, <2>3, <2>4, Frames DEF Next, boot
    <2> QED BY <1>2, <2>5 DEF Recovered
  <1>3. CASE runState[r] \in TerminalRunStates
    <2>1. runState[r] \notin ActiveRunStates /\ runState[r] # "absent"
      BY <1>3 DEF ActiveRunStates, TerminalRunStates
    <2>2. runState'[r] = runState[r] /\ runTask'[r] = t
      BY <1>0, <1>3, <2>1, RunsStay
    <2>3. CASE runState[r] = "succeeded" /\ CompletionHas(r)
      BY <1>0, <2>2, <2>3, CompletionKeeps DEF Recovered
    <2>4. CASE runState[r] = "succeeded" /\ BootHas(r)
      BY <1>0, <2>2, <2>4, BootKeeps DEF Recovered
    <2>5. CASE runState[r] \in {"failed", "killed"} /\ TriageHas(r)
      BY <1>0, <2>2, <2>5, TriageKeeps DEF Recovered
    <2>6. CASE runState[r] = "killed" /\ SpawnHas(r)
      BY <1>0, <2>2, <2>6, SpawnKeeps DEF Recovered
    <2> QED BY <1>2, <2>1, <2>3, <2>4, <2>5, <2>6 DEF Recovered
  <1> QED BY <1>1, <1>2, <1>3 DEF Recovered, TerminalRunStates

\* Before the first resume no task is resumed, now or in the step.
LEMMA NothingResumed ==
  ASSUME LoopInv, LatestInv', [Next]_vars, resumes' = 0, NEW t \in Task
  PROVE  resumes = 0 /\ ~Resumed(t)' /\ ~HumanResume(t) /\ ~ReviseMove(t)
  <1>1. TypeOK /\ "human" \in ResumeKinds /\ "review" \in ResumeKinds
    BY DEF LoopInv, ResumeKinds
  <1>2. resumes = 0
    BY <1>1, ResumeWrites DEF TypeOK
  <1>3. resumed' = {} /\ resume["review"][t].pc = "idle"
    BY <1>1, <1>2 DEF LatestInv, ResumesKnown, LoopInv
  <1>4. ~HumanResume(t)
    BY <1>2 DEF HumanResume
  <1> QED BY <1>2, <1>3, <1>4 DEF Resumed, ReviseMove

\* While it is coding, the run that signed a task is its latest.
LEMMA RecoveryStays ==
  ASSUME LoopInv, LatestInv', NoApiCoding, Faults \subseteq {"spawn"}, resumes' = 0,
         NEW t \in Task, Coding(t), NEW r \in RunId, LatestRun(t, r), claimedBy[t] = r, Recovered(r)
  PROVE  LatestRun(t, r)' /\ claimedBy'[t] = r /\ Recovered(r)'
  <1>0. TypeOK /\ RunInv /\ [Next]_vars /\ ~Restart /\ taskState[t] = "coding" /\ runTask[r] = t
    BY DEF Coding, LoopInv, LatestRun
  <1>1. LatestRun(t, r)'
    BY <1>0, NothingResumed, LatestKept
  <1>2. claimedBy'[t] = r
    <2>1. CASE ClaimTask
      <3>1. spawn.pc = "claim" /\ spawn.task \in Task
        BY <2>1, <1>0, SpawnNamed DEF ClaimTask
      <3>2. spawn.task # t
        BY <1>0, <3>1 DEF LoopInv, ClaimInv, Claimable
      <3> QED BY <1>0, <2>1, <3>2 DEF ClaimTask, TypeOK
    <2> QED BY <1>0, <2>1, ClaimWrites
  <1>3. Recovered(r)'
    BY <1>0, RecoveredStays
  <1> QED BY <1>1, <1>2, <1>3

\* Only the claim takes a task into coding, and signs it with its latest run.
LEMMA RecoveryBegins ==
  ASSUME LoopInv, LatestInv', SpawnUnseen, NoApiCoding, [Next]_vars, resumes' = 0, NEW t \in Task,
         taskState[t] # "coding", taskState'[t] = "coding"
  PROVE  \E r \in RunId : LatestRun(t, r)' /\ claimedBy'[t] = r /\ Recovered(r)'
  <1> DEFINE r == spawn.run
  <1>0. TypeOK /\ RunInv /\ ~Resumed(t)' /\ ~Resumed(t)
    <2>1. TypeOK /\ RunInv
      BY DEF LoopInv
    <2> QED BY <2>1, NothingResumed, ResumedStays
  <1>1. ClaimTask /\ t = spawn.task /\ taskState[t] = "ready"
    BY <1>0, NothingResumed, CodingEntered
  <1>2. /\ spawn.pc # "idle" /\ r \in RunId /\ runTask[r] = t
        /\ runState[r] \in {"queued", "killed"}
    BY <1>0, <1>1, SpawnNamed DEF ClaimTask, RunInv, SpawnHolds, Unstarted, SpawnUnseen
  <1>3. /\ UNCHANGED <<runTask, runState, resumed>> /\ spawn' = [spawn EXCEPT !.pc = "launch"]
        /\ claimedBy'[t] = r
    BY <1>0, <1>1 DEF ClaimTask, runRows, TypeOK
  <1>4. spawn'.pc = "launch" /\ spawn'.run = r
    BY <1>0, <1>2, <1>3, SpawnNamed
  <1>5. \A q \in RunId : runTask[q] = t => q <= r
    BY <1>0, <1>1, <1>2 DEF Resumed, LoopInv, LatestInv, SpawnNewest
  <1>6. LatestRun(t, r)'
    BY <1>2, <1>3, <1>5 DEF LatestRun
  <1>7. Recovered(r)'
    BY <1>2, <1>3, <1>4 DEF Recovered, SpawnHas, ActiveRunStates
  <1> QED BY <1>2, <1>3, <1>6, <1>7

\* A restart that finds its runs loses none.
LEMMA RecoveryRestarts ==
  ASSUME LoopInv, CodingRecovered, Restart, RestartFindsRuns PROVE CodingRecovered'
  <1> SUFFICES ASSUME resumes = 0, NEW t \in Task, taskState'[t] = "coding"
               PROVE  \E r \in RunId : LatestRun(t, r)' /\ claimedBy'[t] = r /\ Recovered(r)'
    BY DEF CodingRecovered, Restart
  <1>1. UNCHANGED <<runTask, runState, claimedBy>> /\ phase' = "boot"
    BY DEF Restart
  <1>2. taskState[t] = "coding"
    BY RecomputeEffect DEF Restart
  <1>3. PICK r \in RunId : LatestRun(t, r) /\ claimedBy[t] = r
    BY <1>2 DEF CodingRecovered
  <1>4. PICK q \in RunId : LatestRun(t, q) /\ runState[q] \in ActiveRunStates \cup {"succeeded"}
    BY <1>2 DEF RestartFindsRuns
  <1>5. q = r
    BY <1>3, <1>4 DEF LatestRun, RunId
  <1>6. Recovered(r)'
    BY <1>1, <1>4, <1>5 DEF Recovered, BootHas
  <1> QED BY <1>1, <1>3, <1>6 DEF LatestRun

\* Nobody drops a coding task, whenever the server ends.
LEMMA RecoveredStep ==
  ASSUME LoopInv, LatestInv', NoApiCoding, Faults \subseteq {"spawn"}, SpawnUnseen, CodingRecovered,
         [Next]_vars, RestartFindsRuns
  PROVE  CodingRecovered'
  <1>1. CASE ~Restart
    <2> SUFFICES ASSUME resumes' = 0, NEW t \in Task, taskState'[t] = "coding"
                 PROVE  \E r \in RunId : LatestRun(t, r)' /\ claimedBy'[t] = r /\ Recovered(r)'
      BY DEF CodingRecovered
    <2>1. CASE taskState[t] = "coding"
      <3>1. PICK r \in RunId : LatestRun(t, r) /\ claimedBy[t] = r /\ Recovered(r)
        BY <2>1, NothingResumed DEF CodingRecovered
      <3>2. Coding(t)
        BY <1>1, <2>1 DEF Coding
      <3> QED BY <3>1, <3>2, RecoveryStays
    <2>2. CASE taskState[t] # "coding"
      BY <2>2, RecoveryBegins
    <2> QED BY <2>1, <2>2
  <1>2. CASE Restart
    BY <1>2, RecoveryRestarts
  <1> QED BY <1>1, <1>2

\* BootRecovers, which the run finds violated, holds however often the server ends, if every
\* restart finds the latest run of each coding task at work or succeeded, operators take no
\* task into coding, nothing but launches throws and nothing has been resumed: the boot does
\* recover every run it reads, whose session is there or not, and its completion pass what
\* had succeeded; what it loses are the runs that had failed or been killed before.
THEOREM BootRecoversWhatItReads ==
  NoApiCoding /\ Faults \subseteq {"spawn"} /\ Spec /\ [][RestartFindsRuns]_vars =>
      [](resumes = 0 => BootRecovers)
  <1> SUFFICES ASSUME NoApiCoding, Faults \subseteq {"spawn"}
               PROVE  Spec /\ [][RestartFindsRuns]_vars => [](resumes = 0 => BootRecovers)
    OBVIOUS
  <1>1. Spec => []LoopInv
    BY CodingIsCovered, PTL
  <1>2. Init => SpawnUnseen /\ CodingRecovered
    BY DEF Init, NothingInFlight, SpawnIdle, SpawnUnseen, CodingRecovered
  <1>3. LoopInv /\ SpawnUnseen /\ [Next]_vars => SpawnUnseen'
    BY SpawnUnseenStep DEF LoopInv
  <1>4. LoopInv /\ UNCHANGED vars => RestartFindsRuns
    <2> SUFFICES ASSUME LoopInv, UNCHANGED vars PROVE ~Restart
      BY DEF RestartFindsRuns
    <2>1. restarts \in Nat
      BY DEF LoopInv, TypeOK
    <2>2. restarts' = restarts
      BY DEF vars, counters
    <2> QED BY <2>1, <2>2 DEF Restart
  <1>5. LoopInv /\ LoopInv' /\ SpawnUnseen /\ CodingRecovered /\ [Next]_vars /\ [RestartFindsRuns]_vars
          => CodingRecovered'
    BY <1>4, RecoveredStep DEF LoopInv
  <1>6. Spec => []SpawnUnseen
    BY <1>1, <1>2, <1>3, PTL DEF Spec
  <1>7. Spec /\ [][RestartFindsRuns]_vars => []CodingRecovered
    BY <1>1, <1>2, <1>5, <1>6, PTL DEF Spec
  <1>8. ASSUME LoopInv, CodingRecovered, resumes = 0 PROVE BootRecovers
    <2> SUFFICES ASSUME phase = "up", NEW t \in Task, taskState[t] = "coding" PROVE Attended(t)
      BY DEF BootRecovers, CodingAttended
    <2>1. PICK r \in RunId : LatestRun(t, r) /\ Recovered(r)
      BY <1>8 DEF CodingRecovered
    <2>2. r \in {q \in RunId : runTask[q] = t}
      BY <2>1 DEF LatestRun
    <2>3. CASE runState[r] \in ActiveRunStates
      BY <2>2, <2>3 DEF Attended, ActiveRuns
    <2>4. CASE CompletionHas(r) \/ TriageHas(r) \/ SpawnHas(r)
      BY <1>8, <2>1, <2>4, TakenIsAttended
    <2>5. CASE BootHas(r) \/ bootFail = r
      <3>1. "boot" \in CompletionSources
        BY DEF CompletionSources
      <3> QED BY <2>2, <2>5, <3>1 DEF BootHas, Attended
    <2> QED BY <2>1, <2>3, <2>4, <2>5 DEF Recovered
  <1>9. LoopInv /\ CodingRecovered => (resumes = 0 => BootRecovers)
    BY <1>8
  <1> QED BY <1>1, <1>7, <1>9, PTL

============================================================================
