-------------------------- MODULE ReviewMergeProofs --------------------------
(***************************************************************************)
(* For any bounds, modes and faults of ReviewMerge: the state is well      *)
(* formed, only approved commits are merged, a task in review is attended  *)
(* to unless a round threw, a forced merge needs a race, no coder works on *)
(* what is approved, an approval is on record, and so is a merge.  And the *)
(* task moves on the board as Board allows and as CoderLoopProofs expects. *)
(***************************************************************************)
EXTENDS ReviewMerge, SequenceTheorems, TLAPS

----------------------------------------------------------------------------
(* The invariant in parts *)

ScalarTypes ==
    /\ mode \in {"judge", "harness"} /\ round \in Nat
    /\ commits \in 0 .. MaxCommits /\ head \in Sha
    /\ activeRun \in {"none", "queued", "coder", "reviewer", "orphan"}
    /\ completion \in {"idle", "due", "pushed"}
    /\ prHead \in Sha \cup {NoSha} /\ forgeMerged \in Sha \cup {NoSha}
    /\ ctxCache \in Sha \cup {NoSha}
    /\ marks \subseteq Marks /\ left \in [{"http", "human", "restart"} -> Nat]

MoveTypes ==
    /\ column \in TaskStates
    /\ moves \in Seq({"approved", "forced"}) /\ hookAt \in 0 .. Len(moves)

CallRecords == [pc : CallPcs, round : Nat, sha : Sha \cup {NoSha},
                verdict : {"none", "approved", "revise"}, tries : Nat]

GoodCall(rec) ==
    /\ rec \in CallRecords
    /\ rec.pc \in {"review", "reading", "record"} => rec.sha \in Sha
    /\ rec.pc = "record" => rec.verdict # "none"

CallTypes == calls \in [Callers -> CallRecords] /\ \A c \in Callers : GoodCall(calls[c])

ThreadTypes == due \in [{"boot", "tail"} -> Nat] /\ thread \in Seq(Verdicts)

MergeTypes == merges \in [MergeCallers -> [pc : MergePcs, sha : Sha \cup {NoSha}]]

\* The type invariant is its parts.
LEMMA TypeParts ==
  ReviewMergeTypeOK <=>
    ScalarTypes /\ MoveTypes /\ CallTypes /\ ThreadTypes /\ MergeTypes /\ mergeBoot \in BOOLEAN
  <1>1. CallTypes <=>
          /\ calls \in [Callers -> CallRecords]
          /\ \A c \in Callers :
                /\ calls[c].pc \in {"review", "reading", "record"} => calls[c].sha \in Sha
                /\ calls[c].pc = "record" => calls[c].verdict # "none"
    BY DEF CallTypes, GoodCall
  <1> QED
    BY Zenon, <1>1
    DEF ReviewMergeTypeOK, ScalarTypes, MoveTypes, CallRecords, ThreadTypes, MergeTypes

Parts == /\ ScalarTypes /\ MoveTypes /\ CallTypes /\ ThreadTypes /\ MergeTypes
         /\ mergeBoot \in BOOLEAN

\* Commit 1 is always there, and none of them is "no commit".
LEMMA ShaFacts == 1 \in Sha /\ NoSha \notin Sha /\ Sha \subseteq Nat
  BY ReviewMergeAssumption DEF Sha, NoSha

LEMMA EdgeStates == TaskEdges \subseteq TaskStates \X TaskStates
  BY DEF TaskEdges, TaskStates

----------------------------------------------------------------------------
(* The helpers *)

\* A guarded move leads to a state of a task, and the hook hears of it or not.
LEMMA ShiftTypes ==
  ASSUME MoveTypes, NEW from, NEW to \in TaskStates, NEW actor, Shift(from, to, actor),
         UNCHANGED hookAt
  PROVE  MoveTypes'
  <1> DEFINE H == {"approved", "forced"}
  <1>1. \A e \in H : /\ Append(moves, e) \in Seq(H)
                     /\ Len(Append(moves, e)) = Len(moves) + 1
    BY AppendProperties DEF MoveTypes
  <1>2. Len(moves) \in Nat
    BY LenProperties DEF MoveTypes
  <1>3. moves' = moves \/ \E e \in H : moves' = Append(moves, e)
    BY DEF Shift, Heard
  <1>4. moves' \in Seq(H) /\ Len(moves') \in Nat /\ Len(moves) <= Len(moves')
    <2>1. CASE moves' = moves
      <3>1. moves \in Seq(H)
        BY DEF MoveTypes
      <3> QED BY <1>2, <2>1, <3>1
    <2>2. ASSUME NEW e \in H, moves' = Append(moves, e)
          PROVE  moves' \in Seq(H) /\ Len(moves') \in Nat /\ Len(moves) <= Len(moves')
      <3> HIDE DEF H
      <3>1. moves' \in Seq(H) /\ Len(moves') = Len(moves) + 1
        BY <1>1, <2>2, Zenon
      <3> QED BY <1>2, <3>1
    <2> QED BY <1>3, <2>1, <2>2
  <1>5. column' \in TaskStates
    BY DEF Shift, MoveTypes
  <1> QED BY <1>2, <1>4, <1>5 DEF MoveTypes

LEMMA CallKeeps ==
  ASSUME CallTypes, NEW c \in Callers, NEW rec, GoodCall(rec), Call(c, rec)
  PROVE  CallTypes'
  BY DEF CallTypes, GoodCall, Call

\* The call moves on with what it has.
LEMMA AtIsGood ==
  ASSUME CallTypes, NEW c \in Callers, NEW pc \in CallPcs
  PROVE  /\ At(c, pc) = [pc |-> pc, round |-> calls[c].round, sha |-> calls[c].sha,
                         verdict |-> calls[c].verdict, tries |-> calls[c].tries]
         /\ At(c, pc) \in CallRecords
         /\ pc \notin {"review", "reading", "record"} => GoodCall(At(c, pc))
  <1>1. calls[c] \in CallRecords
    BY DEF CallTypes
  <1> QED BY <1>1 DEF At, CallRecords, GoodCall

LEMMA IdleIsGood == GoodCall(CallIdle)
  BY DEF GoodCall, CallIdle, CallRecords, CallPcs

LEMMA AttemptKeeps ==
  ASSUME MergeTypes, NEW m \in MergeCallers,
         NEW rec \in [pc : MergePcs, sha : Sha \cup {NoSha}], Attempt(m, rec)
  PROVE  MergeTypes'
  BY DEF MergeTypes, Attempt

LEMMA MergeAtTypes ==
  ASSUME MergeTypes, NEW m \in MergeCallers, NEW pc \in MergePcs
  PROVE  /\ MergeAt(m, pc) \in [pc : MergePcs, sha : Sha \cup {NoSha}]
         /\ MergeAt(m, pc).sha = merges[m].sha
  <1>1. merges[m] \in [pc : MergePcs, sha : Sha \cup {NoSha}]
    BY DEF MergeTypes
  <1> QED BY <1>1 DEF MergeAt

LEMMA MergeIdleTypes == MergeIdle \in [pc : MergePcs, sha : Sha \cup {NoSha}]
  BY DEF MergeIdle, MergePcs

----------------------------------------------------------------------------
(* The type invariant, part by part *)

LEMMA InitTypes == ReviewMergeInit => ReviewMergeTypeOK
  <1> SUFFICES ASSUME ReviewMergeInit PROVE Parts
    BY TypeParts DEF Parts
  <1>1. ScalarTypes
    BY ShaFacts, ReviewMergeAssumption DEF ReviewMergeInit, ScalarTypes
  <1>2. MoveTypes
    BY LenProperties DEF ReviewMergeInit, MoveTypes, TaskStates
  <1>3. CallTypes
    BY IdleIsGood DEF ReviewMergeInit, CallTypes, GoodCall
  <1>4. ThreadTypes
    BY DEF ReviewMergeInit, ThreadTypes
  <1>5. MergeTypes
    BY MergeIdleTypes DEF ReviewMergeInit, MergeTypes
  <1>6. mergeBoot \in BOOLEAN
    BY Zenon DEF ReviewMergeInit
  <1> QED BY <1>1, <1>2, <1>3, <1>4, <1>5, <1>6 DEF Parts

\* The moves are guarded ones; the hook advances within what it has been told.
LEMMA MoveStep == ASSUME Parts, [ReviewMergeNext]_reviewMergeVars PROVE MoveTypes'
  <1> USE DEF Parts
  <1>1. CASE UNCHANGED <<column, moves, hookAt>>
    BY <1>1 DEF MoveTypes
  <1>2. CASE UNCHANGED <<column, moves>> /\ (HookApproved \/ HookForced \/ ReviewRestart)
    BY <1>2, LenProperties DEF MoveTypes, HookApproved, HookForced, ReviewRestart
  <1>3. ASSUME HandOff \/ ParkTask PROVE MoveTypes'
    BY <1>3, ShiftTypes DEF HandOff, ParkTask, TaskStates, merging
  <1>4. ASSUME NEW c \in RoundCallers, Approve(c) \/ SendBack(c) \/ Escalate(c) PROVE MoveTypes'
    BY <1>4, ShiftTypes DEF Approve, SendBack, Escalate, EndRound, TaskStates, merging
  <1>5. ASSUME NEW d, NEW to \in {"coding", "merging", "cancelled"}, HumanMove(d, to)
        PROVE  MoveTypes'
    BY <1>5, ShiftTypes DEF HumanMove, TaskStates, merging
  <1>6. ASSUME NEW edge \in OperatorMoves, OperatorMove(edge[1], edge[2]) PROVE MoveTypes'
    BY <1>6, ShiftTypes, EdgeStates, ReviewMergeAssumption DEF OperatorMove, merging
  <1>7. ASSUME NEW m \in MergeCallers, EnterMerging(m) \/ Block(m) \/ Park(m) \/ Confirm(m)
        PROVE  MoveTypes'
    BY <1>7, ShiftTypes DEF EnterMerging, Block, Park, Confirm, TaskStates, MergeStep
  <1>8. ASSUME NEW c \in Callers, Resumes(c)
        PROVE  UNCHANGED <<column, moves, hookAt>>
    BY <1>8 DEF Resumes, CreateResumed, LaunchResumed, RoundStep, Stay, merging
  <1>9. ASSUME NEW c \in RoundCallers, StartRound(c) \/ Continue(c),
               ~(Approve(c) \/ SendBack(c) \/ Escalate(c))
        PROVE  UNCHANGED <<column, moves, hookAt>>
    BY <1>9
    DEF Continue, StartRound, GetDiff, OpenReviewer, CloseReviewer, HarnessVerdict, RecordVerdict,
        BumpRound, RoundStep, Stay, merging
  <1>10. ASSUME Commit \/ CoderEnds \/ PushHead \/ MergeOnBoot
                \/ (\E d \in {"resume_coding", "force_merge", "reject"} : HumanVerdict(d))
                \/ (\E m \in MergeCallers : Preflight(m) \/ CallMerge(m))
         PROVE  UNCHANGED <<column, moves, hookAt>>
    BY <1>10
    DEF Commit, CoderEnds, PushHead, MergeOnBoot, HumanVerdict, Preflight, CallMerge, MergeStep,
        Stay, merging
  <1>11. ASSUME HookApproved \/ HookForced \/ ReviewRestart PROVE UNCHANGED <<column, moves>>
    BY <1>11 DEF HookApproved, HookForced, ReviewRestart, Stay
  <1>12. CASE UNCHANGED reviewMergeVars
    BY <1>1, <1>12 DEF reviewMergeVars, merging
  <1>13. CASE ReconcileOrphan
    BY <1>13, ShiftTypes DEF ReconcileOrphan, TaskStates, merging
  <1> QED
    BY <1>1, <1>2, <1>3, <1>4, <1>5, <1>6, <1>7, <1>8, <1>9, <1>10, <1>11, <1>12, <1>13
    DEF ReviewMergeNext, Coder, Continue, Human, Hook, MergeContinues

\* A call has the commit and the verdict its step needs.
LEMMA CallStep == ASSUME Parts, [ReviewMergeNext]_reviewMergeVars PROVE CallTypes'
  <1> USE DEF Parts
  <1>1. CASE UNCHANGED calls
    BY <1>1 DEF CallTypes, GoodCall
  <1>2. ASSUME NEW c \in RoundCallers, StartRound(c) PROVE CallTypes'
    <2>1. GoodCall([CallIdle EXCEPT !.pc = "diff", !.round = round + 1])
      <3>1. round + 1 \in Nat
        BY DEF ScalarTypes
      <3>2. \A n \in Nat : GoodCall([CallIdle EXCEPT !.pc = "diff", !.round = n])
        <4> SUFFICES ASSUME NEW n \in Nat
                     PROVE  GoodCall([CallIdle EXCEPT !.pc = "diff", !.round = n])
          OBVIOUS
        <4> HIDE DEF Parts
        <4>1. [CallIdle EXCEPT !.pc = "diff", !.round = n] \in CallRecords
          BY DEF CallIdle, CallRecords, CallPcs
        <4>2. [CallIdle EXCEPT !.pc = "diff", !.round = n].pc = "diff"
          BY DEF CallIdle
        <4> QED BY <4>1, <4>2 DEF GoodCall
      <3> QED BY <3>1, <3>2
    <2> DEFINE rec == [CallIdle EXCEPT !.pc = "diff", !.round = round + 1]
    <2>2. Call(c, rec) \/ UNCHANGED calls
      BY <1>2 DEF StartRound
    <2> HIDE DEF rec
    <2> QED BY <1>1, <2>1, <2>2, CallKeeps DEF Callers, rec
  <1>3. ASSUME NEW c \in Callers, RoundThrows(c) \/ Call(c, CallIdle) PROVE CallTypes'
    BY <1>3, IdleIsGood, CallKeeps DEF RoundThrows
  <1>4. ASSUME NEW c \in RoundCallers, GetDiff(c) PROVE CallTypes'
    <2>1. GoodCall([At(c, "review") EXCEPT !.sha = head])
      BY AtIsGood DEF Callers, GoodCall, CallRecords, CallPcs, ScalarTypes
    <2> QED BY <1>3, <1>4, <2>1, CallKeeps DEF GetDiff, Callers
  <1>5. ASSUME NEW c \in RoundCallers, OpenReviewer(c) PROVE CallTypes'
    <2>1. GoodCall(At(c, "reading"))
      BY <1>5, AtIsGood DEF OpenReviewer, Callers, GoodCall, CallRecords, CallPcs, CallTypes
    <2> QED BY <1>3, <1>5, <2>1, CallKeeps DEF OpenReviewer, Callers
  <1>6. ASSUME NEW c \in RoundCallers, CloseReviewer(c) PROVE CallTypes'
    <2>1. calls[c].sha \in Sha /\ calls[c] \in CallRecords
      BY <1>6 DEF CloseReviewer, CallTypes, GoodCall, Callers
    <2>2. GoodCall(At(c, "escalate"))
      BY AtIsGood DEF Callers, CallPcs
    <2>3. \A v \in {"approved", "revise"} : GoodCall([At(c, "record") EXCEPT !.verdict = v])
      BY <2>1, AtIsGood DEF Callers, GoodCall, CallRecords, CallPcs
    <2>4. GoodCall([At(c, "review") EXCEPT !.tries = @ + 1])
      BY <2>1, AtIsGood DEF Callers, GoodCall, CallRecords, CallPcs
    <2>5. \A v \in {"approved", "revise"} : GoodCall(Judged(c, v))
      BY <2>2, <2>3 DEF Judged
    <2> QED BY <1>3, <1>6, <2>2, <2>4, <2>5, CallKeeps DEF CloseReviewer, Callers
  <1>7. ASSUME NEW c \in RoundCallers, HarnessVerdict(c) PROVE CallTypes'
    <2>1. calls[c].sha \in Sha
      BY <1>7 DEF HarnessVerdict, CallTypes, GoodCall, Callers
    <2>2. \A v \in {"approved", "revise"} : GoodCall([At(c, "record") EXCEPT !.verdict = v])
      BY <2>1, AtIsGood DEF Callers, GoodCall, CallRecords, CallPcs
    <2>3. GoodCall(At(c, "escalate"))
      BY AtIsGood DEF Callers, CallPcs
    <2> QED BY <1>7, <2>2, <2>3, CallKeeps DEF HarnessVerdict, Callers
  <1>8. ASSUME NEW c \in RoundCallers, RecordVerdict(c) \/ BumpRound(c) PROVE CallTypes'
    <2>1. \A pc \in {"bump", "approve", "resume", "escalate"} : GoodCall(At(c, pc))
      BY AtIsGood DEF Callers, CallPcs
    <2> QED BY <1>8, <2>1, CallKeeps DEF RecordVerdict, BumpRound, Callers
  <1>9. ASSUME NEW c \in RoundCallers, Approve(c) \/ SendBack(c) \/ Escalate(c) PROVE CallTypes'
    BY <1>3, <1>9 DEF Approve, SendBack, Escalate, EndRound, Callers
  <1>10. ASSUME NEW c \in Callers, Resumes(c) PROVE CallTypes'
    <2>1. GoodCall(At(c, "launch")) /\ GoodCall(At(c, "sendback"))
      BY AtIsGood DEF CallPcs
    <2> QED BY <1>3, <1>10, <2>1, CallKeeps DEF Resumes, CreateResumed, LaunchResumed
  <1>11. ASSUME NEW d \in {"resume_coding", "force_merge", "reject"}, HumanVerdict(d)
         PROVE  CallTypes'
    <2>1. GoodCall([CallIdle EXCEPT !.pc = d])
      BY DEF GoodCall, CallIdle, CallRecords, CallPcs
    <2> QED BY <1>11, <2>1, CallKeeps DEF HumanVerdict, Callers
  <1>12. ASSUME NEW d, NEW to, HumanMove(d, to) PROVE CallTypes'
    <2>1. "human" \in Callers /\ GoodCall(At("human", "resume"))
      BY AtIsGood DEF CallPcs, Callers
    <2> QED BY <1>12, <2>1, CallKeeps, IdleIsGood DEF HumanMove
  <1>13. CASE ReviewRestart
    BY <1>13, IdleIsGood DEF ReviewRestart, CallTypes, GoodCall
  <1>14. ASSUME Coder \/ Hook \/ (\E m \in MergeCallers : MergeContinues(m))
                \/ (\E edge \in OperatorMoves : OperatorMove(edge[1], edge[2]))
                \/ ReconcileOrphan \/ UNCHANGED reviewMergeVars
         PROVE  UNCHANGED calls
    BY <1>14
    DEF Coder, Commit, CoderEnds, PushHead, HandOff, ParkTask, Hook, MergeOnBoot, HookApproved,
        HookForced, MergeContinues, Preflight, EnterMerging, Block, CallMerge, Park, Confirm,
        MergeStep, OperatorMove, ReconcileOrphan, reviewing, reviewMergeVars
  <1> QED
    BY <1>1, <1>2, <1>4, <1>5, <1>6, <1>7, <1>8, <1>9, <1>10, <1>11, <1>12, <1>13, <1>14
    DEF ReviewMergeNext, Continue, Human

\* What is recorded is a verdict about a commit.
LEMMA ThreadStep == ASSUME Parts, [ReviewMergeNext]_reviewMergeVars PROVE ThreadTypes'
  <1> USE DEF Parts
  <1>1. CASE UNCHANGED <<due, thread>>
    BY <1>1 DEF ThreadTypes
  <1>2. ASSUME UNCHANGED thread, NEW k \in {"boot", "tail"}, NEW n \in Nat,
               due' = [due EXCEPT ![k] = n]
        PROVE  ThreadTypes'
    BY <1>2 DEF ThreadTypes
  <1>3. ASSUME NEW c \in RoundCallers, StartRound(c) PROVE ThreadTypes'
    <2>1. UNCHANGED thread
      BY <1>3 DEF StartRound
    <2>2. CASE UNCHANGED due
      BY <1>1, <2>1, <2>2
    <2>3. CASE c \in {"boot", "tail"} /\ due[c] > 0 /\ due' = [due EXCEPT ![c] = @ - 1]
      <3>1. due[c] - 1 \in Nat
        BY <2>3 DEF ThreadTypes
      <3> QED BY <1>2, <2>1, <2>3, <3>1
    <2> QED BY <1>3, <2>2, <2>3 DEF StartRound, Asks, RoundCallers
  <1>4. CASE HandOff
    <2>1. due["tail"] + 1 \in Nat
      BY DEF ThreadTypes
    <2> QED BY <1>1, <1>2, <1>4, <2>1 DEF HandOff
  <1>5. ASSUME NEW edge \in OperatorMoves, OperatorMove(edge[1], edge[2]) PROVE ThreadTypes'
    <2>1. due["tail"] + 1 \in Nat
      BY DEF ThreadTypes
    <2> QED BY <1>1, <1>2, <1>5, <2>1 DEF OperatorMove
  <1>6. ASSUME NEW c \in RoundCallers, RecordVerdict(c) PROVE ThreadTypes'
    <2> DEFINE row == [round |-> calls[c].round, sha |-> calls[c].sha, verdict |-> calls[c].verdict]
    <2>1. calls[c] \in CallRecords /\ calls[c].sha \in Sha /\ calls[c].verdict # "none"
      BY <1>6 DEF RecordVerdict, CallTypes, GoodCall, Callers
    <2>2. row \in Verdicts
      BY <2>1 DEF CallRecords, Verdicts
    <2>3. thread' = thread \/ thread' = Append(thread, row)
      BY <1>6 DEF RecordVerdict
    <2>4. Append(thread, row) \in Seq(Verdicts)
      BY <2>2, AppendProperties DEF ThreadTypes
    <2> QED BY <1>6, <2>3, <2>4 DEF RecordVerdict, ThreadTypes
  <1>7. CASE ReviewRestart
    BY <1>7 DEF ReviewRestart, BootRounds, ThreadTypes
  <1>8. ASSUME NEW c \in RoundCallers, Continue(c), ~RecordVerdict(c)
        PROVE  UNCHANGED <<due, thread>>
    BY <1>8
    DEF Continue, GetDiff, OpenReviewer, CloseReviewer, HarnessVerdict, BumpRound, Approve,
        SendBack, Escalate, EndRound, RoundStep
  <1>9. ASSUME NEW c \in Callers, Resumes(c) PROVE UNCHANGED <<due, thread>>
    BY <1>9 DEF Resumes, CreateResumed, LaunchResumed, RoundStep
  <1>10. ASSUME Commit \/ CoderEnds \/ PushHead \/ ParkTask \/ Hook
                \/ (\E m \in MergeCallers : MergeContinues(m))
                \/ (\E d : HumanVerdict(d)) \/ (\E d, to : HumanMove(d, to))
                \/ ReconcileOrphan \/ UNCHANGED reviewMergeVars
         PROVE  UNCHANGED <<due, thread>>
    BY <1>10
    DEF Commit, CoderEnds, PushHead, ParkTask, Hook, MergeOnBoot, HookApproved, HookForced,
        MergeContinues, Preflight, EnterMerging, Block, CallMerge, Park, Confirm, MergeStep,
        HumanVerdict, HumanMove, ReconcileOrphan, reviewing, reviewMergeVars
  <1> QED
    BY <1>1, <1>3, <1>4, <1>5, <1>6, <1>7, <1>8, <1>9, <1>10
    DEF ReviewMergeNext, Coder, Human

\* A resolved context names a commit that is on the thread, or none.
LEMMA ResolvedSha ==
  ASSUME Parts, NEW sha, LatestApproved(sha)
  PROVE  /\ sha \in Sha \cup {NoSha}
         /\ sha # NoSha => \E i \in DOMAIN thread :
                              thread[i].sha = sha /\ thread[i].verdict = "approved"
  <1>1. \A i \in DOMAIN thread : thread[i] \in Verdicts
    BY ElementOfSeq, LenProperties DEF Parts, ThreadTypes
  <1> QED BY <1>1 DEF LatestApproved, Approvals, Verdicts

\* An attempt carries the commit it was resolved with.
LEMMA MergesStep == ASSUME Parts, [ReviewMergeNext]_reviewMergeVars PROVE MergeTypes'
  <1> USE DEF Parts
  <1>1. CASE UNCHANGED merges
    BY <1>1 DEF MergeTypes
  <1>2. ASSUME NEW m \in MergeCallers, TryAutoMerge(m) PROVE MergeTypes'
    <2>1. ASSUME NEW sha, Resolved(m, sha) PROVE MergeTypes'
      <3>1. [pc |-> IF sha = NoSha THEN "block" ELSE "preflight", sha |-> sha]
              \in [pc : MergePcs, sha : Sha \cup {NoSha}]
        BY <2>1, ResolvedSha DEF Resolved, MergePcs
      <3> QED BY <2>1, <3>1, AttemptKeeps DEF Resolved
    <2> QED BY <1>1, <1>2, <2>1 DEF TryAutoMerge
  <1>3. CASE HookForced
    <2>1. [MergeIdle EXCEPT !.pc = "force"] \in [pc : MergePcs, sha : Sha \cup {NoSha}]
      BY DEF MergeIdle, MergePcs
    <2> QED BY <1>3, <2>1, AttemptKeeps DEF HookForced, MergeCallers
  <1>4. ASSUME NEW m \in MergeCallers, MergeContinues(m) PROVE MergeTypes'
    <2>1. \A pc \in {"enter", "block", "merge", "park", "confirm"} :
             MergeAt(m, pc) \in [pc : MergePcs, sha : Sha \cup {NoSha}]
      BY MergeAtTypes DEF MergePcs
    <2>2. \E rec \in [pc : MergePcs, sha : Sha \cup {NoSha}] : Attempt(m, rec)
      BY <1>4, <2>1, MergeIdleTypes
      DEF MergeContinues, Preflight, EnterMerging, Block, CallMerge, Park, Confirm
    <2> QED BY <2>2, AttemptKeeps
  <1>5. CASE ReviewRestart
    BY <1>5, MergeIdleTypes DEF ReviewRestart, MergeTypes
  <1>6. ASSUME NEW c \in RoundCallers, StartRound(c) \/ Continue(c) PROVE UNCHANGED merges
    BY <1>6
    DEF StartRound, Continue, GetDiff, OpenReviewer, CloseReviewer, HarnessVerdict, RecordVerdict,
        BumpRound, Approve, SendBack, Escalate, EndRound, RoundStep, merging
  <1>7. ASSUME NEW c \in Callers, Resumes(c) PROVE UNCHANGED merges
    BY <1>7 DEF Resumes, CreateResumed, LaunchResumed, RoundStep, merging
  <1>8. ASSUME Coder \/ Human \/ ReconcileOrphan \/ UNCHANGED reviewMergeVars PROVE UNCHANGED merges
    BY <1>8
    DEF Coder, Commit, CoderEnds, PushHead, HandOff, ParkTask, Human, HumanVerdict, HumanMove,
        OperatorMove, ReconcileOrphan, merging, reviewMergeVars
  <1> QED
    BY <1>1, <1>2, <1>3, <1>4, <1>5, <1>6, <1>7, <1>8
    DEF ReviewMergeNext, Hook, MergeOnBoot, HookApproved, MergeCallers

LEMMA BootFlagStep ==
  ASSUME mergeBoot \in BOOLEAN, [ReviewMergeNext]_reviewMergeVars PROVE mergeBoot' \in BOOLEAN
  <1>1. mergeBoot' = mergeBoot \/ mergeBoot' = FALSE \/ mergeBoot' = (column = "approved")
    BY Zenon
    DEF ReviewMergeNext, Coder, Commit, CoderEnds, PushHead, HandOff, ParkTask, StartRound,
        Continue, GetDiff, OpenReviewer, CloseReviewer, HarnessVerdict, RecordVerdict, BumpRound,
        Approve, SendBack, Escalate, EndRound, RoundStep, Resumes, CreateResumed, LaunchResumed,
        Human, HumanVerdict, HumanMove, OperatorMove, Hook, MergeOnBoot, HookApproved, HookForced,
        MergeContinues, Preflight, EnterMerging, Block, CallMerge, Park, Confirm, MergeStep,
        ReviewRestart, ReconcileOrphan, merging, reviewMergeVars
  <1> QED BY Zenon, <1>1

\* Every action marks what is listed in Marks, or nothing; a mark stays.
LEMMA MarksStep ==
  ASSUME Parts, [ReviewMergeNext]_reviewMergeVars
  PROVE  marks \subseteq marks' /\ marks' \subseteq Marks
  <1> DEFINE Remembers == marks \subseteq marks' /\ marks' \subseteq Marks
  <1>0. marks \subseteq Marks
    BY DEF Parts, ScalarTypes
  <1>1. ASSUME NEW c \in RoundCallers, StartRound(c) \/ Continue(c)
        PROVE  Remembers
    BY <1>0, <1>1
    DEF StartRound, Continue, GetDiff, OpenReviewer, CloseReviewer, HarnessVerdict, RecordVerdict,
        BumpRound, Approve, SendBack, Escalate, EndRound, RoundThrows, Mark, Marks
  <1>2. ASSUME NEW c \in Callers, Resumes(c)
        PROVE  Remembers
    BY <1>0, <1>2 DEF Resumes, CreateResumed, LaunchResumed, RoundThrows, Mark, Marks
  <1>3. ASSUME Coder \/ Human \/ ReconcileOrphan \/ UNCHANGED reviewMergeVars
        PROVE  Remembers
    BY <1>0, <1>3
    DEF Coder, Commit, CoderEnds, PushHead, HandOff, ParkTask, Human, HumanVerdict, HumanMove,
        OperatorMove, ReconcileOrphan, Mark, Marks, reviewMergeVars
  <1>4. ASSUME Hook \/ (\E m \in MergeCallers : MergeContinues(m))
        PROVE  Remembers
    BY <1>0, <1>4
    DEF Hook, MergeOnBoot, HookApproved, HookForced, TryAutoMerge, Resolved, MergeContinues,
        Preflight, EnterMerging, Block, CallMerge, Park, Confirm, Mark, Marks
  <1>5. ASSUME ReviewRestart PROVE Remembers
    BY <1>0, <1>5 DEF ReviewRestart, Torn, Mark, Marks
  <1> QED BY <1>1, <1>2, <1>3, <1>4, <1>5 DEF ReviewMergeNext

LEMMA LeftStep ==
  ASSUME Parts, [ReviewMergeNext]_reviewMergeVars
  PROVE  left' \in [{"http", "human", "restart"} -> Nat]
  <1> DEFINE Kinds == {"http", "human", "restart"}
  <1>1. left \in [Kinds -> Nat]
    BY DEF Parts, ScalarTypes
  <1>2. ASSUME NEW k \in Kinds, Spend(k) PROVE left' \in [Kinds -> Nat]
    BY <1>1, <1>2 DEF Spend
  <1>3. UNCHANGED left \/ \E k \in Kinds : Spend(k)
    <2>1. ASSUME NEW c \in RoundCallers, StartRound(c) PROVE UNCHANGED left \/ Spend("http")
      BY <2>1 DEF StartRound, Asks
    <2>2. ASSUME NEW c \in RoundCallers, Continue(c) PROVE UNCHANGED left
      BY <2>2
      DEF Continue, GetDiff, OpenReviewer, CloseReviewer, HarnessVerdict, RecordVerdict,
          BumpRound, Approve, SendBack, Escalate, EndRound, RoundStep
    <2>3. ASSUME NEW c \in Callers, Resumes(c) PROVE UNCHANGED left
      BY <2>3 DEF Resumes, CreateResumed, LaunchResumed, RoundStep
    <2>4. ASSUME Coder \/ Human PROVE UNCHANGED left \/ Spend("human")
      BY <2>4
      DEF Coder, Commit, CoderEnds, PushHead, HandOff, ParkTask, Human, HumanVerdict, HumanMove,
          OperatorMove
    <2>5. ASSUME Hook \/ \E m \in MergeCallers : MergeContinues(m) PROVE UNCHANGED left
      BY <2>5
      DEF Hook, MergeOnBoot, HookApproved, HookForced, MergeContinues, Preflight, EnterMerging,
          Block, CallMerge, Park, Confirm, MergeStep
    <2>6. ASSUME ReviewRestart PROVE Spend("restart")
      BY <2>6 DEF ReviewRestart
    <2>7. CASE ReconcileOrphan \/ UNCHANGED reviewMergeVars
      BY <2>7 DEF ReconcileOrphan, reviewMergeVars
    <2> QED BY <2>1, <2>2, <2>3, <2>4, <2>5, <2>6, <2>7 DEF ReviewMergeNext
  <1> QED BY <1>1, <1>2, <1>3

WorkTypes ==
    /\ mode \in {"judge", "harness"} /\ round \in Nat
    /\ commits \in 0 .. MaxCommits /\ head \in Sha
    /\ activeRun \in {"none", "queued", "coder", "reviewer", "orphan"}
    /\ completion \in {"idle", "due", "pushed"}

\* The coder's side: commits are numbered in the order they are made.
LEMMA WorkStep == ASSUME Parts, [ReviewMergeNext]_reviewMergeVars PROVE WorkTypes'
  <1>1. WorkTypes
    BY DEF WorkTypes, Parts, ScalarTypes
  <1> USE <1>1 DEF WorkTypes, work, reviewing
  <1>2. CASE Commit
    BY <1>2, ReviewMergeAssumption DEF Commit, Sha
  <1>3. CASE CoderEnds \/ PushHead \/ HandOff \/ ParkTask
    BY <1>3 DEF CoderEnds, PushHead, HandOff, ParkTask
  <1>4. ASSUME NEW c \in RoundCallers, BumpRound(c) PROVE WorkTypes'
    <2>1. calls[c].round \in Nat
      BY DEF Parts, CallTypes, CallRecords, Callers
    <2> QED BY <1>4, <2>1 DEF BumpRound
  <1>5. ASSUME NEW c \in RoundCallers, StartRound(c) \/ Continue(c), ~BumpRound(c)
        PROVE  WorkTypes'
    BY <1>5
    DEF StartRound, Continue, GetDiff, OpenReviewer, CloseReviewer, HarnessVerdict, RecordVerdict,
        Approve, SendBack, Escalate, EndRound, RoundStep
  <1>6. ASSUME NEW c \in Callers, Resumes(c) PROVE WorkTypes'
    BY <1>6, ShaFacts DEF Resumes, CreateResumed, LaunchResumed, RoundStep
  <1>7. CASE Human \/ UNCHANGED reviewMergeVars
    BY <1>7 DEF Human, HumanVerdict, HumanMove, OperatorMove, reviewMergeVars
  <1>8. ASSUME Hook \/ \E m \in MergeCallers : MergeContinues(m) PROVE WorkTypes'
    BY <1>8
    DEF Hook, MergeOnBoot, HookApproved, HookForced, MergeContinues, Preflight, EnterMerging,
        Block, CallMerge, Park, Confirm, MergeStep
  <1>9. CASE ReviewRestart \/ ReconcileOrphan
    BY <1>9 DEF ReviewRestart, ReconcileOrphan
  <1> QED
    BY <1>2, <1>3, <1>4, <1>5, <1>6, <1>7, <1>8, <1>9 DEF ReviewMergeNext, Coder

ForgeTypes ==
    /\ prHead \in Sha \cup {NoSha} /\ forgeMerged \in Sha \cup {NoSha}
    /\ ctxCache \in Sha \cup {NoSha}

\* The forge and the cached context, which only a push and the merge change.
LEMMA ForgeStep == ASSUME Parts, [ReviewMergeNext]_reviewMergeVars PROVE ForgeTypes'
  <1>1. ForgeTypes
    BY DEF ForgeTypes, Parts, ScalarTypes
  <1> USE <1>1 DEF ForgeTypes, forge, merging
  <1>2. CASE PushHead
    BY <1>2 DEF PushHead, Parts, ScalarTypes
  <1>3. CASE Commit \/ CoderEnds \/ HandOff \/ ParkTask \/ UNCHANGED reviewMergeVars
    BY <1>3 DEF Commit, CoderEnds, HandOff, ParkTask, reviewMergeVars
  <1>4. ASSUME NEW c \in RoundCallers, StartRound(c) \/ Continue(c) PROVE ForgeTypes'
    BY <1>4
    DEF StartRound, Continue, GetDiff, OpenReviewer, CloseReviewer, HarnessVerdict, RecordVerdict,
        BumpRound, Approve, SendBack, Escalate, EndRound, RoundStep
  <1>5. ASSUME NEW c \in Callers, Resumes(c) PROVE ForgeTypes'
    BY <1>5 DEF Resumes, CreateResumed, LaunchResumed, RoundStep
  <1>6. CASE Human
    BY <1>6 DEF Human, HumanVerdict, HumanMove, OperatorMove
  <1>7. CASE Hook
    BY <1>7 DEF Hook, MergeOnBoot, HookApproved, HookForced, TryAutoMerge
  <1>8. ASSUME NEW m \in MergeCallers, MergeContinues(m) PROVE ForgeTypes'
    <2>1. merges[m].sha \in Sha \cup {NoSha}
      BY DEF Parts, MergeTypes
    <2> QED
      BY <1>8, <2>1
      DEF MergeContinues, Preflight, EnterMerging, Block, CallMerge, Park, Confirm
  <1>9. CASE ReviewRestart \/ ReconcileOrphan
    BY <1>9 DEF ReviewRestart, ReconcileOrphan
  <1> QED
    BY <1>2, <1>3, <1>4, <1>5, <1>6, <1>7, <1>8, <1>9 DEF ReviewMergeNext, Coder

LEMMA PartsAreTypes == Parts <=> ReviewMergeTypeOK
  BY TypeParts DEF Parts

LEMMA PartsStep == Parts /\ [ReviewMergeNext]_reviewMergeVars => Parts'
  <1> SUFFICES ASSUME Parts, [ReviewMergeNext]_reviewMergeVars PROVE Parts'
    OBVIOUS
  <1>1. ScalarTypes'
    BY WorkStep, ForgeStep, MarksStep, LeftStep DEF ScalarTypes, WorkTypes, ForgeTypes
  <1>2. mergeBoot' \in BOOLEAN
    BY BootFlagStep DEF Parts
  <1> QED BY <1>1, <1>2, MoveStep, CallStep, ThreadStep, MergesStep DEF Parts

LEMMA PartsHold == ReviewMergeSpec => []Parts
  <1>1. ReviewMergeInit => Parts
    BY InitTypes, PartsAreTypes
  <1> QED BY <1>1, PartsStep, PTL DEF ReviewMergeSpec

\* The state of the review and the merge is well formed, and a verdict under way
\* names the commit it is about.
THEOREM ReviewMergeTypeCorrect == ReviewMergeSpec => []ReviewMergeTypeOK
  BY PartsHold, PartsAreTypes, PTL

----------------------------------------------------------------------------
(* What is merged was approved *)

Approved(sha) == \E i \in DOMAIN thread : thread[i].sha = sha /\ thread[i].verdict = "approved"

\* A commit on its way to the forge was approved when it set out, and the thread
\* forgets nothing.
Covered ==
    /\ ctxCache # NoSha => Approved(ctxCache)
    /\ \A m \in MergeCallers : merges[m].sha # NoSha => Approved(merges[m].sha)
    /\ forgeMerged # NoSha => Approved(forgeMerged)

LEMMA ThreadGrows ==
  ASSUME Parts, [ReviewMergeNext]_reviewMergeVars, NEW sha, Approved(sha) PROVE Approved(sha)'
  <1>1. CASE UNCHANGED thread
    BY <1>1 DEF Approved
  <1>2. ASSUME NEW c \in RoundCallers, RecordVerdict(c) PROVE Approved(sha)'
    <2> DEFINE row == [round |-> calls[c].round, sha |-> calls[c].sha, verdict |-> calls[c].verdict]
    <2>1. calls[c] \in CallRecords /\ calls[c].sha \in Sha /\ calls[c].verdict # "none"
      BY <1>2 DEF RecordVerdict, Parts, CallTypes, GoodCall, Callers
    <2>2. row \in Verdicts /\ thread \in Seq(Verdicts)
      BY <2>1 DEF CallRecords, Verdicts, Parts, ThreadTypes
    <2>3. thread' = thread \/ thread' = Append(thread, row)
      BY <1>2 DEF RecordVerdict
    <2>4. /\ DOMAIN thread = 1 .. Len(thread) /\ Len(thread) \in Nat
          /\ DOMAIN Append(thread, row) = 1 .. Len(thread) + 1
          /\ \A i \in 1 .. Len(thread) : Append(thread, row)[i] = thread[i]
      BY <2>2, AppendProperties, LenProperties
    <2> HIDE DEF row
    <2> QED BY <2>3, <2>4 DEF Approved
  <1>3. ASSUME NEW c \in RoundCallers, StartRound(c) \/ Continue(c), ~RecordVerdict(c)
        PROVE  UNCHANGED thread
    BY <1>3
    DEF StartRound, Continue, GetDiff, OpenReviewer, CloseReviewer, HarnessVerdict, BumpRound,
        Approve, SendBack, Escalate, EndRound, RoundStep
  <1>4. ASSUME NEW c \in Callers, Resumes(c) PROVE UNCHANGED thread
    BY <1>4 DEF Resumes, CreateResumed, LaunchResumed, RoundStep
  <1>5. ASSUME Coder \/ Human \/ ReviewRestart \/ ReconcileOrphan \/ UNCHANGED reviewMergeVars
        PROVE  UNCHANGED thread
    BY <1>5
    DEF Coder, Commit, CoderEnds, PushHead, HandOff, ParkTask, Human, HumanVerdict, HumanMove,
        OperatorMove, ReviewRestart, ReconcileOrphan, reviewing, reviewMergeVars
  <1>6. ASSUME Hook \/ \E m \in MergeCallers : MergeContinues(m) PROVE UNCHANGED thread
    BY <1>6
    DEF Hook, MergeOnBoot, HookApproved, HookForced, MergeContinues, Preflight, EnterMerging,
        Block, CallMerge, Park, Confirm, MergeStep, reviewing
  <1> QED BY <1>1, <1>2, <1>3, <1>4, <1>5, <1>6 DEF ReviewMergeNext

\* Whatever is cached, under way or merged after a step was so before it, or an
\* approved head that it was resolved to.
LEMMA CoveredStep == Parts /\ Covered /\ [ReviewMergeNext]_reviewMergeVars => Covered'
  <1> SUFFICES ASSUME Parts, Covered, [ReviewMergeNext]_reviewMergeVars PROVE Covered'
    OBVIOUS
  <1> DEFINE Known(sha) == sha = NoSha \/ Approved(sha)
  <1>1. /\ Known(ctxCache) /\ Known(forgeMerged)
        /\ \A m \in MergeCallers : Known(merges[m].sha)
    BY DEF Covered
  <1>2. \A sha : Known(sha) => sha = NoSha \/ Approved(sha)'
    BY ThreadGrows
  <1> HIDE DEF Known
  <1> DEFINE Fine == /\ Known(ctxCache') /\ Known(forgeMerged')
                     /\ \A m \in MergeCallers : Known(merges'[m].sha)
  <1>3. SUFFICES Fine
    BY <1>2 DEF Covered
  <1>4. Known(NoSha) /\ \A sha : LatestApproved(sha) => Known(sha)
    BY ResolvedSha DEF Known, Approved
  <1>5. merges \in [MergeCallers -> [pc : MergePcs, sha : Sha \cup {NoSha}]]
    BY DEF Parts, MergeTypes
  <1>6. CASE UNCHANGED <<merges, ctxCache, forgeMerged>>
    BY <1>1, <1>6
  <1>7. ASSUME NEW m \in MergeCallers, NEW rec, Attempt(m, rec), Known(rec.sha)
        PROVE  \A k \in MergeCallers : Known(merges'[k].sha)
    BY <1>1, <1>5, <1>7 DEF Attempt
  <1>8. ASSUME NEW m \in MergeCallers, TryAutoMerge(m), UNCHANGED forgeMerged PROVE Fine
    <2>1. ASSUME NEW sha, Resolved(m, sha), ctxCache' = NoSha PROVE Fine
      <3> DEFINE rec == [pc |-> IF sha = NoSha THEN "block" ELSE "preflight", sha |-> sha]
      <3>1. Attempt(m, rec) /\ rec.sha = sha /\ Known(sha)
        BY <1>4, <2>1 DEF Resolved
      <3> HIDE DEF rec
      <3> QED BY <1>1, <1>4, <1>7, <1>8, <2>1, <3>1
    <2> QED BY <1>6, <1>8, <2>1 DEF TryAutoMerge
  <1>9. ASSUME MergeOnBoot \/ HookApproved PROVE Fine
    BY <1>8, <1>9 DEF MergeOnBoot, HookApproved, MergeCallers, forge
  <1>10. ASSUME HookForced PROVE Fine
    <2>1. [MergeIdle EXCEPT !.pc = "force"].sha = NoSha
      BY DEF MergeIdle
    <2> QED BY <1>1, <1>4, <1>7, <1>10, <2>1 DEF HookForced, MergeCallers, forge
  <1>11. ASSUME NEW m \in MergeCallers, MergeContinues(m) PROVE Fine
    <2>1. \A pc \in MergePcs : MergeAt(m, pc).sha = merges[m].sha
      BY MergeAtTypes DEF Parts
    <2>2. Known(MergeIdle.sha) /\ \A pc \in MergePcs : Known(MergeAt(m, pc).sha)
      BY <1>1, <1>4, <2>1 DEF MergeIdle
    <2>3. \A k \in MergeCallers : Known(merges'[k].sha)
      BY <1>7, <1>11, <2>2
      DEF MergeContinues, Preflight, EnterMerging, Block, CallMerge, Park, Confirm, MergePcs
    <2>4. Known(ctxCache')
      BY <1>1, <1>4, <1>11
      DEF MergeContinues, Preflight, EnterMerging, Block, CallMerge, Park, Confirm
    <2>5. Known(forgeMerged')
      BY <1>1, <1>11
      DEF MergeContinues, Preflight, EnterMerging, Block, CallMerge, Accepts, Park, Confirm, forge
    <2> QED BY <2>3, <2>4, <2>5
  <1>12. ASSUME ReviewRestart PROVE Fine
    BY <1>1, <1>4, <1>12 DEF ReviewRestart, MergeIdle, forge
  <1>13. ASSUME NEW c \in RoundCallers, StartRound(c) \/ Continue(c) PROVE Fine
    BY <1>6, <1>13
    DEF StartRound, Continue, GetDiff, OpenReviewer, CloseReviewer, HarnessVerdict, RecordVerdict,
        BumpRound, Approve, SendBack, Escalate, EndRound, RoundStep, merging, forge
  <1>14. ASSUME NEW c \in Callers, Resumes(c) PROVE Fine
    BY <1>6, <1>14 DEF Resumes, CreateResumed, LaunchResumed, RoundStep, merging, forge
  <1>15. ASSUME Coder \/ Human \/ ReconcileOrphan \/ UNCHANGED reviewMergeVars PROVE Fine
    BY <1>6, <1>15
    DEF Coder, Commit, CoderEnds, PushHead, HandOff, ParkTask, Human, HumanVerdict, HumanMove,
        OperatorMove, ReconcileOrphan, merging, forge, reviewMergeVars
  <1> HIDE DEF Fine
  <1> QED
    BY <1>9, <1>10, <1>11, <1>12, <1>13, <1>14, <1>15 DEF ReviewMergeNext, Hook

\* MergedIsApproved: for any number of rounds, commits, restarts and overlapping
\* attempts, the forge merges nothing but a commit some review approved.
THEOREM OnlyApprovedIsMerged == ReviewMergeSpec => []MergedIsApproved
  <1>1. ReviewMergeInit => Covered
    BY DEF ReviewMergeInit, Covered, MergeIdle
  <1>2. Covered => MergedIsApproved
    BY DEF Covered, Approved, MergedIsApproved
  <1> QED BY <1>1, <1>2, CoveredStep, PartsHold, PTL DEF ReviewMergeSpec

----------------------------------------------------------------------------
(* A task in review is attended to *)

\* Every step keeps a round coming while the task is in review, or throws.
LEMMA AttendedStep ==
  Parts /\ ReviewIsAttended /\ [ReviewMergeNext]_reviewMergeVars => ReviewIsAttended'
  <1> SUFFICES ASSUME Parts, ReviewIsAttended, [ReviewMergeNext]_reviewMergeVars
               PROVE  ReviewIsAttended'
    OBVIOUS
  <1>1. marks \subseteq marks'
    BY MarksStep
  <1>2. /\ due \in [{"boot", "tail"} -> Nat] /\ calls \in [Callers -> CallRecords]
        /\ RoundCallers \subseteq Callers
    BY DEF Parts, ThreadTypes, CallTypes, Callers
  <1>3. CASE /\ UNCHANGED due /\ \A c \in RoundCallers : calls'[c] = calls[c]
             /\ column' = column \/ column' # "review"
    BY <1>1, <1>3 DEF ReviewIsAttended, RoundIsComing
  <1>4. ASSUME NEW c \in RoundCallers, calls'[c].pc # "idle" PROVE ReviewIsAttended'
    BY <1>4 DEF ReviewIsAttended, RoundIsComing
  <1>5. CASE column' # "review" \/ "threw" \in marks' \/ due'["tail"] > 0 \/ due'["boot"] > 0
    BY <1>5 DEF ReviewIsAttended, RoundIsComing
  <1>6. ASSUME NEW c \in Callers, RoundThrows(c) PROVE "threw" \in marks'
    BY <1>6 DEF RoundThrows, Mark
  <1>7. ASSUME NEW c \in RoundCallers, NEW pc \in CallPcs \ {"idle"},
               \E rec : Call(c, rec) /\ rec.pc = pc
        PROVE  ReviewIsAttended'
    BY <1>2, <1>4, <1>7 DEF Call
  <1>8. \A c \in Callers, pc \in CallPcs : At(c, pc).pc = pc
    BY AtIsGood DEF Parts
  <1>9. ASSUME NEW c \in RoundCallers, StartRound(c) PROVE ReviewIsAttended'
    <2>1. CASE column = "review"
      <3>1. [CallIdle EXCEPT !.pc = "diff", !.round = round + 1].pc = "diff"
        BY DEF CallIdle
      <3>2. Call(c, [CallIdle EXCEPT !.pc = "diff", !.round = round + 1])
        BY <1>9, <2>1 DEF StartRound
      <3> QED BY <1>7, <3>1, <3>2 DEF CallPcs
    <2>2. CASE column # "review"
      BY <1>5, <1>9, <2>2 DEF StartRound, Stay
    <2> QED BY <2>1, <2>2
  <1>10. ASSUME NEW c \in RoundCallers, GetDiff(c) PROVE ReviewIsAttended'
    <2>1. [At(c, "review") EXCEPT !.sha = head].pc = "review"
      BY <1>2, <1>8 DEF At, CallPcs, CallRecords
    <2> QED BY <1>2, <1>5, <1>6, <1>7, <1>10, <2>1 DEF GetDiff, CallPcs
  <1>11. ASSUME NEW c \in RoundCallers, OpenReviewer(c) \/ CreateResumed(c) PROVE ReviewIsAttended'
    BY <1>2, <1>5, <1>6, <1>7, <1>8, <1>11 DEF OpenReviewer, CreateResumed, CallPcs
  <1>12. ASSUME NEW c \in RoundCallers, CloseReviewer(c) \/ HarnessVerdict(c)
         PROVE  ReviewIsAttended'
    <2>1. /\ \A v : [At(c, "record") EXCEPT !.verdict = v].pc = "record"
          /\ [At(c, "review") EXCEPT !.tries = @ + 1].pc = "review"
          /\ At(c, "escalate").pc = "escalate"
      BY <1>2, <1>8 DEF At, CallPcs, CallRecords
    <2>2. \A v : Judged(c, v).pc \in {"record", "escalate"}
      BY <2>1 DEF Judged
    <2> QED
      BY <1>2, <1>5, <1>6, <1>7, <1>12, <2>1, <2>2 DEF CloseReviewer, HarnessVerdict, CallPcs
  <1>13. ASSUME NEW c \in RoundCallers, RecordVerdict(c) \/ BumpRound(c) PROVE ReviewIsAttended'
    BY <1>2, <1>7, <1>8, <1>13 DEF RecordVerdict, BumpRound, CallPcs
  <1>14. ASSUME NEW c \in RoundCallers, Approve(c) \/ SendBack(c) \/ Escalate(c)
         PROVE  column' # "review"
    BY <1>14 DEF Approve, SendBack, Escalate, EndRound, Shift, Wins, TaskEdges
  <1>15. ASSUME NEW c \in RoundCallers, LaunchResumed(c) PROVE ReviewIsAttended'
    <2>1. c # "human"
      BY DEF RoundCallers
    <2> QED
      BY <1>2, <1>5, <1>6, <1>7, <1>8, <1>15, <2>1 DEF LaunchResumed, CallPcs
  <1>16. ASSUME NEW rec, Call("human", rec), UNCHANGED due, column' = column \/ column' # "review"
         PROVE  ReviewIsAttended'
    BY <1>2, <1>3, <1>16 DEF Call, RoundCallers
  <1>17. ASSUME Resumes("human") PROVE ReviewIsAttended'
    BY <1>5, <1>6, <1>16, <1>17
    DEF Resumes, CreateResumed, LaunchResumed, RoundStep, Stay, Callers
  <1>18. ASSUME NEW d, HumanVerdict(d) PROVE ReviewIsAttended'
    BY <1>16, <1>18 DEF HumanVerdict, Stay
  <1>19. ASSUME NEW d, NEW to \in {"coding", "merging", "cancelled"}, HumanMove(d, to)
         PROVE  ReviewIsAttended'
    BY <1>16, <1>19 DEF HumanMove, Shift
  <1>20. ASSUME HandOff \/ (\E edge \in OperatorMoves : OperatorMove(edge[1], edge[2]))
         PROVE  ReviewIsAttended'
    <2>1. UNCHANGED calls
      BY <1>20 DEF HandOff, OperatorMove
    <2>2. \/ due' = [due EXCEPT !.tail = @ + 1]
          \/ UNCHANGED due /\ (column' = column \/ column' # "review")
      BY <1>20 DEF HandOff, OperatorMove, Shift
    <2>3. due["tail"] + 1 > 0
      BY <1>2
    <2> QED BY <1>2, <1>3, <1>5, <2>1, <2>2, <2>3
  <1>21. ASSUME Commit \/ CoderEnds \/ PushHead \/ ParkTask \/ Hook
                \/ (\E m \in MergeCallers : MergeContinues(m)) \/ ReconcileOrphan \/ UNCHANGED reviewMergeVars
         PROVE  UNCHANGED <<due, calls>> /\ (column' = column \/ column' # "review")
    BY <1>21
    DEF Commit, CoderEnds, PushHead, ParkTask, Hook, MergeOnBoot, HookApproved, HookForced,
        MergeContinues, Preflight, EnterMerging, Block, CallMerge, Park, Confirm, MergeStep,
        ReconcileOrphan, Stay, Shift, reviewing, reviewMergeVars
  <1>22. ASSUME ReviewRestart PROVE ReviewIsAttended'
    BY <1>5, <1>22 DEF ReviewRestart, BootRounds, Stay
  <1> QED
    BY <1>3, <1>5, <1>9, <1>10, <1>11, <1>12, <1>13, <1>14, <1>15, <1>17, <1>18, <1>19, <1>20,
       <1>21, <1>22
    DEF ReviewMergeNext, Coder, Continue, Resumes, Human, Callers

\* ReviewIsAttended: a task in review has a round in flight or due, unless one
\* threw: for any number of rounds, restarts and moves of humans.
THEOREM ReviewsAreAttended == ReviewMergeSpec => []ReviewIsAttended
  <1>1. ReviewMergeInit => ReviewIsAttended
    BY DEF ReviewMergeInit, ReviewIsAttended
  <1> QED BY <1>1, AttendedStep, PartsHold, PTL DEF ReviewMergeSpec

----------------------------------------------------------------------------
(* A forced merge finds another attempt's context *)

\* Two attempts at once are marked; a cached context belongs to an attempt that is
\* about to use it, or was left over by one.
ContextOwned ==
    /\ (\A m \in MergeCallers : merges[m].pc # "idle") => "merges" \in marks
    /\ ctxCache # NoSha =>
          \/ marks \cap {"left over", "merges"} # {}
          \/ \E m \in MergeCallers : merges[m].pc \in {"enter", "merge"}
    /\ ForceNeedsRace

LEMMA ContextStep == Parts /\ ContextOwned /\ [ReviewMergeNext]_reviewMergeVars => ContextOwned'
  <1> SUFFICES ASSUME Parts, ContextOwned, [ReviewMergeNext]_reviewMergeVars PROVE ContextOwned'
    OBVIOUS
  <1>1. marks \subseteq marks'
    BY MarksStep
  <1>2. merges \in [MergeCallers -> [pc : MergePcs, sha : Sha \cup {NoSha}]]
    BY DEF Parts, MergeTypes
  <1>3. CASE UNCHANGED <<merges, ctxCache>> /\ ("forced" \in marks' => "forced" \in marks)
    BY <1>1, <1>3 DEF ContextOwned, ForceNeedsRace
  <1>4. ASSUME NEW m \in MergeCallers, TryAutoMerge(m), merges[m].pc = "idle" PROVE ContextOwned'
    <2>1. ASSUME NEW sha, Resolved(m, sha), ctxCache' = NoSha PROVE ContextOwned'
      <3>1. \A k \in MergeCallers : k # m => merges'[k] = merges[k]
        BY <1>2, <2>1 DEF Resolved, Attempt
      <3>2. (\A k \in MergeCallers : merges'[k].pc # "idle") => "merges" \in marks'
        BY <2>1, <3>1 DEF Resolved, Mark, MergeCallers
      <3>3. "forced" \in marks' => "forced" \in marks
        BY <2>1 DEF Resolved, Mark
      <3> QED BY <1>1, <2>1, <3>2, <3>3 DEF ContextOwned, ForceNeedsRace
    <2> QED BY <1>3, <1>4, <2>1 DEF TryAutoMerge
  <1>5. ASSUME MergeOnBoot \/ HookApproved PROVE ContextOwned'
    BY <1>4, <1>5 DEF MergeOnBoot, HookApproved, MergeCallers
  <1>6. ASSUME HookForced PROVE ContextOwned'
    <2>1. /\ merges["tail"].pc = "idle" /\ merges'["boot"] = merges["boot"]
          /\ UNCHANGED ctxCache
          /\ merges["boot"].pc # "idle" => "merges" \in marks'
          /\ "forced" \in marks' => "forced" \in marks
      BY <1>2, <1>6 DEF HookForced, Attempt, Mark, MergeCallers
    <2> QED BY <1>1, <2>1 DEF ContextOwned, ForceNeedsRace, MergeCallers
  <1>7. ASSUME NEW m \in MergeCallers, MergeContinues(m) PROVE ContextOwned'
    <2>1. /\ \A pc \in MergePcs : MergeAt(m, pc) \in [pc : MergePcs, sha : Sha \cup {NoSha}]
          /\ MergeIdle \in [pc : MergePcs, sha : Sha \cup {NoSha}] /\ MergeIdle.pc = "idle"
      BY MergeAtTypes, MergeIdleTypes DEF Parts, MergeIdle
    <2>2. \A pc \in MergePcs : MergeAt(m, pc).pc = pc
      BY <1>2 DEF MergeAt
    <2>3. ASSUME NEW rec, Attempt(m, rec)
          PROVE  merges'[m] = rec /\ \A k \in MergeCallers : k # m => merges'[k] = merges[k]
      BY <1>2, <2>3 DEF Attempt
    <2>4. merges[m].pc # "idle"
      BY <1>7 DEF MergeContinues, Preflight, EnterMerging, Block, CallMerge, Park, Confirm
    <2>5. (\A k \in MergeCallers : merges'[k].pc # "idle") => "merges" \in marks'
      <3>1. \A k \in MergeCallers : k # m => merges'[k] = merges[k]
        BY <1>7, <2>3
        DEF MergeContinues, Preflight, EnterMerging, Block, CallMerge, Park, Confirm
      <3> QED BY <1>1, <2>4, <3>1 DEF ContextOwned
    <2>6. CASE Preflight(m)
      <3>1. \/ merges'[m].pc = "enter"
            \/ UNCHANGED ctxCache /\ merges[m].pc = "preflight"
        BY <2>2, <2>3, <2>6 DEF Preflight, MergePcs
      <3>2. UNCHANGED marks /\ \A k \in MergeCallers : k # m => merges'[k] = merges[k]
        BY <2>3, <2>6 DEF Preflight
      <3> QED BY <2>5, <3>1, <3>2 DEF ContextOwned, ForceNeedsRace
    <2>7. CASE EnterMerging(m)
      <3>1. /\ UNCHANGED ctxCache
            /\ merges'[m].pc = "merge" \/ "left over" \in marks'
            /\ "forced" \in marks' => "forced" \in marks
        <4>1. \/ Attempt(m, MergeAt(m, "merge")) /\ UNCHANGED marks
              \/ marks' = marks \cup {"left over"}
          BY <2>7 DEF EnterMerging, Mark
        <4>2. Attempt(m, MergeAt(m, "merge")) => merges'[m].pc = "merge"
          BY <2>2, <2>3 DEF MergePcs
        <4> QED BY <2>7, <4>1, <4>2 DEF EnterMerging
      <3> QED BY <1>1, <2>5, <3>1 DEF ContextOwned, ForceNeedsRace
    <2>8. CASE Block(m) \/ Park(m) \/ Confirm(m)
      <3>1. /\ UNCHANGED <<ctxCache, marks>> /\ merges[m].pc \notin {"enter", "merge"}
            /\ \A k \in MergeCallers : k # m => merges'[k] = merges[k]
        BY <2>3, <2>8 DEF Block, Park, Confirm
      <3> QED BY <2>5, <3>1 DEF ContextOwned, ForceNeedsRace
    <2>9. CASE CallMerge(m)
      <3>1. ctxCache' = NoSha
        BY <2>9 DEF CallMerge
      <3>2. CASE "forced" \in marks' => "forced" \in marks
        BY <1>1, <2>5, <3>1, <3>2 DEF ContextOwned, ForceNeedsRace
      <3>3. CASE merges[m].pc = "force" /\ Accepts
        <4>1. marks \cap {"left over", "merges"} # {}
          BY <3>3 DEF ContextOwned, Accepts, MergeCallers
        <4> QED BY <1>1, <2>5, <3>1, <4>1 DEF ContextOwned, ForceNeedsRace
      <3> QED BY <2>9, <3>2, <3>3 DEF CallMerge, Mark
    <2> QED BY <1>7, <2>6, <2>7, <2>8, <2>9 DEF MergeContinues
  <1>8. ASSUME ReviewRestart PROVE ContextOwned'
    BY <1>1, <1>8 DEF ReviewRestart, ContextOwned, ForceNeedsRace, MergeIdle, MergeCallers, Mark, Torn
  <1>9. ASSUME NEW c \in RoundCallers, StartRound(c) \/ Continue(c)
        PROVE  UNCHANGED <<merges, ctxCache>> /\ ("forced" \in marks' => "forced" \in marks)
    BY <1>9
    DEF StartRound, Continue, GetDiff, OpenReviewer, CloseReviewer, HarnessVerdict, RecordVerdict,
        BumpRound, Approve, SendBack, Escalate, EndRound, RoundStep, RoundThrows, Mark, merging
  <1>10. ASSUME NEW c \in Callers, Resumes(c)
         PROVE  UNCHANGED <<merges, ctxCache>> /\ ("forced" \in marks' => "forced" \in marks)
    BY <1>10 DEF Resumes, CreateResumed, LaunchResumed, RoundStep, RoundThrows, Mark, merging
  <1>11. ASSUME Coder \/ Human \/ ReconcileOrphan \/ UNCHANGED reviewMergeVars
         PROVE  UNCHANGED <<merges, ctxCache>> /\ ("forced" \in marks' => "forced" \in marks)
    BY <1>11
    DEF Coder, Commit, CoderEnds, PushHead, HandOff, ParkTask, Human, HumanVerdict, HumanMove,
        OperatorMove, ReconcileOrphan, Mark, merging, reviewMergeVars
  <1> QED
    BY <1>3, <1>5, <1>6, <1>7, <1>8, <1>9, <1>10, <1>11 DEF ReviewMergeNext, Hook

\* ForceNeedsRace: a human's force_merge merges only with a context that another
\* attempt left behind or was about to use.
THEOREM ForcedMergeNeedsRace == ReviewMergeSpec => []ForceNeedsRace
  <1>1. ReviewMergeInit => ContextOwned
    BY DEF ReviewMergeInit, ContextOwned, ForceNeedsRace, MergeIdle, MergeCallers
  <1>2. ContextOwned => ForceNeedsRace
    BY DEF ContextOwned
  <1> QED BY <1>1, <1>2, ContextStep, PartsHold, PTL DEF ReviewMergeSpec

----------------------------------------------------------------------------
(* The rounds of a task in review *)

\* A call's record is replaced and the other calls go on.
LEMMA CallEffect ==
  ASSUME Parts, NEW c \in Callers, NEW rec, Call(c, rec)
  PROVE  calls'[c] = rec /\ \A d \in Callers : d # c => calls'[d] = calls[d]
  BY DEF Call, Parts, CallTypes

LEMMA AtFields ==
  ASSUME Parts, NEW c \in Callers, NEW pc \in CallPcs
  PROVE  /\ At(c, pc).pc = pc /\ At(c, pc).round = calls[c].round
         /\ At(c, pc).verdict = calls[c].verdict
  BY AtIsGood DEF Parts

\* Unless the operator moved the task or two rounds were started at once, a round
\* in flight is the only one, and the task is in review as long as it is.
Alone ==
    \A c \in RoundCallers :
        calls[c].pc # "idle" =>
            column = "review" /\ \A d \in RoundCallers : calls[d].pc # "idle" => d = c

RoundAlone == marks \cap {"overlap", "operator"} = {} => Alone

\* A step of a round in flight: the task stays where it is unless the round ends.
LEMMA RoundGoesOn ==
  ASSUME Parts, NEW c \in RoundCallers, Continue(c) \/ Resumes(c)
  PROVE  /\ calls[c].pc # "idle"
         /\ \A d \in Callers : d # c => calls'[d] = calls[d]
         /\ UNCHANGED <<column, moves>> \/ calls'[c].pc = "idle"
  <1>1. c \in Callers /\ c # "human" /\ CallIdle.pc = "idle"
    BY DEF Callers, RoundCallers, CallIdle
  <1>2. calls[c].pc # "idle"
    BY <1>1
    DEF Continue, Resumes, GetDiff, OpenReviewer, CloseReviewer, HarnessVerdict, RecordVerdict,
        BumpRound, Approve, SendBack, Escalate, EndRound, CreateResumed, LaunchResumed
  <1>3. \E rec : Call(c, rec)
    BY <1>1
    DEF Continue, Resumes, GetDiff, OpenReviewer, CloseReviewer, HarnessVerdict, RecordVerdict,
        BumpRound, Approve, SendBack, Escalate, EndRound, CreateResumed, LaunchResumed, RoundThrows
  <1>4. Stay \/ Call(c, CallIdle)
    BY <1>1
    DEF Continue, Resumes, GetDiff, OpenReviewer, CloseReviewer, HarnessVerdict, RecordVerdict,
        BumpRound, Approve, SendBack, Escalate, EndRound, CreateResumed, LaunchResumed, RoundStep
  <1> QED BY <1>1, <1>2, <1>3, <1>4, CallEffect DEF Stay

\* What is no step of a round leaves the rounds alone, and moves a task that is in
\* review only when it is the operator's.
LEMMA RoundsUntouched ==
  ASSUME Parts, Coder \/ Resumes("human") \/ Human \/ Hook
                \/ (\E m \in MergeCallers : MergeContinues(m)) \/ ReconcileOrphan \/ UNCHANGED reviewMergeVars
  PROVE  /\ \A d \in RoundCallers : calls'[d] = calls[d]
         /\ column' = column \/ column # "review" \/ "operator" \in marks'
  <1>1. ASSUME NEW rec, Call("human", rec) PROVE \A d \in RoundCallers : calls'[d] = calls[d]
    BY <1>1, CallEffect DEF Callers, RoundCallers
  <1>2. CASE Coder
    BY <1>2
    DEF Coder, Commit, CoderEnds, PushHead, HandOff, ParkTask, Stay, Shift, Wins, reviewing
  <1>3. CASE Resumes("human")
    BY <1>1, <1>3 DEF Resumes, CreateResumed, LaunchResumed, RoundThrows, RoundStep, Stay
  <1>4. CASE Human
    <2>1. ASSUME NEW d, HumanVerdict(d) \/ \E to : HumanMove(d, to)
          PROVE  /\ \A e \in RoundCallers : calls'[e] = calls[e]
                 /\ column' = column \/ column # "review"
      BY <1>1, <2>1 DEF HumanVerdict, HumanMove, Stay, Shift, Wins
    <2>2. ASSUME NEW from, NEW to, OperatorMove(from, to)
          PROVE  UNCHANGED calls /\ "operator" \in marks'
      BY <2>2 DEF OperatorMove, Mark
    <2> QED BY <1>4, <2>1, <2>2 DEF Human
  <1>5. CASE Hook \/ ReconcileOrphan \/ UNCHANGED reviewMergeVars
    BY <1>5
    DEF Hook, MergeOnBoot, HookApproved, HookForced, ReconcileOrphan, Stay, Shift, Wins,
        reviewing, reviewMergeVars
  <1>6. ASSUME NEW m \in MergeCallers, MergeContinues(m)
        PROVE  UNCHANGED calls /\ (column' = column \/ column # "review")
    BY <1>6
    DEF MergeContinues, Preflight, EnterMerging, Block, CallMerge, Park, Confirm, MergeStep, Stay,
        Shift, Wins, reviewing
  <1> QED BY <1>2, <1>3, <1>4, <1>5, <1>6

\* A started round that finds another in flight leaves its mark.
LEMMA StartAlone ==
  ASSUME Parts, NEW c \in RoundCallers, StartRound(c)
  PROVE  /\ UNCHANGED <<column, moves>>
         /\ \A d \in Callers : d # c => calls'[d] = calls[d]
         /\ \/ UNCHANGED calls
            \/ /\ column = "review"
               /\ calls'[c].pc = "diff" /\ calls'[c].round = round + 1
               /\ "overlap" \notin marks' => \A d \in RoundCallers : calls[d].pc = "idle"
  <1> DEFINE rec == [CallIdle EXCEPT !.pc = "diff", !.round = round + 1]
  <1>1. rec.pc = "diff" /\ rec.round = round + 1
    BY DEF CallIdle
  <1>2. c \in Callers
    BY DEF Callers
  <1>3. CASE column = "review"
    <2>1. Call(c, rec)
      BY <1>3 DEF StartRound
    <2> HIDE DEF rec
    <2>2. "overlap" \notin marks' => \A d \in RoundCallers : calls[d].pc = "idle"
      BY <1>3 DEF StartRound, RoundsInFlight, Mark
    <2> QED BY <1>1, <1>2, <1>3, <2>1, <2>2, CallEffect DEF StartRound, Stay
  <1>4. CASE column # "review"
    BY <1>4 DEF StartRound, Stay
  <1> QED BY <1>3, <1>4

LEMMA RoundAloneStep ==
  Parts /\ RoundAlone /\ [ReviewMergeNext]_reviewMergeVars => RoundAlone'
  <1> SUFFICES ASSUME Parts, RoundAlone, [ReviewMergeNext]_reviewMergeVars,
                      marks' \cap {"overlap", "operator"} = {}
               PROVE  Alone'
    BY DEF RoundAlone
  <1>1. marks \subseteq marks'
    BY MarksStep
  <1>2. Alone /\ RoundCallers \subseteq Callers
    BY <1>1 DEF RoundAlone, Callers
  <1>3. ASSUME NEW c \in RoundCallers, StartRound(c) PROVE Alone'
    BY <1>2, <1>3, StartAlone DEF Alone
  <1>4. ASSUME NEW c \in RoundCallers, Continue(c) \/ Resumes(c) PROVE Alone'
    BY <1>2, <1>4, RoundGoesOn DEF Alone
  <1>5. CASE ReviewRestart
    BY <1>2, <1>5 DEF ReviewRestart, Alone, CallIdle
  <1>6. CASE Coder \/ Resumes("human") \/ Human \/ Hook
             \/ (\E m \in MergeCallers : MergeContinues(m)) \/ ReconcileOrphan \/ UNCHANGED reviewMergeVars
    BY <1>2, <1>6, RoundsUntouched DEF Alone
  <1> QED BY <1>3, <1>4, <1>5, <1>6 DEF ReviewMergeNext, Callers

LEMMA RoundAloneHolds == ReviewMergeSpec => []RoundAlone
  <1>1. ReviewMergeInit => RoundAlone
    BY DEF ReviewMergeInit, RoundAlone, Alone, Callers, CallIdle
  <1> QED BY <1>1, RoundAloneStep, PartsHold, PTL DEF ReviewMergeSpec

----------------------------------------------------------------------------
(* No coder on what is approved *)

\* The task is where a coder works: in coding, or still in review with the round
\* that resumed it about to send it back.
WithCoder ==
    \/ column = "coding"
    \/ column = "review" /\ \E c \in RoundCallers : calls[c].pc = "sendback"

Deciding == {"resume_coding", "force_merge", "reject"}

\* Where the coder is, and its completion; a human who decides has found the task
\* in needs_human, and one who resumes has moved it to coding.
Placed ==
    /\ activeRun = "coder" \/ completion # "idle" => WithCoder
    /\ completion # "idle" => activeRun # "coder"
    /\ calls["human"].pc \in Deciding => column = "needs_human"
    /\ calls["human"].pc \in {"resume", "launch"} =>
          column = "coding" /\ completion = "idle" /\ activeRun # "coder"

CoderPlaced == marks \cap {"overlap", "restart", "operator"} = {} => Placed

LEMMA PlacedByCoder ==
  ASSUME Parts, Placed, Coder PROVE Placed'
  <1> USE DEF Parts, Placed, WithCoder, Deciding
  <1>1. CASE Commit
    BY <1>1 DEF Commit, Stay, reviewing
  <1>2. CASE CoderEnds
    BY <1>2 DEF CoderEnds, Stay, reviewing
  <1>3. CASE PushHead
    BY <1>3 DEF PushHead, Stay, reviewing
  <1>4. CASE HandOff \/ ParkTask
    BY <1>4 DEF HandOff, ParkTask, Shift, Wins, reviewing
  <1> QED BY <1>1, <1>2, <1>3, <1>4 DEF Coder

LEMMA PlacedByRound ==
  ASSUME Parts, Alone, Placed, NEW c \in RoundCallers, Continue(c) \/ Resumes(c)
  PROVE  Placed'
  <1> USE DEF Placed
  <1>1. /\ calls[c].pc # "idle" /\ column = "review"
        /\ \A d \in Callers : d # c => calls'[d] = calls[d]
        /\ \A d \in RoundCallers : d # c => calls[d].pc = "idle"
        /\ c # "human" /\ c \in Callers /\ "human" \in Callers
    BY RoundGoesOn DEF Alone, RoundCallers, Callers
  <1>2. /\ calls["human"].pc \notin Deciding \cup {"resume", "launch"}
        /\ calls'["human"] = calls["human"]
        /\ completion # "idle" \/ activeRun = "coder" => calls[c].pc = "sendback"
    BY <1>1 DEF WithCoder, Deciding
  <1>3. CASE calls[c].pc # "sendback" /\ UNCHANGED <<completion, column>> /\ activeRun' # "coder"
    BY <1>1, <1>2, <1>3 DEF WithCoder, Deciding
  <1>4. ASSUME GetDiff(c) \/ OpenReviewer(c) \/ CloseReviewer(c) \/ HarnessVerdict(c)
               \/ CreateResumed(c)
        PROVE  calls[c].pc # "sendback" /\ UNCHANGED <<completion, column>> /\ activeRun' # "coder"
    BY <1>2, <1>4
    DEF GetDiff, OpenReviewer, CloseReviewer, HarnessVerdict, CreateResumed, RoundStep, Stay
  <1>5. ASSUME RecordVerdict(c) \/ BumpRound(c)
        PROVE  calls[c].pc # "sendback" /\ UNCHANGED <<completion, column>> /\ activeRun' # "coder"
    BY <1>2, <1>5 DEF RecordVerdict, BumpRound, Stay, work
  <1>6. CASE Approve(c) \/ Escalate(c)
    BY <1>1, <1>2, <1>6 DEF Approve, Escalate, EndRound, work, WithCoder, Deciding
  <1>7. CASE SendBack(c)
    <2>1. column' = "coding" /\ UNCHANGED <<activeRun, completion>>
      BY <1>1, <1>7 DEF SendBack, EndRound, Shift, Wins, TaskEdges, work
    <2> QED BY <1>1, <1>2, <2>1 DEF WithCoder
  <1>8. CASE LaunchResumed(c)
    <2>1. calls[c].pc = "launch" /\ UNCHANGED <<completion, column>>
      BY <1>8 DEF LaunchResumed, Stay
    <2>2. CASE Call(c, At(c, "sendback"))
      <3>1. calls'[c].pc = "sendback"
        BY <1>1, <2>2, CallEffect, AtFields DEF CallPcs
      <3> QED BY <1>1, <1>2, <2>1, <3>1 DEF WithCoder
    <2>3. CASE activeRun' = activeRun
      BY <1>1, <1>2, <2>1, <2>3 DEF WithCoder
    <2> QED BY <1>1, <1>8, <2>2, <2>3 DEF LaunchResumed
  <1> QED
    BY <1>3, <1>4, <1>5, <1>6, <1>7, <1>8 DEF Continue, Resumes

LEMMA PlacedByHuman ==
  ASSUME Parts, Placed, Human \/ Resumes("human"), "operator" \notin marks' PROVE Placed'
  <1> USE DEF Placed
  <1>1. /\ "human" \in Callers
        /\ \A d \in RoundCallers : calls'[d] = calls[d]
    BY RoundsUntouched DEF Callers
  <1>2. ASSUME NEW d \in Deciding, HumanVerdict(d) PROVE Placed'
    <2>1. calls'["human"].pc = d
      BY <1>1, <1>2, CallEffect DEF HumanVerdict, CallIdle
    <2>2. column = "needs_human" /\ UNCHANGED <<column, activeRun, completion>>
      BY <1>2 DEF HumanVerdict, Stay, work
    <2> QED BY <1>1, <2>1, <2>2 DEF Deciding, WithCoder
  <1>3. ASSUME NEW d \in Deciding, NEW to \in TaskStates, HumanMove(d, to),
               d = "resume_coding" <=> to = "coding"
        PROVE  Placed'
    <2>1. column = "needs_human" /\ UNCHANGED <<activeRun, completion>>
      BY <1>3 DEF HumanMove, work
    <2>2. activeRun # "coder" /\ completion = "idle"
      BY <2>1 DEF WithCoder
    <2>3. column' = column \/ column' = to
      BY <1>3 DEF HumanMove, Shift
    <2>4. \/ calls'["human"].pc = "idle"
          \/ calls'["human"].pc = "resume" /\ column' = "coding"
      BY <1>1, <1>3, CallEffect, AtFields DEF HumanMove, Shift, CallIdle, CallPcs
    <2> QED BY <2>1, <2>2, <2>4 DEF Deciding
  <1>4. CASE CreateResumed("human")
    <2>1. /\ column = "coding" /\ completion = "idle" /\ UNCHANGED <<column, completion>>
          /\ activeRun' # "coder"
      BY <1>4 DEF CreateResumed, RoundStep, Stay
    <2>2. calls'["human"].pc \in {"idle", "launch"}
      BY <1>1, <1>4, CallEffect, AtFields DEF CreateResumed, RoundThrows, CallIdle, CallPcs
    <2> QED BY <2>1, <2>2 DEF Deciding, WithCoder
  <1>5. CASE LaunchResumed("human")
    <2>1. /\ column = "coding" /\ completion = "idle" /\ UNCHANGED <<column, completion>>
      BY <1>5 DEF LaunchResumed, Stay
    <2>2. calls'["human"].pc = "idle"
      BY <1>1, <1>5, CallEffect DEF LaunchResumed, RoundThrows, CallIdle
    <2> QED BY <2>1, <2>2 DEF Deciding, WithCoder
  <1>6. ASSUME NEW from, NEW to, OperatorMove(from, to) PROVE FALSE
    BY <1>6 DEF OperatorMove, Mark
  <1>7. {"coding", "merging", "cancelled"} \subseteq TaskStates
    BY DEF TaskStates
  <1> QED
    BY <1>2, <1>3, <1>4, <1>5, <1>6, <1>7 DEF Human, Resumes, Deciding

\* The merge neither finds a coder nor brings the task to one.
LEMMA PlacedByMerge ==
  ASSUME Parts, Placed, Hook \/ \E m \in MergeCallers : MergeContinues(m) PROVE Placed'
  <1>1. UNCHANGED <<calls, activeRun, completion>>
    BY
    DEF Hook, MergeOnBoot, HookApproved, HookForced, MergeContinues, Preflight, EnterMerging,
        Block, CallMerge, Park, Confirm, MergeStep, work, reviewing
  <1>2. column' = column \/ column \in {"approved", "merging"}
    BY
    DEF Hook, MergeOnBoot, HookApproved, HookForced, MergeContinues, Preflight, EnterMerging,
        Block, CallMerge, Park, Confirm, Stay, Shift, Wins
  <1> QED BY <1>1, <1>2 DEF Placed, WithCoder

\* Only a restart leaves a run without its server.
OfRestart == activeRun = "orphan" => "restart" \in marks

LEMMA OfRestartStep ==
  Parts /\ OfRestart /\ [ReviewMergeNext]_reviewMergeVars => OfRestart'
  <1> SUFFICES ASSUME Parts, OfRestart, [ReviewMergeNext]_reviewMergeVars PROVE OfRestart'
    OBVIOUS
  <1>1. CASE ReviewRestart
    BY <1>1 DEF ReviewRestart, Mark, OfRestart
  <1>2. ASSUME NEW c \in RoundCallers, StartRound(c) \/ Continue(c)
        PROVE  activeRun' = activeRun \/ activeRun' # "orphan"
    BY <1>2
    DEF StartRound, Continue, GetDiff, OpenReviewer, CloseReviewer, HarnessVerdict, RecordVerdict,
        BumpRound, Approve, SendBack, Escalate, EndRound, work
  <1>3. ASSUME NEW c \in Callers, Resumes(c) PROVE activeRun' = activeRun \/ activeRun' # "orphan"
    BY <1>3 DEF Resumes, CreateResumed, LaunchResumed
  <1>4. ASSUME Coder \/ Human \/ ReconcileOrphan \/ UNCHANGED reviewMergeVars
        PROVE  activeRun' = activeRun \/ activeRun' # "orphan"
    BY <1>4
    DEF Coder, Commit, CoderEnds, PushHead, HandOff, ParkTask, Human, HumanVerdict, HumanMove,
        OperatorMove, ReconcileOrphan, work, reviewMergeVars
  <1>5. ASSUME Hook \/ \E m \in MergeCallers : MergeContinues(m) PROVE UNCHANGED activeRun
    BY <1>5
    DEF Hook, MergeOnBoot, HookApproved, HookForced, MergeContinues, Preflight, EnterMerging,
        Block, CallMerge, Park, Confirm, MergeStep, work
  <1> QED
    BY <1>1, <1>2, <1>3, <1>4, <1>5, MarksStep DEF ReviewMergeNext, OfRestart

LEMMA CoderPlacedStep ==
  Parts /\ RoundAlone /\ OfRestart /\ CoderPlaced /\ [ReviewMergeNext]_reviewMergeVars => CoderPlaced'
  <1> SUFFICES ASSUME Parts, RoundAlone, OfRestart, CoderPlaced, [ReviewMergeNext]_reviewMergeVars,
                      marks' \cap {"overlap", "restart", "operator"} = {}
               PROVE  Placed'
    BY DEF CoderPlaced
  <1>1. Placed /\ Alone
    BY MarksStep DEF CoderPlaced, RoundAlone
  <1>2. ASSUME NEW c \in RoundCallers, StartRound(c) PROVE Placed'
    <2>1. UNCHANGED <<activeRun, completion, column>> /\ calls'["human"] = calls["human"]
      BY <1>2, StartAlone DEF StartRound, Stay, work, RoundCallers, Callers
    <2>2. UNCHANGED calls \/ (column = "review" /\ \A d \in RoundCallers : calls[d].pc = "idle")
      BY <1>2, StartAlone
    <2> QED BY <1>1, <2>1, <2>2 DEF Placed, WithCoder, Deciding
  <1>3. CASE UNCHANGED reviewMergeVars
    BY <1>1, <1>3 DEF reviewMergeVars, work, reviewing, Placed, WithCoder
  <1>4. ~ReviewRestart /\ ~ReconcileOrphan
    BY MarksStep DEF ReviewRestart, ReconcileOrphan, OfRestart, Mark
  <1> QED
    BY <1>1, <1>2, <1>3, <1>4, PlacedByCoder, PlacedByRound, PlacedByHuman, PlacedByMerge
    DEF ReviewMergeNext, Callers

\* CoderOffApproved: for any number of rounds, commits, faults and decisions of
\* humans, no coder works on an approved, merging or done task unless two rounds
\* overlapped, the server restarted or the operator moved the task.
THEOREM ApprovedHasNoCoder == ReviewMergeSpec => []CoderOffApproved
  <1>1. ReviewMergeInit => CoderPlaced /\ OfRestart
    BY DEF ReviewMergeInit, CoderPlaced, OfRestart, Placed, WithCoder, Deciding, Callers, CallIdle
  <1>2. CoderPlaced => CoderOffApproved
    BY DEF CoderPlaced, Placed, WithCoder, CoderOffApproved
  <1> QED BY <1>1, <1>2, CoderPlacedStep, OfRestartStep, RoundAloneHolds,
          PartsHold, PTL DEF ReviewMergeSpec

----------------------------------------------------------------------------
(* An approved task has its approval on the thread *)

ApprovedIn(n) == \E i \in DOMAIN thread : thread[i].round = n /\ thread[i].verdict = "approved"

\* The rows of the thread are of rounds up to the task's, or of the one whose number
\* is about to be written.
RowsWithin(n) == \A i \in DOMAIN thread : thread[i].round <= n

\* A round under way is one above the task's until it writes its number; one that
\* goes on to approve has its verdict on the thread, under a key no earlier round
\* has taken.
Recording ==
    /\ column = "approved" => ApprovedIn(round)
    /\ RowsWithin(round + 1)
    /\ (\A c \in RoundCallers : calls[c].pc # "bump") => RowsWithin(round)
    /\ \A c \in RoundCallers :
          /\ calls[c].pc \in {"diff", "review", "reading", "record", "bump"} =>
                calls[c].round = round + 1
          /\ calls[c].pc = "bump" /\ calls[c].verdict = "approved" => ApprovedIn(round + 1)
          /\ calls[c].pc = "approve" => ApprovedIn(round)

OnRecord == marks \cap {"overlap", "round", "operator"} = {} => Recording

LEMMA RoundsAreNumbers ==
  ASSUME Parts PROVE \A i \in DOMAIN thread : thread[i].round \in Nat
  <1>1. \A i \in DOMAIN thread : thread[i] \in Verdicts
    BY ElementOfSeq, LenProperties DEF Parts, ThreadTypes
  <1> QED BY <1>1 DEF Verdicts

\* The thread after a round has recorded its verdict, when no row is of that round.
LEMMA RowRecorded ==
  ASSUME Parts, NEW c \in RoundCallers, RecordVerdict(c), RowsWithin(round),
         calls[c].round = round + 1
  PROVE  /\ RowsWithin(round + 1)'
         /\ calls[c].verdict = "approved" => ApprovedIn(round + 1)'
         /\ UNCHANGED round
  <1> DEFINE row == [round |-> calls[c].round, sha |-> calls[c].sha, verdict |-> calls[c].verdict]
  <1>1. calls[c] \in CallRecords /\ calls[c].sha \in Sha /\ calls[c].verdict # "none"
    BY DEF RecordVerdict, Parts, CallTypes, GoodCall, Callers
  <1>2. row \in Verdicts /\ thread \in Seq(Verdicts) /\ round \in Nat
    BY <1>1 DEF CallRecords, Verdicts, Parts, ThreadTypes, ScalarTypes
  <1>3. /\ DOMAIN thread = 1 .. Len(thread) /\ Len(thread) \in Nat
        /\ DOMAIN Append(thread, row) = 1 .. Len(thread) + 1
        /\ \A i \in 1 .. Len(thread) : Append(thread, row)[i] = thread[i]
        /\ Append(thread, row)[Len(thread) + 1] = row
    BY <1>2, AppendProperties, LenProperties
  <1>4. \A i \in DOMAIN thread : thread[i].round \in Nat
    BY RoundsAreNumbers
  <1>5. ~OnThread(calls[c].round, calls[c].sha)
    BY <1>2, <1>4 DEF OnThread, RowsWithin
  <1>6. thread' = Append(thread, row) /\ UNCHANGED round
    BY <1>5 DEF RecordVerdict
  <1>7. row.round = round + 1 /\ row.verdict = calls[c].verdict
    OBVIOUS
  <1> HIDE DEF row
  <1>8. RowsWithin(round + 1)'
    BY <1>2, <1>3, <1>4, <1>6, <1>7 DEF RowsWithin
  <1>9. calls[c].verdict = "approved" => ApprovedIn(round + 1)'
    BY <1>3, <1>6, <1>7 DEF ApprovedIn
  <1> QED BY <1>6, <1>8, <1>9

\* Nothing but a round in flight touches the thread and the round's number.
LEMMA ThreadUntouched ==
  ASSUME Parts, Coder \/ Resumes("human") \/ Human \/ Hook \/ ReviewRestart
                \/ (\E m \in MergeCallers : MergeContinues(m)) \/ ReconcileOrphan \/ UNCHANGED reviewMergeVars
  PROVE  /\ UNCHANGED <<thread, round>>
         /\ column' = "approved" => column = "approved" \/ "operator" \in marks'
  <1>1. UNCHANGED <<thread, round>>
    BY
    DEF Coder, Commit, CoderEnds, PushHead, HandOff, ParkTask, Resumes, CreateResumed,
        LaunchResumed, RoundStep, Human, HumanVerdict, HumanMove, OperatorMove, Hook, MergeOnBoot,
        HookApproved, HookForced, MergeContinues, Preflight, EnterMerging, Block, CallMerge, Park,
        Confirm, MergeStep, ReviewRestart, ReconcileOrphan, reviewing, reviewMergeVars
  <1> DEFINE Unapproved == column' = "approved" => column = "approved" \/ "operator" \in marks'
  <1>0. \A from, to, actor : Shift(from, to, actor) => column' = column \/ column' = to
    BY DEF Shift
  <1>2. ASSUME Coder \/ Resumes("human") \/ ReviewRestart \/ ReconcileOrphan \/ UNCHANGED reviewMergeVars
        PROVE  Unapproved
    BY <1>0, <1>2
    DEF Coder, Commit, CoderEnds, PushHead, HandOff, ParkTask, Resumes, CreateResumed,
        LaunchResumed, RoundStep, ReviewRestart, ReconcileOrphan, Stay, reviewMergeVars
  <1>3. ASSUME Human PROVE Unapproved
    BY <1>0, <1>3 DEF Human, HumanVerdict, HumanMove, OperatorMove, Stay, Mark
  <1>4. ASSUME Hook \/ \E m \in MergeCallers : MergeContinues(m) PROVE Unapproved
    BY <1>0, <1>4
    DEF Hook, MergeOnBoot, HookApproved, HookForced, MergeContinues, Preflight, EnterMerging,
        Block, CallMerge, Park, Confirm, Stay
  <1> QED BY <1>1, <1>2, <1>3, <1>4

LEMMA RecordingByRound ==
  ASSUME Parts, Alone, Recording, NEW c \in RoundCallers, Continue(c) \/ Resumes(c)
  PROVE  Recording'
  <1> USE DEF Recording
  <1>1. /\ calls[c].pc # "idle" /\ column = "review"
        /\ \A d \in Callers : d # c => calls'[d] = calls[d]
        /\ \A d \in RoundCallers : d # c => calls[d].pc = "idle"
        /\ c # "human" /\ c \in Callers /\ RoundCallers \subseteq Callers
    BY RoundGoesOn DEF Alone, RoundCallers, Callers
  <1>2. round \in Nat /\ calls[c] \in CallRecords
    BY <1>1 DEF Parts, ScalarTypes, CallTypes
  <1> DEFINE Early == {"diff", "review", "reading", "record"}
  <1>3. ASSUME UNCHANGED <<thread, round, column>>, calls[c].pc # "bump",
               calls'[c].pc \in Early => calls[c].pc \in Early /\ calls'[c].round = calls[c].round,
               calls'[c].pc \notin {"bump", "approve"}
        PROVE  Recording'
    BY <1>1, <1>3 DEF RowsWithin, ApprovedIn
  <1>4. CASE GetDiff(c)
    <2>1. /\ [At(c, "review") EXCEPT !.sha = head].pc = "review"
          /\ [At(c, "review") EXCEPT !.sha = head].round = calls[c].round
      BY <1>2 DEF At, CallRecords
    <2> DEFINE rec == [At(c, "review") EXCEPT !.sha = head]
    <2>a. Call(c, rec) \/ Call(c, CallIdle)
      BY <1>4 DEF GetDiff, RoundThrows
    <2>b. rec.pc = "review" /\ rec.round = calls[c].round /\ CallIdle.pc = "idle"
      BY <2>1 DEF CallIdle
    <2> HIDE DEF rec
    <2>2. \/ calls'[c].pc = "idle"
          \/ calls'[c].pc = "review" /\ calls'[c].round = calls[c].round
      BY <1>1, <2>a, <2>b, CallEffect
    <2> QED BY <1>3, <1>4, <2>2 DEF GetDiff, RoundStep, Stay
  <1>5. CASE OpenReviewer(c)
    <2>1. \/ calls'[c].pc = "idle"
          \/ calls'[c].pc = "reading" /\ calls'[c].round = calls[c].round
      BY <1>1, <1>5, CallEffect, AtFields DEF OpenReviewer, RoundThrows, CallIdle, CallPcs
    <2> QED BY <1>3, <1>5, <2>1 DEF OpenReviewer, RoundStep, Stay
  <1>6. CASE CloseReviewer(c) \/ HarnessVerdict(c)
    <2>1. /\ \A v : /\ [At(c, "record") EXCEPT !.verdict = v].pc = "record"
                    /\ [At(c, "record") EXCEPT !.verdict = v].round = calls[c].round
          /\ [At(c, "review") EXCEPT !.tries = @ + 1].pc = "review"
          /\ [At(c, "review") EXCEPT !.tries = @ + 1].round = calls[c].round
          /\ At(c, "escalate").pc = "escalate" /\ CallIdle.pc = "idle"
      BY <1>2 DEF At, CallRecords, CallIdle
    <2>2. \A v : \/ Judged(c, v).pc = "escalate"
                 \/ Judged(c, v).pc = "record" /\ Judged(c, v).round = calls[c].round
      BY <2>1 DEF Judged
    <2>3. \E rec : /\ Call(c, rec)
                   /\ rec.pc \in {"record", "review", "escalate", "idle"}
                   /\ rec.pc \in {"record", "review"} => rec.round = calls[c].round
      BY <1>6, <2>1, <2>2 DEF CloseReviewer, HarnessVerdict, RoundThrows
    <2>4. /\ calls'[c].pc \in {"record", "review", "escalate", "idle"}
          /\ calls'[c].pc \in {"record", "review"} => calls'[c].round = calls[c].round
      BY <1>1, <2>3, CallEffect
    <2>5. calls[c].pc \in {"reading", "review"} /\ UNCHANGED <<thread, round, column>>
      BY <1>6 DEF CloseReviewer, HarnessVerdict, RoundStep, Stay
    <2> QED BY <1>3, <2>4, <2>5
  <1>7. CASE RecordVerdict(c)
    <2>1. calls[c].pc = "record" /\ UNCHANGED column
      BY <1>7 DEF RecordVerdict, Stay
    <2>2. calls[c].round = round + 1 /\ RowsWithin(round)
      BY <1>1, <2>1
    <2>3. /\ calls'[c].pc = "bump" /\ calls'[c].round = calls[c].round
          /\ calls'[c].verdict = calls[c].verdict
      BY <1>1, <1>7, CallEffect, AtFields DEF RecordVerdict, CallPcs
    <2>4. /\ RowsWithin(round + 1)' /\ UNCHANGED round
          /\ calls[c].verdict = "approved" => ApprovedIn(round + 1)'
      BY <1>7, <2>2, RowRecorded
    <2> QED BY <1>1, <2>1, <2>2, <2>3, <2>4
  <1>8. CASE BumpRound(c)
    <2>1. /\ calls[c].pc = "bump" /\ UNCHANGED <<column, thread>> /\ round' = round + 1
      BY <1>8 DEF BumpRound, Stay
    <2>2. /\ calls'[c].pc \in {"approve", "resume", "escalate"}
          /\ calls'[c].pc = "approve" => calls[c].verdict = "approved"
      BY <1>1, <1>8, CallEffect, AtFields DEF BumpRound, CallPcs
    <2>3. RowsWithin(round)' /\ RowsWithin(round + 1)'
      <3>1. \A i \in DOMAIN thread : thread[i].round \in Nat
        BY RoundsAreNumbers
      <3> QED BY <1>2, <2>1, <3>1 DEF RowsWithin
    <2>4. calls'[c].pc = "approve" => ApprovedIn(round)'
      BY <2>1, <2>2 DEF ApprovedIn
    <2> QED BY <1>1, <2>1, <2>2, <2>3, <2>4
  <1>9. CASE Approve(c) \/ SendBack(c) \/ Escalate(c)
    <2>1. calls[c].pc # "bump" /\ calls'[c].pc = "idle" /\ UNCHANGED <<thread, round>>
      BY <1>1, <1>9, CallEffect DEF Approve, SendBack, Escalate, EndRound, CallIdle
    <2>2. column' = "approved" => calls[c].pc = "approve"
      BY <1>1, <1>9 DEF Approve, SendBack, Escalate, EndRound, Shift, Wins, TaskEdges
    <2> QED BY <1>1, <2>1, <2>2 DEF RowsWithin, ApprovedIn
  <1>10. CASE Resumes(c)
    <2>1. calls'[c].pc \in {"idle", "launch", "sendback"}
      BY <1>1, <1>10, CallEffect, AtFields
      DEF Resumes, CreateResumed, LaunchResumed, RoundThrows, CallIdle, CallPcs
    <2>2. calls[c].pc # "bump" /\ UNCHANGED <<thread, round, column>>
      BY <1>10 DEF Resumes, CreateResumed, LaunchResumed, RoundStep, Stay
    <2> QED BY <1>3, <2>1, <2>2
  <1> QED
    BY <1>4, <1>5, <1>6, <1>7, <1>8, <1>9, <1>10 DEF Continue

LEMMA OnRecordStep ==
  Parts /\ RoundAlone /\ OnRecord /\ [ReviewMergeNext]_reviewMergeVars => OnRecord'
  <1> SUFFICES ASSUME Parts, RoundAlone, OnRecord, [ReviewMergeNext]_reviewMergeVars,
                      marks' \cap {"overlap", "round", "operator"} = {}
               PROVE  Recording'
    BY DEF OnRecord
  <1>1. Recording /\ Alone
    BY MarksStep DEF OnRecord, RoundAlone
  <1>2. RoundCallers \subseteq Callers /\ round \in Nat
    BY DEF Callers, Parts, ScalarTypes
  <1>3. ASSUME NEW c \in RoundCallers, StartRound(c) PROVE Recording'
    <2>1. UNCHANGED <<thread, round, column>> /\ \A d \in RoundCallers : d # c => calls'[d] = calls[d]
      BY <1>2, <1>3, StartAlone DEF StartRound
    <2>2. CASE UNCHANGED calls
      BY <1>1, <2>1, <2>2 DEF Recording, RowsWithin, ApprovedIn
    <2>3. CASE /\ calls'[c].pc = "diff" /\ calls'[c].round = round + 1
               /\ \A d \in RoundCallers : calls[d].pc = "idle"
      BY <1>1, <2>1, <2>3 DEF Recording, RowsWithin, ApprovedIn
    <2> QED BY <1>3, <2>2, <2>3, StartAlone
  <1>4. CASE Coder \/ Resumes("human") \/ Human \/ Hook
             \/ (\E m \in MergeCallers : MergeContinues(m)) \/ ReconcileOrphan \/ UNCHANGED reviewMergeVars
    <2>1. /\ UNCHANGED <<thread, round>> /\ \A d \in RoundCallers : calls'[d] = calls[d]
          /\ column' = "approved" => column = "approved"
      BY <1>4, ThreadUntouched, RoundsUntouched
    <2> QED BY <1>1, <2>1 DEF Recording, RowsWithin, ApprovedIn
  <1>5. CASE ReviewRestart
    <2>1. /\ UNCHANGED <<thread, round>> /\ \A d \in RoundCallers : calls'[d].pc = "idle"
          /\ column' = "approved" => column = "approved"
      BY <1>2, <1>5 DEF ReviewRestart, CallIdle, Stay
    <2>2. \A c \in RoundCallers : calls[c].pc # "bump"
      BY <1>5 DEF ReviewRestart, Torn, Mark
    <2> QED BY <1>1, <2>1, <2>2 DEF Recording, RowsWithin, ApprovedIn
  <1> QED
    BY <1>1, <1>3, <1>4, <1>5, RecordingByRound DEF ReviewMergeNext, Callers

\* ApprovedIsOnRecord: for any number of rounds, repairs, restarts and callers, an
\* approved task has the approval of its current round on the thread, unless two
\* rounds overlapped, a restart tore a verdict from its round number or the operator
\* moved the task.
THEOREM ApprovalsAreOnRecord == ReviewMergeSpec => []ApprovedIsOnRecord
  <1>1. ReviewMergeInit => OnRecord
    BY DEF ReviewMergeInit, OnRecord, Recording, RowsWithin, RoundCallers, Callers, CallIdle
  <1>2. OnRecord => ApprovedIsOnRecord
    BY DEF OnRecord, Recording, ApprovedIn, ApprovedIsOnRecord
  <1> QED BY <1>1, <1>2, OnRecordStep, RoundAloneHolds, PartsHold, PTL DEF ReviewMergeSpec

----------------------------------------------------------------------------
(* The board and the forge agree on the merge *)

\* The operator does not declare a merge; nothing in the code's API keeps him from it.
NoApiDone == <<"merging", "done">> \notin OperatorMoves

\* Undisturbed, an attempt holds the task: in approved up to its move to merging,
\* in merging from there on, and it leaves no context behind.
HoldsTask ==
    /\ "left over" \notin marks
    /\ \A m \in MergeCallers :
          /\ merges[m].pc \in {"preflight", "enter", "block"} => column = "approved"
          /\ merges[m].pc \in {"merge", "confirm"} => column = "merging"

Undisturbed == marks \cap {"operator", "merges"} = {}

Recorded ==
    /\ \A m \in MergeCallers : merges[m].pc = "confirm" => forgeMerged # NoSha
    /\ Undisturbed => HoldsTask
    /\ MergeIsRecorded

\* Of two attempts at once there is a mark.
LEMMA OneAttempt ==
  ASSUME ContextOwned, "merges" \notin marks, NEW m \in MergeCallers, merges[m].pc # "idle",
         NEW k \in MergeCallers, k # m
  PROVE  merges[k].pc = "idle"
  BY DEF ContextOwned, MergeCallers

LEMMA AttemptEffect ==
  ASSUME Parts, NEW m \in MergeCallers, NEW rec, Attempt(m, rec)
  PROVE  merges'[m] = rec /\ \A k \in MergeCallers : k # m => merges'[k] = merges[k]
  BY DEF Attempt, Parts, MergeTypes

\* Only the operator and the merge move a task that is approved, merging or done,
\* and nobody one that is done.
LEMMA MovesOfMerged ==
  ASSUME Parts, NoApiDone, [ReviewMergeNext]_reviewMergeVars,
         ~Hook, \A m \in MergeCallers : ~MergeContinues(m)
  PROVE  /\ column' = "done" <=> column = "done"
         /\ UNCHANGED forgeMerged
         /\ merges' = merges \/ \A m \in MergeCallers : merges'[m] = MergeIdle
         /\ column \in {"approved", "merging"} /\ "operator" \notin marks' => column' = column
         /\ "left over" \in marks' => "left over" \in marks
  <1> DEFINE Quiet == /\ column' = "done" <=> column = "done"
                      /\ column \in {"approved", "merging"} => column' = column
  <1>1. ASSUME NEW from \in {"coding", "review", "needs_human"}, NEW to, NEW actor,
               to # "done", Shift(from, to, actor)
        PROVE  Quiet
    BY <1>1 DEF Shift, Wins
  <1>2. ASSUME Stay PROVE Quiet
    BY <1>2 DEF Stay
  <1>3. CASE Coder
    <2>1. Quiet
      BY <1>1, <1>2, <1>3 DEF Coder, Commit, CoderEnds, PushHead, HandOff, ParkTask
    <2>2. UNCHANGED <<forgeMerged, merges>> /\ marks' \subseteq marks \cup {"succeeded"}
      BY <1>3
      DEF Coder, Commit, CoderEnds, PushHead, HandOff, ParkTask, Mark, forge, merging
    <2> QED BY <2>1, <2>2
  <1>4. ASSUME NEW c \in RoundCallers, StartRound(c) \/ Continue(c) PROVE
               /\ Quiet /\ UNCHANGED <<forgeMerged, merges>>
               /\ marks' \subseteq marks \cup {"overlap", "threw"}
    <2>1. Quiet
      BY <1>1, <1>2, <1>4
      DEF StartRound, Continue, GetDiff, OpenReviewer, CloseReviewer, HarnessVerdict,
          RecordVerdict, BumpRound, Approve, SendBack, Escalate, EndRound, RoundStep
    <2>2. UNCHANGED <<forgeMerged, merges>> /\ marks' \subseteq marks \cup {"overlap", "threw"}
      BY <1>4
      DEF StartRound, Continue, GetDiff, OpenReviewer, CloseReviewer, HarnessVerdict,
          RecordVerdict, BumpRound, Approve, SendBack, Escalate, EndRound, RoundStep, RoundThrows,
          Mark, forge, merging
    <2> QED BY <2>1, <2>2
  <1>5. ASSUME NEW c \in Callers, Resumes(c) PROVE
               /\ Quiet /\ UNCHANGED <<forgeMerged, merges>>
               /\ marks' \subseteq marks \cup {"threw"}
    BY <1>2, <1>5
    DEF Resumes, CreateResumed, LaunchResumed, RoundStep, RoundThrows, Mark, forge, merging
  <1>6. CASE Human
    <2>1. UNCHANGED <<forgeMerged, merges>> /\ marks' \subseteq marks \cup {"operator"}
      BY <1>6 DEF Human, HumanVerdict, HumanMove, OperatorMove, Mark, forge, merging
    <2>2. ASSUME NEW d, HumanVerdict(d) PROVE Quiet
      BY <1>2, <2>2 DEF HumanVerdict
    <2>3. ASSUME NEW d, NEW to \in {"coding", "merging", "cancelled"}, HumanMove(d, to) PROVE Quiet
      BY <1>1, <2>3 DEF HumanMove
    <2>4. ASSUME NEW e \in OperatorMoves, OperatorMove(e[1], e[2])
          PROVE  "operator" \in marks' /\ (column' = "done" <=> column = "done")
      <3>1. e \in TaskEdges /\ e = <<e[1], e[2]>> /\ column = e[1]
        BY <2>4, EdgeStates, ReviewMergeAssumption DEF OperatorMove
      <3>2. e[1] # "done" /\ e[2] # "done"
        BY <3>1 DEF TaskEdges, TaskStates, TerminalTaskStates, NoApiDone
      <3> QED BY <2>4, <3>1, <3>2 DEF OperatorMove, Mark, Shift
    <2> QED BY <1>6, <2>1, <2>2, <2>3, <2>4 DEF Human
  <1>7. CASE ReviewRestart
    <2>1. UNCHANGED <<column, forgeMerged>> /\ \A m \in MergeCallers : merges'[m] = MergeIdle
      BY <1>7 DEF ReviewRestart, Stay, forge
    <2>2. marks' \subseteq marks \cup {"restart", "round", "merge"}
      BY <1>7 DEF ReviewRestart, Mark, Torn
    <2> QED BY <2>1, <2>2
  <1>8. CASE ReconcileOrphan \/ UNCHANGED reviewMergeVars
    BY <1>1, <1>8 DEF ReconcileOrphan, reviewMergeVars, forge, merging
  <1> QED
    BY <1>3, <1>4, <1>5, <1>6, <1>7, <1>8 DEF ReviewMergeNext

\* A step of no attempt leaves the record as it is; a restart with a merge to
\* confirm leaves its mark.
LEMMA RecordedElsewhere ==
  ASSUME Parts, Recorded, NoApiDone, [ReviewMergeNext]_reviewMergeVars,
         ~Hook, \A m \in MergeCallers : ~MergeContinues(m)
  PROVE  Recorded'
  <1>1. marks \subseteq marks'
    BY MarksStep
  <1>2. ASSUME NEW m \in MergeCallers, merges[m].pc = "confirm", merges' # merges
        PROVE  "merge" \in marks'
    <2>1. ReviewRestart
      BY <1>2
      DEF ReviewMergeNext, Coder, Commit, CoderEnds, PushHead, HandOff, ParkTask, StartRound,
          Continue, GetDiff, OpenReviewer, CloseReviewer, HarnessVerdict, RecordVerdict, BumpRound,
          Approve, SendBack, Escalate, EndRound, RoundStep, Resumes, CreateResumed, LaunchResumed,
          Human, HumanVerdict, HumanMove, OperatorMove, ReconcileOrphan, merging, reviewMergeVars
    <2> QED BY <1>2, <2>1 DEF ReviewRestart, Mark, Torn
  <1>3. /\ column' = "done" <=> column = "done"
        /\ UNCHANGED forgeMerged
        /\ merges' = merges \/ \A m \in MergeCallers : merges'[m] = MergeIdle
        /\ column \in {"approved", "merging"} /\ "operator" \notin marks' => column' = column
        /\ "left over" \in marks' => "left over" \in marks
    BY MovesOfMerged
  <1>4. MergeIdle.pc = "idle"
    BY DEF MergeIdle
  <1>5. (Undisturbed => HoldsTask)'
    BY <1>1, <1>3, <1>4 DEF Recorded, Undisturbed, HoldsTask
  <1>6. MergeIsRecorded'
    BY <1>1, <1>2, <1>3 DEF Recorded, MergeIsRecorded
  <1>7. \A m \in MergeCallers : merges'[m].pc = "confirm" => forgeMerged' # NoSha
    BY <1>3, <1>4 DEF Recorded
  <1> QED BY <1>5, <1>6, <1>7 DEF Recorded

\* An attempt starts on an approved task, or is forced.
LEMMA RecordedByHook ==
  ASSUME Parts, Recorded, Hook PROVE Recorded'
  <1>0. marks \subseteq marks'
    BY MarksStep DEF ReviewMergeNext
  <1>1. marks \subseteq marks' /\ UNCHANGED <<column, forgeMerged>>
    BY <1>0 DEF Hook, MergeOnBoot, HookApproved, HookForced, Stay, forge
  <1>2. "left over" \in marks' => "left over" \in marks
    <2>1. \A m : TryAutoMerge(m) => marks' \subseteq marks \cup {"merges"}
      BY DEF TryAutoMerge, Resolved, Mark
    <2>2. HookForced => marks' \subseteq marks \cup {"merges"}
      BY DEF HookForced, Mark
    <2> QED BY <2>1, <2>2 DEF Hook, MergeOnBoot, HookApproved
  <1>3. ASSUME NEW m \in MergeCallers, merges[m].pc = "idle", NEW rec, Attempt(m, rec),
               rec.pc \in {"preflight", "block"} => column = "approved",
               rec.pc \in {"preflight", "block", "force"}
        PROVE  Recorded'
    <2>1. merges'[m] = rec /\ \A k \in MergeCallers : k # m => merges'[k] = merges[k]
      BY <1>3, AttemptEffect
    <2>2. (Undisturbed => HoldsTask)'
      BY <1>1, <1>2, <1>3, <2>1 DEF Recorded, Undisturbed, HoldsTask
    <2>3. MergeIsRecorded'
      BY <1>1, <1>3, <2>1 DEF Recorded, MergeIsRecorded
    <2>4. \A k \in MergeCallers : merges'[k].pc = "confirm" => forgeMerged' # NoSha
      BY <1>1, <1>3, <2>1 DEF Recorded
    <2> QED BY <2>2, <2>3, <2>4 DEF Recorded
  <1>4. CASE UNCHANGED merges
    BY <1>1, <1>2, <1>4 DEF Recorded, Undisturbed, HoldsTask, MergeIsRecorded
  <1>5. ASSUME NEW m \in MergeCallers, merges[m].pc = "idle", TryAutoMerge(m) PROVE Recorded'
    <2>1. ASSUME column = "approved", NEW sha, Resolved(m, sha) PROVE Recorded'
      <3> DEFINE rec == [pc |-> IF sha = NoSha THEN "block" ELSE "preflight", sha |-> sha]
      <3>1. Attempt(m, rec) /\ rec.pc \in {"preflight", "block"}
        BY <2>1 DEF Resolved
      <3> HIDE DEF rec
      <3> QED BY <1>3, <1>5, <2>1, <3>1
    <2> QED BY <1>4, <1>5, <2>1 DEF TryAutoMerge
  <1>6. CASE HookForced
    <2> DEFINE rec == [MergeIdle EXCEPT !.pc = "force"]
    <2>1. Attempt("tail", rec) /\ rec.pc = "force" /\ merges["tail"].pc = "idle"
      BY <1>6 DEF HookForced, MergeIdle
    <2> HIDE DEF rec
    <2> QED BY <1>3, <2>1 DEF MergeCallers
  <1> QED BY <1>5, <1>6 DEF Hook, MergeOnBoot, HookApproved, MergeCallers

\* An attempt goes on: it merges only a task it holds, and records what it merged.
LEMMA RecordedByAttempt ==
  ASSUME Parts, ContextOwned, Recorded, NEW m \in MergeCallers, MergeContinues(m)
  PROVE  Recorded'
  <1>1. marks \subseteq marks'
    BY MarksStep DEF ReviewMergeNext
  <1>2. /\ merges[m].pc # "idle"
        /\ \A k \in MergeCallers : k # m => merges'[k] = merges[k]
    BY AttemptEffect DEF MergeContinues, Preflight, EnterMerging, Block, CallMerge, Park, Confirm
  <1>3. "merges" \notin marks => \A k \in MergeCallers : k # m => merges'[k].pc = "idle"
    BY <1>2, OneAttempt
  <1>4. \A pc \in MergePcs : MergeAt(m, pc).pc = pc
    BY DEF MergeAt, Parts, MergeTypes
  <1>5. MergeIdle.pc = "idle"
    BY DEF MergeIdle
  <1>6. CASE Preflight(m)
    <2>1. UNCHANGED <<column, forgeMerged, marks>> /\ merges[m].pc = "preflight"
      BY <1>6 DEF Preflight, Stay, forge
    <2>2. merges'[m].pc \in {"enter", "block"}
      BY <1>4, <1>6, AttemptEffect DEF Preflight, MergePcs
    <2> QED
      BY <1>2, <2>1, <2>2 DEF Recorded, Undisturbed, HoldsTask, MergeIsRecorded
  <1>7. CASE EnterMerging(m)
    <2>1. UNCHANGED forgeMerged /\ merges[m].pc = "enter"
      BY <1>7 DEF EnterMerging, forge
    <2>2. CASE column = "approved"
      <3>1. column' = "merging" /\ UNCHANGED marks /\ merges'[m].pc = "merge"
        BY <1>4, <1>7, <2>2, AttemptEffect DEF EnterMerging, Shift, Wins, TaskEdges, MergePcs
      <3> QED
        BY <1>2, <1>3, <2>1, <2>2, <3>1 DEF Recorded, Undisturbed, HoldsTask, MergeIsRecorded
    <2>3. CASE column # "approved"
      <3>1. UNCHANGED column /\ merges'[m].pc = "idle"
        BY <1>5, <1>7, <2>3, AttemptEffect DEF EnterMerging, Shift, Wins
      <3>2. ~Undisturbed /\ ~Undisturbed'
        BY <1>1, <2>1, <2>3 DEF Recorded, Undisturbed, HoldsTask
      <3> QED
        BY <1>1, <1>2, <2>1, <3>1, <3>2 DEF Recorded, MergeIsRecorded
    <2> QED BY <2>2, <2>3
  <1>8. CASE Block(m) \/ Park(m)
    <2>1. UNCHANGED <<forgeMerged, marks>> /\ merges[m].pc \in {"block", "park"}
      BY <1>8 DEF Block, Park, forge
    <2>2. merges'[m].pc \in {"park", "idle"}
      BY <1>4, <1>5, <1>8, AttemptEffect DEF Block, Park, MergePcs
    <2>3. (column' = "done" <=> column = "done")
      BY <1>8 DEF Block, Park, Shift, Wins
    <2>4. (Undisturbed => HoldsTask)'
      BY <1>2, <1>3, <2>1, <2>2 DEF Recorded, Undisturbed, HoldsTask
    <2> QED
      BY <1>2, <2>1, <2>2, <2>3, <2>4 DEF Recorded, MergeIsRecorded
  <1>9. CASE Confirm(m)
    <2>1. UNCHANGED <<forgeMerged, marks>> /\ merges[m].pc = "confirm" /\ merges'[m].pc = "idle"
      BY <1>5, <1>9, AttemptEffect DEF Confirm, forge
    <2>2. forgeMerged # NoSha
      BY <2>1 DEF Recorded
    <2>3. column = "merging" => column' = "done"
      BY <1>9 DEF Confirm, Shift, Wins, TaskEdges
    <2>4. column = "done" => column' = "done"
      BY <1>9 DEF Confirm, Shift
    <2>5. (Undisturbed => HoldsTask)'
      BY <1>2, <1>3, <2>1 DEF Recorded, Undisturbed, HoldsTask
    <2>6. Undisturbed => column = "merging"
      BY <2>1 DEF Recorded, HoldsTask
    <2> QED
      BY <1>2, <2>1, <2>2, <2>3, <2>4, <2>5, <2>6 DEF Recorded, MergeIsRecorded, Undisturbed
  <1>10. CASE CallMerge(m)
    <2>1. /\ UNCHANGED column /\ merges[m].pc \in {"merge", "force"}
          /\ "left over" \in marks' => "left over" \in marks
      BY <1>10 DEF CallMerge, Stay, Mark
    <2>2. CASE forgeMerged' = forgeMerged /\ merges'[m].pc = "park" /\ UNCHANGED marks
      BY <1>2, <1>10, <2>2 DEF CallMerge, Stay, Recorded, Undisturbed, HoldsTask, MergeIsRecorded
    <2>3. CASE /\ Accepts /\ forgeMerged' = prHead
               /\ \/ merges'[m].pc = "confirm"
                  \/ merges'[m].pc = "park" /\ "lost answer" \in marks'
      <3>1. forgeMerged' # NoSha
        BY <2>3 DEF Accepts
      <3>2. merges[m].pc = "merge" \/ ~Undisturbed \/ "left over" \in marks
        BY <1>2, <1>10, <2>3, OneAttempt DEF ContextOwned, Accepts, CallMerge, Undisturbed
      <3>3. (Undisturbed => HoldsTask)'
        BY <1>1, <1>2, <1>3, <1>10, <2>1, <2>3, <3>2
        DEF CallMerge, Stay, Recorded, Undisturbed, HoldsTask
      <3> QED
        BY <1>2, <1>10, <2>3, <3>1, <3>3 DEF CallMerge, Stay, Recorded, MergeIsRecorded
    <2>4. \/ forgeMerged' = forgeMerged /\ merges'[m].pc = "park" /\ UNCHANGED marks
          \/ /\ Accepts /\ forgeMerged' = prHead
             /\ \/ merges'[m].pc = "confirm"
                \/ merges'[m].pc = "park" /\ "lost answer" \in marks'
      BY <1>4, <1>10, AttemptEffect DEF CallMerge, Mark, MergePcs, forge
    <2> QED BY <2>2, <2>3, <2>4
  <1> QED BY <1>6, <1>7, <1>8, <1>9, <1>10 DEF MergeContinues

\* MergeIsRecorded: for any number of attempts, rounds, faults and restarts, done
\* means merged, and a merge at the forge is recorded or about to be, unless its
\* answer was lost, a restart or the operator came between, or two attempts ran at
\* once.  The operator declares no merge himself.
THEOREM MergesAreRecorded == NoApiDone => (ReviewMergeSpec => []MergeIsRecorded)
  <1> SUFFICES ASSUME NoApiDone PROVE ReviewMergeSpec => []MergeIsRecorded
    OBVIOUS
  <1>1. ReviewMergeInit => ContextOwned /\ Recorded
    BY DEF ReviewMergeInit, ContextOwned, ForceNeedsRace, Recorded, HoldsTask, MergeIsRecorded,
           MergeIdle, MergeCallers
  <1>2. Parts /\ ContextOwned /\ Recorded /\ [ReviewMergeNext]_reviewMergeVars => Recorded'
    BY RecordedElsewhere, RecordedByHook, RecordedByAttempt
  <1>3. Recorded => MergeIsRecorded
    BY DEF Recorded
  <1> QED BY <1>1, <1>2, <1>3, ContextStep, PartsHold, PTL DEF ReviewMergeSpec

----------------------------------------------------------------------------
(* The task on the board: what this module and the coder loop expect of    *)
(* each other                                                              *)

\* What the review, the humans' verdicts and the merge do to a task of the coder
\* loop: CoderLoop takes these edges from its environment (ApiEdges) ...
EnvironmentEdges ==
    {<<"review", "approved">>, <<"review", "needs_human">>, <<"approved", "merging">>,
     <<"merging", "done">>, <<"merging", "needs_human">>, <<"needs_human", "merging">>,
     <<"needs_human", "cancelled">>}

\* ... and these moves it makes itself: the end of a completion, a revise verdict
\* whose coder has been launched, a human's resume that is about to launch one, the
\* boot's reconciliation of a run whose session is gone.
CompletionMoves ==
    /\ column = "coding" /\ column' \in {"review", "needs_human"}
    /\ completion # "idle" /\ completion' = "idle"

ReviseMoves ==
    /\ column = "review" /\ column' = "coding"
    /\ \E c \in RoundCallers : calls[c].pc = "sendback" /\ calls'[c] = CallIdle

ResumeMoves ==
    /\ column = "needs_human" /\ column' = "coding"
    /\ calls["human"].pc = "resume_coding" /\ calls'["human"].pc = "resume"

BootMoves == column = "coding" /\ column' = "failed" /\ activeRun = "orphan"

LoopMoves == CompletionMoves \/ ReviseMoves \/ ResumeMoves \/ BootMoves

TaskMoves ==
    \/ column' = column
    \/ <<column, column'>> \in EnvironmentEdges \cup OperatorMoves
    \/ LoopMoves

LEMMA ShiftMoves ==
  ASSUME NEW from, NEW to, NEW actor, Shift(from, to, actor), column' # column
  PROVE  column = from /\ column' = to /\ <<from, to>> \in TaskEdges
  BY DEF Shift, Wins

\* Every step leaves the task or takes it along one of those edges.
LEMMA EveryMove == ASSUME Parts, [ReviewMergeNext]_reviewMergeVars PROVE TaskMoves
  <1> SUFFICES ASSUME column' # column
               PROVE  <<column, column'>> \in EnvironmentEdges \cup OperatorMoves \/ LoopMoves
    BY DEF TaskMoves
  <1>1. CASE Coder
    <2>1. HandOff \/ ParkTask
      BY <1>1 DEF Coder, Commit, CoderEnds, PushHead, Stay
    <2>2. column = "coding" /\ column' \in {"review", "needs_human"}
      BY <2>1, ShiftMoves DEF HandOff, ParkTask
    <2> QED BY <2>1, <2>2 DEF HandOff, ParkTask, LoopMoves, CompletionMoves
  <1>2. ASSUME NEW c \in RoundCallers, StartRound(c) \/ Continue(c)
        PROVE  <<column, column'>> \in EnvironmentEdges \cup OperatorMoves \/ LoopMoves
    <2>1. Approve(c) \/ SendBack(c) \/ Escalate(c)
      BY <1>2
      DEF Continue, StartRound, GetDiff, OpenReviewer, CloseReviewer, HarnessVerdict,
          RecordVerdict, BumpRound, RoundStep, Stay
    <2>2. CASE Approve(c) \/ Escalate(c)
      BY <2>2 DEF Approve, Escalate, EndRound, EnvironmentEdges, Shift, Wins
    <2>3. CASE SendBack(c)
      <3>1. column = "review" /\ column' = "coding"
        BY <2>3, ShiftMoves DEF SendBack, EndRound
      <3>2. calls[c].pc = "sendback" /\ calls'[c] = CallIdle
        BY <2>3, CallEffect DEF SendBack, EndRound, Callers
      <3> QED BY <3>1, <3>2 DEF LoopMoves, ReviseMoves
    <2> QED BY <2>1, <2>2, <2>3
  <1>3. ASSUME NEW c \in Callers, Resumes(c) PROVE FALSE
    BY <1>3 DEF Resumes, CreateResumed, LaunchResumed, RoundStep, Stay
  <1>4. ASSUME NEW d \in {"resume_coding", "force_merge", "reject"}, HumanVerdict(d) PROVE FALSE
    BY <1>4 DEF HumanVerdict, Stay
  <1>5. ASSUME HumanMove("force_merge", "merging") \/ HumanMove("reject", "cancelled")
        PROVE  <<column, column'>> \in EnvironmentEdges
    BY <1>5 DEF HumanMove, EnvironmentEdges, Shift, Wins
  <1>6. ASSUME HumanMove("resume_coding", "coding") PROVE LoopMoves
    <2>1. column = "needs_human" /\ column' = "coding" /\ <<"needs_human", "coding">> \in TaskEdges
      BY <1>6, ShiftMoves DEF HumanMove
    <2>2. calls["human"].pc = "resume_coding" /\ calls'["human"] = At("human", "resume")
      BY <1>6, <2>1, CallEffect DEF HumanMove, Wins, Callers
    <2>3. At("human", "resume").pc = "resume"
      BY AtFields DEF Callers, CallPcs
    <2> QED BY <2>1, <2>2, <2>3 DEF LoopMoves, ResumeMoves
  <1>7. ASSUME NEW e \in OperatorMoves, OperatorMove(e[1], e[2])
        PROVE  <<column, column'>> \in OperatorMoves
    BY <1>7, ShiftMoves DEF OperatorMove
  <1>8. CASE Hook \/ ReviewRestart
    BY <1>8 DEF Hook, MergeOnBoot, HookApproved, HookForced, ReviewRestart, Stay
  <1>9. ASSUME NEW m \in MergeCallers, MergeContinues(m)
        PROVE  <<column, column'>> \in EnvironmentEdges
    <2>1. EnterMerging(m) \/ Block(m) \/ Park(m) \/ Confirm(m)
      BY <1>9 DEF MergeContinues, Preflight, CallMerge, Stay
    <2> QED BY <2>1 DEF EnterMerging, Block, Park, Confirm, EnvironmentEdges, Shift, Wins
  <1>10. CASE UNCHANGED reviewMergeVars
    BY <1>10 DEF reviewMergeVars
  <1>11. CASE ReconcileOrphan
    <2>1. column = "coding" /\ column' = "failed" /\ activeRun = "orphan"
      BY <1>11, ShiftMoves DEF ReconcileOrphan
    <2> QED BY <2>1 DEF LoopMoves, BootMoves
  <1> QED
    BY <1>1, <1>2, <1>3, <1>4, <1>5, <1>6, <1>7, <1>8, <1>9, <1>10, <1>11 DEF ReviewMergeNext, Human

\* What CoderLoopProofs assumes of the environment is what this module does: but
\* for the operator, nobody takes a task from coding to review or into coding
\* except a completion, a revise verdict and a human's resume, which are CoderLoop's
\* own as the boot's reconciliation is (so NoApiReview and NoApiCoding are met), and
\* the other moves are edges CoderLoop leaves to ApiEdges.
THEOREM EnvironmentKeepsOut == ReviewMergeSpec => [][TaskMoves]_reviewMergeVars
  <1>1. Parts /\ [ReviewMergeNext]_reviewMergeVars => TaskMoves
    BY EveryMove
  <1> QED BY <1>1, PartsHold, PTL DEF ReviewMergeSpec

\* The board with this task alone, which waits for no other; of runs it knows nothing.
OnBoard == INSTANCE Board
    WITH Task <- {1}, DependsOn <- {}, RunId <- {},
         taskState <- [t \in {1} |-> column], merged <- [t \in {1} |-> column = "done"],
         jumped <- {}, runState <- <<>>, runTask <- <<>>

\* The edges of this module, the operator's included, are edges of the task's
\* state machine.
LEMMA LegalMoves ==
  ASSUME Parts, TaskMoves, column' # column
  PROVE  <<column, column'>> \in TaskEdges
  <1>1. EnvironmentEdges \subseteq TaskEdges
    BY DEF EnvironmentEdges, TaskEdges, TaskStates, TerminalTaskStates
  <1>2. OperatorMoves \subseteq TaskEdges
    BY ReviewMergeAssumption
  <1>3. ASSUME LoopMoves PROVE <<column, column'>> \in TaskEdges
    BY <1>3 DEF LoopMoves, CompletionMoves, ReviseMoves, ResumeMoves, BootMoves, TaskEdges
  <1> QED BY <1>1, <1>2, <1>3 DEF TaskMoves

\* Review and merge keep the board's promise as the coder loop does (Refinement):
\* whatever rounds, humans, attempts and restarts interleave, each of their steps
\* is a step of Board for the task or none, and a merge is on record with done.
THEOREM ReviewMergeOnBoard == ReviewMergeSpec => [][OnBoard!Next]_(OnBoard!vars)
  <1>1. ASSUME Parts, [ReviewMergeNext]_reviewMergeVars PROVE [OnBoard!Next]_(OnBoard!vars)
    <2>1. TaskMoves
      BY <1>1, EveryMove
    <2>2. CASE column' = column
      BY <2>2 DEF OnBoard!vars
    <2>3. CASE column' # column
      <3>1. <<column, column'>> \in TaskEdges
        BY <1>1, <2>1, <2>3, LegalMoves
      <3>2. column # "done" /\ column' \in TaskStates
        BY <3>1, EdgeStates DEF TaskEdges, TaskStates, TerminalTaskStates
      <3>3. [t \in {1} |-> column'] = [[t \in {1} |-> column] EXCEPT ![1] = column']
        BY Zenon
      <3>4. OnBoard!Promote([[t \in {1} |-> column] EXCEPT ![1] = column'],
                            [t \in {1} |-> column = "done"]')
        <4>1. {} \in SUBSET {t \in {1} : [[s \in {1} |-> column] EXCEPT ![1] = column'][t] = "backlog"
                               /\ \A d \in OnBoard!Prereqs(t) : [s \in {1} |-> column = "done"]'[d]}
          OBVIOUS
        <4>2. [t \in {1} |-> column]' =
                [t \in {1} |-> IF t \in {} THEN "ready"
                               ELSE [[s \in {1} |-> column] EXCEPT ![1] = column'][t]]
          BY <3>3
        <4> QED BY <4>1, <4>2, Zenon DEF OnBoard!Promote
      <3>5. [t \in {1} |-> column = "done"]' =
              IF column' = "done" THEN [[t \in {1} |-> column = "done"] EXCEPT ![1] = TRUE]
                                  ELSE [t \in {1} |-> column = "done"]
        BY <3>2
      <3>6. OnBoard!MoveTask(1, column')
        <4>1. <<[t \in {1} |-> column][1], column'>> \in OnBoard!TaskEdges
          BY <3>1
          DEF OnBoard!TaskEdges, OnBoard!TaskStates, OnBoard!TerminalTaskStates,
              TaskEdges, TaskStates, TerminalTaskStates
        <4>2. OnBoard!JumpedAfter(1, column') = {}
          BY DEF OnBoard!JumpedAfter, OnBoard!Prereqs
        <4> QED BY <3>4, <3>5, <4>1, <4>2, Zenon DEF OnBoard!MoveTask, OnBoard!runRows
      <3>7. \E t \in {1}, to \in TaskStates : OnBoard!MoveTask(t, to)
        BY <3>2, <3>6
      <3> QED
        BY <3>7, Zenon DEF OnBoard!Next, OnBoard!TaskStates, TaskStates
    <2> QED BY <2>2, <2>3
  <1>2. Parts /\ [ReviewMergeNext]_reviewMergeVars => [OnBoard!Next]_(OnBoard!vars)
    BY <1>1
  <1> QED BY <1>2, PartsHold, PTL DEF ReviewMergeSpec

============================================================================
