-------------------------- MODULE ExperimentProofs --------------------------
(***************************************************************************)
(* For any experiments, metrics and bounds: the state is well formed, the  *)
(* loop keeps the promise of KeepBest, and the branch holds what was kept. *)
(***************************************************************************)
EXTENDS Experiment, SequenceTheorems, TLAPS

----------------------------------------------------------------------------
(* The inductive invariant *)

Working == {"edit", "commit", "sha", "eval", "keep", "discard", "discarded", "crash", "crashed"}

Measured(l) == attempt[l].metric \in Metric

\* What a loop has decided still holds when it acts on it: its baseline moves
\* with its own kept attempts only, and a commit it has made has a history.
LoopInv(l) ==
    /\ loopPc[l] \in Working => iteration[l] <= LastIteration(l)
    /\ loopPc[l] = "sha" => branch # <<>>
    /\ loopPc[l] \in {"eval", "keep", "discard", "discarded"} => attempt[l].commit # <<>>
    /\ loopPc[l] = "keep" => Measured(l) /\ Improved(l, attempt[l].metric)
    /\ loopPc[l] \in {"discard", "discarded"} => Measured(l) /\ ~Improved(l, attempt[l].metric)

ExpInv == ExperimentTypeOK /\ \A l \in Loop : LoopInv(l)

LEMMA LastOfLoop == \A l \in Loop : LastIteration(l) \in Nat
  BY ExperimentAssumption DEF LastIteration, ExperimentAssumption

\* A fresh server has no ledger, and every loop is still to be dispatched.
LEMMA ExpInit == ExperimentInit => ExpInv
  <1> SUFFICES ASSUME ExperimentInit PROVE ExpInv
    OBVIOUS
  <1>1. edited \in BOOLEAN
    BY Zenon DEF ExperimentInit
  <1>2. \A l \in Loop : iteration[l] = 1 /\ Len(ledger[l]) = 0 /\ LastIteration(l) \in Nat
    BY LastOfLoop DEF ExperimentInit
  <1>3. /\ loopPc \in [Loop -> LoopPcs] /\ baseline \in [Loop -> Metric \cup {NoMetric}]
        /\ kept \in [Loop -> Seq(Loop \X Nat)] /\ branch \in Seq(Loop \X Nat)
        /\ attempt \in [Loop -> Attempts] /\ ledger \in [Loop -> Seq(LedgerRows)]
        /\ iteration \in [Loop -> Nat \ {0}]
    BY DEF ExperimentInit, LoopPcs, NoCommit, NoAttempt, Attempts
  <1>4. \A l \in Loop : baseline[l] = NoMetric <=> kept[l] = NoCommit
    BY DEF ExperimentInit
  <1>5. ExperimentTypeOK
    BY <1>1, <1>2, <1>3, <1>4 DEF ExperimentTypeOK
  <1>6. \A l \in Loop : LoopInv(l)
    BY DEF ExperimentInit, LoopInv, Working
  <1> QED BY <1>5, <1>6 DEF ExpInv

\* The dispatcher's moves of the run change nothing the loops decide on.
LEMMA DispatchStep ==
  ASSUME ExpInv, NEW l \in Loop,
         CreateExperiment(l) \/ StartExperiment(l) \/ FinishExperiment(l) \/ KillExperiment(l)
  PROVE  ExpInv'
  <1>1. UNCHANGED <<repository, loopLocals, ledger>>
    BY DEF CreateExperiment, StartExperiment, FinishExperiment, KillExperiment
  <1>2. /\ loopPc' \in [Loop -> LoopPcs]
        /\ \A k \in Loop : loopPc'[k] \in Working \cup {"create"} => loopPc'[k] = loopPc[k] \/ loopPc'[k] = "create"
    BY DEF ExpInv, ExperimentTypeOK, CreateExperiment, StartExperiment, FinishExperiment,
           KillExperiment, Goto, Is, LoopPcs, Working
  <1> QED
    BY <1>1, <1>2
    DEF ExpInv, ExperimentTypeOK, LoopInv, Working, repository, loopLocals, Measured, Improved

\* A restart leaves every loop where it is or dead.
LEMMA RestartStep == ASSUME ExpInv, RestartExperiments PROVE ExpInv'
  <1>1. UNCHANGED <<repository, loopLocals, ledger>>
    BY DEF RestartExperiments
  <1>2. /\ loopPc' \in [Loop -> LoopPcs]
        /\ \A k \in Loop : loopPc'[k] \in Working => loopPc'[k] = loopPc[k]
    BY DEF ExpInv, ExperimentTypeOK, RestartExperiments, Under, LoopPcs, Working
  <1> QED
    BY <1>1, <1>2
    DEF ExpInv, ExperimentTypeOK, LoopInv, Working, repository, loopLocals, Measured, Improved

\* A branch with one more commit is a branch, and not an empty one.
LEMMA OneMore ==
  ASSUME NEW S, NEW seq \in Seq(S), NEW x \in S
  PROVE  Append(seq, x) \in Seq(S) /\ Append(seq, x) # <<>>
  <1>1. Append(seq, x) \in Seq(S) /\ Len(Append(seq, x)) = Len(seq) + 1 /\ Len(seq) \in Nat
    BY AppendProperties, LenProperties
  <1>2. Len(<<>>) = 0
    OBVIOUS
  <1> QED BY <1>1, <1>2

\* The iteration up to the evaluation: a commit is made, and its history read.
LEMMA AttemptStep ==
  ASSUME ExpInv, NEW l \in Loop,
         NextIteration(l) \/ ProduceEdit(l) \/ CommitEdit(l) \/ ReadSha(l)
  PROVE  ExpInv'
  <1> USE DEF ExpInv, ExperimentTypeOK, LoopInv, Working, repository, loopLocals, Measured,
              Improved, Goto, Is, LoopPcs
  <1>1. CASE NextIteration(l)
    <2>1. attempt' \in [Loop -> Attempts]
      BY <1>1 DEF NextIteration, NoAttempt, NoCommit, Attempts
    <2>2. ExperimentTypeOK'
      BY <1>1, <2>1 DEF NextIteration
    <2>3. \A k \in Loop : LoopInv(k)'
      BY SMTT(30), <1>1 DEF NextIteration
    <2> QED BY <2>2, <2>3
  <1>2. CASE ProduceEdit(l)
    <2>1. edited' \in BOOLEAN
      BY Zenon, <1>2 DEF ProduceEdit
    <2> QED BY <1>2, <2>1 DEF ProduceEdit
  <1>3. CASE CommitEdit(l)
    <2>1. edited' \in BOOLEAN
      BY Zenon, <1>3 DEF CommitEdit
    <2>2. <<l, iteration[l]>> \in Loop \X Nat
      OBVIOUS
    <2>3. CASE edited /\ branch' = Append(branch, <<l, iteration[l]>>) /\ Goto(l, "sha")
      <3>1. branch' \in Seq(Loop \X Nat) /\ branch' # <<>>
        <4>1. branch \in Seq(Loop \X Nat)
          OBVIOUS
        <4> HIDE DEF ExpInv
        <4> QED BY <2>2, <2>3, <4>1, OneMore
      <3>2. UNCHANGED <<loopLocals, ledger>> /\ loopPc[l] = "commit"
        BY <1>3 DEF CommitEdit
      <3>3. ExperimentTypeOK'
        BY <2>1, <2>3, <3>1, <3>2
      <3>4. \A k \in Loop : LoopInv(k)'
        BY <2>3, <3>1, <3>2
      <3> QED BY <3>3, <3>4
    <2>4. CASE Goto(l, "crash") /\ UNCHANGED repository
      BY <1>3, <2>1, <2>4 DEF CommitEdit
    <2> QED BY <1>3, <2>3, <2>4 DEF CommitEdit
  <1>4. CASE ReadSha(l)
    <2>1. CASE Goto(l, "eval") /\ attempt' = [attempt EXCEPT ![l].commit = branch]
      <3>1. [attempt[l] EXCEPT !.commit = branch] \in Attempts
        BY DEF Attempts
      <3>2. [attempt[l] EXCEPT !.commit = branch].commit = branch
        BY DEF Attempts
      <3>3. /\ attempt' \in [Loop -> Attempts]
            /\ attempt'[l].commit = branch /\ \A k \in Loop \ {l} : attempt'[k] = attempt[k]
        BY <2>1, <3>1, <3>2
      <3> QED BY <1>4, <2>1, <3>3 DEF ReadSha
    <2>2. CASE Goto(l, "crash") /\ UNCHANGED attempt
      BY <1>4, <2>2 DEF ReadSha
    <2> QED BY <1>4, <2>1, <2>2 DEF ReadSha
  <1> QED BY <1>1, <1>2, <1>3, <1>4

\* The evaluation decides by the baseline, which only this loop moves.
LEMMA EvaluateStep == ASSUME ExpInv, NEW l \in Loop, Evaluate(l) PROVE ExpInv'
  <1> USE DEF ExpInv, ExperimentTypeOK, LoopInv, Working, repository, loopLocals, Measured,
              Goto, Is, LoopPcs
  <1>1. CASE Goto(l, "crash") /\ UNCHANGED attempt
    BY <1>1 DEF Evaluate, Improved
  <1>2. ASSUME NEW m \in Metric, attempt' = [attempt EXCEPT ![l].metric = m],
               Goto(l, IF Improved(l, m) THEN "keep" ELSE "discard")
        PROVE  ExpInv'
    <2>1. /\ attempt' \in [Loop -> Attempts]
          /\ attempt'[l].metric = m /\ attempt'[l].commit = attempt[l].commit
          /\ \A k \in Loop \ {l} : attempt'[k] = attempt[k]
      BY <1>2 DEF Attempts
    <2>2. \A k \in Loop : \A n : Improved(k, n)' <=> Improved(k, n)
      BY DEF Evaluate, Improved
    <2> QED BY SMTT(30), <1>2, <2>1, <2>2 DEF Evaluate
  <1> QED BY <1>1, <1>2 DEF Evaluate

\* A row of the ledger: what AppendLedgerEntry adds for an attempt.
RowOf(l, status) == [status |-> status, commit |-> attempt[l].commit,
                     metric |-> IF status = "crash" THEN NoMetric ELSE attempt[l].metric]

LEMMA RowType ==
  ASSUME ExpInv, NEW l \in Loop, NEW status \in {"keep", "discard", "crash"}
  PROVE  RowOf(l, status) \in LedgerRows
  <1>1. attempt[l] \in Attempts
    BY DEF ExpInv, ExperimentTypeOK
  <1> QED BY <1>1 DEF RowOf, LedgerRows, Attempts

\* An attempt is recorded and the next iteration begins.
LEMMA RecordType ==
  ASSUME ExpInv, NEW l \in Loop, NEW status \in {"keep", "discard", "crash"},
         loopPc[l] \in Working, AppendLedgerEntry(l, status), NextUp(l)
  PROVE  /\ ledger' \in [Loop -> Seq(LedgerRows)]
         /\ iteration' \in [Loop -> Nat \ {0}]
         /\ \A k \in Loop : iteration'[k] <= LastIteration(k) + 1 /\ Len(ledger'[k]) < iteration'[k]
         /\ loopPc' \in [Loop -> LoopPcs] /\ loopPc'[l] = "next"
         /\ \A k \in Loop \ {l} : loopPc'[k] = loopPc[k] /\ iteration'[k] = iteration[k]
  <1>1. ledger' = [ledger EXCEPT ![l] = Append(ledger[l], RowOf(l, status))]
    BY DEF AppendLedgerEntry, RowOf
  <1>2. ledger[l] \in Seq(LedgerRows) /\ RowOf(l, status) \in LedgerRows
    BY RowType DEF ExpInv, ExperimentTypeOK
  <1>3. /\ Append(ledger[l], RowOf(l, status)) \in Seq(LedgerRows)
        /\ Len(Append(ledger[l], RowOf(l, status))) = Len(ledger[l]) + 1
        /\ Len(ledger[l]) \in Nat
    BY <1>2, AppendProperties, LenProperties
  <1>4. iteration[l] <= LastIteration(l) /\ LastIteration(l) \in Nat
    BY LastOfLoop DEF ExpInv, LoopInv
  <1> DEFINE row == Append(ledger[l], RowOf(l, status))
  <1> HIDE DEF row
  <1>5. ledger' = [ledger EXCEPT ![l] = row]
    BY <1>1 DEF row
  <1>6. /\ row \in Seq(LedgerRows) /\ Len(row) = Len(ledger[l]) + 1 /\ Len(ledger[l]) \in Nat
    BY <1>3 DEF row
  <1>7. iteration' = [iteration EXCEPT ![l] = iteration[l] + 1] /\ iteration \in [Loop -> Nat \ {0}]
    BY DEF NextUp, ExpInv, ExperimentTypeOK
  <1>8. ledger \in [Loop -> Seq(LedgerRows)] /\ \A k \in Loop : Len(ledger[k]) < iteration[k]
    BY DEF ExpInv, ExperimentTypeOK
  <1>9. \A k \in Loop : iteration'[k] = IF k = l THEN iteration[l] + 1 ELSE iteration[k]
    BY <1>7
  <1>10. \A k \in Loop : ledger'[k] = IF k = l THEN row ELSE ledger[k]
    BY <1>5, <1>8
  <1>11. \A k \in Loop : iteration'[k] <= LastIteration(k) + 1
    BY <1>4, <1>7, <1>9 DEF ExpInv, ExperimentTypeOK
  <1>12. \A k \in Loop : Len(ledger'[k]) < iteration'[k]
    <2> SUFFICES ASSUME NEW k \in Loop PROVE Len(ledger'[k]) < iteration'[k]
      OBVIOUS
    <2>1. CASE k = l
      BY <2>1, <1>6, <1>7, <1>8, <1>9, <1>10
    <2>2. CASE k # l
      BY <2>2, <1>8, <1>9, <1>10
    <2> QED BY <2>1, <2>2
  <1>13. ledger' \in [Loop -> Seq(LedgerRows)] /\ iteration' \in [Loop -> Nat \ {0}]
    BY <1>5, <1>6, <1>7, <1>8
  <1>14. /\ loopPc' \in [Loop -> LoopPcs] /\ loopPc'[l] = "next"
         /\ \A k \in Loop \ {l} : loopPc'[k] = loopPc[k]
    BY DEF ExpInv, ExperimentTypeOK, NextUp, Goto, LoopPcs
  <1> QED BY <1>9, <1>11, <1>12, <1>13, <1>14

\* A kept attempt becomes the baseline and the commit to come back to.
LEMMA KeepStep == ASSUME ExpInv, NEW l \in Loop, KeepAttempt(l) PROVE ExpInv'
  <1>1. /\ loopPc[l] = "keep" /\ attempt[l].metric \in Metric
        /\ attempt[l].commit # NoCommit /\ attempt[l].metric # NoMetric
    BY ExperimentAssumption DEF ExpInv, LoopInv, KeepAttempt, Is, Measured, NoCommit
  <1>2. attempt[l].commit \in Seq(Loop \X Nat)
    BY DEF ExpInv, ExperimentTypeOK, Attempts
  <1>3. /\ baseline' \in [Loop -> Metric \cup {NoMetric}]
        /\ kept' \in [Loop -> Seq(Loop \X Nat)]
        /\ \A k \in Loop : baseline'[k] = NoMetric <=> kept'[k] = NoCommit
        /\ \A k \in Loop \ {l} : baseline'[k] = baseline[k]
    BY <1>1, <1>2 DEF ExpInv, ExperimentTypeOK, KeepAttempt
  <1>4. UNCHANGED <<branch, edited, attempt>>
    BY DEF KeepAttempt, repository
  <1>5. /\ ledger' \in [Loop -> Seq(LedgerRows)]
        /\ iteration' \in [Loop -> Nat \ {0}]
        /\ \A k \in Loop : iteration'[k] <= LastIteration(k) + 1 /\ Len(ledger'[k]) < iteration'[k]
        /\ loopPc' \in [Loop -> LoopPcs] /\ loopPc'[l] = "next"
        /\ \A k \in Loop \ {l} : loopPc'[k] = loopPc[k] /\ iteration'[k] = iteration[k]
    BY <1>1, RecordType DEF KeepAttempt, Working
  <1>6. ExperimentTypeOK'
    BY <1>3, <1>4, <1>5 DEF ExpInv, ExperimentTypeOK
  <1>7. \A k \in Loop : LoopInv(k)'
    BY <1>3, <1>4, <1>5 DEF ExpInv, LoopInv, Working, Measured, Improved
  <1> QED BY <1>6, <1>7 DEF ExpInv

\* A reset, failed or not, leaves every other loop a branch with a history.
LEMMA ResetStep ==
  ASSUME ExpInv, NEW l \in Loop, ResetBranch(l) \/ ResetFails(l)
  PROVE  ExpInv'
  <1>1. UNCHANGED <<loopLocals, ledger>>
    BY DEF ResetBranch, ResetFails
  <1>2. /\ branch' \in Seq(Loop \X Nat) /\ edited' \in BOOLEAN
        /\ branch # <<>> => branch' # <<>>
    BY DEF ExpInv, ExperimentTypeOK, ResetBranch, ResetFails, Reset, ResetHard, repository, NoCommit
  <1>3. /\ loopPc' \in [Loop -> LoopPcs]
        /\ \A k \in Loop \ {l} : loopPc'[k] = loopPc[k]
        /\ \/ loopPc[l] = "crash" /\ loopPc'[l] = "crashed"
           \/ loopPc[l] = "discard" /\ loopPc'[l] \in {"discarded", "loopThrew"}
    BY DEF ExpInv, ExperimentTypeOK, ResetBranch, ResetFails, Is, Goto, LoopPcs
  <1>4. ExperimentTypeOK'
    BY <1>1, <1>2, <1>3 DEF ExpInv, ExperimentTypeOK, loopLocals
  <1>5. \A k \in Loop : LoopInv(k)'
    BY <1>1, <1>2, <1>3 DEF ExpInv, LoopInv, Working, Measured, Improved, loopLocals
  <1> QED BY <1>4, <1>5 DEF ExpInv

LEMMA FailureStep == ASSUME ExpInv, NEW l \in Loop, RecordFailure(l) PROVE ExpInv'
  <1>1. PICK status \in {"discard", "crash"} :
          AppendLedgerEntry(l, status) /\ loopPc[l] \in Working
    BY DEF RecordFailure, Is, Working
  <1>2. UNCHANGED <<branch, edited, baseline, kept, attempt>>
    BY DEF RecordFailure, repository
  <1>3. /\ ledger' \in [Loop -> Seq(LedgerRows)]
        /\ iteration' \in [Loop -> Nat \ {0}]
        /\ \A k \in Loop : iteration'[k] <= LastIteration(k) + 1 /\ Len(ledger'[k]) < iteration'[k]
        /\ loopPc' \in [Loop -> LoopPcs] /\ loopPc'[l] = "next"
        /\ \A k \in Loop \ {l} : loopPc'[k] = loopPc[k] /\ iteration'[k] = iteration[k]
    BY <1>1, RecordType DEF RecordFailure
  <1>4. ExperimentTypeOK'
    BY <1>2, <1>3 DEF ExpInv, ExperimentTypeOK
  <1>5. \A k \in Loop : LoopInv(k)'
    BY <1>2, <1>3 DEF ExpInv, LoopInv, Working, Measured, Improved
  <1> QED BY <1>4, <1>5 DEF ExpInv

\* Every step of every loop, kill and restart keeps the invariant.
LEMMA ExpStep == ExpInv /\ [ExperimentNext]_experimentVars => ExpInv'
  <1> SUFFICES ASSUME ExpInv, [ExperimentNext]_experimentVars PROVE ExpInv'
    OBVIOUS
  <1>1. CASE UNCHANGED experimentVars
    BY <1>1 DEF experimentVars, repository, loopLocals, ExpInv, ExperimentTypeOK, LoopInv, Measured,
                Improved
  <1>2. CASE RestartExperiments
    BY <1>2, RestartStep
  <1>3. ASSUME NEW l \in Loop, CreateExperiment(l) \/ LoopStep(l) \/ KillExperiment(l)
        PROVE  ExpInv'
    BY <1>3, DispatchStep, AttemptStep, EvaluateStep, KeepStep, ResetStep, FailureStep DEF LoopStep
  <1> QED BY <1>1, <1>2, <1>3 DEF ExperimentNext

LEMMA ExpInvHolds == ExperimentSpec => []ExpInv
  BY ExpInit, ExpStep, PTL DEF ExperimentSpec

\* The state of the experiments is well formed, and no iteration past the last is begun.
THEOREM ExperimentTypeCorrect == ExperimentSpec => []ExperimentTypeOK
  <1>1. ExpInv => ExperimentTypeOK
    BY DEF ExpInv
  <1> QED BY <1>1, ExpInvHolds, PTL

----------------------------------------------------------------------------
(* The loop implements KeepBest *)

\* The ledger as KeepBest sees it.
RowsOf(ld) == [l \in Loop |-> [i \in DOMAIN ld[l] |-> <<ld[l][i].status, ld[l][i].metric>>]]

\* A row appended to the ledger is a row appended to KeepBest's.
LEMMA RowsGrow ==
  ASSUME ExpInv, NEW l \in Loop, NEW status \in {"keep", "discard", "crash"},
         AppendLedgerEntry(l, status)
  PROVE  RowsOf(ledger') =
           [RowsOf(ledger) EXCEPT ![l] =
              Append(@, <<status, IF status = "crash" THEN NoMetric ELSE attempt[l].metric>>)]
  <1> DEFINE row == RowOf(l, status)
             old == ledger[l]
             new == Append(old, row)
             view(s) == [i \in DOMAIN s |-> <<s[i].status, s[i].metric>>]
  <1>1. ledger' = [ledger EXCEPT ![l] = new]
    BY DEF AppendLedgerEntry, RowOf
  <1>2. old \in Seq(LedgerRows) /\ row \in LedgerRows /\ ledger \in [Loop -> Seq(LedgerRows)]
    BY RowType DEF ExpInv, ExperimentTypeOK
  <1>3. row.status = status /\ row.metric = IF status = "crash" THEN NoMetric ELSE attempt[l].metric
    BY DEF RowOf
  <1>4. view(new) = Append(view(old), <<row.status, row.metric>>)
    <2> HIDE DEF row, old
    <2>1. /\ Len(old) \in Nat /\ DOMAIN old = 1..Len(old)
          /\ DOMAIN new = 1..(Len(old) + 1)
          /\ \A i \in 1..Len(old) : new[i] = old[i]
          /\ new[Len(old) + 1] = row
      BY <1>2, AppendProperties, LenProperties
    <2> DEFINE P == {"keep", "discard", "crash"} \X (Metric \cup {NoMetric})
    <2>2. view(old) \in Seq(P) /\ Len(view(old)) = Len(old)
      <3>1. \A i \in 1..Len(old) : old[i] \in LedgerRows
        BY <1>2, ElementOfSeq
      <3>2. view(old) \in [1..Len(old) -> P]
        BY <2>1, <3>1 DEF LedgerRows
      <3> QED BY <2>1, <3>2, SeqDef, LenProperties
    <2>3. <<row.status, row.metric>> \in P
      BY <1>2 DEF LedgerRows
    <2>4. /\ Append(view(old), <<row.status, row.metric>>) \in Seq(P)
          /\ Len(Append(view(old), <<row.status, row.metric>>)) = Len(old) + 1
          /\ \A i \in 1..Len(old) :
                Append(view(old), <<row.status, row.metric>>)[i] = view(old)[i]
          /\ Append(view(old), <<row.status, row.metric>>)[Len(old) + 1] = <<row.status, row.metric>>
      BY <2>2, <2>3, AppendProperties
    <2>5. DOMAIN Append(view(old), <<row.status, row.metric>>) = 1..(Len(old) + 1)
      BY <2>4, LenProperties
    <2>6. \A i \in 1..(Len(old) + 1) :
             view(new)[i] = Append(view(old), <<row.status, row.metric>>)[i]
      BY <2>1, <2>4
    <2>7. view(new) = [i \in 1..(Len(old) + 1) |-> view(new)[i]]
      BY <2>1
    <2>8. Append(view(old), <<row.status, row.metric>>)
            = [i \in 1..(Len(old) + 1) |-> Append(view(old), <<row.status, row.metric>>)[i]]
      BY <2>4, <2>5, LenProperties
    <2> QED BY <2>6, <2>7, <2>8
  <1>5. RowsOf(ledger') = [k \in Loop |-> IF k = l THEN view(new) ELSE view(ledger[k])]
    BY <1>1, <1>2 DEF RowsOf
  <1>6. RowsOf(ledger) = [k \in Loop |-> view(ledger[k])]
    BY DEF RowsOf
  <1> HIDE DEF view, new, row
  <1> QED BY <1>3, <1>4, <1>5, <1>6

\* ClimbSpec: every step of every loop is a keep that beats all kept before it, a
\* discard that does not, a crash, or nothing to the ledger and the baseline.
THEOREM LoopKeepsBest == ExperimentSpec => ClimbSpec
  <1>1. ExperimentInit => Climb!Init
    BY DEF ExperimentInit, Climb!Init
  <1>2. ExpInv /\ [ExperimentNext]_experimentVars => [Climb!Next]_(Climb!vars)
    <2> SUFFICES ASSUME ExpInv, [ExperimentNext]_experimentVars
                 PROVE  Climb!Next \/ UNCHANGED <<ledger, baseline>>
      BY DEF Climb!vars
    <2>1. CASE UNCHANGED experimentVars \/ RestartExperiments
      BY <2>1 DEF experimentVars, loopLocals, RestartExperiments
    <2>2. ASSUME NEW l \in Loop, CreateExperiment(l) \/ LoopStep(l) \/ KillExperiment(l)
          PROVE  Climb!Next \/ UNCHANGED <<ledger, baseline>>
      <3>1. CASE KeepAttempt(l)
        <4>1. attempt[l].metric \in Metric /\ Improved(l, attempt[l].metric)
          BY <3>1 DEF KeepAttempt, Is, ExpInv, LoopInv, Measured
        <4>2. AppendLedgerEntry(l, "keep") /\ baseline' = [baseline EXCEPT ![l] = attempt[l].metric]
          BY <3>1 DEF KeepAttempt
        <4>3. Climb!Keep(l, attempt[l].metric)
          BY <4>1, <4>2, RowsGrow DEF Climb!Keep, Climb!Better, Climb!Row, Improved, RowsOf
        <4> QED BY <4>1, <4>3 DEF Climb!Next
      <3>2. CASE RecordFailure(l)
        <4>1. CASE Is(l, "crashed") /\ AppendLedgerEntry(l, "crash")
          <5>1. Climb!Crash(l)
            BY <3>2, <4>1, RowsGrow DEF Climb!Crash, Climb!Row, RecordFailure, RowsOf
          <5> QED BY <5>1 DEF Climb!Next
        <4>2. CASE Is(l, "discarded") /\ AppendLedgerEntry(l, "discard")
          <5>1. attempt[l].metric \in Metric /\ ~Improved(l, attempt[l].metric)
            BY <4>2 DEF Is, ExpInv, LoopInv, Measured
          <5>2. Climb!Discard(l, attempt[l].metric)
            BY <3>2, <4>2, <5>1, RowsGrow
            DEF Climb!Discard, Climb!Better, Climb!Row, Improved, RecordFailure, RowsOf
          <5> QED BY <5>1, <5>2 DEF Climb!Next
        <4> QED BY <3>2, <4>1, <4>2 DEF RecordFailure
      <3>3. CASE ~KeepAttempt(l) /\ ~RecordFailure(l)
        BY <2>2, <3>3
        DEF LoopStep, CreateExperiment, StartExperiment, FinishExperiment, KillExperiment,
            NextIteration, ProduceEdit, CommitEdit, ReadSha, Evaluate, ResetBranch, ResetFails,
            loopLocals
      <3> QED BY <3>1, <3>2, <3>3
    <2> QED BY <2>1, <2>2 DEF ExperimentNext
  <1> QED BY <1>1, <1>2, ExpInvHolds, PTL DEF ExperimentSpec, ClimbSpec, Climb!Spec

----------------------------------------------------------------------------
(* The branch holds what was kept *)

Fresh == {"idle", "create", "start", "next", "edit", "commit"}

\* The last iteration a loop may have committed something in.
Begun(l) == IF loopPc[l] \in Fresh THEN iteration[l] - 1 ELSE iteration[l]

WithinBegun(s) == \A k \in DOMAIN s : s[k][2] <= Begun(s[k][1])

Holds(s, l, i) == \E k \in DOMAIN s : s[k] = <<l, i>>

\* No history, of any loop, has a commit of an iteration still to come.
NothingAhead ==
    /\ WithinBegun(branch)
    /\ \A l \in Loop : WithinBegun(kept[l]) /\ WithinBegun(attempt[l].commit)

\* One row per iteration, and what was kept before an iteration has no commit of it.
Tidy(l) ==
    /\ Len(ledger[l]) = iteration[l] - 1
    /\ loopPc[l] \in {"idle", "create", "start"} => kept[l] = NoCommit
    /\ KeptRows(l) # {} => kept[l] # NoCommit
    /\ \A i \in Nat : Holds(kept[l], l, i) => i < iteration[l]

LoopAlone(l) == l \notin strayed /\ Under(l) => \A k \in Loop \ {l} : ~Under(k)

\* Since the first kept row, the kept commit is made of kept attempts.
Settled(l) ==
    l \notin strayed =>
        \A i \in 1..(iteration[l] - 1) :
            (\E j \in KeptRows(l) : j <= i) => (Holds(kept[l], l, i) <=> i \in KeptRows(l))

\* A history is the kept commit and this iteration's on top of it.
Topped(s, l) ==
    /\ Holds(s, l, iteration[l])
    /\ kept[l] # NoCommit => s = Append(kept[l], <<l, iteration[l]>>)

\* Where the branch is, at each step of a loop that has the checkout to itself.
AtHand(l) ==
    l \notin strayed =>
        /\ /\ loopPc[l] \in (Fresh \ {"idle"}) \cup {"crashed", "discarded"}
           /\ kept[l] # NoCommit
           => branch = kept[l]
        /\ loopPc[l] = "sha" => Topped(branch, l)
        /\ loopPc[l] \in {"eval", "keep"} => attempt[l].commit = branch /\ Topped(branch, l)

KeptLoop(l) == Tidy(l) /\ LoopAlone(l) /\ Settled(l) /\ AtHand(l)

KeptInv == ExpInv /\ NothingAhead /\ \A l \in Loop : KeptLoop(l)

LEMMA KeptInit == ExperimentInit => KeptInv
  <1> SUFFICES ASSUME ExperimentInit PROVE KeptInv
    OBVIOUS
  <1>1. branch = <<>> /\ \A l \in Loop : kept[l] = <<>> /\ attempt[l].commit = <<>>
    BY DEF ExperimentInit, NoCommit, NoAttempt
  <1>2. NothingAhead
    BY <1>1 DEF NothingAhead, WithinBegun
  <1>3. \A l \in Loop : loopPc[l] = "idle" /\ ledger[l] = <<>> /\ iteration[l] = 1
    BY DEF ExperimentInit
  <1>4. \A l \in Loop : KeptRows(l) = {} /\ \A i \in Nat : ~Holds(kept[l], l, i)
    <2>1. DOMAIN <<>> = {} /\ Len(<<>>) = 0
      OBVIOUS
    <2> QED BY <1>1, <1>3, <2>1, Zenon DEF KeptRows, Holds
  <1>5. \A l \in Loop : Tidy(l) /\ Settled(l)
    <2>1. \A l \in Loop : Tidy(l)
      <3>1. Len(<<>>) = 1 - 1
        OBVIOUS
      <3> QED BY <1>1, <1>3, <1>4, <3>1, Zenon DEF Tidy, NoCommit
    <2>2. \A l \in Loop : Settled(l)
      BY <1>4, Zenon DEF Settled
    <2> QED BY <2>1, <2>2
  <1>6. \A l \in Loop : LoopAlone(l) /\ AtHand(l)
    BY <1>1, <1>3 DEF LoopAlone, AtHand, Under, NoCommit, Fresh
  <1> QED BY <1>2, <1>5, <1>6, ExpInit DEF KeptInv, KeptLoop

StepOf(l) == CreateExperiment(l) \/ LoopStep(l) \/ KillExperiment(l)

\* The types of one loop's fields.
LEMMA LoopTypes ==
  ASSUME ExpInv, NEW l \in Loop
  PROVE  /\ iteration[l] \in Nat \ {0} /\ kept[l] \in Seq(Loop \X Nat)
         /\ attempt[l] \in Attempts /\ attempt[l].commit \in Seq(Loop \X Nat)
         /\ ledger[l] \in Seq(LedgerRows) /\ loopPc[l] \in LoopPcs
         /\ branch \in Seq(Loop \X Nat) /\ Begun(l) \in Nat
  BY DEF ExpInv, ExperimentTypeOK, Attempts, Begun

\* A history with one more commit has what it had, and that commit.
LEMMA OneMoreHolds ==
  ASSUME NEW s \in Seq(Loop \X Nat), NEW x \in Loop \X Nat
  PROVE  /\ \A l \in Loop, i \in Nat :
               Holds(Append(s, x), l, i) <=> Holds(s, l, i) \/ x = <<l, i>>
         /\ \A k \in DOMAIN Append(s, x) :
               Append(s, x)[k] = x \/ (k \in DOMAIN s /\ Append(s, x)[k] = s[k])
  <1> DEFINE t == Append(s, x)
  <1>1. /\ t \in Seq(Loop \X Nat) /\ Len(t) = Len(s) + 1 /\ t[Len(s) + 1] = x
        /\ \A i \in 1..Len(s) : t[i] = s[i]
    BY AppendProperties
  <1>2. /\ Len(s) \in Nat /\ DOMAIN s = 1..Len(s) /\ DOMAIN t = 1..(Len(s) + 1)
    BY <1>1, LenProperties
  <1> HIDE DEF t
  <1>3. \A k \in DOMAIN t : t[k] = x \/ (k \in DOMAIN s /\ t[k] = s[k])
    BY <1>1, <1>2, SMT
  <1>4. ASSUME NEW l \in Loop, NEW i \in Nat
        PROVE  Holds(t, l, i) <=> Holds(s, l, i) \/ x = <<l, i>>
    <2>1. Len(s) + 1 \in DOMAIN t /\ DOMAIN s \subseteq DOMAIN t
      BY <1>2
    <2> QED BY <1>1, <1>2, <1>3, <2>1 DEF Holds
  <1> QED BY <1>3, <1>4 DEF t

\* No step takes back an iteration that was begun.
LEMMA BegunGrows ==
  ASSUME ExpInv, [ExperimentNext]_experimentVars
  PROVE  \A k \in Loop : Begun(k) <= Begun(k)'
  <1> USE DEF Begun, Fresh
  <1>1. CASE UNCHANGED experimentVars
    BY <1>1, LoopTypes DEF experimentVars, loopLocals
  <1>2. CASE RestartExperiments
    <2>1. \A k \in Loop : iteration'[k] = iteration[k] /\ loopPc'[k] \in {loopPc[k], "dead"}
      BY <1>2 DEF RestartExperiments, loopLocals
    <2> QED BY <2>1, LoopTypes
  <1>3. ASSUME NEW l \in Loop, StepOf(l) PROVE \A k \in Loop : Begun(k) <= Begun(k)'
    <2>1. CASE KeepAttempt(l) \/ RecordFailure(l)
      <3>1. /\ loopPc[l] \notin Fresh /\ loopPc' = [loopPc EXCEPT ![l] = "next"]
            /\ iteration' = [iteration EXCEPT ![l] = iteration[l] + 1]
        BY <2>1 DEF KeepAttempt, RecordFailure, NextUp, Goto, Is
      <3> QED BY <3>1, LoopTypes DEF ExpInv, ExperimentTypeOK
    <2>2. CASE ~KeepAttempt(l) /\ ~RecordFailure(l)
      <3>1. /\ iteration' = iteration /\ \A k \in Loop \ {l} : loopPc'[k] = loopPc[k]
            /\ loopPc'[l] \in Fresh => loopPc[l] \in Fresh
        BY <1>3, <2>2
        DEF StepOf, LoopStep, CreateExperiment, StartExperiment, FinishExperiment, KillExperiment,
            NextIteration, ProduceEdit, CommitEdit, ReadSha, Evaluate, ResetBranch, ResetFails,
            loopLocals, Goto, Is, ExpInv, ExperimentTypeOK
      <3> QED BY <3>1, LoopTypes
    <2> QED BY <2>1, <2>2
  <1> QED BY <1>1, <1>2, <1>3 DEF ExperimentNext, StepOf

\* A step of the loops: what it may do to a history, and to whose.
LEMMA HistoryStep ==
  ASSUME ExpInv, [ExperimentNext]_experimentVars
  PROVE  /\ \/ branch' = branch \/ \E k \in Loop : branch' = kept[k]
            \/ \E l \in Loop : /\ loopPc'[l] = "sha" /\ iteration'[l] = iteration[l]
                               /\ branch' = Append(branch, <<l, iteration[l]>>)
         /\ \A k \in Loop : kept'[k] \in {kept[k], attempt[k].commit}
         /\ \A k \in Loop : attempt'[k].commit \in {attempt[k].commit, branch, <<>>}
  <1>1. CASE UNCHANGED experimentVars \/ RestartExperiments
    BY <1>1 DEF experimentVars, RestartExperiments, repository, loopLocals
  <1>2. ASSUME NEW l \in Loop, StepOf(l)
        PROVE  /\ \/ branch' = branch \/ branch' = kept[l]
                  \/ /\ loopPc'[l] = "sha" /\ iteration'[l] = iteration[l]
                     /\ branch' = Append(branch, <<l, iteration[l]>>)
               /\ \A k \in Loop : kept'[k] \in {kept[k], attempt[k].commit}
               /\ \A k \in Loop : attempt'[k].commit \in {attempt[k].commit, branch, <<>>}
    <2>1. CASE KeepAttempt(l)
      BY <2>1 DEF KeepAttempt, repository, ExpInv, ExperimentTypeOK
    <2>2. CASE CommitEdit(l)
      BY <2>2 DEF CommitEdit, Goto, loopLocals, repository, ExpInv, ExperimentTypeOK
    <2>3. CASE NextIteration(l) \/ ReadSha(l) \/ Evaluate(l)
      <3>1. branch' = branch /\ kept' = kept
        BY <2>3 DEF NextIteration, ReadSha, Evaluate, repository
      <3>2. \A k \in Loop \ {l} : attempt'[k] = attempt[k]
        BY <2>3 DEF NextIteration, ReadSha, Evaluate, ExpInv, ExperimentTypeOK
      <3>3. attempt'[l].commit \in {attempt[l].commit, branch, <<>>}
        BY <2>3, LoopTypes
        DEF NextIteration, ReadSha, Evaluate, NoAttempt, NoCommit, Attempts, ExpInv,
            ExperimentTypeOK
      <3> QED BY <3>1, <3>2, <3>3
    <2>4. CASE ResetBranch(l) \/ ResetFails(l)
      BY <2>4 DEF ResetBranch, ResetFails, Reset, ResetHard, loopLocals, repository, NoCommit
    <2>5. CASE ~KeepAttempt(l) /\ ~CommitEdit(l) /\ ~NextIteration(l) /\ ~ReadSha(l)
               /\ ~Evaluate(l) /\ ~ResetBranch(l) /\ ~ResetFails(l)
      BY <1>2, <2>5
      DEF StepOf, LoopStep, CreateExperiment, StartExperiment, FinishExperiment, KillExperiment,
          ProduceEdit, RecordFailure, loopLocals, repository
    <2> QED BY <2>1, <2>2, <2>3, <2>4, <2>5
  <1>3. CASE \E l \in Loop : StepOf(l)
    BY <1>2, <1>3
  <1> QED BY <1>1, <1>3 DEF ExperimentNext, StepOf

\* A history stays within what has begun, as that only grows.
LEMMA AheadStep ==
  ASSUME ExpInv, ExpInv', NothingAhead, [ExperimentNext]_experimentVars
  PROVE  NothingAhead'
  <1> DEFINE next == [k \in Loop |-> IF loopPc'[k] \in Fresh THEN iteration'[k] - 1
                                                             ELSE iteration'[k]]
             Within(s) == \A k \in DOMAIN s : s[k][2] <= next[s[k][1]]
  <1>1. \A k \in Loop : Begun(k) <= next[k] /\ Begun(k) \in Nat /\ next[k] \in Nat
    <2>1. \A k \in Loop : next[k] \in Nat
      BY DEF ExpInv, ExperimentTypeOK
    <2>2. \A k \in Loop : next[k] = Begun(k)'
      BY DEF Begun
    <2> QED BY <2>1, <2>2, BegunGrows, LoopTypes
  <1> HIDE DEF next
  <1>2. ASSUME NEW s \in Seq(Loop \X Nat), WithinBegun(s) PROVE Within(s)
    <2> SUFFICES ASSUME NEW k \in DOMAIN s PROVE s[k][2] <= next[s[k][1]]
      OBVIOUS
    <2>1. s[k] \in Loop \X Nat
      BY ElementOfSeq, LenProperties
    <2>2. s[k][1] \in Loop /\ s[k][2] \in Nat /\ s[k][2] <= Begun(s[k][1])
      BY <1>2, <2>1 DEF WithinBegun
    <2> QED BY <1>1, <2>2
  <1>3. \A k \in Loop : /\ kept[k] \in Seq(Loop \X Nat) /\ attempt[k].commit \in Seq(Loop \X Nat)
                        /\ branch \in Seq(Loop \X Nat)
    BY LoopTypes
  <1>4. branch \in Seq(Loop \X Nat) /\ <<>> \in Seq(Loop \X Nat) /\ WithinBegun(<<>>)
    BY DEF ExpInv, ExperimentTypeOK, WithinBegun
  <1>5. Within(branch')
    <2>1. CASE branch' = branch \/ \E k \in Loop : branch' = kept[k]
      <3>1. branch' \in Seq(Loop \X Nat) /\ WithinBegun(branch')
        BY <1>3, <1>4, <2>1 DEF NothingAhead
      <3> QED BY <1>2, <3>1
    <2>2. ASSUME NEW l \in Loop, loopPc'[l] = "sha", iteration'[l] = iteration[l],
                 branch' = Append(branch, <<l, iteration[l]>>)
          PROVE  Within(branch')
      <3>1. <<l, iteration[l]>> \in Loop \X Nat /\ iteration[l] \in Nat
        BY LoopTypes
      <3>2. next[l] = iteration[l]
        BY <2>2 DEF next, Fresh
      <3>3. Within(branch)
        BY <1>2, <1>4 DEF NothingAhead
      <3>4. ASSUME NEW k \in DOMAIN branch' PROVE branch'[k][2] <= next[branch'[k][1]]
        <4>1. CASE branch'[k] = <<l, iteration[l]>>
          BY <3>1, <3>2, <4>1
        <4>2. CASE k \in DOMAIN branch /\ branch'[k] = branch[k]
          BY <3>3, <4>2
        <4> QED BY <1>4, <2>2, <3>1, <3>4, <4>1, <4>2, OneMoreHolds
      <3> QED BY <3>4
    <2> QED BY <2>1, <2>2, HistoryStep
  <1>6. ASSUME NEW l \in Loop PROVE Within(kept'[l]) /\ Within(attempt'[l].commit)
    <2>1. kept'[l] \in Seq(Loop \X Nat) /\ WithinBegun(kept'[l])
      BY <1>3, HistoryStep DEF NothingAhead
    <2>2. attempt'[l].commit \in Seq(Loop \X Nat) /\ WithinBegun(attempt'[l].commit)
      BY <1>3, <1>4, HistoryStep DEF NothingAhead
    <2> QED BY <1>2, <2>1, <2>2
  <1>7. /\ branch' \in Seq(Loop \X Nat)
        /\ \A l \in Loop : kept'[l] \in Seq(Loop \X Nat) /\ attempt'[l].commit \in Seq(Loop \X Nat)
    BY DEF ExpInv, ExperimentTypeOK, Attempts
  <1>8. \A s \in Seq(Loop \X Nat) : \A k \in DOMAIN s : s[k][1] \in Loop
    BY ElementOfSeq, LenProperties
  <1> QED BY <1>5, <1>6, <1>7, <1>8 DEF NothingAhead, WithinBegun, Begun, next

\* A restart leaves no loop at work, and the rest as it was.
LEMMA RestartKept ==
  ASSUME KeptInv, RestartExperiments, NEW l \in Loop
  PROVE  KeptLoop(l)'
  <1>1. /\ UNCHANGED <<branch, kept[l], iteration[l], ledger[l], strayed>>
        /\ KeptRows(l)' = KeptRows(l)
    BY DEF RestartExperiments, repository, loopLocals, KeptRows
  <1>2. loopPc'[l] \in {"idle", "over", "dead"} /\ (loopPc'[l] = "idle" => loopPc[l] = "idle")
    BY DEF RestartExperiments, Under
  <1>3. Tidy(l) /\ Settled(l)
    BY DEF KeptInv, KeptLoop
  <1>4. Tidy(l)' /\ Settled(l)'
    BY <1>1, <1>2, <1>3, Zenon DEF Tidy, Settled, Holds, NoCommit
  <1>5. LoopAlone(l)' /\ AtHand(l)'
    BY <1>2 DEF LoopAlone, AtHand, Under, Fresh
  <1> QED BY <1>4, <1>5 DEF KeptLoop

\* A loop that shares its checkout has strayed: for any other, what another loop
\* does changes neither the branch nor anything of its own.
LEMMA OthersKept ==
  ASSUME KeptInv, NEW l \in Loop, StepOf(l), NEW k \in Loop \ {l}
  PROVE  KeptLoop(k)'
  <1>1. /\ UNCHANGED <<loopPc[k], iteration[k], kept[k], attempt[k], ledger[k]>>
        /\ strayed \subseteq strayed'
        /\ \A j \in Loop \ {l} : loopPc'[j] = loopPc[j]
    BY DEF StepOf, LoopStep, CreateExperiment, StartExperiment, FinishExperiment, KillExperiment,
           NextIteration, ProduceEdit, CommitEdit, ReadSha, Evaluate, KeepAttempt, ResetBranch,
           ResetFails, RecordFailure, AppendLedgerEntry, NextUp, Goto, loopLocals, KeptInv, ExpInv,
           ExperimentTypeOK
  <1>2. ASSUME k \notin strayed', Under(k) PROVE branch' = branch /\ ~Under(l)'
    <2>1. ~Under(l)
      BY <1>1, <1>2 DEF KeptInv, KeptLoop, LoopAlone
    <2>2. ~CreateExperiment(l)
      BY <1>2 DEF CreateExperiment
    <2>3. ~LoopStep(l)
      BY <2>1
      DEF Under, Is, LoopStep, StartExperiment, FinishExperiment, NextIteration, ProduceEdit,
          CommitEdit, ReadSha, Evaluate, KeepAttempt, ResetBranch, ResetFails, RecordFailure
    <2> QED BY <2>1, <2>2, <2>3 DEF StepOf, KillExperiment, repository, Under
  <1>3. KeptLoop(k) /\ KeptRows(k)' = KeptRows(k)
    BY <1>1 DEF KeptInv, KeptRows
  <1>4. Tidy(k)' /\ Settled(k)'
    BY <1>1, <1>3, Zenon DEF KeptLoop, Tidy, Settled, Holds, NoCommit
  <1>5. LoopAlone(k)'
    <2> SUFFICES ASSUME k \notin strayed', Under(k)', NEW j \in Loop \ {k} PROVE ~Under(j)'
      BY DEF LoopAlone
    <2>1. k \notin strayed /\ Under(k)
      BY <1>1 DEF Under
    <2> QED BY <1>1, <1>2, <1>3, <2>1 DEF KeptLoop, LoopAlone, Under
  <1>6. AtHand(k)'
    <2> SUFFICES ASSUME k \notin strayed' PROVE AtHand(k)'
      BY DEF AtHand
    <2>1. AtHand(k) /\ k \notin strayed
      BY <1>1, <1>3 DEF KeptLoop
    <2>2. CASE Under(k)
      BY <1>1, <1>2, <2>1, <2>2, Zenon DEF AtHand, Topped, Holds, Fresh, NoCommit
    <2>3. CASE ~Under(k)
      BY <1>1, <2>3 DEF AtHand, Under, Fresh
    <2> QED BY <2>2, <2>3
  <1> QED BY <1>4, <1>5, <1>6 DEF KeptLoop

\* A loop that is alone stays so: only a dispatch brings another one in.
LEMMA StaysAlone ==
  ASSUME KeptInv, NEW l \in Loop, StepOf(l)
  PROVE  LoopAlone(l)'
  <1> SUFFICES ASSUME l \notin strayed', Under(l)', NEW k \in Loop \ {l} PROVE ~Under(k)'
    BY DEF LoopAlone
  <1>1. loopPc'[k] = loopPc[k]
    BY DEF StepOf, LoopStep, CreateExperiment, StartExperiment, FinishExperiment, KillExperiment,
           NextIteration, ProduceEdit, CommitEdit, ReadSha, Evaluate, KeepAttempt, ResetBranch,
           ResetFails, RecordFailure, NextUp, Goto, KeptInv, ExpInv, ExperimentTypeOK
  <1>2. CASE CreateExperiment(l)
    <2>1. {j \in Loop : Under(j)} = {}
      BY <1>2, Zenon DEF CreateExperiment
    <2> QED BY <1>1, <2>1 DEF Under
  <1>3. CASE LoopStep(l) \/ KillExperiment(l)
    <2>1. Under(l)
      BY <1>3
      DEF Under, Is, LoopStep, StartExperiment, FinishExperiment, NextIteration, ProduceEdit,
          CommitEdit, ReadSha, Evaluate, KeepAttempt, ResetBranch, ResetFails, RecordFailure,
          KillExperiment
    <2>2. l \notin strayed
      BY <1>3
      DEF LoopStep, StartExperiment, FinishExperiment, NextIteration, ProduceEdit,
          CommitEdit, ReadSha, Evaluate, KeepAttempt, ResetBranch, ResetFails, RecordFailure,
          KillExperiment
    <2> QED BY <1>1, <2>1, <2>2 DEF KeptInv, KeptLoop, LoopAlone, Under
  <1> QED BY <1>2, <1>3 DEF StepOf

Waiting == (Fresh \ {"idle"}) \cup {"crashed", "discarded"}

\* The steps of a loop that touch neither the branch nor what it kept: the dispatcher's,
\* the agent's, the evaluation, a commit that fails; and a reset that fails, after which
\* the loop has strayed.
LEMMA QuietStep ==
  ASSUME KeptInv, NEW l \in Loop, StepOf(l),
         ~CommitEdit(l), ~ReadSha(l), ~KeepAttempt(l), ~ResetBranch(l), ~RecordFailure(l)
  PROVE  KeptLoop(l)'
  <1> DEFINE quiet == \/ CreateExperiment(l) \/ StartExperiment(l) \/ FinishExperiment(l)
                      \/ NextIteration(l) \/ ProduceEdit(l) \/ Evaluate(l) \/ ResetFails(l)
                      \/ KillExperiment(l)
  <1>1. quiet
    BY DEF StepOf, LoopStep
  <1>2. /\ UNCHANGED <<kept[l], iteration[l], ledger[l]>>
        /\ l \notin strayed' => branch' = branch
        /\ strayed \subseteq strayed' /\ KeptRows(l)' = KeptRows(l)
    BY <1>1
    DEF CreateExperiment, StartExperiment, FinishExperiment, KillExperiment, NextIteration,
        ProduceEdit, Evaluate, ResetFails, repository, loopLocals, KeptRows
  <1>3. /\ loopPc'[l] \in {"idle", "create", "start"} => loopPc[l] \in {"idle", "create", "start"}
        /\ loopPc'[l] \in Waiting =>
              loopPc[l] \in Waiting \cup {"idle"} \/ l \in strayed'
        /\ loopPc'[l] = "sha" => loopPc[l] = "sha"
        /\ loopPc'[l] \in {"eval", "keep"} => /\ loopPc[l] \in {"eval", "keep"}
                                              /\ attempt'[l].commit = attempt[l].commit
    <2>1. CASE Evaluate(l)
      <3>1. loopPc[l] = "eval" /\ loopPc'[l] \in {"crash", "keep", "discard"}
        BY <2>1 DEF Evaluate, Goto, Is, KeptInv, ExpInv, ExperimentTypeOK
      <3>2. attempt'[l].commit = attempt[l].commit
        BY <2>1, LoopTypes DEF Evaluate, KeptInv, ExpInv, ExperimentTypeOK, Attempts
      <3> QED BY <3>1, <3>2 DEF Waiting, Fresh
    <2>2. CASE CreateExperiment(l) \/ StartExperiment(l)
      BY <2>2 DEF CreateExperiment, StartExperiment, loopLocals, Goto, Is, Waiting, Fresh,
                  KeptInv, ExpInv, ExperimentTypeOK
    <2>3. CASE FinishExperiment(l) \/ KillExperiment(l)
      BY <2>3 DEF FinishExperiment, KillExperiment, loopLocals, Goto, Is, Waiting, Fresh,
                  KeptInv, ExpInv, ExperimentTypeOK
    <2>4. CASE NextIteration(l)
      BY <2>4 DEF NextIteration, Goto, Is, Waiting, Fresh, KeptInv, ExpInv, ExperimentTypeOK
    <2>5. CASE ProduceEdit(l) \/ ResetFails(l)
      BY <2>5 DEF ProduceEdit, ResetFails, loopLocals, Goto, Is, Waiting, Fresh, KeptInv,
                  ExpInv, ExperimentTypeOK
    <2> QED BY <1>1, <2>1, <2>2, <2>3, <2>4, <2>5
  <1>4. Tidy(l) /\ Settled(l) /\ AtHand(l)
    BY DEF KeptInv, KeptLoop
  <1>5. Tidy(l)' /\ Settled(l)'
    BY <1>2, <1>3, <1>4, Zenon DEF Tidy, Settled, Holds, NoCommit
  <1>6. AtHand(l)'
    <2> SUFFICES ASSUME l \notin strayed' PROVE AtHand(l)'
      BY DEF AtHand
    <2>1. l \notin strayed
      BY <1>2
    <2>2. ASSUME loopPc'[l] \in Waiting, kept[l] # NoCommit PROVE branch' = kept'[l]
      <3>1. loopPc[l] \in Waiting
        BY <1>3, <1>4, <2>2 DEF Tidy
      <3> QED BY <1>2, <1>4, <2>1, <2>2, <3>1 DEF AtHand, Waiting
    <2>3. ASSUME loopPc'[l] = "sha" \/ loopPc'[l] \in {"eval", "keep"} PROVE Topped(branch, l)'
      <3>1. Topped(branch, l)
        BY <1>3, <1>4, <2>1, <2>3 DEF AtHand
      <3> QED BY <1>2, <3>1, Zenon DEF Topped, Holds, NoCommit
    <2>4. loopPc'[l] \in {"eval", "keep"} => attempt'[l].commit = branch'
      BY <1>2, <1>3, <1>4, <2>1 DEF AtHand
    <2> QED BY <1>2, <2>2, <2>3, <2>4 DEF AtHand, Waiting, NoCommit
  <1> QED BY <1>5, <1>6, StaysAlone DEF KeptLoop

\* A commit tops the branch, and its history is what the attempt is told by; a
\* reset brings the branch back to the kept commit, if there is one.
LEMMA BranchStep ==
  ASSUME KeptInv, NEW l \in Loop, CommitEdit(l) \/ ReadSha(l) \/ ResetBranch(l)
  PROVE  KeptLoop(l)'
  <1>1. /\ UNCHANGED <<kept[l], iteration[l], ledger[l], strayed>>
        /\ KeptRows(l)' = KeptRows(l)
    BY DEF CommitEdit, ReadSha, ResetBranch, loopLocals, KeptRows
  <1>2. loopPc'[l] \in {"sha", "crash", "eval", "crashed", "discarded"}
    BY DEF CommitEdit, ReadSha, ResetBranch, Goto, KeptInv, ExpInv, ExperimentTypeOK
  <1>3. Tidy(l) /\ Settled(l) /\ AtHand(l)
    BY DEF KeptInv, KeptLoop
  <1>4. Tidy(l)' /\ Settled(l)'
    BY <1>1, <1>2, <1>3, Zenon DEF Tidy, Settled, Holds, NoCommit
  <1>5. AtHand(l)'
    <2> SUFFICES ASSUME l \notin strayed' PROVE AtHand(l)'
      BY DEF AtHand
    <2>1. CASE loopPc'[l] = "crash"
      BY <2>1 DEF AtHand, Fresh
    <2>2. CASE loopPc'[l] = "sha"
      <3>1. loopPc[l] = "commit" /\ branch' = Append(branch, <<l, iteration[l]>>)
        BY <2>2 DEF CommitEdit, ReadSha, ResetBranch, Goto, Is, KeptInv, ExpInv, ExperimentTypeOK
      <3>2. branch \in Seq(Loop \X Nat) /\ iteration[l] \in Nat
        BY LoopTypes DEF KeptInv
      <3>3. Holds(branch', l, iteration[l])
        BY <3>1, <3>2, OneMoreHolds
      <3>4. kept[l] # NoCommit => branch = kept[l]
        BY <1>1, <1>3, <3>1 DEF AtHand, Fresh
      <3> QED BY <1>1, <2>2, <3>1, <3>3, <3>4 DEF AtHand, Topped, Holds, Fresh, NoCommit
    <2>3. CASE loopPc'[l] = "eval"
      <3>1. loopPc[l] = "sha" /\ branch' = branch /\ attempt' = [attempt EXCEPT ![l].commit = branch]
        BY <2>3
        DEF CommitEdit, ReadSha, ResetBranch, Goto, Is, repository, KeptInv, ExpInv,
            ExperimentTypeOK
      <3>2. attempt'[l].commit = branch
        BY <3>1, LoopTypes DEF KeptInv, ExpInv, ExperimentTypeOK, Attempts
      <3>3. Topped(branch, l)
        BY <1>1, <1>3, <3>1 DEF AtHand
      <3>4. Topped(branch, l)'
        BY <1>1, <3>1, <3>3, Zenon DEF Topped, Holds, NoCommit
      <3> QED BY <2>3, <3>1, <3>2, <3>4 DEF AtHand, Fresh
    <2>4. CASE loopPc'[l] \in {"crashed", "discarded"}
      <3>1. branch' = IF kept[l] = NoCommit THEN branch ELSE kept[l]
        BY <2>4
        DEF CommitEdit, ReadSha, ResetBranch, Reset, ResetHard, Goto, Is, KeptInv, ExpInv, ExperimentTypeOK
      <3> QED BY <1>1, <2>4, <3>1 DEF AtHand, NoCommit
    <2> QED BY <1>2, <2>1, <2>2, <2>3, <2>4
  <1>6. LoopAlone(l)'
    BY StaysAlone DEF StepOf, LoopStep
  <1> QED BY <1>4, <1>5, <1>6 DEF KeptLoop

\* A row is appended for the iteration that ends; the kept rows are those there
\* were, and this one when it is kept.
LEMMA RowAdded ==
  ASSUME KeptInv, NEW l \in Loop, NEW status \in {"keep", "discard", "crash"},
         AppendLedgerEntry(l, status)
  PROVE  /\ KeptRows(l) \subseteq 1..(iteration[l] - 1)
         /\ KeptRows(l)' = IF status = "keep" THEN KeptRows(l) \cup {iteration[l]} ELSE KeptRows(l)
         /\ Len(ledger'[l]) = iteration[l]
  <1> DEFINE row == RowOf(l, status)
             old == ledger[l]
  <1>1. /\ row \in LedgerRows /\ old \in Seq(LedgerRows) /\ ledger \in [Loop -> Seq(LedgerRows)]
        /\ iteration[l] \in Nat
    BY RowType DEF KeptInv, ExpInv, ExperimentTypeOK
  <1>2. ledger' = [ledger EXCEPT ![l] = Append(old, row)] /\ row.status = status
    BY DEF AppendLedgerEntry, RowOf
  <1>3. Len(old) = iteration[l] - 1
    BY DEF KeptInv, KeptLoop, Tidy
  <1> HIDE DEF row
  <1>4. /\ Len(Append(old, row)) = iteration[l] /\ Append(old, row)[iteration[l]] = row
        /\ \A i \in 1..(iteration[l] - 1) : Append(old, row)[i] = old[i]
        /\ DOMAIN old = 1..(iteration[l] - 1) /\ DOMAIN Append(old, row) = 1..iteration[l]
    BY <1>1, <1>3, AppendProperties, LenProperties
  <1>5. ledger'[l] = Append(old, row)
    BY <1>1, <1>2
  <1>6. /\ KeptRows(l) = {i \in 1..(iteration[l] - 1) : old[i].status = "keep"}
        /\ KeptRows(l)' = {i \in 1..iteration[l] : Append(old, row)[i].status = "keep"}
    BY <1>4, <1>5 DEF KeptRows
  <1> HIDE DEF old
  <1>7. 1..iteration[l] = 1..(iteration[l] - 1) \cup {iteration[l]} /\ iteration[l] # 0
    BY LoopTypes DEF KeptInv
  <1>8. KeptRows(l)' = IF status = "keep" THEN KeptRows(l) \cup {iteration[l]} ELSE KeptRows(l)
    BY <1>2, <1>4, <1>6, <1>7
  <1> QED BY <1>4, <1>5, <1>6, <1>8

\* The kept commit has this iteration on top of what was kept before, if anything was.
LEMMA KeepKept ==
  ASSUME KeptInv, NEW l \in Loop, KeepAttempt(l)
  PROVE  KeptLoop(l)'
  <1> DEFINE n == iteration[l]
             c == attempt[l].commit
  <1>1. /\ n \in Nat \ {0} /\ c \in Seq(Loop \X Nat) /\ kept[l] \in Seq(Loop \X Nat)
        /\ loopPc[l] = "keep" /\ c # NoCommit
    BY LoopTypes DEF KeptInv, ExpInv, LoopInv, KeepAttempt, Is, NoCommit
  <1>2. /\ KeptRows(l) \subseteq 1..(n - 1) /\ KeptRows(l)' = KeptRows(l) \cup {n}
        /\ Len(ledger'[l]) = n
    BY RowAdded DEF KeepAttempt
  <1>3. /\ loopPc'[l] = "next" /\ iteration'[l] = n + 1 /\ kept'[l] = c
        /\ UNCHANGED <<branch, attempt, strayed>>
    BY DEF KeepAttempt, NextUp, Goto, repository, KeptInv, ExpInv, ExperimentTypeOK
  <1>4. Tidy(l) /\ Settled(l) /\ AtHand(l) /\ WithinBegun(c)
    BY DEF KeptInv, KeptLoop, NothingAhead
  <1> HIDE DEF n, c
  <1>5. ASSUME NEW i \in Nat, Holds(c, l, i) PROVE i < n + 1
    <2>1. PICK k \in DOMAIN c : c[k] = <<l, i>>
      BY <1>5 DEF Holds
    <2>2. i <= Begun(l)
      BY <1>4, <2>1 DEF WithinBegun
    <2> QED BY <1>1, <2>2 DEF Begun, Fresh, n
  <1>6. Tidy(l)'
    <2>1. \A i \in Nat : Holds(kept[l], l, i)' => i < iteration'[l]
      BY <1>3, <1>5 DEF Holds
    <2>2. Len(ledger'[l]) = iteration'[l] - 1
      BY <1>1, <1>2, <1>3
    <2> QED BY <1>1, <1>3, <2>1, <2>2 DEF Tidy, NoCommit
  <1>7. Settled(l)'
    <2> SUFFICES ASSUME l \notin strayed', NEW i \in 1..n, \E j \in KeptRows(l)' : j <= i
                 PROVE  Holds(c, l, i) <=> i \in KeptRows(l)'
      <3>1. iteration'[l] - 1 = n
        BY <1>1, <1>3
      <3> QED BY <1>3, <3>1, Zenon DEF Settled, Holds
    <2>1. Topped(c, l) /\ l \notin strayed
      BY <1>1, <1>3, <1>4 DEF AtHand, c
    <2>2. CASE i = n
      BY <1>2, <2>1, <2>2 DEF Topped, n
    <2>3. CASE i # n
      <3>1. i \in 1..(n - 1) /\ i \in Nat
        BY <1>1, <2>3
      <3>2. \E j \in KeptRows(l) : j <= i
        BY <1>1, <1>2, <3>1
      <3>3. kept[l] # NoCommit
        BY <1>4, <3>2 DEF Tidy
      <3>4. c = Append(kept[l], <<l, n>>)
        BY <2>1, <3>3 DEF Topped, n
      <3>5. Holds(c, l, i) <=> Holds(kept[l], l, i)
        <4>1. <<l, n>> \in Loop \X Nat /\ <<l, n>> # <<l, i>>
          BY <1>1, <2>3
        <4>2. \A x \in Loop \X Nat : Holds(Append(kept[l], x), l, i) <=>
                                       Holds(kept[l], l, i) \/ x = <<l, i>>
          BY <1>1, <3>1, OneMoreHolds
        <4> QED BY <3>4, <4>1, <4>2
      <3>6. Holds(kept[l], l, i) <=> i \in KeptRows(l)
        BY <1>4, <2>1, <3>1, <3>2 DEF Settled, n
      <3> QED BY <1>2, <2>3, <3>5, <3>6
    <2> QED BY <2>2, <2>3
  <1>8. AtHand(l)'
    <2> SUFFICES ASSUME l \notin strayed' PROVE branch' = kept'[l]
      BY <1>3 DEF AtHand, Fresh
    <2> QED BY <1>1, <1>3, <1>4 DEF AtHand, c
  <1>9. LoopAlone(l)'
    BY StaysAlone DEF StepOf, LoopStep
  <1> QED BY <1>6, <1>7, <1>8, <1>9 DEF KeptLoop

\* A discard or a crash leaves the kept commit, which has no commit of this iteration.
LEMMA FailureKept ==
  ASSUME KeptInv, NEW l \in Loop, RecordFailure(l)
  PROVE  KeptLoop(l)'
  <1> DEFINE n == iteration[l]
  <1>1. n \in Nat \ {0} /\ loopPc[l] \in {"crashed", "discarded"}
    BY LoopTypes DEF KeptInv, RecordFailure, Is
  <1>2. PICK status \in {"discard", "crash"} : AppendLedgerEntry(l, status)
    BY DEF RecordFailure
  <1>3. /\ KeptRows(l) \subseteq 1..(n - 1) /\ KeptRows(l)' = KeptRows(l)
        /\ Len(ledger'[l]) = n
    BY <1>2, RowAdded
  <1>4. /\ loopPc'[l] = "next" /\ iteration'[l] = n + 1
        /\ UNCHANGED <<branch, kept, strayed>>
    BY DEF RecordFailure, NextUp, Goto, repository, KeptInv, ExpInv, ExperimentTypeOK
  <1>5. Tidy(l) /\ Settled(l) /\ AtHand(l)
    BY DEF KeptInv, KeptLoop
  <1> HIDE DEF n
  <1>6. \A i \in Nat : Holds(kept[l], l, i) => i < n
    BY <1>5 DEF Tidy, n
  <1>7. Tidy(l)'
    <2>1. \A i \in Nat : Holds(kept[l], l, i)' => i < iteration'[l]
      BY <1>1, <1>4, <1>6 DEF Holds
    <2>2. Len(ledger'[l]) = iteration'[l] - 1
      BY <1>1, <1>3, <1>4
    <2> QED BY <1>3, <1>4, <1>5, <2>1, <2>2 DEF Tidy, NoCommit
  <1>8. Settled(l)'
    <2> SUFFICES ASSUME l \notin strayed', NEW i \in 1..n, \E j \in KeptRows(l) : j <= i
                 PROVE  Holds(kept[l], l, i) <=> i \in KeptRows(l)
      <3>1. iteration'[l] - 1 = n
        BY <1>1, <1>4
      <3> QED BY <1>3, <1>4, <3>1, Zenon DEF Settled, Holds
    <2>1. CASE i = n
      BY <1>1, <1>3, <1>6, <2>1
    <2>2. CASE i # n
      BY <1>1, <1>4, <1>5, <2>2 DEF Settled, n
    <2> QED BY <2>1, <2>2
  <1>9. AtHand(l)'
    <2> SUFFICES ASSUME l \notin strayed', kept[l] # NoCommit PROVE branch = kept[l]
      BY <1>4 DEF AtHand, Fresh, NoCommit
    <2> QED BY <1>1, <1>4, <1>5 DEF AtHand
  <1>10. LoopAlone(l)'
    BY StaysAlone DEF StepOf, LoopStep
  <1> QED BY <1>7, <1>8, <1>9, <1>10 DEF KeptLoop

LEMMA KeptStep == KeptInv /\ [ExperimentNext]_experimentVars => KeptInv'
  <1> SUFFICES ASSUME KeptInv, [ExperimentNext]_experimentVars PROVE KeptInv'
    OBVIOUS
  <1>1. ExpInv' /\ NothingAhead'
    BY ExpStep, AheadStep DEF KeptInv
  <1>2. ASSUME NEW k \in Loop PROVE KeptLoop(k)'
    <2>1. CASE UNCHANGED experimentVars
      <3>1. KeptLoop(k)
        BY DEF KeptInv
      <3> QED BY <2>1, <3>1, Zenon
          DEF experimentVars, repository, loopLocals, KeptLoop, Tidy, LoopAlone, Settled, AtHand,
              KeptRows, Holds, Topped, Under, NoCommit
    <2>2. CASE RestartExperiments
      BY <2>2, RestartKept
    <2>3. ASSUME NEW l \in Loop, StepOf(l) PROVE KeptLoop(k)'
      BY <2>3, OthersKept, QuietStep, BranchStep, KeepKept, FailureKept
    <2> QED BY <2>1, <2>2, <2>3 DEF ExperimentNext, StepOf
  <1> QED BY <1>1, <1>2 DEF KeptInv

\* BranchIsKept: between two iterations the branch is at the commit of the last
\* kept row, and since the first kept one it has the kept attempts and no other;
\* for every loop that had the checkout to itself and whose resets worked.
THEOREM BranchHoldsKept == ExperimentSpec => []BranchIsKept
  <1>1. KeptInv => BranchIsKept
    <2> SUFFICES ASSUME KeptInv, NEW l \in Loop \ strayed, Is(l, "next"), KeptRows(l) # {}
                 PROVE  /\ branch = kept[l]
                        /\ \A i \in 1..(iteration[l] - 1) :
                              (\E j \in KeptRows(l) : j <= i) =>
                                (\E k \in DOMAIN branch : branch[k] = <<l, i>>)
                                  <=> i \in KeptRows(l)
      BY DEF BranchIsKept
    <2>1. Tidy(l) /\ Settled(l) /\ AtHand(l)
      BY DEF KeptInv, KeptLoop
    <2>2. branch = kept[l]
      BY <2>1 DEF Tidy, AtHand, Is, Fresh
    <2>3. ASSUME NEW i \in 1..(iteration[l] - 1), \E j \in KeptRows(l) : j <= i
          PROVE  (\E k \in DOMAIN branch : branch[k] = <<l, i>>) <=> i \in KeptRows(l)
      <3>1. Holds(branch, l, i) <=> i \in KeptRows(l)
        BY <2>1, <2>2, <2>3 DEF Settled
      <3> QED BY <3>1, Zenon DEF Holds
    <2> QED BY <2>2, <2>3
  <1> QED BY <1>1, KeptInit, KeptStep, PTL DEF ExperimentSpec

=============================================================================
