---------------------------- MODULE BoardProofs ----------------------------
(* The invariants of the tables, for any tasks, dependencies and runs. *)
EXTENDS Board, TLAPS

\* The columns hold states of their machines.
TypeOK ==
    /\ taskState \in [Task -> TaskStates]
    /\ merged \in [Task -> BOOLEAN]
    /\ jumped \subseteq Task
    /\ runState \in [RunId -> RunStates \cup {"absent"}]
    /\ DOMAIN runTask = RunId /\ runTask = [r \in RunId |-> runTask[r]]

\* Inductive: the gate needs the merges, the merges need that done has one way in.
Inv == TypeOK /\ OneActiveRunPerTask /\ MergedIffDone /\ DependencyGate

\* Drafts and an empty runs table satisfy the invariant.
LEMMA InitInv == Init => Inv
  BY DEF Init, Inv, TypeOK, OneActiveRunPerTask, MergedIffDone, DependencyGate, ActiveRuns,
         TaskStates, RunStates, ActiveRunStates, TerminalRunStates

\* Promoting tasks whose prerequisites are merged keeps the invariant, whatever
\* move came with it, as long as that move kept the merges and the gate.
LEMMA PromoteInv ==
  ASSUME Inv,
         NEW moved \in [Task -> TaskStates], NEW ms \in [Task -> BOOLEAN],
         jumped' \subseteq Task,
         \A t \in Task : ms[t] <=> moved[t] = "done",
         \A t \in Task \ jumped' : moved[t] \notin {"draft", "backlog", "cancelled"} =>
                                    \A d \in Prereqs(t) : ms[d],
         merged' = ms, Promote(moved, ms), UNCHANGED runRows
  PROVE  Inv'
  <1>1. TypeOK'
    BY DEF Promote, Inv, TypeOK, TaskStates, runRows
  <1>2. OneActiveRunPerTask'
    BY DEF Inv, OneActiveRunPerTask, ActiveRuns, runRows
  <1>3. MergedIffDone'
    BY DEF Promote, MergedIffDone
  <1>4. DependencyGate'
    BY DEF Promote, DependencyGate, Prereqs
  <1> QED BY <1>1, <1>2, <1>3, <1>4 DEF Inv

\* Every move, promotion and insert keeps the invariant.
LEMMA NextInv == Inv /\ [Next]_vars => Inv'
  <1> SUFFICES ASSUME Inv, [Next]_vars PROVE Inv'
    OBVIOUS
  <1>1. ASSUME NEW t \in Task, NEW to \in TaskStates, MoveTask(t, to) PROVE Inv'
    <2> DEFINE moved == [taskState EXCEPT ![t] = to]
    <2>1. moved \in [Task -> TaskStates] /\ merged' \in [Task -> BOOLEAN]
      BY <1>1 DEF MoveTask, Inv, TypeOK
    <2>2. to = "done" => taskState[t] = "merging"
      BY <1>1 DEF MoveTask, TaskEdges, TaskStates, TerminalTaskStates
    <2>3. taskState[t] # "done"
      BY <1>1 DEF MoveTask, TaskEdges, TaskStates, TerminalTaskStates
    <2>4. \A u \in Task : merged'[u] <=> moved[u] = "done"
      BY <1>1, <2>3 DEF MoveTask, Inv, TypeOK, MergedIffDone
    <2>5. to \notin {"draft", "backlog", "cancelled"} =>
            \/ taskState[t] \notin {"draft", "backlog", "cancelled"}
            \/ taskState[t] = "backlog" /\ to = "ready"
      BY <1>1 DEF MoveTask, TaskEdges, TaskStates, TerminalTaskStates
    <2>6. jumped' \subseteq Task /\ jumped \ {t} \subseteq jumped'
      BY <1>1 DEF MoveTask, JumpedAfter, Inv, TypeOK
    <2>7. to # "backlog" => jumped \subseteq jumped'
      BY <1>1 DEF MoveTask, JumpedAfter
    <2>8. to = "ready" => t \in jumped' \/ \A d \in Prereqs(t) : merged[d]
      BY <1>1 DEF MoveTask, JumpedAfter
    <2>9. \A d \in Task : merged[d] => merged'[d]
      BY <1>1 DEF MoveTask, Inv, TypeOK
    <2>10. ASSUME NEW u \in Task \ jumped', moved[u] \notin {"draft", "backlog", "cancelled"}
           PROVE  \A d \in Prereqs(u) : merged'[d]
      <3>1. u # t => \A d \in Prereqs(u) : merged[d]
        BY <2>6, <2>10 DEF Inv, TypeOK, DependencyGate
      <3>2. u = t => \A d \in Prereqs(u) : merged[d]
        BY <2>5, <2>7, <2>8, <2>10 DEF Inv, TypeOK, DependencyGate
      <3> QED BY <3>1, <3>2, <2>9 DEF Prereqs
    <2> QED BY <1>1, <2>1, <2>4, <2>6, <2>10, PromoteInv DEF MoveTask
  <1>2. ASSUME Unblock PROVE Inv'
    BY <1>2, PromoteInv DEF Unblock, Inv, TypeOK, MergedIffDone, DependencyGate
  <1>3. ASSUME NEW t \in Task, NEW r \in RunId, InsertRun(t, r) PROVE Inv'
    <2>1. TypeOK'
      BY <1>3 DEF InsertRun, Inv, TypeOK, RunStates, ActiveRunStates, taskRows
    <2>2. OneActiveRunPerTask'
      BY <1>3 DEF InsertRun, Inv, TypeOK, OneActiveRunPerTask, ActiveRuns, ActiveRunStates
    <2>3. MergedIffDone' /\ DependencyGate'
      BY <1>3 DEF InsertRun, Inv, MergedIffDone, DependencyGate, Prereqs, taskRows
    <2> QED BY <2>1, <2>2, <2>3 DEF Inv
  <1>4. ASSUME NEW r \in RunId, NEW to \in RunStates, MoveRun(r, to) PROVE Inv'
    <2>1. TypeOK'
      BY <1>4 DEF MoveRun, Inv, TypeOK, taskRows
    <2>2. runState[r] \in ActiveRunStates
      BY <1>4 DEF MoveRun, RunEdges, ActiveRunStates
    <2>3. OneActiveRunPerTask'
      BY <1>4, <2>2 DEF MoveRun, Inv, TypeOK, OneActiveRunPerTask, ActiveRuns
    <2>4. MergedIffDone' /\ DependencyGate'
      BY <1>4 DEF MoveRun, Inv, MergedIffDone, DependencyGate, Prereqs, taskRows
    <2> QED BY <2>1, <2>3, <2>4 DEF Inv
  <1>5. CASE UNCHANGED vars
    BY <1>5 DEF vars, Inv, TypeOK, OneActiveRunPerTask, MergedIffDone, DependencyGate,
                ActiveRuns, Prereqs
  <1> QED BY <1>1, <1>2, <1>3, <1>4, <1>5 DEF Next

\* SPEC invariants 1 and 3 and the dependency gate, for any tasks, dependencies
\* and runs, of anything that writes the tables one guarded move at a time, every
\* edge of transitionTask's table included.  The gate has no other way round it
\* than the move backlog -> ready itself.
THEOREM BoardInvariants == Spec => [](OneActiveRunPerTask /\ MergedIffDone /\ DependencyGate)
  <1>1. Inv => OneActiveRunPerTask /\ MergedIffDone /\ DependencyGate
    BY DEF Inv
  <1> QED BY InitInv, NextInv, <1>1, PTL DEF Spec

============================================================================
