------------------------- MODULE DependenciesProofs -------------------------
(***************************************************************************)
(* Proofs about the dependency graph, for any tasks, any number of         *)
(* requests in flight and any moves of the tasks: the graph is sound, a    *)
(* cycle needs two additions that race, the gate holds up to edges added   *)
(* too late and requests checked too early, and what a request opens is    *)
(* noticed.                                                                *)
(***************************************************************************)
EXTENDS Dependencies, FiniteSetTheorems, Induction, TLAPS

\* An addition that is checked and not yet inserted would close no cycle.
Harmless(c) ==
    calls[c].op = "insert" =>
        LET e == calls[c].edge IN e[1] # e[2] /\ ~WouldCreateCycle(e[1], e[2])

\* While additions come one at a time the graph is acyclic and will be.
OneAtATime ==
    ~raced =>
        /\ Acyclic
        /\ \A b, c \in Call : calls[b].op = "insert" /\ calls[c].op = "insert" => b = c
        /\ \A c \in Call : Harmless(c)

Inv == TypeOK /\ OneAtATime /\ GateUnlessLate /\ OpenedIsNoticed

----------------------------------------------------------------------------
(* The graph *)

\* A graph that loses edges stays acyclic.
LEMMA AcyclicShrinks == ASSUME Acyclic, deps' \subseteq deps PROVE Acyclic'
  BY DEF Acyclic, Prereqs

\* What the walk does not reach it does not reach over fewer edges.
LEMMA WalkShrinks ==
  ASSUME NEW t, NEW d, ~WouldCreateCycle(t, d), deps' \subseteq deps
  PROVE  ~WouldCreateCycle(t, d)'
  <1>1. PICK S \in SUBSET Task : d \in S /\ Closed(S) /\ t \notin S
    BY DEF WouldCreateCycle
  <1>2. Closed(S)'
    BY <1>1 DEF Closed, Prereqs
  <1> QED BY <1>1, <1>2 DEF WouldCreateCycle

\* An edge that the walk has cleared closes no cycle: every set of tasks that
\* wait for each other would lie within, or avoid, the set the walk stays in.
LEMMA AcyclicGrows ==
  ASSUME NEW t \in Task, NEW d \in Task,
         Acyclic, t # d, ~WouldCreateCycle(t, d), deps' = deps \cup {<<t, d>>}
  PROVE  Acyclic'
  <1>1. PICK C \in SUBSET Task : d \in C /\ Closed(C) /\ t \notin C
    BY DEF WouldCreateCycle
  <1> SUFFICES ASSUME NEW S \in SUBSET Task, S # {},
                      \A x \in S : Prereqs(x)' \cap S # {}
               PROVE  FALSE
    BY DEF Acyclic
  <1>2. \A x \in Task : x # t => Prereqs(x)' = Prereqs(x)
    BY DEF Prereqs
  <1>3. CASE S \cap C = {}
    <2>1. \A x \in S : Prereqs(x)' \cap S = Prereqs(x) \cap S
      BY <1>1, <1>3 DEF Prereqs
    <2> QED BY <2>1 DEF Acyclic
  <1>4. CASE S \cap C # {}
    <2>1. \A x \in S \cap C : Prereqs(x) \cap (S \cap C) # {}
      BY <1>1, <1>2 DEF Closed
    <2> QED BY <1>4, <2>1 DEF Acyclic
  <1> QED BY <1>3, <1>4

----------------------------------------------------------------------------
(* The walk *)

Successors(S) == S \cup UNION {Prereqs(x) : x \in S}

\* The generations of the walk from d, and what they come to.
LEMMA Generations ==
  ASSUME NEW d \in Task
  PROVE  \E g \in [Nat -> SUBSET Task] :
           /\ g[0] = {d} /\ \A n \in Nat : g[n + 1] = Successors(g[n])
           /\ Walk(d) = g[Cardinality(Task)]
  <1> DEFINE Body(f) == [n \in Nat |-> IF n = 0 THEN {d}
                                       ELSE f[n - 1] \cup UNION {Prereqs(x) : x \in f[n - 1]}]
             g == CHOOSE f : f = Body(f)
             F == [S \in SUBSET Task |-> Successors(S)]
  <1>1. Walk(d) = g[Cardinality(Task)]
    BY DEF Walk
  <1>2. F \in [SUBSET Task -> SUBSET Task]
    BY DEF Successors, Prereqs
  <1> HIDE DEF F
  <1>3. PICK h \in [Nat -> SUBSET Task] : h[0] = {d} /\ \A n \in Nat : h[n + 1] = F[h[n]]
    <2>1. {d} \in SUBSET Task
      OBVIOUS
    <2>2. \E h \in [Nat -> SUBSET Task] : Iterated(F, {d}, h)
      BY <1>2, <2>1, Iteration, Zenon
    <2> QED BY <2>2 DEF Iterated
  <1>4. h = Body(h)
    <2>1. ASSUME NEW n \in Nat PROVE h[n] = Body(h)[n]
      <3>1. CASE n = 0
        BY <1>3, <3>1
      <3>2. CASE n # 0
        <4>1. n - 1 \in Nat /\ (n - 1) + 1 = n
          BY <3>2
        <4> QED BY <1>3, <3>2, <4>1 DEF F, Successors
      <3> QED BY <3>1, <3>2
    <2> QED BY <1>3, <2>1
  <1> HIDE DEF Body
  <1>5. g = Body(g)
    BY <1>4
  <1> HIDE DEF g
  <1>6. g[0] = {d}
    BY <1>5 DEF Body
  <1>7. ASSUME NEW n \in Nat PROVE g[n + 1] = Successors(g[n])
    BY <1>5 DEF Body, Successors
  <1>8. \A n \in Nat : g[n] \in SUBSET Task
    <2> DEFINE S == {n \in Nat : g[n] \in SUBSET Task}
    <2>1. 0 \in S
      BY <1>6
    <2>2. ASSUME NEW n \in Nat, n \in S PROVE n + 1 \in S
      <3>1. Successors(g[n]) \in SUBSET Task
        BY <2>2 DEF Successors, Prereqs
      <3> QED BY <1>7, <3>1
    <2> HIDE DEF S
    <2>3. \A n \in Nat : n \in S
      BY <2>1, <2>2, SetInduction
    <2> QED BY <2>3 DEF S
  <1>9. g \in [Nat -> SUBSET Task]
    <2>1. g = [n \in Nat |-> g[n]]
      BY <1>5 DEF Body
    <2> QED BY <1>8, <2>1
  <1> QED BY <1>1, <1>6, <1>7, <1>9

\* A generation that adds nothing has closed the set; until then each adds a task,
\* so there are at most as many as tasks.
LEMMA WalkIsComplete ==
  ASSUME NEW t \in Task, NEW d \in Task
  PROVE  t \in Walk(d) <=> WouldCreateCycle(t, d)
  <1>1. PICK g \in [Nat -> SUBSET Task] :
          /\ g[0] = {d} /\ \A n \in Nat : g[n + 1] = Successors(g[n])
          /\ Walk(d) = g[Cardinality(Task)]
    BY Generations
  <1>2. Cardinality(Task) \in Nat
    BY TaskAssumption, FS_CardinalityType
  <1>3. ASSUME NEW C \in SUBSET Task, d \in C, Closed(C) PROVE Walk(d) \subseteq C
    <2> DEFINE S == {n \in Nat : g[n] \subseteq C}
    <2>1. 0 \in S
      BY <1>1, <1>3
    <2>2. ASSUME NEW n \in Nat, n \in S PROVE n + 1 \in S
      <3>1. Successors(g[n]) \subseteq C
        BY <1>3, <2>2 DEF Successors, Closed
      <3> QED BY <1>1, <3>1
    <2> HIDE DEF S
    <2>3. \A n \in Nat : n \in S
      BY <2>1, <2>2, SetInduction
    <2> QED BY <1>1, <1>2, <2>3 DEF S
  <1>4. \A n \in Nat : d \in g[n]
    <2> DEFINE S == {n \in Nat : d \in g[n]}
    <2>1. 0 \in S
      BY <1>1
    <2>2. ASSUME NEW n \in Nat, n \in S PROVE n + 1 \in S
      BY <1>1, <2>2 DEF Successors
    <2> HIDE DEF S
    <2>3. \A n \in Nat : n \in S
      BY <2>1, <2>2, SetInduction
    <2> QED BY <2>3 DEF S
  <1>5. \A n \in Nat : Closed(g[n]) \/ n + 1 <= Cardinality(g[n])
    <2> DEFINE S == {n \in Nat : Closed(g[n]) \/ n + 1 <= Cardinality(g[n])}
    <2>1. 0 \in S
      <3>1. Cardinality({d}) = 1
        BY FS_Singleton
      <3> QED BY <1>1, <3>1
    <2>2. ASSUME NEW n \in Nat, n \in S PROVE n + 1 \in S
      <3>1. /\ g[n] \subseteq g[n + 1] /\ g[n + 1] \in SUBSET Task
            /\ g[n + 1] = Successors(g[n])
        BY <1>1 DEF Successors
      <3>2. CASE g[n + 1] = g[n]
        <4>1. Closed(g[n])
          BY <3>1, <3>2 DEF Closed, Successors
        <4> QED BY <3>2, <4>1
      <3>3. CASE g[n + 1] # g[n]
        <4>1. ~Closed(g[n])
          BY <3>1, <3>3 DEF Closed, Successors
        <4>2. /\ IsFiniteSet(g[n + 1]) /\ Cardinality(g[n + 1]) \in Nat
              /\ Cardinality(g[n]) \in Nat /\ Cardinality(g[n]) <= Cardinality(g[n + 1])
              /\ Cardinality(g[n + 1]) # Cardinality(g[n])
          BY <3>1, <3>3, TaskAssumption, FS_Subset, FS_CardinalityType
        <4> QED BY <2>2, <4>1, <4>2
      <3> QED BY <3>2, <3>3
    <2> HIDE DEF S
    <2>3. \A n \in Nat : n \in S
      BY <2>1, <2>2, SetInduction
    <2> QED BY <2>3 DEF S
  <1>6. Closed(Walk(d)) /\ d \in Walk(d) /\ Walk(d) \in SUBSET Task
    <2>1. Cardinality(Walk(d)) <= Cardinality(Task) /\ Cardinality(Walk(d)) \in Nat
      BY <1>1, <1>2, TaskAssumption, FS_Subset, FS_CardinalityType
    <2> QED BY <1>1, <1>2, <1>4, <1>5, <2>1
  <1> QED BY <1>3, <1>6 DEF WouldCreateCycle

----------------------------------------------------------------------------
(* The invariant *)

\* An empty project satisfies it.
LEMMA InitInv == Init => Inv
  <1> SUFFICES ASSUME Init PROVE Inv
    OBVIOUS
  <1>1. TypeOK
    <2>1. Idle \in CallRecords
      BY DEF CallRecords
    <2>2. calls \in [Call -> CallRecords]
      BY <2>1 DEF Init
    <2> QED BY <2>2, BudgetAssumption DEF Init, TypeOK
  <1>2. Acyclic
    BY DEF Init, Acyclic, Prereqs
  <1>3. OneAtATime
    BY <1>2 DEF Init, OneAtATime, Harmless, Idle
  <1>4. GateUnlessLate
    BY DEF Init, GateUnlessLate
  <1>5. OpenedIsNoticed
    BY DEF Init, OpenedIsNoticed
  <1> QED BY <1>1, <1>3, <1>4, <1>5 DEF Inv

\* Every request, move and restart keeps it.
LEMMA TypeStep == ASSUME TypeOK, [Next]_vars PROVE TypeOK'
  <1> USE DEF TypeOK, Tasks, Waiting, Await, Spend
  <1>1. ASSUME NEW t \in Task, NEW s \in Waiting, CreateTask(t, s) PROVE TypeOK'
    BY <1>1 DEF CreateTask, TaskStates
  <1>2. ASSUME NEW t \in Task, DeleteTask(t) PROVE TypeOK'
    BY <1>2 DEF DeleteTask, Cascade, TaskStates
  <1>3. ASSUME NEW t \in Task, NEW to \in TaskStates, Move(t, to) PROVE TypeOK'
    BY <1>3, MovesAssumption DEF Move, TaskStates
  <1>4. ASSUME NEW c \in Call, NEW t \in Task, NEW to \in {"backlog", "done"},
               MoveThenRecompute(c, t, to)
        PROVE  TypeOK'
    BY <1>4, MovesAssumption DEF MoveThenRecompute, CallRecords, TaskStates
  <1>5. ASSUME NEW c \in Call, NEW t \in Task, NEW d \in Task, AddDependency(c, t, d)
        PROVE  TypeOK'
    BY <1>5 DEF AddDependency, CallRecords, rows
  <1>6. ASSUME NEW c \in Call, NEW t \in Task, NEW d \in Task, RemoveDependency(c, t, d)
        PROVE  TypeOK'
    BY <1>6 DEF RemoveDependency, AfterRemove, CallRecords
  <1>7. ASSUME NEW c \in Call, InsertEdge(c) PROVE TypeOK'
    <2>1. PICK t \in Task, d \in Task : calls[c] = Inserting(t, d)
      BY <1>7 DEF InsertEdge, CallRecords, Idle, Recomputing, Inserting, Asking
    <2>2. calls[c].edge = <<t, d>> /\ calls[c].edge[1] = t /\ calls[c].edge[2] = d
      BY <2>1 DEF Inserting
    <2> QED BY <1>7, <2>2 DEF InsertEdge, CanInsertEdge, CallRecords
  <1>8. ASSUME NEW c \in Call, RecomputeReadiness(c) PROVE TypeOK'
    BY <1>8 DEF RecomputeReadiness, CallRecords, TaskStates
  <1>9. ASSUME Restart PROVE TypeOK'
    BY <1>9 DEF Restart, rows, history, CallRecords
  <1>10. CASE UNCHANGED vars
    BY <1>10 DEF vars, rows, history
  <1>11. ASSUME NEW c \in Call, NEW t \in Task, AskReady(c, t) PROVE TypeOK'
    BY <1>11 DEF AskReady, CallRecords, rows, history
  <1>12. ASSUME NEW c \in Call, TakeReady(c) PROVE TypeOK'
    <2>1. PICK t \in Task : calls[c].edge[1] = t
      BY <1>12 DEF TakeReady, CallRecords, Idle, Recomputing, Inserting, Asking
    <2> QED BY <1>12, <2>1 DEF TakeReady, CallRecords, TaskStates
  <1> QED
    BY <1>1, <1>2, <1>3, <1>4, <1>5, <1>6, <1>7, <1>8, <1>9, <1>10, <1>11, <1>12 DEF Next

\* Steps that add no edge and begin no addition keep the pending one harmless.
LEMMA OneAtATimeKept ==
  ASSUME OneAtATime, deps' \subseteq deps, raced' = raced,
         \A c \in Call : calls'[c].op = "insert" => calls'[c] = calls[c]
  PROVE  OneAtATime'
  <1> SUFFICES ASSUME ~raced PROVE OneAtATime'
    BY DEF OneAtATime
  <1>1. Acyclic'
    BY AcyclicShrinks DEF OneAtATime
  <1>2. \A b, c \in Call : calls'[b].op = "insert" /\ calls'[c].op = "insert" => b = c
    BY DEF OneAtATime
  <1>3. ASSUME NEW c \in Call, calls'[c].op = "insert" PROVE Harmless(c)'
    <2>1. PICK t, d : t = calls[c].edge[1] /\ d = calls[c].edge[2]
      OBVIOUS
    <2>2. calls'[c] = calls[c] /\ t # d /\ ~WouldCreateCycle(t, d)
      BY <1>3, <2>1 DEF OneAtATime, Harmless
    <2>3. ~WouldCreateCycle(t, d)'
      BY <2>2, WalkShrinks
    <2> QED BY <2>1, <2>2, <2>3 DEF Harmless
  <1>4. \A c \in Call : Harmless(c)'
    BY <1>3 DEF Harmless
  <1> QED BY <1>1, <1>2, <1>4 DEF OneAtATime

\* An addition in flight names two tasks.
LEMMA InsertingType ==
  ASSUME TypeOK, NEW c \in Call, calls[c].op = "insert"
  PROVE  \E t, d \in Task : calls[c] = Inserting(t, d)
  BY DEF TypeOK, CallRecords, Idle, Recomputing, Asking

\* A request to make a task ready names one.
LEMMA AskingType ==
  ASSUME TypeOK, NEW c \in Call, calls[c].op = "ready"
  PROVE  \E t \in Task : calls[c].edge[1] = t
  BY DEF TypeOK, CallRecords, Idle, Recomputing, Inserting, Asking

\* Every request, move and restart keeps additions harmless, or is the second of two.
LEMMA OneAtATimeStep == ASSUME TypeOK, OneAtATime, [Next]_vars PROVE OneAtATime'
  <1>1. ASSUME NEW t \in Task, NEW s \in Waiting, CreateTask(t, s) PROVE OneAtATime'
    BY <1>1, OneAtATimeKept DEF CreateTask
  <1>2. ASSUME NEW t \in Task, DeleteTask(t) PROVE OneAtATime'
    BY <1>2, OneAtATimeKept DEF DeleteTask, Cascade
  <1>3. ASSUME NEW t \in Task, NEW to \in TaskStates, Move(t, to) PROVE OneAtATime'
    BY <1>3, OneAtATimeKept DEF Move
  <1>4. ASSUME NEW c \in Call, NEW t \in Task, NEW to \in {"backlog", "done"},
               MoveThenRecompute(c, t, to)
        PROVE  OneAtATime'
    BY <1>4, OneAtATimeKept DEF MoveThenRecompute, Await, Recomputing, TypeOK
  <1>5. ASSUME NEW c \in Call, NEW t \in Task, NEW d \in Task, AddDependency(c, t, d)
        PROVE  OneAtATime'
    <2> SUFFICES ASSUME ~raced' PROVE OneAtATime'
      BY DEF OneAtATime
    <2>1. ~raced /\ \A b \in Call : calls[b].op # "insert"
      BY <1>5 DEF AddDependency
    <2>2. Acyclic'
      BY <1>5, <2>1, AcyclicShrinks DEF AddDependency, rows, OneAtATime
    <2>3. /\ calls'[c] = Inserting(t, d)
          /\ \A b \in Call : b # c => calls'[b] = calls[b]
      BY <1>5 DEF AddDependency, Await, TypeOK
    <2>4. ~WouldCreateCycle(t, d)'
      BY <1>5, WalkShrinks DEF AddDependency, rows
    <2>5. Harmless(c)'
      <3>1. calls'[c].edge[1] = t /\ calls'[c].edge[2] = d
        BY <2>3 DEF Inserting
      <3> QED BY <1>5, <2>4, <3>1 DEF Harmless, AddDependency
    <2>6. \A b \in Call : b # c => calls'[b].op # "insert"
      BY <2>1, <2>3
    <2>7. \A b \in Call : Harmless(b)'
      BY <2>5, <2>6 DEF Harmless
    <2> QED BY <2>2, <2>6, <2>7 DEF OneAtATime
  <1>6. ASSUME NEW c \in Call, NEW t \in Task, NEW d \in Task, RemoveDependency(c, t, d)
        PROVE  OneAtATime'
    BY <1>6, OneAtATimeKept
    DEF RemoveDependency, AfterRemove, Await, Recomputing, TypeOK
  <1>7. ASSUME NEW c \in Call, InsertEdge(c) PROVE OneAtATime'
    <2> SUFFICES ASSUME ~raced PROVE OneAtATime'
      BY <1>7 DEF OneAtATime, InsertEdge
    <2>1. PICK t \in Task, d \in Task : calls[c] = Inserting(t, d)
      BY <1>7, InsertingType DEF InsertEdge
    <2>2. calls[c].op = "insert" /\ calls[c].edge = <<t, d>>
      BY <2>1 DEF Inserting
    <2>3. t # d /\ ~WouldCreateCycle(t, d) /\ Acyclic
      BY <2>2 DEF OneAtATime, Harmless
    <2>4. deps' = deps \/ deps' = deps \cup {<<t, d>>}
      BY <1>7, <2>2 DEF InsertEdge
    <2>5. Acyclic'
      BY <2>3, <2>4, AcyclicShrinks, AcyclicGrows
    <2>6. \A b \in Call : calls'[b].op # "insert"
      <3>1. \A b \in Call : b # c => calls[b].op # "insert"
        BY <2>2 DEF OneAtATime
      <3>2. calls'[c] \in {Recomputing, Idle} /\ \A b \in Call : b # c => calls'[b] = calls[b]
        BY <1>7 DEF InsertEdge, Await, TypeOK
      <3> QED BY <3>1, <3>2 DEF Recomputing, Idle
    <2> QED BY <2>5, <2>6 DEF OneAtATime, Harmless
  <1>8. ASSUME NEW c \in Call, RecomputeReadiness(c) PROVE OneAtATime'
    BY <1>8, OneAtATimeKept DEF RecomputeReadiness, Await, Idle, TypeOK
  <1>9. ASSUME Restart PROVE OneAtATime'
    BY <1>9, OneAtATimeKept DEF Restart, rows, history, Idle, Recomputing
  <1>10. CASE UNCHANGED vars
    BY <1>10, OneAtATimeKept DEF vars, rows, history
  <1>11. ASSUME NEW c \in Call, NEW t \in Task, AskReady(c, t) PROVE OneAtATime'
    BY <1>11, OneAtATimeKept DEF AskReady, Await, Asking, TypeOK, rows, history
  <1>12. ASSUME NEW c \in Call, TakeReady(c) PROVE OneAtATime'
    BY <1>12, OneAtATimeKept DEF TakeReady, Await, Idle, TypeOK
  <1> QED
    BY <1>1, <1>2, <1>3, <1>4, <1>5, <1>6, <1>7, <1>8, <1>9, <1>10, <1>11, <1>12 DEF Next

----------------------------------------------------------------------------
(* The gate and the recomputes *)

\* A task gets past backlog through a recompute that finds its prerequisites
\* merged, or through a request that passes over what is not, and a merge is
\* never taken back.
LEMMA GateStep ==
  ASSUME TypeOK, GateUnlessLate, [Next]_vars PROVE GateUnlessLate'
  <1> USE DEF TypeOK, Tasks, Waiting, GateUnlessLate
  <1>1. ASSUME NEW t \in Task, NEW s \in Waiting, CreateTask(t, s) PROVE GateUnlessLate'
    BY <1>1 DEF CreateTask, TaskStates
  <1>2. ASSUME NEW t \in Task, DeleteTask(t) PROVE GateUnlessLate'
    BY <1>2 DEF DeleteTask, Cascade, TaskStates
  <1>3. ASSUME NEW t \in Task, NEW to \in TaskStates, Move(t, to) PROVE GateUnlessLate'
    BY <1>3, MovesAssumption
    DEF Move, TaskEdges, SystemOnlyEdges, TaskStates, TerminalTaskStates
  <1>4. ASSUME NEW c \in Call, NEW t \in Task, NEW to \in {"backlog", "done"},
               MoveThenRecompute(c, t, to)
        PROVE  GateUnlessLate'
    BY <1>4, MovesAssumption
    DEF MoveThenRecompute, TaskEdges, SystemOnlyEdges, TaskStates, TerminalTaskStates
  <1>5. ASSUME NEW c \in Call, NEW t \in Task, NEW d \in Task, AddDependency(c, t, d)
        PROVE  GateUnlessLate'
    BY <1>5 DEF AddDependency, rows
  <1>6. ASSUME NEW c \in Call, NEW t \in Task, NEW d \in Task, RemoveDependency(c, t, d)
        PROVE  GateUnlessLate'
    BY <1>6 DEF RemoveDependency
  <1>7. ASSUME NEW c \in Call, InsertEdge(c) PROVE GateUnlessLate'
    BY <1>7 DEF InsertEdge
  <1>8. ASSUME NEW c \in Call, RecomputeReadiness(c) PROVE GateUnlessLate'
    BY <1>8 DEF RecomputeReadiness, DepsMerged, Prereqs
  <1>9. CASE Restart
    BY <1>9 DEF Restart, rows, history
  <1>10. CASE UNCHANGED vars
    BY <1>10 DEF vars, rows, history
  <1>11. ASSUME NEW c \in Call, NEW t \in Task, AskReady(c, t) PROVE GateUnlessLate'
    BY <1>11 DEF AskReady, rows, history
  <1>12. ASSUME NEW c \in Call, TakeReady(c) PROVE GateUnlessLate'
    <2>1. PICK t \in Task : calls[c].edge[1] = t
      BY <1>12, AskingType DEF TakeReady
    <2> QED BY <1>12, <2>1 DEF TakeReady
  <1> QED
    BY <1>1, <1>2, <1>3, <1>4, <1>5, <1>6, <1>7, <1>8, <1>9, <1>10, <1>11, <1>12 DEF Next

\* A step that leaves calls with a recompute in them notices everything.
LEMMA NoticedByRecompute ==
  ASSUME \E c \in Call : calls'[c] = Recomputing PROVE OpenedIsNoticed'
  BY DEF OpenedIsNoticed, Recomputing

\* Steps that put no task into backlog and merge, free or forget nothing.
LEMMA NoticedKept ==
  ASSUME OpenedIsNoticed, missed \subseteq missed',
         \A t \in Task \ missed' : taskState'[t] = "backlog" =>
            /\ taskState[t] = "backlog" /\ Prereqs(t) \subseteq Prereqs(t)'
            /\ \A d \in Prereqs(t) : taskState'[d] = "done" => taskState[d] = "done",
         \A c \in Call : calls[c] = Recomputing => calls'[c] = Recomputing
  PROVE  OpenedIsNoticed'
  <1> SUFFICES ASSUME NEW t \in Task \ missed', taskState'[t] = "backlog", DepsMerged(t)'
               PROVE  \E c \in Call : calls'[c] = Recomputing
    BY DEF OpenedIsNoticed, Recomputing
  <1>1. DepsMerged(t)
    BY DEF DepsMerged
  <1> QED BY <1>1 DEF OpenedIsNoticed

\* What a request opens waits for that request's recompute.
LEMMA NoticedStep ==
  ASSUME TypeOK, OpenedIsNoticed, [Next]_vars PROVE OpenedIsNoticed'
  <1> USE DEF TypeOK
  <1>1. ASSUME NEW t \in Task, NEW s \in Waiting, CreateTask(t, s) PROVE OpenedIsNoticed'
    BY <1>1, NoticedKept DEF CreateTask, Prereqs, Waiting
  <1>2. ASSUME NEW t \in Task, DeleteTask(t) PROVE OpenedIsNoticed'
    BY <1>2, NoticedKept DEF DeleteTask, Cascade, Prereqs
  <1>3. ASSUME NEW t \in Task, NEW to \in TaskStates, Move(t, to) PROVE OpenedIsNoticed'
    BY <1>3, NoticedKept DEF Move, Prereqs
  <1>4. ASSUME NEW c \in Call, NEW t \in Task, NEW to \in {"backlog", "done"},
               MoveThenRecompute(c, t, to)
        PROVE  OpenedIsNoticed'
    BY <1>4, NoticedByRecompute DEF MoveThenRecompute, Await
  <1>5. ASSUME NEW c \in Call, NEW t \in Task, NEW d \in Task, AddDependency(c, t, d)
        PROVE  OpenedIsNoticed'
    BY <1>5, NoticedKept DEF AddDependency, Await, rows, Prereqs, Idle, Recomputing
  <1>6. ASSUME NEW c \in Call, NEW t \in Task, NEW d \in Task, RemoveDependency(c, t, d)
        PROVE  OpenedIsNoticed'
    BY <1>6, NoticedByRecompute DEF RemoveDependency, AfterRemove, Await
  <1>7. ASSUME NEW c \in Call, InsertEdge(c) PROVE OpenedIsNoticed'
    BY <1>7, NoticedKept DEF InsertEdge, Await, Prereqs, Recomputing
  <1>8. ASSUME NEW c \in Call, RecomputeReadiness(c) PROVE OpenedIsNoticed'
    BY <1>8 DEF RecomputeReadiness, OpenedIsNoticed, DepsMerged, Prereqs
  <1>9. ASSUME Restart PROVE OpenedIsNoticed'
    BY <1>9, NoticedByRecompute DEF Restart
  <1>10. CASE UNCHANGED vars
    BY <1>10, NoticedKept DEF vars, rows, history, Prereqs
  <1>11. ASSUME NEW c \in Call, NEW t \in Task, AskReady(c, t) PROVE OpenedIsNoticed'
    BY <1>11, NoticedKept DEF AskReady, Await, rows, history, Prereqs, Idle, Recomputing
  <1>12. ASSUME NEW c \in Call, TakeReady(c) PROVE OpenedIsNoticed'
    <2>1. PICK t \in Task : calls[c].edge[1] = t
      BY <1>12, AskingType DEF TakeReady
    <2> QED BY <1>12, <2>1, NoticedKept DEF TakeReady, Await, Prereqs, Recomputing
  <1> QED
    BY <1>1, <1>2, <1>3, <1>4, <1>5, <1>6, <1>7, <1>8, <1>9, <1>10, <1>11, <1>12 DEF Next

----------------------------------------------------------------------------
(* The theorems *)

\* The invariant holds throughout.
LEMMA Invariance == Spec => []Inv
  <1>1. Inv /\ [Next]_vars => Inv'
    BY TypeStep, OneAtATimeStep, GateStep, NoticedStep DEF Inv
  <1> QED BY InitInv, <1>1, PTL DEF Spec

\* The graph keeps its shape and joins existing tasks only: an addition whose
\* task is deleted between its check and its insert is refused.
THEOREM GraphTypeCorrect == Spec => []TypeOK
  <1>1. Inv => TypeOK
    BY DEF Inv
  <1> QED BY Invariance, <1>1, PTL

\* addDependency's check keeps the graph acyclic unless two additions race.
THEOREM NoCycleWithoutRace == Spec => []AcyclicUnlessRaced
  <1>1. Inv => AcyclicUnlessRaced
    BY DEF Inv, OneAtATime, AcyclicUnlessRaced
  <1> QED BY Invariance, <1>1, PTL

\* GateUnlessLate: whatever requests, moves and restarts interleave, a task past
\* backlog has every prerequisite merged, except those added when it was past already
\* and those that a request to make it ready, checked before the task came to
\* backlog, passed over.
THEOREM GateHolds == Spec => []GateUnlessLate
  <1>1. Inv => GateUnlessLate
    BY DEF Inv
  <1> QED BY Invariance, <1>1, PTL

\* Whatever a promotion, a merge, a demotion or a removal opens gets a recompute,
\* across restarts too.
THEOREM NothingStalls == Spec => []OpenedIsNoticed
  <1>1. Inv => OpenedIsNoticed
    BY DEF Inv
  <1> QED BY Invariance, <1>1, PTL

\* WalkDecides: a generation for each task is enough for the walk, over any
\* graph the requests can make.
THEOREM WalkFindsEveryWay == Spec => []WalkDecides
  <1>1. WalkDecides
    BY WalkIsComplete DEF WalkDecides
  <1> QED BY <1>1, PTL

============================================================================
