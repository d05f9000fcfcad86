--------------------------- MODULE ServicesProofs ---------------------------
(***************************************************************************)
(* Four services, for any values of their constants.  Capacity: a cooldown *)
(* refuses everyone, and the runs the gate let through stay within the     *)
(* cap.  The lock file has one holder until two processes race for a stale *)
(* one.  Triggers: fires that do not overlap pass the gates, and the       *)
(* scheduler fires once per match of a schedule.  The rubric: the verdict  *)
(* follows from what the finders raised, whatever order they raised it in. *)
(* And side by side every service keeps what is proved of it alone.        *)
(***************************************************************************)
EXTENDS MCServices, ReviewMergeProofs, ExperimentProofs,
        SequenceTheorems, FiniteSetTheorems, Induction, TLAPS

----------------------------------------------------------------------------
(* Capacity: type correctness *)

\* canSpawn, observe and the runs keep the shapes of the provider's row.
THEOREM CapacityTypeCorrect == CapacitySpec => []CapacityTypeOK
  <1>1. CapacityInit => CapacityTypeOK
    <2>1. CapacityInit => flipRaced \in BOOLEAN
      BY Zenon DEF CapacityInit
    <2> QED BY <2>1 DEF CapacityInit, CapacityTypeOK
  <1>2. CapacityTypeOK /\ [CapacityNext]_capacityVars => CapacityTypeOK'
    <2> SUFFICES ASSUME CapacityTypeOK, [CapacityNext]_capacityVars PROVE CapacityTypeOK'
      OBVIOUS
    <2> USE DEF CapacityTypeOK, providerRow, providerRuns
    <2>1. CASE UNCHANGED capacityVars
      BY <2>1 DEF capacityVars
    <2>2. CASE CanSpawn \/ FlipToHalfOpen \/ CountAfterFlip
      BY <2>2 DEF CanSpawn, FlipToHalfOpen, CountAfterFlip
    <2>3. CASE StartGated
      BY <2>3 DEF StartGated, FreshProviderRuns
    <2>4. CASE StartUngated
      BY <2>4 DEF StartUngated, FreshProviderRuns
    <2>5. ASSUME NEW r \in ProviderRuns, NEW k \in {"ok", "limit", "error", "none"}, RunEnds(r, k)
          PROVE  CapacityTypeOK'
      BY <2>5 DEF RunEnds
    <2>6. CASE ObserveLimit
      BY <2>6 DEF ObserveLimit
    <2>7. CASE ObserveOk
      BY <2>7 DEF ObserveOk
    <2>8. CASE ObserveError
      BY <2>8 DEF ObserveError
    <2>9. CASE CooldownPasses
      BY <2>9 DEF CooldownPasses
    <2> QED BY <2>7, <2>8, <2>9, <2>1, <2>2, <2>3, <2>4, <2>5, <2>6 DEF CapacityNext
  <1> QED BY <1>1, <1>2, PTL DEF CapacitySpec

----------------------------------------------------------------------------
(* Cooldowns *)

\* CooldownRefuses: the circuit is not closed during a cooldown, and half-open
\* only where a flip came after a new trip.
THEOREM CooldownsRefuse == CapacitySpec => []CooldownRefuses
  <1>1. CapacityInit => CooldownRefuses
    BY DEF CapacityInit, CooldownRefuses
  <1>2. CapacityTypeOK /\ CooldownRefuses /\ [CapacityNext]_capacityVars => CooldownRefuses'
    BY DEF CapacityTypeOK, CooldownRefuses, CapacityNext, capacityVars, providerRow, providerRuns, CanSpawn,
           FlipToHalfOpen, CountAfterFlip, StartGated, StartUngated, RunEnds, ObserveLimit,
           ObserveOk, ObserveError, CooldownPasses
  <1> QED BY <1>1, <1>2, CapacityTypeCorrect, PTL DEF CapacitySpec

----------------------------------------------------------------------------
(* The cap *)

Gated == gated \cap running

\* What the gate has seen still holds of its own runs when it starts one: others
\* only end meanwhile.
GateInv ==
    /\ GateKeepsCap
    /\ gate = "admit" => Cardinality(Gated) < ProviderCap
    /\ gate = "probe" => Gated = {}

\* The sets the gate counts are finite.
LEMMA GatedIsFinite ==
  ASSUME CapacityTypeOK PROVE IsFiniteSet(running) /\ IsFiniteSet(Gated)
  BY CapacityAssumption, FS_Subset DEF CapacityTypeOK, Gated

\* GateInv survives whatever takes nothing into the gate's runs and tells the
\* gate nothing new.
LEMMA GatedShrinks ==
  ASSUME CapacityTypeOK, GateInv, gated' = gated, probes' = probes,
         Gated' \subseteq Gated, gate' \in {gate, "idle", "flip", "count"},
         probes' \cap running' \subseteq probes \cap running
  PROVE  GateInv'
  <1>1. Cardinality(Gated') <= Cardinality(Gated) /\ Cardinality(Gated') \in Nat
          /\ Cardinality(Gated) \in Nat
    BY GatedIsFinite, FS_Subset, FS_CardinalityType
  <1>2. GateKeepsCap'
    BY <1>1, CapacityAssumption DEF GateInv, GateKeepsCap, Gated
  <1> QED BY <1>1, <1>2, CapacityAssumption DEF GateInv

\* canSpawn lets a run through when there is room for it.
LEMMA CanSpawnStep ==
  ASSUME CapacityTypeOK, CooldownRefuses, GateInv, CanSpawn
  PROVE  GateInv'
  <1>1. UNCHANGED <<running, gated, probes>>
    BY DEF CanSpawn, providerRuns
  <1>2. Gated' = Gated /\ GateKeepsCap'
    BY <1>1 DEF Gated, GateInv, GateKeepsCap
  <1>3. /\ Cardinality(Gated) <= Cardinality(running)
        /\ Cardinality(running) \in Nat /\ Cardinality(Gated) \in Nat
    BY GatedIsFinite, FS_Subset, FS_CardinalityType DEF Gated
  <1>4. CASE gate' = "flip"
    BY <1>2, <1>4 DEF GateInv
  <1>5. CASE gate' = "admit"
    <2>1. HasRoom(ProviderCap)
      BY <1>5 DEF CanSpawn, CooldownRefuses
    <2> QED BY <1>2, <1>3, <1>5, <2>1, CapacityAssumption DEF GateInv, HasRoom
  <1>6. CASE gate' = "probe"
    <2>1. HasRoom(1)
      BY <1>6 DEF CanSpawn
    <2>2. running = {}
      BY <1>3, <2>1, GatedIsFinite, FS_EmptySet DEF HasRoom
    <2> QED BY <1>2, <1>6, <2>2 DEF GateInv, Gated
  <1> QED BY <1>4, <1>5, <1>6 DEF CanSpawn

\* The run that is started is the one there was room for.
LEMMA StartGatedStep ==
  ASSUME CapacityTypeOK, GateInv, StartGated
  PROVE  GateInv'
  <1>1. CASE UNCHANGED <<running, gated, probes>>
    BY <1>1, GatedShrinks DEF StartGated, Gated
  <1>2. ASSUME NEW r \in FreshProviderRuns,
               running' = running \cup {r}, gated' = gated \cup {r},
               probes' = IF gate = "probe" THEN probes \cup {r} ELSE probes
        PROVE  GateInv'
    <2>1. r \notin running /\ r \notin gated /\ r \notin probes
      BY DEF FreshProviderRuns, CapacityTypeOK
    <2>2. Gated' = Gated \cup {r}
      BY <1>2, <2>1 DEF Gated
    <2>3. r \notin Gated
      BY <2>1 DEF Gated
    <2>4. Cardinality(Gated') = Cardinality(Gated) + 1 /\ Cardinality(Gated) \in Nat
      BY <2>2, <2>3, GatedIsFinite, FS_AddElement, FS_CardinalityType
    <2>5. Cardinality(Gated) < ProviderCap
      BY CapacityAssumption, FS_EmptySet, <2>4 DEF GateInv, StartGated
    <2>6. Cardinality(Gated') <= ProviderCap
      BY <2>4, <2>5, CapacityAssumption
    <2>7. \A p, q \in probes' \cap running' : p = q
      <3>1. CASE gate = "probe"
        <4>1. probes \cap running = {}
          BY <3>1 DEF GateInv, Gated, CapacityTypeOK
        <4> QED BY <1>2, <2>1, <3>1, <4>1
      <3>2. CASE gate # "probe"
        BY <1>2, <2>1, <3>2 DEF GateInv, GateKeepsCap
      <3> QED BY <3>1, <3>2
    <2> QED BY <2>6, <2>7 DEF GateInv, GateKeepsCap, Gated, StartGated
  <1> QED BY <1>1, <1>2 DEF StartGated

\* A probe is admitted after a flip as after none: when nothing is running.
LEMMA CountStep ==
  ASSUME CapacityTypeOK, GateInv, CountAfterFlip
  PROVE  GateInv'
  <1>1. UNCHANGED <<running, gated, probes>>
    BY DEF CountAfterFlip, providerRuns
  <1>2. CASE HasRoom(1)
    <2>1. running = {}
      BY <1>2, GatedIsFinite, FS_EmptySet, FS_CardinalityType DEF HasRoom
    <2> QED BY <1>1, <1>2, <2>1 DEF GateInv, Gated, GateKeepsCap, CountAfterFlip
  <1>3. CASE ~HasRoom(1)
    BY <1>1, <1>3, GatedShrinks DEF CountAfterFlip, Gated
  <1> QED BY <1>2, <1>3

\* GateKeepsCap: one probe at a time and no more gated runs than the cap, however
\* the circuit trips and recovers between the count and the run.
THEOREM CapIsKept == CapacitySpec => []GateKeepsCap
  <1>1. CapacityInit => GateInv
    BY CapacityAssumption, FS_EmptySet DEF CapacityInit, GateInv, GateKeepsCap, Gated
  <1>2. CapacityTypeOK /\ CooldownRefuses /\ GateInv /\ [CapacityNext]_capacityVars => GateInv'
    <2> SUFFICES ASSUME CapacityTypeOK, CooldownRefuses, GateInv, [CapacityNext]_capacityVars
                 PROVE  GateInv'
      OBVIOUS
    <2>1. CASE UNCHANGED capacityVars
      BY <2>1, GatedShrinks DEF capacityVars, providerRuns, Gated
    <2>2. CASE CanSpawn
      BY <2>2, CanSpawnStep
    <2>3. CASE FlipToHalfOpen
      BY <2>3, GatedShrinks DEF FlipToHalfOpen, providerRuns, Gated
    <2>4. CASE CountAfterFlip
      BY <2>4, CountStep
    <2>5. CASE StartGated
      BY <2>5, StartGatedStep
    <2>6. CASE StartUngated
      <3>1. PICK r \in FreshProviderRuns : running' = running \cup {r}
        BY <2>6 DEF StartUngated
      <3>2. r \notin gated /\ r \notin probes
        BY <3>1 DEF FreshProviderRuns, CapacityTypeOK
      <3> QED BY <2>6, <3>1, <3>2, GatedShrinks DEF StartUngated, Gated
    <2>7. ASSUME NEW r \in ProviderRuns, NEW k \in {"ok", "limit", "error", "none"}, RunEnds(r, k)
          PROVE  GateInv'
      BY <2>7, GatedShrinks DEF RunEnds, Gated
    <2>8. CASE ObserveLimit \/ ObserveOk \/ ObserveError \/ CooldownPasses
      BY <2>8, GatedShrinks
      DEF ObserveLimit, ObserveOk, ObserveError, CooldownPasses, providerRuns, Gated
    <2> QED BY <2>1, <2>2, <2>3, <2>4, <2>5, <2>6, <2>7, <2>8 DEF CapacityNext
  <1>3. GateInv => GateKeepsCap
    BY DEF GateInv
  <1> QED BY <1>1, <1>2, <1>3, CapacityTypeCorrect, CooldownsRefuse, PTL DEF CapacitySpec

----------------------------------------------------------------------------
(* The worktree lock: type correctness *)

\* Every system call keeps the shapes of the file and of the processes' steps.
THEOREM LockTypeCorrect == WorktreeLockSpec => []WorktreeLockTypeOK
  <1> DEFINE Shapes == /\ lockFile \in [by : Process \cup {Nobody}, pid : Process \cup {Nobody}]
                       /\ locker \in [Process -> {"idle", "create", "write", "read", "unlink",
                                                   "held", "dead"}]
                       /\ retried \subseteq Process
  <1>1. WorktreeLockInit => WorktreeLockTypeOK
    <2>1. WorktreeLockInit => Shapes
      BY DEF WorktreeLockInit, NoFile
    <2>2. WorktreeLockInit => lockRaced \in BOOLEAN
      BY Zenon DEF WorktreeLockInit
    <2> QED BY <2>1, <2>2 DEF WorktreeLockTypeOK
  <1>2. WorktreeLockTypeOK /\ [WorktreeLockNext]_worktreeLockVars => WorktreeLockTypeOK'
    <2> SUFFICES ASSUME WorktreeLockTypeOK, [WorktreeLockNext]_worktreeLockVars
                 PROVE  WorktreeLockTypeOK'
      OBVIOUS
    <2>1. Shapes'
      BY DEF WorktreeLockTypeOK, WorktreeLockNext, worktreeLockVars, LockStep, NoFile, Acquire,
             CreateFile, WritePid, ReadPid, Unlink, Release, Die, Alive
    <2>2. lockRaced' \in BOOLEAN
      BY Zenon
      DEF WorktreeLockTypeOK, WorktreeLockNext, worktreeLockVars, Acquire, CreateFile, WritePid,
          ReadPid, Unlink, Release, Die
    <2> QED BY <2>1, <2>2 DEF WorktreeLockTypeOK
  <1> QED BY <1>1, <1>2, PTL DEF WorktreeLockSpec

----------------------------------------------------------------------------
(* One holder *)

\* Until a takeover races, the file is the one of whoever writes or holds it, and
\* the one process about to remove it has read the PID of a dead process there.
LockInv ==
    /\ lockFile.pid \in {Nobody, lockFile.by}
    /\ \A p \in Process :
          /\ locker[p] \in {"write", "held"} => lockFile.by = p
          /\ locker[p] = "unlink" => lockFile.by \in Process /\ locker[lockFile.by] = "dead"
    /\ \A p, q \in Process : locker[p] = "unlink" /\ locker[q] = "unlink" => p = q

\* One step of one process keeps LockInv, or the takeover has raced.
LEMMA LockInvStep ==
  ASSUME WorktreeLockTypeOK, LockInv, NEW p \in Process, ~lockRaced',
         Acquire(p) \/ CreateFile(p) \/ WritePid(p) \/ ReadPid(p) \/ Unlink(p)
           \/ Release(p) \/ Die(p)
  PROVE  LockInv'
  <1> USE WorktreeLockAssumption DEF WorktreeLockTypeOK, LockInv, LockStep
  <1>1. CASE Acquire(p)
    BY <1>1 DEF Acquire
  <1>2. CASE CreateFile(p)
    <2>1. CASE lockFile = NoFile
      <3>1. \A q \in Process : locker[q] \notin {"write", "held", "unlink"}
        BY <2>1 DEF NoFile
      <3> QED BY <1>2, <2>1, <3>1 DEF CreateFile
    <2>2. CASE lockFile # NoFile
      BY <1>2, <2>2 DEF CreateFile
    <2> QED BY <2>1, <2>2
  <1>3. CASE WritePid(p)
    BY <1>3 DEF WritePid
  <1>4. CASE ReadPid(p)
    <2>1. CASE Alive(lockFile.pid) \/ p \in retried
      BY <1>4, <2>1 DEF ReadPid
    <2>2. CASE ~Alive(lockFile.pid) /\ p \notin retried
      <3>1. lockFile.pid \notin Foreign \cup {Nobody} /\ \A q \in Process \ {p} : locker[q] # "unlink"
        BY <1>4 DEF ReadPid
      <3>2. lockFile.by \in Process /\ locker[lockFile.by] = "dead"
        BY <2>2, <3>1 DEF Alive
      <3> QED BY <1>4, <2>2, <3>1, <3>2 DEF ReadPid
    <2> QED BY <2>1, <2>2
  <1>5. CASE Unlink(p)
    <2>1. \A q \in Process : locker[q] \notin {"write", "held"}
      BY <1>5 DEF Unlink
    <2>2. \A q \in Process : locker[q] = "unlink" => q = p
      BY <1>5 DEF Unlink
    <2> QED BY <1>5, <2>1, <2>2 DEF Unlink, NoFile
  <1>6. CASE Release(p)
    <2>1. \A q \in Process \ {p} : locker[q] \notin {"write", "held", "unlink"}
      BY <1>6 DEF Release
    <2> QED BY <1>6, <2>1 DEF Release, NoFile
  <1>7. CASE Die(p)
    BY <1>7 DEF Die
  <1> QED BY <1>1, <1>2, <1>3, <1>4, <1>5, <1>6, <1>7

\* lockRaced is a history variable: no step takes it back.
LEMMA RaceStays ==
  ASSUME WorktreeLockTypeOK, [WorktreeLockNext]_worktreeLockVars, lockRaced
  PROVE  lockRaced'
  BY DEF WorktreeLockTypeOK, WorktreeLockNext, worktreeLockVars, Acquire, CreateFile, WritePid, ReadPid,
         Unlink, Release, Die

\* OneHolder: two processes hold the lock of one worktree only after a race for a
\* stale file, or after one of them was not allowed to ask for the other.
THEOREM LockHasOneHolder == WorktreeLockSpec => []OneHolder
  <1>1. WorktreeLockInit => LockInv
    BY DEF WorktreeLockInit, LockInv, NoFile
  <1>2. WorktreeLockTypeOK /\ (LockInv \/ lockRaced) /\ [WorktreeLockNext]_worktreeLockVars
          => (LockInv \/ lockRaced)'
    <2> SUFFICES ASSUME WorktreeLockTypeOK, LockInv \/ lockRaced,
                        [WorktreeLockNext]_worktreeLockVars, ~lockRaced'
                 PROVE  LockInv'
      OBVIOUS
    <2>1. LockInv
      BY RaceStays
    <2>2. CASE UNCHANGED worktreeLockVars
      BY <2>1, <2>2 DEF worktreeLockVars, LockInv
    <2>3. CASE WorktreeLockNext
      BY <2>1, <2>3, LockInvStep DEF WorktreeLockNext
    <2> QED BY <2>2, <2>3
  <1>3. LockInv \/ lockRaced => OneHolder
    BY DEF LockInv, OneHolder, Holders
  <1> QED BY <1>1, <1>2, <1>3, LockTypeCorrect, PTL DEF WorktreeLockSpec

----------------------------------------------------------------------------
(* Triggers: the inductive invariant *)

Keys == {NoKey} \cup {d[2] : d \in Deliveries}
Sources == {"cron", "manual", "external"}

Fire == [trigger : Trigger, key : Keys, source : Sources, now : Nat,
         task : {"none", "created", "stamped"}, overlaps : BOOLEAN]

Link == [fire : Nat \ {0}, link : {"task", "routine", "event"}]
          \cup [fire : {0}, link : {"delete"}, trigger : Trigger]

Shapes ==
    /\ clock \in Nat \ {0} /\ exists \subseteq Trigger /\ lastFired \in [Trigger -> 0..clock]
    /\ fires \in Seq(Fire) /\ fired \in Seq(Nat) /\ Len(fired) = Len(fires)
    /\ chain \in Seq(Link)
    /\ cronTick \in [on : BOOLEAN, todo : SUBSET CronTrigger, fire : 0..Len(fires)]

\* Fires are accepted in the order of their times; an event comes after its task.
FireOK(f) ==
    /\ 1 <= fires[f].now /\ fires[f].now <= clock
    /\ fired[f] # 0 => fires[f].task = "stamped" /\ fires[f].now <= fired[f]
    /\ \A g \in FireIds : f < g => fires[f].now <= fires[g].now

\* A fire in the chain has no event yet and no later fire has stamped its trigger;
\* the tick waits for it if it is one of the scheduler's.
LinkOK(x) ==
    x.link # "delete" =>
        /\ x.fire \in FireIds /\ fired[x.fire] = 0
        /\ lastFired[fires[x.fire].trigger] <= fires[x.fire].now
        /\ x.link = "event" => fires[x.fire].task = "stamped"
        /\ fires[x.fire].source = "cron" => cronTick.fire = x.fire

Stage(link) == IF link = "task" THEN 1 ELSE IF link = "routine" THEN 2 ELSE 3

\* An earlier fire is ahead of a later one, in its links or in the chain.
Ahead(i, j) ==
    \/ Stage(chain[i].link) > Stage(chain[j].link)
    \/ Stage(chain[i].link) = Stage(chain[j].link) /\ i < j

InTurn ==
    \A i, j \in DOMAIN chain :
        (chain[i].link # "delete" /\ chain[j].link # "delete") =>
            /\ chain[i].fire = chain[j].fire => i = j
            /\ chain[i].fire < chain[j].fire => Ahead(i, j)

\* A fire with an event has been stamped, if its trigger is still there.
Served(f) ==
    (fired[f] # 0 /\ fires[f].trigger \in exists)
      => fires[f].now <= lastFired[fires[f].trigger]

MatchBetween(from, to) == \E m \in CronMinutes : from < m /\ m <= to

Idle == ~cronTick.on => cronTick.todo = {} /\ cronTick.fire = 0

\* What is on the tick's list has had a match since the scheduler last fired it.
Matched ==
    \A t \in cronTick.todo, f \in FireIds :
        (fires[f].trigger = t /\ fires[f].source = "cron" /\ ~Cut(f))
          => MatchBetween(fires[f].now, clock)

\* What the gates saw when a later fire passed them.
Deduped ==
    \A f, g \in FireIds :
        (f < g /\ ~fires[g].overlaps /\ ~Cut(f) /\ fires[f].trigger = fires[g].trigger
           /\ fires[f].key = fires[g].key /\ fires[f].key # NoKey)
          => fired[f] # 0 /\ fired[f] + DedupeWindow <= fires[g].now

\* The fires of a trigger that count against its rate at some minute.
Burst(t, c) == {f \in FireIds : fires[f].trigger = t /\ fires[f].now + RateWindow > c}

\* Now or at any later minute, a burst is within the rate.
WithinRate ==
    \A t \in Trigger, c \in Nat :
        (clock <= c /\ \A f \in Burst(t, c) : ~fires[f].overlaps /\ ~Cut(f))
          => Cardinality(Burst(t, c)) <= RateLimit

Base ==
    /\ Shapes /\ Idle /\ InTurn
    /\ \A f \in FireIds : FireOK(f) /\ Served(f)
    /\ \A i \in DOMAIN chain : LinkOK(chain[i])

TriggersInv == Base /\ Matched /\ Deduped /\ WithinRate /\ OncePerMatch

LEMMA InvInit == TriggersInit => TriggersInv
  <1> SUFFICES ASSUME TriggersInit PROVE TriggersInv
    OBVIOUS
  <1>1. FireIds = {} /\ DOMAIN chain = {}
    BY DEF TriggersInit, FireIds
  <1>2. Shapes
    <2>1. [t \in Trigger |-> 0] \in [Trigger -> 0..1]
      OBVIOUS
    <2>2. Len(<<>>) = 0
      OBVIOUS
    <2> QED BY <2>1, <2>2 DEF TriggersInit, Shapes, NoTick
  <1>3. Base
    <2>1. Idle
      BY DEF TriggersInit, NoTick, Idle
    <2> QED BY <1>1, <1>2, <2>1, Zenon DEF Base, InTurn
  <1>4. Matched
    BY <1>1 DEF Matched
  <1>5. Deduped /\ OncePerMatch
    BY <1>1, Zenon DEF Deduped, OncePerMatch
  <1>6. WithinRate
    <2> SUFFICES ASSUME NEW t \in Trigger, NEW c \in Nat PROVE Cardinality(Burst(t, c)) <= RateLimit
      BY DEF WithinRate
    <2>1. Burst(t, c) = {}
      BY <1>1 DEF Burst
    <2> QED BY <2>1, FS_EmptySet, TriggersAssumption
  <1> QED BY <1>3, <1>4, <1>5, <1>6 DEF TriggersInv

----------------------------------------------------------------------------
(* The chain and the fires, step by step *)

\* What is appended to a sequence, and where.
LEMMA PushFacts ==
  ASSUME NEW S, NEW s \in Seq(S), NEW x \in S
  PROVE  /\ Append(s, x) \in Seq(S) /\ Len(Append(s, x)) = Len(s) + 1 /\ Len(s) \in Nat
         /\ DOMAIN s = 1..Len(s) /\ DOMAIN Append(s, x) = 1..(Len(s) + 1)
         /\ \A i \in 1..Len(s) : Append(s, x)[i] = s[i]
         /\ Append(s, x)[Len(s) + 1] = x
  <1>1. Append(s, x) \in Seq(S) /\ Len(Append(s, x)) = Len(s) + 1
    BY AppendProperties
  <1>2. DOMAIN Append(s, x) = 1..(Len(s) + 1)
    BY <1>1, LenProperties
  <1> QED BY <1>1, <1>2, AppendProperties, LenProperties

\* The head goes, and the others move up.
LEMMA PopFacts ==
  ASSUME NEW S, NEW s \in Seq(S), s # <<>>
  PROVE  /\ Tail(s) \in Seq(S) /\ Len(s) \in Nat \ {0} /\ Len(Tail(s)) = Len(s) - 1
         /\ DOMAIN s = 1..Len(s) /\ DOMAIN Tail(s) = 1..(Len(s) - 1)
         /\ \A i \in 1..(Len(s) - 1) : Tail(s)[i] = s[i + 1]
         /\ Head(s) \in S /\ Head(s) = s[1]
  <1>1. Tail(s) \in Seq(S) /\ Len(Tail(s)) = Len(s) - 1
    BY HeadTailProperties
  <1>2. Len(s) \in Nat \ {0}
    BY EmptySeq, LenProperties
  <1>3. DOMAIN Tail(s) = 1..(Len(s) - 1) /\ DOMAIN s = 1..Len(s)
    BY <1>1, LenProperties
  <1>4. \A i \in 1..(Len(s) - 1) : Tail(s)[i] = s[i + 1]
    BY <1>1, HeadTailProperties
  <1>5. Head(s) = s[1]
    OBVIOUS
  <1> QED BY <1>1, <1>2, <1>3, <1>4, <1>5, HeadTailProperties

\* The head goes, the others move up, and its next link is the last.
LEMMA RotateFacts ==
  ASSUME NEW S, NEW s \in Seq(S), s # <<>>, NEW x \in S
  PROVE  /\ Append(Tail(s), x) \in Seq(S) /\ Len(s) \in Nat \ {0}
         /\ DOMAIN s = 1..Len(s) /\ DOMAIN Append(Tail(s), x) = 1..Len(s)
         /\ \A i \in 1..(Len(s) - 1) : Append(Tail(s), x)[i] = s[i + 1]
         /\ Append(Tail(s), x)[Len(s)] = x
         /\ Head(s) \in S /\ Head(s) = s[1]
  <1> DEFINE r == Tail(s)
  <1>1. /\ r \in Seq(S) /\ Len(s) \in Nat \ {0} /\ Len(r) = Len(s) - 1 /\ DOMAIN s = 1..Len(s)
        /\ \A i \in 1..(Len(s) - 1) : r[i] = s[i + 1]
        /\ Head(s) \in S /\ Head(s) = s[1]
    BY PopFacts
  <1> HIDE DEF r
  <1>2. /\ Append(r, x) \in Seq(S) /\ DOMAIN Append(r, x) = 1..(Len(r) + 1)
        /\ \A i \in 1..Len(r) : Append(r, x)[i] = r[i]
        /\ Append(r, x)[Len(r) + 1] = x
    BY <1>1, PushFacts
  <1>3. Len(r) + 1 = Len(s) /\ 1..Len(r) = 1..(Len(s) - 1)
    BY <1>1
  <1>4. \A i \in 1..(Len(s) - 1) : Append(r, x)[i] = s[i + 1]
    BY <1>1, <1>2, <1>3
  <1> QED BY <1>1, <1>2, <1>3, <1>4 DEF r

LEMMA Types ==
  ASSUME Shapes
  PROVE  /\ FireIds = 1..Len(fires) /\ Len(fires) \in Nat /\ DOMAIN fired = FireIds
         /\ \A f \in FireIds : fires[f] \in Fire /\ fired[f] \in Nat
         /\ DOMAIN chain = 1..Len(chain) /\ Len(chain) \in Nat
         /\ \A i \in DOMAIN chain : chain[i] \in Link
         /\ clock \in Nat \ {0} /\ \A t \in Trigger : lastFired[t] \in 0..clock
  <1>1. fires \in Seq(Fire) /\ fired \in Seq(Nat) /\ Len(fired) = Len(fires) /\ chain \in Seq(Link)
    BY DEF Shapes
  <1>2. /\ DOMAIN fires = 1..Len(fires) /\ Len(fires) \in Nat /\ DOMAIN fired = 1..Len(fires)
        /\ DOMAIN chain = 1..Len(chain) /\ Len(chain) \in Nat
    BY <1>1, LenProperties
  <1>3. \A f \in 1..Len(fires) : fires[f] \in Fire /\ fired[f] \in Nat
    BY <1>1, ElementOfSeq
  <1>4. \A i \in 1..Len(chain) : chain[i] \in Link
    BY <1>1, ElementOfSeq
  <1>5. clock \in Nat \ {0} /\ \A t \in Trigger : lastFired[t] \in 0..clock
    BY TriggersAssumption DEF Shapes
  <1> QED BY <1>2, <1>3, <1>4, <1>5 DEF FireIds

Chained(f) == \E i \in DOMAIN chain : chain[i].fire = f

\* What accepting a fire leaves: it is n, the last of the fires and of the chain.
Accepted(n, t, k, source) ==
    /\ n \in Nat \ {0} /\ FireIds' = FireIds \cup {n} /\ \A f \in FireIds : f \in Nat /\ f < n
    /\ fires' \in Seq(Fire) /\ fired' \in Seq(Nat) /\ Len(fires') = n /\ Len(fired') = n
    /\ \A f \in FireIds : fires'[f] = fires[f] /\ fired'[f] = fired[f]
    /\ fires'[n].trigger = t /\ fires'[n].key = k /\ fires'[n].source = source
    /\ fires'[n].now = clock /\ fired'[n] = 0
    /\ fires'[n].overlaps <=> \E f \in FireIds : fires[f].trigger = t /\ Chained(f)
    /\ chain' \in Seq(Link) /\ DOMAIN chain' = 1..(Len(chain) + 1)
    /\ \A i \in DOMAIN chain : chain'[i] = chain[i]
    /\ chain'[Len(chain) + 1] = [fire |-> n, link |-> "task"]

\* A fire that is accepted is the last of the fires and of the chain.
LEMMA AcceptFacts ==
  ASSUME Base, NEW t \in Trigger, NEW k \in Keys, NEW source \in Sources, Accept(t, k, source),
         NEW n, n = Len(fires) + 1
  PROVE  Accepted(n, t, k, source)
  <1> DEFINE over == \E f \in FireIds : fires[f].trigger = t /\ \E i \in DOMAIN chain : chain[i].fire = f
             fire == [trigger |-> t, key |-> k, source |-> source, now |-> clock,
                      task |-> "none", overlaps |-> over]
             first == [fire |-> n, link |-> "task"]
  <1>1. /\ fires \in Seq(Fire) /\ fired \in Seq(Nat) /\ chain \in Seq(Link) /\ Len(fired) = Len(fires)
        /\ FireIds = 1..Len(fires) /\ Len(fires) \in Nat /\ clock \in Nat
    BY Types DEF Base, Shapes
  <1>2. /\ fires' = Append(fires, fire) /\ fired' = Append(fired, 0) /\ chain' = Append(chain, first)
    BY DEF Accept
  <1>3. over \in BOOLEAN
    BY Zenon
  <1>4. over <=> \E f \in FireIds : fires[f].trigger = t /\ Chained(f)
    BY Zenon DEF Chained
  <1> HIDE DEF over
  <1>5. /\ fire \in Fire /\ fire.trigger = t /\ fire.key = k /\ fire.source = source
        /\ fire.now = clock /\ fire.overlaps = over
    BY <1>1, <1>3 DEF Fire
  <1>6. first \in Link
    BY <1>1 DEF Link
  <1> HIDE DEF fire, first
  <1>7. /\ fires' \in Seq(Fire) /\ Len(fires') = n /\ DOMAIN fires' = 1..n
        /\ \A f \in 1..Len(fires) : fires'[f] = fires[f]
        /\ fires'[n] = fire
    BY <1>1, <1>2, <1>5, PushFacts
  <1>8. /\ fired' \in Seq(Nat) /\ Len(fired') = n
        /\ \A f \in 1..Len(fires) : fired'[f] = fired[f]
        /\ fired'[n] = 0
    BY <1>1, <1>2, PushFacts
  <1>9. /\ chain' \in Seq(Link) /\ DOMAIN chain' = 1..(Len(chain) + 1)
        /\ \A i \in DOMAIN chain : chain'[i] = chain[i]
        /\ chain'[Len(chain) + 1] = first
    BY <1>1, <1>2, <1>6, PushFacts
  <1>10. /\ n \in Nat \ {0} /\ FireIds' = FireIds \cup {n} /\ \A f \in FireIds : f \in Nat /\ f < n
    BY <1>1, <1>7 DEF FireIds
  <1> QED BY <1>1, <1>4, <1>5, <1>7, <1>8, <1>9, <1>10 DEF Accepted, first

\* A link done hands the head's fire on to its next one, behind the others.
LEMMA AdvanceFacts ==
  ASSUME Base, TaskLink \/ RoutineLink, NEW h, h = chain[1].fire
  PROVE  /\ h \in FireIds /\ FireIds' = FireIds /\ Len(fires') = Len(fires)
         /\ fires' \in Seq(Fire) /\ fired' = fired /\ fired[h] = 0
         /\ \A f \in FireIds \ {h} : fires'[f] = fires[f]
         /\ fires'[h].trigger = fires[h].trigger /\ fires'[h].key = fires[h].key
         /\ fires'[h].source = fires[h].source /\ fires'[h].now = fires[h].now
         /\ fires'[h].overlaps = fires[h].overlaps
         /\ chain' \in Seq(Link) /\ Len(chain) \in Nat \ {0}
         /\ DOMAIN chain = 1..Len(chain) /\ DOMAIN chain' = 1..Len(chain)
         /\ \A i \in 1..(Len(chain) - 1) : chain'[i] = chain[i + 1]
         /\ chain'[Len(chain)].fire = h
         /\ \/ chain[1].link = "task" /\ chain'[Len(chain)].link = "routine"
            \/ /\ chain[1].link = "routine" /\ chain'[Len(chain)].link = "event"
               /\ fires'[h].task = "stamped"
  <1>1. /\ fires \in Seq(Fire) /\ chain \in Seq(Link) /\ chain # <<>> /\ Head(chain) = chain[1]
        /\ chain[1].link \in {"task", "routine"} /\ 1 \in DOMAIN chain
    <2>1. chain \in Seq(Link) /\ chain # <<>> /\ fires \in Seq(Fire)
      BY DEF TaskLink, RoutineLink, Base, Shapes
    <2>2. Head(chain) = chain[1] /\ 1 \in DOMAIN chain
      BY <2>1, PopFacts
    <2> QED BY <2>1, <2>2 DEF TaskLink, RoutineLink
  <1>2. h \in FireIds /\ fired[h] = 0 /\ fires[h] \in Fire /\ h \in Nat \ {0}
    BY <1>1, Types DEF Base, LinkOK
  <1>3. PICK task \in {"created", "stamped"}, link \in {"routine", "event"} :
          /\ fires' = [fires EXCEPT ![h] = [fires[h] EXCEPT !.task = task]]
          /\ chain' = Append(Tail(chain), [fire |-> h, link |-> link])
          /\ \/ chain[1].link = "task" /\ link = "routine"
             \/ chain[1].link = "routine" /\ link = "event" /\ task = "stamped"
    <2>1. CASE TaskLink
      BY <1>1, <2>1 DEF TaskLink
    <2>2. CASE RoutineLink
      BY <1>1, <2>2 DEF RoutineLink
    <2> QED BY <2>1, <2>2
  <1> DEFINE fire == [fires[h] EXCEPT !.task = task]
             next == [fire |-> h, link |-> link]
  <1>4. /\ fire \in Fire /\ fire.trigger = fires[h].trigger /\ fire.key = fires[h].key
        /\ fire.source = fires[h].source /\ fire.now = fires[h].now
        /\ fire.overlaps = fires[h].overlaps /\ fire.task = task
    BY <1>2 DEF Fire
  <1>5. next \in Link /\ next.fire = h /\ next.link = link
    BY <1>2 DEF Link
  <1>6. fires' = [fires EXCEPT ![h] = fire] /\ chain' = Append(Tail(chain), next)
    BY <1>3
  <1> HIDE DEF fire, next
  <1>7. /\ fires' \in Seq(Fire) /\ Len(fires') = Len(fires) /\ DOMAIN fires' = DOMAIN fires
        /\ fires'[h] = fire /\ \A f \in FireIds \ {h} : fires'[f] = fires[f]
    <2>1. h \in 1..Len(fires)
      BY <1>2, Types DEF Base
    <2>2. fires' \in Seq(Fire) /\ Len(fires') = Len(fires)
      BY <1>1, <1>4, <1>6, <2>1, ExceptSeq
    <2> QED BY <1>1, <1>2, <1>6, <2>2, LenProperties DEF FireIds
  <1>8. /\ chain' \in Seq(Link) /\ Len(chain) \in Nat \ {0}
        /\ DOMAIN chain = 1..Len(chain) /\ DOMAIN chain' = 1..Len(chain)
        /\ \A i \in 1..(Len(chain) - 1) : chain'[i] = chain[i + 1]
        /\ chain'[Len(chain)] = next
    BY <1>1, <1>5, <1>6, RotateFacts
  <1>9. fired' = fired
    BY DEF TaskLink, RoutineLink
  <1>10. FireIds' = FireIds
    BY <1>7 DEF FireIds
  <1> QED BY <1>2, <1>3, <1>4, <1>5, <1>7, <1>8, <1>9, <1>10

\* The stamp of a fire: of its trigger only, if it is still there.
LEMMA StampFacts ==
  ASSUME Base, NEW f \in FireIds
  PROVE  /\ Stamp(f) \in [Trigger -> 0..clock]
         /\ \A t \in Trigger : Stamp(f)[t] = IF t = fires[f].trigger /\ t \in exists
                                               THEN fires[f].now ELSE lastFired[t]
  <1>1. /\ fires[f].trigger \in Trigger /\ fires[f].now \in 0..clock
        /\ lastFired \in [Trigger -> 0..clock]
    BY SMTT(30), Types DEF Base, Shapes, FireOK, Fire
  <1> QED BY <1>1 DEF Stamp

\* The head leaves the chain: a deletion, or a fire with its event or cut off.
LEMMA LeaveFacts ==
  ASSUME Base, EventLink \/ LinkFails \/ DeleteLink, NEW x, x = chain[1]
  PROVE  /\ x \in Link /\ UNCHANGED <<clock, fires>> /\ exists' \subseteq exists
         /\ chain' \in Seq(Link) /\ Len(chain) \in Nat \ {0}
         /\ DOMAIN chain = 1..Len(chain) /\ DOMAIN chain' = 1..(Len(chain) - 1)
         /\ \A i \in 1..(Len(chain) - 1) : chain'[i] = chain[i + 1]
         /\ fired' \in Seq(Nat) /\ Len(fired') = Len(fires)
         /\ \/ x.link = "delete" /\ UNCHANGED <<fired, lastFired, cronTick>>
            \/ /\ x.link # "delete" /\ x.fire \in FireIds /\ fired[x.fire] = 0 /\ exists' = exists
               /\ \A g \in FireIds \ {x.fire} : fired'[g] = fired[g]
               /\ \/ fired' = fired
                  \/ fired'[x.fire] = clock /\ x.link = "event" /\ lastFired' = Stamp(x.fire)
               /\ lastFired' = lastFired \/ (lastFired' = Stamp(x.fire) /\ x.link = "event")
               /\ \/ /\ cronTick' \in {NoTick, [cronTick EXCEPT !.fire = 0]}
                     /\ cronTick.fire = x.fire
                  \/ cronTick' = cronTick /\ cronTick.fire # x.fire
  <1>1. chain \in Seq(Link) /\ chain # <<>> /\ fired \in Seq(Nat) /\ Len(fired) = Len(fires)
    BY DEF EventLink, LinkFails, DeleteLink, Base, Shapes
  <1>2. chain' = Tail(chain) /\ UNCHANGED <<clock, fires>> /\ exists' \subseteq exists
    BY DEF EventLink, LinkFails, DeleteLink
  <1>3. /\ chain' \in Seq(Link) /\ Len(chain) \in Nat \ {0}
        /\ DOMAIN chain = 1..Len(chain) /\ DOMAIN chain' = 1..(Len(chain) - 1)
        /\ \A i \in 1..(Len(chain) - 1) : chain'[i] = chain[i + 1]
        /\ Head(chain) = x /\ x \in Link
    BY <1>1, <1>2, PopFacts
  <1>4. 1 \in DOMAIN chain
    BY <1>3
  <1>5. x.link # "delete" => x.fire \in FireIds /\ fired[x.fire] = 0
    BY <1>4 DEF Base, LinkOK
  <1>6. CASE EventLink
    <2>1. x.link = "event" /\ x.fire \in 1..Len(fired) /\ clock \in Nat
      BY <1>1, <1>3, <1>5, <1>6, Types DEF EventLink, Base
    <2>2. fired' = [fired EXCEPT ![x.fire] = clock]
      BY <1>3, <1>6 DEF EventLink
    <2>3. fired' \in Seq(Nat) /\ Len(fired') = Len(fired)
      BY <1>1, <2>1, <2>2, ExceptSeq
    <2>4. DOMAIN fired = FireIds
      BY Types DEF Base
    <2>5. fired'[x.fire] = clock /\ \A g \in FireIds \ {x.fire} : fired'[g] = fired[g]
      BY <1>5, <2>1, <2>2, <2>4
    <2>6. lastFired' = Stamp(x.fire) /\ exists' = exists
      BY <1>3, <1>6 DEF EventLink
    <2>7. cronTick' = IF cronTick.fire = x.fire THEN [cronTick EXCEPT !.fire = 0] ELSE cronTick
      BY <1>3, <1>6 DEF EventLink, AfterFire
    <2> QED BY <1>1, <1>2, <1>3, <1>5, <2>1, <2>3, <2>5, <2>6, <2>7
  <1>7. CASE LinkFails
    <2>1. /\ x.link \in {"task", "routine", "event"} /\ fired' = fired /\ exists' = exists
          /\ lastFired' = lastFired \/ (lastFired' = Stamp(x.fire) /\ x.link = "event")
      BY <1>3, <1>7 DEF LinkFails
    <2>2. \/ cronTick' = NoTick /\ cronTick.fire = x.fire
          \/ cronTick' = IF cronTick.fire = x.fire THEN [cronTick EXCEPT !.fire = 0] ELSE cronTick
      BY <1>3, <1>7 DEF LinkFails, AfterFire
    <2> QED BY <1>1, <1>2, <1>3, <1>5, <2>1, <2>2
  <1>8. CASE DeleteLink
    <2>1. x.link = "delete" /\ UNCHANGED <<fired, lastFired, cronTick>>
      BY <1>3, <1>8 DEF DeleteLink
    <2> QED BY <1>1, <1>2, <1>3, <2>1
  <1> QED BY <1>6, <1>7, <1>8

\* The steps that leave the fires and the chain alone.
Elsewhere ==
    \/ StartTick \/ EndTick \/ MinutePasses
    \/ \E t \in CronTrigger : FireNext(t) /\ UNCHANGED <<fires, fired, chain>>

\* The steps of Next, by what they do to the chain.
LEMMA StepKinds ==
  ASSUME TriggersNext
  PROVE  \/ \E t \in Trigger, k \in Keys, source \in Sources :
               /\ Passes(t, k, source) /\ Accept(t, k, source)
               /\ UNCHANGED <<clock, exists, lastFired>>
               /\ \/ source # "cron" /\ cronTick' = cronTick
                  \/ /\ source = "cron" /\ t \in cronTick.todo /\ cronTick.fire = 0
                     /\ cronTick' = [cronTick EXCEPT !.todo = @ \ {t}, !.fire = Len(fires) + 1]
         \/ TaskLink \/ RoutineLink
         \/ EventLink \/ LinkFails \/ DeleteLink
         \/ \E t \in Trigger : RequestDelete(t)
         \/ TriggersRestart
         \/ Elsewhere
  <1>1. ASSUME NEW d \in Deliveries, Deliver(d[1], d[2], d[3])
        PROVE  \E t \in Trigger, k \in Keys, source \in Sources :
                 /\ Passes(t, k, source) /\ Accept(t, k, source)
                 /\ UNCHANGED <<clock, exists, lastFired>>
                 /\ source # "cron" /\ cronTick' = cronTick
    <2>1. d[1] \in Trigger /\ d[2] \in Keys /\ d[3] \in Sources /\ d[3] # "cron"
      BY TriggersAssumption DEF Keys, Sources
    <2> QED BY <1>1, <2>1 DEF Deliver
  <1>2. ASSUME NEW t \in CronTrigger, FireNext(t)
        PROVE  \/ /\ Passes(t, NoKey, "cron") /\ Accept(t, NoKey, "cron")
                  /\ UNCHANGED <<clock, exists, lastFired>>
                  /\ t \in cronTick.todo /\ cronTick.fire = 0
                  /\ cronTick' = [cronTick EXCEPT !.todo = @ \ {t}, !.fire = Len(fires) + 1]
               \/ UNCHANGED <<fires, fired, chain>>
    BY <1>2, Zenon DEF FireNext
  <1>3. NoKey \in Keys /\ "cron" \in Sources /\ CronTrigger \subseteq Trigger
    BY TriggersAssumption DEF Keys, Sources
  <1> QED BY <1>1, <1>2, <1>3, Zenon DEF TriggersNext, Elsewhere

\* A fire is what it was accepted as; it never comes back to the chain, and gets
\* its event while it is there.
Follows(f) ==
    /\ f \in FireIds'
    /\ fires'[f].trigger = fires[f].trigger /\ fires'[f].key = fires[f].key
    /\ fires'[f].source = fires[f].source /\ fires'[f].now = fires[f].now
    /\ fires'[f].overlaps = fires[f].overlaps
    /\ Chained(f)' => Chained(f)
    /\ fired'[f] = fired[f] \/ (fired[f] = 0 /\ Chained(f))

Moves ==
    /\ Shapes' /\ clock <= clock' /\ exists' \subseteq exists
    /\ \A f \in FireIds : Follows(f)

LEMMA AcceptMoves ==
  ASSUME Base, NEW t \in Trigger, NEW k \in Keys, NEW source \in Sources,
         Accept(t, k, source), UNCHANGED <<clock, exists, lastFired>>,
         \/ cronTick' = cronTick
         \/ cronTick' = [cronTick EXCEPT !.todo = @ \ {t}, !.fire = Len(fires) + 1]
  PROVE  Moves
  <1> DEFINE n == Len(fires) + 1
  <1>1. /\ n \in Nat \ {0} /\ FireIds' = FireIds \cup {n} /\ \A f \in FireIds : f \in Nat /\ f < n
        /\ fires' \in Seq(Fire) /\ fired' \in Seq(Nat) /\ Len(fires') = n /\ Len(fired') = n
        /\ \A f \in FireIds : fires'[f] = fires[f] /\ fired'[f] = fired[f]
        /\ chain' \in Seq(Link) /\ DOMAIN chain' = 1..(Len(chain) + 1)
        /\ \A i \in DOMAIN chain : chain'[i] = chain[i]
        /\ chain'[Len(chain) + 1] = [fire |-> n, link |-> "task"]
    BY AcceptFacts DEF Accepted
  <1>2. Len(fires) \in Nat /\ clock \in Nat /\ DOMAIN chain = 1..Len(chain) /\ Len(chain) \in Nat
    BY Types DEF Base
  <1> HIDE DEF n
  <1>3. cronTick' \in [on : BOOLEAN, todo : SUBSET CronTrigger, fire : 0..n]
    <2>1. cronTick \in [on : BOOLEAN, todo : SUBSET CronTrigger, fire : 0..n]
      BY <1>2 DEF n, Base, Shapes
    <2>2. n \in 0..n
      BY <1>1
    <2> QED BY <2>1, <2>2 DEF n
  <1>4. Shapes'
    BY <1>1, <1>3 DEF Base, Shapes
  <1>5. ASSUME NEW f \in FireIds, Chained(f)' PROVE Chained(f)
    <2>1. PICK i \in 1..(Len(chain) + 1) : chain'[i].fire = f
      BY <1>1, <1>5 DEF Chained
    <2>2. chain'[Len(chain) + 1].fire # f
      BY <1>1
    <2> QED BY <1>1, <1>2, <2>1, <2>2 DEF Chained
  <1> QED BY <1>1, <1>2, <1>4, <1>5 DEF Moves, Follows

\* Where a chain lost its head, or moved it to the end, nothing new waits.
LEMMA NoneNew ==
  ASSUME Base, NEW h, h = chain[1].fire, Len(chain) \in Nat \ {0}, DOMAIN chain = 1..Len(chain),
         \A i \in 1..(Len(chain) - 1) : chain'[i] = chain[i + 1],
         \/ DOMAIN chain' = 1..(Len(chain) - 1)
         \/ DOMAIN chain' = 1..Len(chain) /\ chain'[Len(chain)].fire = h
  PROVE  \A f : (Chained(f)' => Chained(f)) /\ Chained(h)
  <1>1. Chained(h)
    BY DEF Chained
  <1>2. ASSUME NEW f, Chained(f)' PROVE Chained(f)
    <2>1. PICK i \in DOMAIN chain' : chain'[i].fire = f
      BY <1>2 DEF Chained
    <2>2. CASE i \in 1..(Len(chain) - 1)
      <3>1. i + 1 \in DOMAIN chain /\ chain[i + 1].fire = f
        BY <2>1, <2>2
      <3> QED BY <3>1 DEF Chained
    <2>3. CASE i = Len(chain) /\ chain'[i].fire = h
      BY <1>1, <2>1, <2>3
    <2> QED BY <2>1, <2>2, <2>3
  <1> QED BY <1>1, <1>2

LEMMA AdvanceMoves == ASSUME Base, TaskLink \/ RoutineLink PROVE Moves
  <1>1. PICK h : h = chain[1].fire
    OBVIOUS
  <1>2. /\ h \in FireIds /\ FireIds' = FireIds /\ Len(fires') = Len(fires)
        /\ fires' \in Seq(Fire) /\ fired' = fired /\ fired[h] = 0
        /\ \A f \in FireIds \ {h} : fires'[f] = fires[f]
        /\ fires'[h].trigger = fires[h].trigger /\ fires'[h].key = fires[h].key
        /\ fires'[h].source = fires[h].source /\ fires'[h].now = fires[h].now
        /\ fires'[h].overlaps = fires[h].overlaps
        /\ chain' \in Seq(Link) /\ Len(chain) \in Nat \ {0}
        /\ DOMAIN chain = 1..Len(chain) /\ DOMAIN chain' = 1..Len(chain)
        /\ \A i \in 1..(Len(chain) - 1) : chain'[i] = chain[i + 1]
        /\ chain'[Len(chain)].fire = h
    BY <1>1, AdvanceFacts
  <1>3. UNCHANGED <<clock, exists, lastFired, cronTick>> /\ clock \in Nat
    BY Types DEF TaskLink, RoutineLink, Base
  <1>4. Shapes'
    BY <1>2, <1>3 DEF Base, Shapes
  <1>5. \A f \in FireIds : Chained(f)' => Chained(f)
    BY <1>1, <1>2, NoneNew
  <1> QED BY <1>2, <1>3, <1>4, <1>5 DEF Moves, Follows

LEMMA LeaveMoves == ASSUME Base, EventLink \/ LinkFails \/ DeleteLink PROVE Moves
  <1>1. PICK x : x = chain[1]
    OBVIOUS
  <1>2. /\ x \in Link /\ UNCHANGED <<clock, fires>> /\ exists' \subseteq exists
        /\ chain' \in Seq(Link) /\ Len(chain) \in Nat \ {0}
        /\ DOMAIN chain = 1..Len(chain) /\ DOMAIN chain' = 1..(Len(chain) - 1)
        /\ \A i \in 1..(Len(chain) - 1) : chain'[i] = chain[i + 1]
        /\ fired' \in Seq(Nat) /\ Len(fired') = Len(fires)
    BY <1>1, LeaveFacts
  <1>3. \/ UNCHANGED <<fired, lastFired, cronTick>>
        \/ /\ x.fire \in FireIds /\ fired[x.fire] = 0
           /\ \A g \in FireIds \ {x.fire} : fired'[g] = fired[g]
           /\ lastFired' \in {lastFired, Stamp(x.fire)}
           /\ \/ cronTick' = NoTick
              \/ cronTick' = [cronTick EXCEPT !.fire = 0]
              \/ cronTick' = cronTick
    BY <1>1, LeaveFacts
  <1>4. /\ lastFired \in [Trigger -> 0..clock] /\ clock \in Nat
        /\ cronTick \in [on : BOOLEAN, todo : SUBSET CronTrigger, fire : 0..Len(fires)]
        /\ Len(fires) \in Nat
    BY Types DEF Base, Shapes
  <1>5. /\ lastFired' \in [Trigger -> 0..clock]
        /\ cronTick' \in [on : BOOLEAN, todo : SUBSET CronTrigger, fire : 0..Len(fires)]
    <2>1. lastFired' \in [Trigger -> 0..clock]
      BY <1>3, <1>4, StampFacts
    <2>2. NoTick \in [on : BOOLEAN, todo : SUBSET CronTrigger, fire : 0..Len(fires)]
      BY <1>4 DEF NoTick
    <2>3. cronTick' \in [on : BOOLEAN, todo : SUBSET CronTrigger, fire : 0..Len(fires)]
      BY <1>3, <1>4, <2>2
    <2> QED BY <2>1, <2>3
  <1>6. Shapes'
    BY <1>2, <1>5 DEF Base, Shapes
  <1>7. /\ \A f \in FireIds : Chained(f)' => Chained(f)
        /\ Chained(x.fire)
    BY <1>1, <1>2, NoneNew
  <1>8. FireIds' = FireIds
    BY <1>2 DEF FireIds
  <1>9. \A f \in FireIds : fired'[f] = fired[f] \/ (fired[f] = 0 /\ Chained(f))
    BY <1>3, <1>7
  <1> QED BY <1>2, <1>4, <1>6, <1>7, <1>8, <1>9 DEF Moves, Follows

\* A trigger the gates refuse leaves the tick's list, and that is all.
LEMMA PassedOver ==
  ASSUME Base, NEW t \in CronTrigger, FireNext(t), UNCHANGED <<fires, fired, chain>>
  PROVE  cronTick' = [cronTick EXCEPT !.todo = @ \ {t}]
  <1>1. fires \in Seq(Fire) /\ Len(fires) \in Nat
    BY Types DEF Base, Shapes
  <1>2. NoKey \in Keys /\ "cron" \in Sources /\ t \in Trigger
    BY TriggersAssumption DEF Keys, Sources
  <1>3. ASSUME Accept(t, NoKey, "cron") PROVE FALSE
    <2>1. \A n : n = Len(fires) + 1 => Len(fires') = n
      BY <1>2, <1>3, AcceptFacts DEF Accepted
    <2> QED BY <1>1, <2>1
  <1> QED BY <1>3 DEF FireNext

\* The rest: a deletion joins the chain, a restart empties it, or it stays.
LEMMA OtherMoves ==
  ASSUME Base,
         \/ \E t \in Trigger : RequestDelete(t)
         \/ TriggersRestart \/ Elsewhere \/ UNCHANGED triggersVars
  PROVE  /\ Moves /\ UNCHANGED <<fires, fired>> /\ FireIds' = FireIds
         /\ UNCHANGED <<exists, lastFired>>
         /\ \/ chain' = chain /\ cronTick'.fire = cronTick.fire
            \/ DOMAIN chain' = {} /\ cronTick' = NoTick
            \/ /\ DOMAIN chain' = 1..(Len(chain) + 1) /\ \A i \in DOMAIN chain : chain'[i] = chain[i]
               /\ chain'[Len(chain) + 1].link = "delete" /\ chain'[Len(chain) + 1].fire = 0
               /\ cronTick' = cronTick
  <1>1. UNCHANGED <<fires, fired, exists, lastFired>> /\ FireIds' = FireIds
    BY DEF RequestDelete, TriggersRestart, Elsewhere, StartTick, EndTick, MinutePasses, FireNext,
           triggersVars, FireIds
  <1>2. clock \in Nat \ {0} /\ clock' \in {clock, clock + 1} /\ Len(chain) \in Nat
        /\ DOMAIN chain = 1..Len(chain) /\ Len(fires) \in Nat /\ FireIds = 1..Len(fires)
    BY Types
    DEF Base, RequestDelete, TriggersRestart, Elsewhere, StartTick, EndTick, MinutePasses, FireNext,
        triggersVars
  <1>3. cronTick' \in [on : BOOLEAN, todo : SUBSET CronTrigger, fire : 0..Len(fires)]
    <2>1. cronTick \in [on : BOOLEAN, todo : SUBSET CronTrigger, fire : 0..Len(fires)]
      BY DEF Base, Shapes
    <2>2. CASE StartTick
      <3> DEFINE dueNow == {t \in exists \cap CronTrigger : Due(t)}
      <3>1. dueNow \in SUBSET CronTrigger /\ 0 \in 0..Len(fires)
        BY <1>2
      <3>2. cronTick' = [on |-> TRUE, todo |-> dueNow, fire |-> 0]
        BY <2>2 DEF StartTick
      <3> HIDE DEF dueNow
      <3> QED BY <3>1, <3>2
    <2>3. CASE EndTick \/ TriggersRestart
      <3>1. NoTick \in [on : BOOLEAN, todo : SUBSET CronTrigger, fire : 0..Len(fires)]
        BY <1>2 DEF NoTick
      <3>2. cronTick' = NoTick
        BY <2>3 DEF EndTick, TriggersRestart
      <3> QED BY <3>1, <3>2
    <2>4. ASSUME NEW t \in CronTrigger, FireNext(t), UNCHANGED <<fires, fired, chain>>
          PROVE  cronTick' \in [on : BOOLEAN, todo : SUBSET CronTrigger, fire : 0..Len(fires)]
      BY <2>1, <2>4, PassedOver
    <2>5. CASE (\E t \in Trigger : RequestDelete(t)) \/ MinutePasses \/ UNCHANGED triggersVars
      BY <2>1, <2>5 DEF RequestDelete, MinutePasses, triggersVars
    <2> QED BY <2>2, <2>3, <2>4, <2>5 DEF Elsewhere
  <1>4. /\ chain' \in Seq(Link)
        /\ \/ chain' = chain
           \/ DOMAIN chain' = {} /\ cronTick' = NoTick
           \/ /\ DOMAIN chain' = 1..(Len(chain) + 1) /\ \A i \in DOMAIN chain : chain'[i] = chain[i]
              /\ chain'[Len(chain) + 1].link = "delete" /\ chain'[Len(chain) + 1].fire = 0
              /\ cronTick' = cronTick
    <2>1. ASSUME NEW t \in Trigger, RequestDelete(t)
          PROVE  /\ chain' \in Seq(Link)
                 /\ DOMAIN chain' = 1..(Len(chain) + 1) /\ \A i \in DOMAIN chain : chain'[i] = chain[i]
                 /\ chain'[Len(chain) + 1].link = "delete" /\ chain'[Len(chain) + 1].fire = 0
                 /\ cronTick' = cronTick
      <3> DEFINE last == [fire |-> 0, link |-> "delete", trigger |-> t]
      <3>1. last \in Link /\ last.link = "delete" /\ last.fire = 0 /\ chain \in Seq(Link)
        BY DEF Link, Base, Shapes
      <3>2. chain' = Append(chain, last) /\ cronTick' = cronTick
        BY <2>1 DEF RequestDelete
      <3> HIDE DEF last
      <3> QED BY <3>1, <3>2, PushFacts
    <2>2. CASE TriggersRestart
      <3>1. DOMAIN <<>> = {} /\ <<>> \in Seq(Link)
        OBVIOUS
      <3> QED BY <2>2, <3>1 DEF TriggersRestart
    <2>3. CASE Elsewhere \/ UNCHANGED triggersVars
      BY <2>3 DEF Elsewhere, StartTick, EndTick, MinutePasses, triggersVars, Base, Shapes
    <2> QED BY <2>1, <2>2, <2>3
  <1>5. Shapes'
    <2>1. lastFired' \in [Trigger -> 0..clock']
      BY <1>1, <1>2 DEF Base, Shapes
    <2> QED BY <1>1, <1>2, <1>3, <1>4, <2>1 DEF Base, Shapes
  <1>6. ASSUME NEW f \in FireIds, Chained(f)' PROVE Chained(f)
    <2>1. PICK i \in DOMAIN chain' : chain'[i].fire = f
      BY <1>6 DEF Chained
    <2>2. i \in DOMAIN chain /\ chain'[i] = chain[i]
      BY <1>2, <1>4, <2>1
    <2> QED BY <2>1, <2>2 DEF Chained
  <1>7. \/ cronTick'.fire = cronTick.fire
        \/ DOMAIN chain' = {} /\ cronTick' = NoTick
    <2>1. CASE StartTick
      BY <2>1 DEF StartTick, Base, Idle
    <2>2. CASE EndTick
      BY <2>2 DEF EndTick, NoTick
    <2>3. CASE TriggersRestart
      <3>1. DOMAIN <<>> = {}
        OBVIOUS
      <3> QED BY <2>3, <3>1 DEF TriggersRestart
    <2>4. ASSUME NEW t \in CronTrigger, FireNext(t), UNCHANGED <<fires, fired, chain>>
          PROVE  cronTick'.fire = cronTick.fire
      <3>1. cronTick \in [on : BOOLEAN, todo : SUBSET CronTrigger, fire : 0..Len(fires)]
        BY DEF Base, Shapes
      <3> QED BY <2>4, <3>1, PassedOver
    <2>5. CASE (\E t \in Trigger : RequestDelete(t)) \/ MinutePasses \/ UNCHANGED triggersVars
      BY <2>5 DEF RequestDelete, MinutePasses, triggersVars
    <2> QED BY <2>1, <2>2, <2>3, <2>4, <2>5 DEF Elsewhere
  <1> QED BY <1>1, <1>2, <1>4, <1>5, <1>6, <1>7 DEF Moves, Follows

LEMMA EveryStepMoves == ASSUME Base, [TriggersNext]_triggersVars PROVE Moves
  BY StepKinds, AcceptMoves, AdvanceMoves, LeaveMoves, OtherMoves

----------------------------------------------------------------------------
(* The base of the invariant *)

LEMMA AcceptBase ==
  ASSUME Base, NEW t \in Trigger, NEW k \in Keys, NEW source \in Sources,
         Accept(t, k, source), UNCHANGED <<clock, exists, lastFired>>,
         \/ source # "cron" /\ cronTick' = cronTick
         \/ /\ source = "cron" /\ t \in cronTick.todo /\ cronTick.fire = 0
            /\ cronTick' = [cronTick EXCEPT !.todo = @ \ {t}, !.fire = Len(fires) + 1]
  PROVE  Base'
  <1> DEFINE n == Len(fires) + 1
             m == Len(chain) + 1
  <1>1. /\ n \in Nat \ {0} /\ FireIds' = FireIds \cup {n} /\ \A f \in FireIds : f \in Nat /\ f < n
        /\ \A f \in FireIds : fires'[f] = fires[f] /\ fired'[f] = fired[f]
        /\ fires'[n].trigger = t /\ fires'[n].source = source
        /\ fires'[n].now = clock /\ fired'[n] = 0
        /\ DOMAIN chain' = 1..m
        /\ \A i \in DOMAIN chain : chain'[i] = chain[i]
        /\ chain'[m] = [fire |-> n, link |-> "task"]
    BY AcceptFacts DEF Accepted
  <1>2. /\ clock \in Nat \ {0} /\ DOMAIN chain = 1..Len(chain) /\ Len(chain) \in Nat
        /\ lastFired[t] \in 0..clock
        /\ \A f \in FireIds : fires[f].now \in Nat /\ f \in Nat \ {0}
    BY Types DEF Base, Fire
  <1>3. cronTick.on \/ cronTick' = cronTick
    BY DEF Base, Idle
  <1>4. cronTick \in [on : BOOLEAN, todo : SUBSET CronTrigger, fire : 0..Len(fires)]
    BY DEF Base, Shapes
  <1>5. cronTick'.on = cronTick.on /\ (source = "cron" => cronTick'.fire = n)
    BY <1>4
  <1>6. Idle'
    BY <1>3, <1>5 DEF Base, Idle
  <1> HIDE DEF n, m
  <1>7. ASSUME NEW f \in FireIds' PROVE FireOK(f)' /\ Served(f)'
    <2>1. CASE f = n
      BY <1>1, <1>2, <2>1 DEF FireOK, Served
    <2>2. CASE f \in FireIds
      <3>1. FireOK(f) /\ Served(f)
        BY <2>2 DEF Base
      <3>2. FireOK(f)'
        BY <1>1, <1>2, <2>2, <3>1 DEF FireOK
      <3>3. Served(f)'
        BY <1>1, <2>2, <3>1 DEF Served
      <3> QED BY <3>2, <3>3
    <2> QED BY <1>1, <2>1, <2>2
  <1>8. ASSUME NEW i \in DOMAIN chain' PROVE LinkOK(chain[i])'
    <2>1. CASE i = m
      <3>1. chain'[i].fire = n /\ chain'[i].link = "task" /\ lastFired[t] <= clock
        BY <1>1, <1>2, <2>1
      <3> QED BY <1>1, <1>5, <3>1 DEF LinkOK
    <2>2. CASE i \in DOMAIN chain
      <3>1. LinkOK(chain[i]) /\ chain'[i] = chain[i]
        BY <1>1, <2>2 DEF Base
      <3>2. chain[i].link # "delete" => chain[i].fire \in FireIds
        BY <3>1 DEF LinkOK
      <3>3. (chain[i].link # "delete" /\ fires[chain[i].fire].source = "cron")
              => cronTick'.fire = chain[i].fire
        BY <1>2, <3>1, <3>2 DEF LinkOK
      <3> QED BY <1>1, <3>1, <3>2, <3>3 DEF LinkOK
    <2> QED BY <1>1, <1>2, <2>1, <2>2 DEF m
  <1>9. InTurn'
    <2> SUFFICES ASSUME NEW i \in 1..m, NEW j \in 1..m,
                        chain'[i].link # "delete", chain'[j].link # "delete"
                 PROVE  /\ chain'[i].fire = chain'[j].fire => i = j
                        /\ chain'[i].fire < chain'[j].fire => Ahead(i, j)'
      BY <1>1 DEF InTurn
    <2>1. \A l \in DOMAIN chain : chain[l].link # "delete" => chain[l].fire \in FireIds
      BY DEF Base, LinkOK
    <2>2. CASE i \in DOMAIN chain /\ j \in DOMAIN chain
      BY <1>1, <2>2 DEF Base, InTurn, Ahead
    <2>3. CASE i \in DOMAIN chain /\ j = m
      <3>1. chain'[i].fire \in FireIds /\ chain'[i].fire < n /\ n \in Nat /\ chain'[i].fire \in Nat
        BY <1>1, <2>1, <2>3
      <3>2. i < m
        BY <1>2, <2>3 DEF m
      <3>3. Ahead(i, j)'
        BY <1>1, <2>3, <3>2 DEF Ahead, Stage
      <3> QED BY <1>1, <2>3, <3>1, <3>3
    <2>4. CASE i = m /\ j \in DOMAIN chain
      <3>1. chain'[j].fire \in FireIds /\ chain'[j].fire < n /\ n \in Nat /\ chain'[j].fire \in Nat
        BY <1>1, <2>1, <2>4
      <3> QED BY <1>1, <2>4, <3>1
    <2>5. CASE i = m /\ j = m
      BY <1>1, <2>5
    <2> QED BY <1>2, <2>2, <2>3, <2>4, <2>5 DEF m
  <1>10. Shapes'
    BY AcceptMoves DEF Moves
  <1> QED BY <1>6, <1>7, <1>8, <1>9, <1>10 DEF Base

LEMMA AdvanceBase == ASSUME Base, TaskLink \/ RoutineLink PROVE Base'
  <1>1. PICK h, m : h = chain[1].fire /\ m = Len(chain)
    OBVIOUS
  <1>2. /\ h \in FireIds /\ FireIds' = FireIds /\ fired' = fired /\ fired[h] = 0
        /\ \A f \in FireIds \ {h} : fires'[f] = fires[f]
        /\ fires'[h].trigger = fires[h].trigger
        /\ fires'[h].source = fires[h].source /\ fires'[h].now = fires[h].now
        /\ m \in Nat \ {0} /\ DOMAIN chain = 1..m /\ DOMAIN chain' = 1..m
        /\ \A i \in 1..(m - 1) : chain'[i] = chain[i + 1]
        /\ chain'[m].fire = h
        /\ \/ chain[1].link = "task" /\ chain'[m].link = "routine"
           \/ /\ chain[1].link = "routine" /\ chain'[m].link = "event"
              /\ fires'[h].task = "stamped"
    BY <1>1, AdvanceFacts
  <1>3. UNCHANGED <<clock, exists, lastFired, cronTick>>
    BY DEF TaskLink, RoutineLink
  <1>4. \A i, j \in 1..m : (chain[i].link # "delete" /\ chain[j].link # "delete") =>
            /\ chain[i].fire = chain[j].fire => i = j
            /\ chain[i].fire < chain[j].fire => Ahead(i, j)
    BY <1>2 DEF Base, InTurn
  <1>5. ASSUME NEW f \in FireIds' PROVE FireOK(f)' /\ Served(f)'
    <2>1. FireOK(f) /\ Served(f) /\ f \in FireIds
      BY <1>2 DEF Base
    <2>2. \A g \in FireIds : fires'[g].now = fires[g].now /\ fires'[g].trigger = fires[g].trigger
      BY <1>2
    <2>3. fired'[f] # 0 => fires'[f].task = "stamped" /\ fires'[f].now <= fired'[f]
      BY <1>2, <2>1 DEF FireOK
    <2>4. FireOK(f)'
      BY <1>2, <1>3, <2>1, <2>2, <2>3 DEF FireOK
    <2>5. Served(f)'
      BY <1>2, <1>3, <2>1, <2>2 DEF Served
    <2> QED BY <2>4, <2>5
  <1>6. ASSUME NEW i \in DOMAIN chain' PROVE LinkOK(chain[i])'
    <2>1. CASE i = m
      <3>1. LinkOK(chain[1])
        BY <1>2 DEF Base
      <3> QED BY <1>1, <1>2, <1>3, <2>1, <3>1 DEF LinkOK
    <2>2. CASE i \in 1..(m - 1)
      <3>1. i + 1 \in 1..m /\ i + 1 # 1 /\ 1 \in 1..m
        BY <1>2, <2>2
      <3>2. LinkOK(chain[i + 1]) /\ chain'[i] = chain[i + 1]
        BY <1>2, <2>2, <3>1 DEF Base
      <3>3. chain[i + 1].link # "delete" => chain[i + 1].fire \in FireIds \ {h}
        BY <1>1, <1>2, <1>4, <3>1, <3>2 DEF LinkOK
      <3> QED BY <1>2, <1>3, <3>2, <3>3 DEF LinkOK
    <2> QED BY <1>2, <2>1, <2>2
  <1>7. InTurn'
    <2> SUFFICES ASSUME NEW i \in 1..m, NEW j \in 1..m,
                        chain'[i].link # "delete", chain'[j].link # "delete"
                 PROVE  /\ chain'[i].fire = chain'[j].fire => i = j
                        /\ chain'[i].fire < chain'[j].fire => Ahead(i, j)'
      BY <1>2 DEF InTurn
    <2>1. CASE i \in 1..(m - 1) /\ j \in 1..(m - 1)
      <3>1. i + 1 \in 1..m /\ j + 1 \in 1..m
        BY <1>2, <2>1
      <3>2. /\ chain[i + 1].fire = chain[j + 1].fire => i + 1 = j + 1
            /\ chain[i + 1].fire < chain[j + 1].fire => Ahead(i + 1, j + 1)
        BY SMTT(30), <1>2, <1>4, <2>1, <3>1
      <3> QED BY <1>2, <2>1, <3>2 DEF Ahead
    <2>2. CASE i \in 1..(m - 1) /\ j = m
      <3>1. i + 1 \in 1..m /\ 1 \in 1..m /\ i + 1 # 1 /\ ~(i + 1 < 1) /\ i < m
        BY <1>2, <2>2
      <3>2. /\ chain[i + 1].fire = h => i + 1 = 1
            /\ chain[i + 1].fire < h => Ahead(i + 1, 1)
        BY <1>1, <1>2, <1>4, <2>2, <3>1
      <3>3. chain[i + 1].fire < h => Stage(chain[i + 1].link) > Stage(chain[1].link)
        BY <3>1, <3>2 DEF Ahead
      <3> QED BY <1>2, <2>2, <3>1, <3>2, <3>3 DEF Ahead, Stage
    <2>3. CASE i = m /\ j \in 1..(m - 1)
      <3>1. j + 1 \in 1..m /\ 1 \in 1..m /\ 1 # j + 1
        BY <1>2, <2>3
      <3>2. /\ h = chain[j + 1].fire => 1 = j + 1
            /\ h < chain[j + 1].fire => Ahead(1, j + 1)
        BY <1>1, <1>2, <1>4, <2>3, <3>1
      <3> QED BY <1>2, <2>3, <3>1, <3>2 DEF Ahead, Stage
    <2>4. CASE i = m /\ j = m
      <3>1. ~(h < h)
        BY <1>2, Types DEF Base
      <3> QED BY <1>2, <2>4, <3>1
    <2> QED BY <1>2, <2>1, <2>2, <2>3, <2>4
  <1>8. Shapes' /\ Idle'
    BY <1>3, AdvanceMoves DEF Moves, Base, Idle
  <1> QED BY <1>5, <1>6, <1>7, <1>8 DEF Base

LEMMA LeaveBase == ASSUME Base, EventLink \/ LinkFails \/ DeleteLink PROVE Base'
  <1>1. PICK x, h, m : x = chain[1] /\ h = x.fire /\ m = Len(chain)
    OBVIOUS
  <1>2. /\ UNCHANGED <<clock, fires>> /\ exists' \subseteq exists
        /\ m \in Nat \ {0} /\ DOMAIN chain = 1..m /\ DOMAIN chain' = 1..(m - 1)
        /\ \A i \in 1..(m - 1) : chain'[i] = chain[i + 1]
    BY <1>1, LeaveFacts
  <1>3. \/ x.link = "delete" /\ UNCHANGED <<fired, lastFired, cronTick>>
        \/ /\ x.link # "delete" /\ h \in FireIds /\ fired[h] = 0 /\ exists' = exists
           /\ \A g \in FireIds \ {h} : fired'[g] = fired[g]
           /\ \/ fired' = fired
              \/ fired'[h] = clock /\ x.link = "event" /\ lastFired' = Stamp(h)
           /\ lastFired' = lastFired \/ (lastFired' = Stamp(h) /\ x.link = "event")
           /\ \/ /\ cronTick' \in {NoTick, [cronTick EXCEPT !.fire = 0]}
                 /\ cronTick.fire = h
              \/ cronTick' = cronTick /\ cronTick.fire # h
    BY <1>1, LeaveFacts
  <1>4. /\ FireIds' = FireIds /\ clock \in Nat \ {0}
        /\ \A f \in FireIds : /\ fires[f].now \in Nat /\ f \in Nat \ {0}
                              /\ fires[f].trigger \in Trigger
        /\ \A t \in Trigger : lastFired[t] \in Nat
    BY <1>2, Types DEF FireIds, Base, Fire
  <1>5. \A i, j \in 1..m : (chain[i].link # "delete" /\ chain[j].link # "delete") =>
            /\ chain[i].fire = chain[j].fire => i = j
            /\ chain[i].fire < chain[j].fire => Ahead(i, j)
    BY <1>2 DEF Base, InTurn
  <1>6. LinkOK(x)
    BY <1>1, <1>2 DEF Base
  <1>7. ASSUME NEW f \in FireIds' PROVE FireOK(f)'
    <2>1. FireOK(f) /\ f \in FireIds
      BY <1>4 DEF Base
    <2>2. CASE fired'[f] = fired[f]
      BY <1>2, <1>4, <2>1, <2>2 DEF FireOK
    <2>3. CASE f = h /\ fired'[h] = clock /\ x.link = "event" /\ x.link # "delete"
      BY <1>1, <1>2, <1>4, <1>6, <2>1, <2>3 DEF FireOK, LinkOK
    <2> QED BY <1>3, <2>1, <2>2, <2>3
  <1>8. ASSUME NEW f \in FireIds, lastFired' = Stamp(h), h \in FireIds
        PROVE  lastFired'[fires[f].trigger] = IF fires[f].trigger = fires[h].trigger
                                                   /\ fires[f].trigger \in exists
                                                THEN fires[h].now ELSE lastFired[fires[f].trigger]
    BY <1>4, <1>8, StampFacts
  <1>9. ASSUME NEW f \in FireIds' PROVE Served(f)'
    <2>1. Served(f) /\ f \in FireIds
      BY <1>4 DEF Base
    <2>2. CASE fired'[f] = fired[f] /\ lastFired' = lastFired
      BY <1>2, <2>1, <2>2 DEF Served
    <2>3. CASE h \in FireIds /\ lastFired' = Stamp(h) /\ x.link # "delete" /\ fired'[f] = fired[f]
      BY SMTT(30), <1>1, <1>2, <1>4, <1>6, <1>8, <2>1, <2>3 DEF Served, LinkOK
    <2>4. CASE f = h /\ lastFired' = Stamp(h)
      BY <1>2, <1>4, <1>8, <2>1, <2>4 DEF Served
    <2> QED BY <1>3, <2>1, <2>2, <2>3, <2>4
  <1>10. ASSUME NEW i \in DOMAIN chain' PROVE LinkOK(chain[i])'
    <2>1. i \in 1..(m - 1) /\ i + 1 \in 1..m /\ i + 1 # 1 /\ ~(i + 1 < 1) /\ 1 \in 1..m
      BY <1>2
    <2>2. PICK y : y = chain[i + 1]
      OBVIOUS
    <2>3. chain'[i] = y /\ LinkOK(y)
      BY <1>2, <2>1, <2>2 DEF Base
    <2> SUFFICES ASSUME y.link # "delete" PROVE LinkOK(chain[i])'
      BY <2>3 DEF LinkOK
    <2>4. y.fire \in FireIds
      BY <2>3 DEF LinkOK
    <2>5. CASE x.link = "delete"
      BY <1>2, <1>3, <1>4, <2>3, <2>5 DEF LinkOK
    <2>6. CASE x.link # "delete"
      <3>1. y.fire # h /\ h \in FireIds
        BY <1>1, <1>3, <1>5, <2>1, <2>2, <2>6
      <3>2. fired'[y.fire] = fired[y.fire]
        BY <1>3, <2>4, <2>6, <3>1
      <3>3. fires[y.fire].source = "cron" => cronTick'.fire = y.fire
        BY <1>3, <2>3, <2>6, <3>1 DEF LinkOK
      <3>4. lastFired'[fires[y.fire].trigger] <= fires[y.fire].now
        <4>1. CASE lastFired' = lastFired
          BY <2>3, <4>1 DEF LinkOK
        <4>2. CASE lastFired' = Stamp(h) /\ x.link = "event"
          <5>1. ~(y.fire < h)
            <6>1. y.fire < h => Ahead(i + 1, 1)
              BY <1>1, <1>5, <2>1, <2>2, <2>6
            <6> QED BY <1>1, <2>1, <4>2, <6>1 DEF Ahead, Stage
          <5>2. h < y.fire
            BY <1>4, <2>4, <3>1, <5>1
          <5>3. fires[h].now <= fires[y.fire].now
            BY <2>4, <3>1, <5>2 DEF Base, FireOK
          <5> QED BY <1>8, <2>3, <2>4, <3>1, <4>2, <5>3 DEF LinkOK
        <4> QED BY <1>3, <2>6, <4>1, <4>2
      <3> QED BY <1>2, <1>4, <2>3, <2>4, <3>2, <3>3, <3>4 DEF LinkOK
    <2> QED BY <2>5, <2>6
  <1>11. InTurn'
    <2> SUFFICES ASSUME NEW i \in 1..(m - 1), NEW j \in 1..(m - 1),
                        chain'[i].link # "delete", chain'[j].link # "delete"
                 PROVE  /\ chain'[i].fire = chain'[j].fire => i = j
                        /\ chain'[i].fire < chain'[j].fire => Ahead(i, j)'
      BY <1>2 DEF InTurn
    <2>1. i + 1 \in 1..m /\ j + 1 \in 1..m
      BY <1>2
    <2>2. /\ chain[i + 1].fire = chain[j + 1].fire => i + 1 = j + 1
          /\ chain[i + 1].fire < chain[j + 1].fire => Ahead(i + 1, j + 1)
      BY <1>2, <1>5, <2>1
    <2> QED BY <1>2, <2>2 DEF Ahead
  <1>12. Idle'
    <2>1. cronTick \in [on : BOOLEAN, todo : SUBSET CronTrigger, fire : 0..Len(fires)] /\ Idle
      BY DEF Base, Shapes
    <2>2. cronTick' \in {cronTick, NoTick, [cronTick EXCEPT !.fire = 0]}
      BY <1>3
    <2> QED BY <2>1, <2>2 DEF Idle, NoTick
  <1>13. Shapes'
    BY LeaveMoves DEF Moves
  <1> QED BY <1>7, <1>9, <1>10, <1>11, <1>12, <1>13 DEF Base

LEMMA OtherBase ==
  ASSUME Base,
         \/ \E t \in Trigger : RequestDelete(t)
         \/ TriggersRestart \/ Elsewhere \/ UNCHANGED triggersVars
  PROVE  Base'
  <1>1. /\ Moves /\ UNCHANGED <<fires, fired, exists, lastFired>> /\ FireIds' = FireIds
        /\ \/ chain' = chain /\ cronTick'.fire = cronTick.fire
           \/ DOMAIN chain' = {} /\ cronTick' = NoTick
           \/ /\ DOMAIN chain' = 1..(Len(chain) + 1) /\ \A i \in DOMAIN chain : chain'[i] = chain[i]
              /\ chain'[Len(chain) + 1].link = "delete" /\ chain'[Len(chain) + 1].fire = 0
              /\ cronTick' = cronTick
    BY OtherMoves
  <1>2. /\ clock <= clock' /\ clock \in Nat /\ clock' \in Nat /\ DOMAIN chain = 1..Len(chain)
        /\ Len(chain) \in Nat /\ \A f \in FireIds : fires[f].now \in Nat
    BY <1>1, Types DEF Moves, Base, Shapes, Fire
  <1>3. ASSUME NEW f \in FireIds' PROVE FireOK(f)' /\ Served(f)'
    <2>1. FireOK(f) /\ Served(f) /\ f \in FireIds
      BY <1>1 DEF Base
    <2>2. FireOK(f)'
      BY <1>1, <1>2, <2>1 DEF FireOK
    <2>3. Served(f)'
      BY <1>1, <2>1 DEF Served
    <2> QED BY <2>2, <2>3
  <1>4. ASSUME NEW i \in DOMAIN chain', chain'[i].link # "delete"
        PROVE  i \in DOMAIN chain /\ chain'[i] = chain[i] /\ cronTick'.fire = cronTick.fire
    BY <1>1, <1>2, <1>4
  <1>5. ASSUME NEW i \in DOMAIN chain' PROVE LinkOK(chain[i])'
    <2> SUFFICES ASSUME chain'[i].link # "delete" PROVE LinkOK(chain[i])'
      BY DEF LinkOK
    <2>1. LinkOK(chain[i]) /\ chain'[i] = chain[i] /\ cronTick'.fire = cronTick.fire
      BY <1>4 DEF Base
    <2> QED BY <1>1, <2>1 DEF LinkOK
  <1>6. InTurn'
    BY <1>4 DEF Base, InTurn, Ahead
  <1>7. Idle'
    <2>1. Idle /\ cronTick \in [on : BOOLEAN, todo : SUBSET CronTrigger, fire : 0..Len(fires)]
      BY DEF Base, Shapes
    <2>2. CASE StartTick
      BY <2>2 DEF StartTick, Idle
    <2>3. CASE EndTick \/ TriggersRestart
      BY <2>3 DEF EndTick, TriggersRestart, Idle, NoTick
    <2>4. ASSUME NEW t \in CronTrigger, FireNext(t), UNCHANGED <<fires, fired, chain>> PROVE Idle'
      BY <2>1, <2>4, PassedOver DEF Idle
    <2>5. CASE (\E t \in Trigger : RequestDelete(t)) \/ MinutePasses \/ UNCHANGED triggersVars
      BY <2>1, <2>5 DEF RequestDelete, MinutePasses, triggersVars, Idle
    <2> QED BY <2>2, <2>3, <2>4, <2>5 DEF Elsewhere
  <1> QED BY <1>1, <1>3, <1>5, <1>6, <1>7 DEF Base, Moves

LEMMA BaseStep == ASSUME Base, [TriggersNext]_triggersVars PROVE Base'
  BY StepKinds, AcceptBase, AdvanceBase, LeaveBase, OtherBase

----------------------------------------------------------------------------
(* What the gates and the tick let through *)

\* A fire that is not cut off was not before: one that is never recovers.
LEMMA CutStays ==
  ASSUME Moves, NEW f \in FireIds, ~Cut(f)'
  PROVE  ~Cut(f)
  BY Zenon DEF Moves, Follows, Cut, Chained

\* Where no fire is accepted, nothing new is let through.
LEMMA NothingLetThrough ==
  ASSUME TriggersInv, Moves, FireIds' = FireIds
  PROVE  Deduped' /\ OncePerMatch' /\ WithinRate'
  <1>1. \A f \in FireIds : /\ fires'[f].trigger = fires[f].trigger /\ fires'[f].key = fires[f].key
                           /\ fires'[f].source = fires[f].source /\ fires'[f].now = fires[f].now
                           /\ fires'[f].overlaps = fires[f].overlaps
                           /\ fired[f] # 0 => fired'[f] = fired[f]
    BY DEF Moves, Follows
  <1>2. \A f \in FireIds : ~Cut(f)' => ~Cut(f)
    BY CutStays
  <1>3. Deduped'
    BY <1>1, <1>2 DEF TriggersInv, Deduped
  <1>4. OncePerMatch'
    BY <1>1, <1>2 DEF TriggersInv, OncePerMatch
  <1>5. WithinRate'
    <2> SUFFICES ASSUME NEW t \in Trigger, NEW c \in Nat, clock' <= c,
                        \A f \in Burst(t, c)' : ~fires'[f].overlaps /\ ~Cut(f)'
                 PROVE  Cardinality(Burst(t, c)') <= RateLimit
      BY DEF WithinRate
    <2>1. Burst(t, c)' = Burst(t, c)
      BY <1>1 DEF Burst
    <2>2. \A f \in Burst(t, c) : f \in FireIds /\ ~fires[f].overlaps /\ ~Cut(f)
      BY <1>1, <1>2, <2>1 DEF Burst
    <2>3. clock <= c
      <3>1. clock \in Nat /\ clock' \in Nat /\ clock <= clock'
        BY DEF Moves, TriggersInv, Base, Shapes
      <3> QED BY <3>1
    <2> QED BY <2>1, <2>2, <2>3 DEF TriggersInv, WithinRate
  <1> QED BY <1>3, <1>4, <1>5

\* The tick's list only shrinks, but for its start: then a trigger is due, and
\* what the scheduler fired of it before has been stamped.
LEMMA MatchedStep ==
  ASSUME TriggersInv, Moves, FireIds' = FireIds,
         cronTick'.todo \subseteq cronTick.todo \/ StartTick
  PROVE  Matched'
  <1> SUFFICES ASSUME NEW t \in cronTick'.todo, NEW f \in FireIds,
                      fires'[f].trigger = t, fires'[f].source = "cron", ~Cut(f)'
               PROVE  MatchBetween(fires'[f].now, clock')
    BY DEF Matched, MatchBetween
  <1>1. /\ fires[f].trigger = t /\ fires[f].source = "cron" /\ fires'[f].now = fires[f].now
        /\ ~Cut(f)
    BY CutStays DEF Moves, Follows
  <1>2. clock \in Nat /\ clock' \in Nat /\ clock <= clock' /\ CronMinutes \subseteq Nat
    BY TriggersAssumption DEF Moves, TriggersInv, Base, Shapes
  <1>3. MatchBetween(fires[f].now, clock)
    <2>1. CASE t \in cronTick.todo
      BY <1>1, <2>1 DEF TriggersInv, Matched
    <2>2. CASE StartTick
      <3>1. t \in exists /\ t \in CronTrigger /\ Due(t) /\ cronTick.fire = 0
        BY <2>2 DEF StartTick, TriggersInv, Base, Idle
      <3>2. ~Chained(f)
        <4> SUFFICES ASSUME NEW i \in DOMAIN chain, chain[i].fire = f PROVE FALSE
          BY DEF Chained
        <4>1. chain[i] \in Link /\ f \in Nat \ {0}
          BY Types DEF TriggersInv, Base
        <4>2. chain[i].link # "delete"
          BY <4>1 DEF Link
        <4>3. LinkOK(chain[i])
          BY DEF TriggersInv, Base
        <4> QED BY <1>1, <3>1, <4>1, <4>2, <4>3 DEF LinkOK
      <3>3. fired[f] # 0
        BY <1>1, <3>2, Zenon DEF Cut, Chained
      <3>4. fires[f].now <= lastFired[t] /\ 1 <= fires[f].now
        BY <1>1, <3>1, <3>3 DEF TriggersInv, Base, Served, FireOK
      <3>5. lastFired[t] \in Nat /\ fires[f].now \in Nat
        <4>1. t \in Trigger /\ fires[f] \in Fire
          BY <1>1, Types DEF TriggersInv, Base, Fire
        <4> QED BY <4>1, Types DEF TriggersInv, Base, Fire
      <3>6. PICK m \in CronMinutes : lastFired[t] < m /\ m <= clock
        BY <3>1, <3>4, <3>5 DEF Due
      <3> QED BY <1>2, <3>4, <3>5, <3>6 DEF MatchBetween
    <2> QED BY <2>1, <2>2
  <1>4. PICK m \in CronMinutes : fires[f].now < m /\ m <= clock
    BY <1>3 DEF MatchBetween
  <1> QED BY <1>1, <1>2, <1>4 DEF MatchBetween

\* A fire that passes the gates: what it does not overlap, it has seen.
LEMMA PassesStep ==
  ASSUME TriggersInv, NEW t \in Trigger, NEW k \in Keys, NEW source \in Sources,
         Passes(t, k, source), Accept(t, k, source), UNCHANGED <<clock, exists, lastFired>>,
         \/ source # "cron" /\ cronTick' = cronTick
         \/ /\ source = "cron" /\ t \in cronTick.todo /\ cronTick.fire = 0
            /\ cronTick' = [cronTick EXCEPT !.todo = @ \ {t}, !.fire = Len(fires) + 1]
  PROVE  Matched' /\ Deduped' /\ OncePerMatch' /\ WithinRate'
  <1> DEFINE n == Len(fires) + 1
  <1>1. /\ n \in Nat \ {0} /\ FireIds' = FireIds \cup {n} /\ \A f \in FireIds : f \in Nat /\ f < n
        /\ \A f \in FireIds : fires'[f] = fires[f] /\ fired'[f] = fired[f]
        /\ fires'[n].trigger = t /\ fires'[n].key = k /\ fires'[n].source = source
        /\ fires'[n].now = clock
        /\ fires'[n].overlaps <=> \E f \in FireIds : fires[f].trigger = t /\ Chained(f)
    <2>1. Accepted(n, t, k, source)
      BY Zenon, AcceptFacts DEF TriggersInv
    <2> QED BY <2>1, Zenon DEF Accepted
  <1> HIDE DEF n
  <1>2. Moves
    BY AcceptMoves DEF TriggersInv
  <1>3. /\ \A f \in FireIds : ~Cut(f)' => ~Cut(f)
        /\ \A f \in FireIds : fired[f] \in Nat /\ fires[f].now \in Nat
        /\ clock \in Nat \ {0} /\ n \notin FireIds
    BY <1>1, <1>2, CutStays, Types DEF TriggersInv, Base, Fire
  <1>4. ASSUME NEW f \in FireIds, ~Cut(f)', ~fires'[n].overlaps, fires[f].trigger = t
        PROVE  fired[f] # 0
    <2>1. ~Chained(f) /\ ~Cut(f)
      BY <1>1, <1>3, <1>4
    <2> QED BY <2>1, Zenon DEF Cut, Chained
  <1>5. cronTick \in [on : BOOLEAN, todo : SUBSET CronTrigger, fire : 0..Len(fires)]
    BY DEF TriggersInv, Base, Shapes
  <1>6. cronTick'.todo \subseteq cronTick.todo /\ (source = "cron" => t \notin cronTick'.todo)
    BY <1>5
  <1>7. Matched'
    <2> SUFFICES ASSUME NEW u \in cronTick'.todo, NEW f \in FireIds',
                        fires'[f].trigger = u, fires'[f].source = "cron", ~Cut(f)'
                 PROVE  MatchBetween(fires'[f].now, clock)
      BY DEF Matched, MatchBetween
    <2>1. f # n
      BY <1>1, <1>6
    <2>2. f \in FireIds
      BY <1>1, <2>1
    <2> QED BY <1>1, <1>3, <1>6, <2>2 DEF TriggersInv, Matched
  <1>8. Deduped'
    <2> SUFFICES ASSUME NEW f \in FireIds', NEW g \in FireIds', f < g, ~fires'[g].overlaps, ~Cut(f)',
                        fires'[f].trigger = fires'[g].trigger, fires'[f].key = fires'[g].key,
                        fires'[f].key # NoKey
                 PROVE  fired'[f] # 0 /\ fired'[f] + DedupeWindow <= fires'[g].now
      BY DEF Deduped
    <2>1. CASE g \in FireIds /\ f \in FireIds
      BY <1>1, <1>3, <2>1 DEF TriggersInv, Deduped
    <2>2. CASE g = n /\ f \in FireIds
      <3>1. fired[f] # 0
        BY <1>1, <1>4, <2>2
      <3>2. f \notin Recent(t, DedupeWindow)
        BY <1>1, <2>2 DEF Passes, Duplicate
      <3>3. ~(fired[f] + DedupeWindow > clock)
        BY <1>1, <2>2, <3>1, <3>2 DEF Recent
      <3> QED BY <1>1, <1>3, <2>2, <3>1, <3>3, TriggersAssumption
    <2>3. f \in FireIds
      BY <1>1
    <2> QED BY <1>1, <2>1, <2>2, <2>3
  <1>9. OncePerMatch'
    <2> SUFFICES ASSUME NEW f \in FireIds', NEW g \in FireIds', f < g,
                        fires'[f].trigger = fires'[g].trigger, ~Cut(f)',
                        fires'[f].source = "cron", fires'[g].source = "cron"
                 PROVE  \E m \in CronMinutes : fires'[f].now < m /\ m <= fires'[g].now
      BY DEF OncePerMatch
    <2>1. CASE g \in FireIds /\ f \in FireIds
      BY <1>1, <1>3, <2>1 DEF TriggersInv, OncePerMatch
    <2>2. CASE g = n /\ f \in FireIds
      <3>1. t \in cronTick.todo
        BY <1>1, <2>2
      <3>2. MatchBetween(fires[f].now, clock)
        BY <1>1, <1>3, <2>2, <3>1 DEF TriggersInv, Matched
      <3> QED BY <1>1, <2>2, <3>2 DEF MatchBetween
    <2>3. f \in FireIds
      BY <1>1
    <2> QED BY <1>1, <2>1, <2>2, <2>3
  <1>10. WithinRate'
    <2> SUFFICES ASSUME NEW u \in Trigger, NEW c \in Nat, clock <= c,
                        \A f \in Burst(u, c)' : ~fires'[f].overlaps /\ ~Cut(f)'
                 PROVE  Cardinality(Burst(u, c)') <= RateLimit
      BY DEF WithinRate
    <2>1. \A f \in FireIds : f \in Burst(u, c)' <=> f \in Burst(u, c)
      BY <1>1 DEF Burst
    <2>2. Burst(u, c) \subseteq FireIds /\ Burst(u, c)' \subseteq FireIds \cup {n}
      BY <1>1 DEF Burst
    <2>3. CASE n \notin Burst(u, c)'
      <3>1. Burst(u, c)' = Burst(u, c)
        BY <2>1, <2>2, <2>3
      <3>2. \A f \in Burst(u, c) : ~fires[f].overlaps /\ ~Cut(f)
        BY <1>1, <1>3, <2>2, <3>1
      <3> QED BY <3>1, <3>2 DEF TriggersInv, WithinRate
    <2>4. CASE n \in Burst(u, c)'
      <3>1. u = t /\ ~fires'[n].overlaps /\ Burst(u, c)' = Burst(u, c) \cup {n}
        BY <1>1, <2>1, <2>2, <2>4 DEF Burst
      <3>2. ASSUME NEW f \in Burst(u, c) PROVE f \in Recent(t, RateWindow)
        <4>1. f \in FireIds /\ fires[f].trigger = t /\ fires[f].now + RateWindow > c /\ ~Cut(f)'
          BY <3>1, <3>2 DEF Burst
        <4>2. fired[f] # 0
          BY <1>4, <3>1, <4>1
        <4>3. fires[f].now <= fired[f]
          BY <4>1, <4>2 DEF TriggersInv, Base, FireOK
        <4>4. fired[f] + RateWindow > clock
          BY <1>3, <4>1, <4>3, TriggersAssumption
        <4> QED BY <4>1, <4>2, <4>4 DEF Recent
      <3>3. IsFiniteSet(FireIds)
        BY SMTT(30), Types, FS_Interval DEF TriggersInv, Base
      <3>4. /\ IsFiniteSet(Recent(t, RateWindow)) /\ IsFiniteSet(Burst(u, c))
            /\ Cardinality(Burst(u, c)) <= Cardinality(Recent(t, RateWindow))
        <4>1. Recent(t, RateWindow) \subseteq FireIds /\ Burst(u, c) \subseteq Recent(t, RateWindow)
          BY <3>2 DEF Recent
        <4> QED BY <3>3, <4>1, FS_Subset
      <3>5. ~(Cardinality(Recent(t, RateWindow)) >= RateLimit)
        BY DEF Passes, RateLimited
      <3>6. /\ Cardinality(Recent(t, RateWindow)) \in Nat /\ Cardinality(Burst(u, c)) \in Nat
            /\ RateLimit \in Nat
        BY <3>4, FS_CardinalityType, TriggersAssumption
      <3>7. Cardinality(Burst(u, c) \cup {n}) = Cardinality(Burst(u, c)) + 1
        BY <1>3, <2>2, <3>4, FS_AddElement
      <3> QED BY <3>1, <3>4, <3>5, <3>6, <3>7
    <2> QED BY <2>3, <2>4
  <1> QED BY <1>7, <1>8, <1>9, <1>10

LEMMA InvStep == TriggersInv /\ [TriggersNext]_triggersVars => TriggersInv'
  <1> SUFFICES ASSUME TriggersInv, [TriggersNext]_triggersVars PROVE TriggersInv'
    OBVIOUS
  <1>1. Base'
    BY BaseStep DEF TriggersInv
  <1>2. Moves
    BY EveryStepMoves DEF TriggersInv
  <1>3. cronTick \in [on : BOOLEAN, todo : SUBSET CronTrigger, fire : 0..Len(fires)]
    BY DEF TriggersInv, Base, Shapes
  <1>4. CASE /\ FireIds' = FireIds
             /\ cronTick'.todo \subseteq cronTick.todo \/ StartTick
    BY <1>1, <1>2, <1>4, NothingLetThrough, MatchedStep DEF TriggersInv
  <1>5. CASE TaskLink \/ RoutineLink
    <2>1. cronTick' = cronTick
      BY <1>5 DEF TaskLink, RoutineLink
    <2>2. FireIds' = FireIds
      BY <1>5, AdvanceFacts DEF TriggersInv
    <2> QED BY <1>4, <2>1, <2>2
  <1>6. CASE EventLink \/ LinkFails \/ DeleteLink
    <2>1. cronTick' \in {cronTick, NoTick, [cronTick EXCEPT !.fire = 0]} /\ fires' = fires
      BY <1>6, LeaveFacts DEF TriggersInv
    <2>2. cronTick'.todo \subseteq cronTick.todo
      BY <1>3, <2>1 DEF NoTick
    <2> QED BY <1>4, <2>1, <2>2 DEF FireIds
  <1>7. CASE \/ \E t \in Trigger : RequestDelete(t)
             \/ TriggersRestart \/ Elsewhere \/ UNCHANGED triggersVars
    <2>1. FireIds' = FireIds
      BY <1>7, OtherMoves DEF TriggersInv
    <2>2. cronTick'.todo \subseteq cronTick.todo \/ StartTick
      <3>1. ASSUME NEW t \in CronTrigger, FireNext(t), UNCHANGED <<fires, fired, chain>>
            PROVE  cronTick'.todo \subseteq cronTick.todo
        BY <1>3, <3>1, PassedOver DEF TriggersInv
      <3>2. CASE \/ \E t \in Trigger : RequestDelete(t)
                 \/ TriggersRestart \/ EndTick \/ MinutePasses \/ UNCHANGED triggersVars
        <4>1. cronTick' = cronTick \/ cronTick' = NoTick
          BY <3>2 DEF RequestDelete, TriggersRestart, EndTick, MinutePasses, triggersVars
        <4> QED BY <4>1 DEF NoTick
      <3> QED BY <1>7, <3>1, <3>2 DEF Elsewhere
    <2> QED BY <1>4, <2>1, <2>2
  <1>8. ASSUME NEW t \in Trigger, NEW k \in Keys, NEW source \in Sources,
               Passes(t, k, source), Accept(t, k, source), UNCHANGED <<clock, exists, lastFired>>,
               \/ source # "cron" /\ cronTick' = cronTick
               \/ /\ source = "cron" /\ t \in cronTick.todo /\ cronTick.fire = 0
                  /\ cronTick' = [cronTick EXCEPT !.todo = @ \ {t}, !.fire = Len(fires) + 1]
        PROVE  TriggersInv'
    BY <1>1, <1>8, PassesStep DEF TriggersInv
  <1> QED BY <1>5, <1>6, <1>7, <1>8, StepKinds

LEMMA InvHolds == TriggersSpec => []TriggersInv
  BY InvInit, InvStep, PTL DEF TriggersSpec

\* A fire's event comes after its task and after the time its gates were read at.
THEOREM TriggersTypeCorrect == TriggersSpec => []TriggersTypeOK
  <1> DEFINE InTime == clock <= MaxClock
  <1>1. TriggersInit => InTime
    BY TriggersAssumption DEF TriggersInit
  <1>2. InTime /\ TriggersInv /\ [TriggersNext]_triggersVars => InTime'
    <2> SUFFICES ASSUME InTime, TriggersInv, [TriggersNext]_triggersVars PROVE InTime'
      OBVIOUS
    <2>1. clock' = clock \/ (clock < MaxClock /\ clock' = clock + 1)
      BY DEF TriggersNext, triggersVars, Deliver, TaskLink, RoutineLink, EventLink, LinkFails,
             StartTick, FireNext, EndTick, RequestDelete, DeleteLink, TriggersRestart, MinutePasses
    <2> QED BY <2>1, TriggersAssumption DEF TriggersInv, Base, Shapes
  <1>3. InTime /\ TriggersInv => TriggersTypeOK
    <2> SUFFICES ASSUME InTime, TriggersInv PROVE TriggersTypeOK
      OBVIOUS
    <2>1. clock \in 1..MaxClock
      BY TriggersAssumption DEF TriggersInv, Base, Shapes
    <2>2. cronTick.todo \subseteq CronTrigger /\ cronTick.fire \in 0..Len(fires)
      BY DEF TriggersInv, Base, Shapes
    <2>3. \A f \in FireIds : fired[f] # 0 => fires[f].task = "stamped" /\ fires[f].now <= fired[f]
      BY DEF TriggersInv, Base, FireOK
    <2> QED BY <2>1, <2>2, <2>3 DEF TriggersInv, Base, Shapes, TriggersTypeOK
  <1> QED BY <1>1, <1>2, <1>3, InvHolds, PTL DEF TriggersSpec

\* OncePerMatch: between two fires of the scheduler for a trigger its schedule has
\* had a match, unless the first was cut off.
THEOREM SchedulesFireOncePerMatch == TriggersSpec => []OncePerMatch
  <1>1. TriggersInv => OncePerMatch
    BY DEF TriggersInv
  <1> QED BY <1>1, InvHolds, PTL

\* FiresAreGated: one delivery makes one task within the window, and a trigger no
\* more than its rate, for fires that neither overlap nor were cut off.
THEOREM GatesHold == TriggersSpec => []FiresAreGated
  <1>1. TriggersInv => FiresAreGated
    <2> SUFFICES ASSUME TriggersInv PROVE FiresAreGated
      OBVIOUS
    <2>1. ASSUME NEW f \in FireIds, NEW g \in FireIds, f < g, ~fires[g].overlaps, ~Cut(f),
                 fires[f].trigger = fires[g].trigger, fires[f].key = fires[g].key
          PROVE  fires[f].key = NoKey \/ fired[f] + DedupeWindow <= fires[g].now
      BY <2>1 DEF TriggersInv, Deduped
    <2>2. ASSUME NEW t \in Trigger,
                 \A f \in Burst(t, clock) : ~fires[f].overlaps /\ ~Cut(f)
          PROVE  Cardinality(Burst(t, clock)) <= RateLimit
      <3>1. clock \in Nat /\ clock <= clock
        BY DEF TriggersInv, Base, Shapes
      <3> QED BY <2>2, <3>1 DEF TriggersInv, WithinRate
    <2> QED BY <2>1, <2>2 DEF FiresAreGated, Burst
  <1> QED BY <1>1, InvHolds, PTL

----------------------------------------------------------------------------
(* The rubric: issues *)

IssueKeys == {f.key : f \in Finding}
Issues == [key : IssueKeys, severity : 0..4, sure : BOOLEAN]

LEMMA FindingsAreIssues == Finding \subseteq Issues
  BY ReviewPolicyAssumption DEF IssueKeys, Issues

----------------------------------------------------------------------------
(* The folds, from one element to the next *)

\* A fold of the community modules takes the largest position out of a set.
LEMMA LastOf ==
  ASSUME NEW n \in Nat
  PROVE  /\ \A s \in SUBSET (1..n) : s # {} => Max(s) \in s
         /\ \A k \in Nat : k < n =>
              /\ 1..(k + 1) \in SUBSET (1..n) /\ 1..(k + 1) # {}
              /\ Max(1..(k + 1)) = k + 1 /\ 1..(k + 1) \ {k + 1} = 1..k
  <1>1. ASSUME NEW s \in SUBSET (1..n), s # {} PROVE Max(s) \in s
    <2> DEFINE gaps == {n - x : x \in s}
    <2>1. gaps \in SUBSET Nat /\ gaps # {}
      <3>1. \A x \in s : n - x \in Nat
        BY <1>1
      <3> QED BY <1>1, <3>1
    <2>2. PICK m \in gaps : \A k \in gaps : m <= k
      BY <2>1, LeastNat
    <2>3. PICK x \in s : m = n - x
      BY <2>2
    <2>4. \A y \in s : x >= y
      BY <2>2, <2>3
    <2> QED BY <2>4 DEF Max
  <1>2. ASSUME NEW k \in Nat, k < n
        PROVE  /\ 1..(k + 1) \in SUBSET (1..n) /\ 1..(k + 1) # {}
               /\ Max(1..(k + 1)) = k + 1 /\ 1..(k + 1) \ {k + 1} = 1..k
    <2>1. \A x \in 1..(k + 1) : (\A y \in 1..(k + 1) : x >= y) => x = k + 1
      BY <1>2
    <2>2. k + 1 \in 1..(k + 1) /\ \A y \in 1..(k + 1) : k + 1 >= y
      BY <1>2
    <2>3. Max(1..(k + 1)) = k + 1
      BY <2>1, <2>2 DEF Max
    <2> QED BY <1>2, <2>3
  <1> QED BY <1>1, <1>2

FoldOf(h, base, n, G) ==
    \A s \in SUBSET (1..n) : h[s] = IF s = {} THEN base ELSE G[<<Max(s), h[s \ {Max(s)}]>>]

StepRule(f, base, n, A, G) ==
    /\ f[{}] = base
    /\ \A s \in SUBSET (1..n) :
         s # {} /\ f[s \ {Max(s)}] \in A => f[s] = G[<<Max(s), f[s \ {Max(s)}]>>]

StepsOf(p, f, base, n, G) ==
    p[0] = base /\ p[n] = f[1..n] /\ \A k \in Nat : k < n => p[k + 1] = G[<<k + 1, p[k]>>]

\* A step function for such a fold defines it ...
LEMMA FoldExists ==
  ASSUME NEW n \in Nat, NEW A, NEW base \in A, NEW G \in [(1..n) \X A -> A]
  PROVE  \E h \in [SUBSET (1..n) -> A] : FoldOf(h, base, n, G)
  <1> DEFINE S == 1..n
             C == [s \in SUBSET S |-> Max(s)]
  <1>1. \A s \in SUBSET S : C[s] = Max(s) /\ (s # {} => C[s] \in s)
    BY LastOf
  <1>2. IsFiniteSet(S)
    BY FS_Interval
  <1> HIDE DEF C
  <1>3. PICK h \in [SUBSET S -> A] : Unwinds(h, base, C, G)
    BY <1>1, <1>2, SetRecursion, Zenon
  <1>4. ASSUME NEW s \in SUBSET S
        PROVE  h[s] = IF s = {} THEN base ELSE G[<<Max(s), h[s \ {Max(s)}]>>]
    <2>1. h[s] = IF s = {} THEN base ELSE G[<<C[s], h[s \ {C[s]}]>>]
      BY <1>3 DEF Unwinds
    <2>2. C[s] = Max(s)
      BY <1>1
    <2> QED BY <2>1, <2>2, Zenon
  <1> QED BY <1>3, <1>4 DEF FoldOf

\* ... and then it is made one position after the other.
LEMMA FoldSteps ==
  ASSUME NEW n \in Nat, NEW A, NEW base \in A, NEW G \in [(1..n) \X A -> A], NEW f, StepRule(f, base, n, A, G)
  PROVE  \E p \in [0..n -> A] : StepsOf(p, f, base, n, G)
  <1>1. 1..0 = {}
    OBVIOUS
  <1>2. ASSUME NEW k \in Nat, k < n, f[1..k] \in A
        PROVE  f[1..(k + 1)] = G[<<k + 1, f[1..k]>>] /\ f[1..(k + 1)] \in A
    <2> DEFINE s == 1..(k + 1)
    <2>1. s \in SUBSET (1..n) /\ s # {} /\ Max(s) = k + 1 /\ s \ {Max(s)} = 1..k
      BY <1>2, LastOf
    <2> HIDE DEF s
    <2>2. f[s] = G[<<k + 1, f[1..k]>>]
      BY <1>2, <2>1 DEF StepRule
    <2>3. k + 1 \in 1..n
      BY <1>2
    <2> QED BY <1>2, <2>2, <2>3 DEF s
  <1> DEFINE T == {k \in Nat : k <= n => f[1..k] \in A}
  <1>3. 0 \in T
    BY <1>1 DEF StepRule
  <1>4. ASSUME NEW k \in Nat, k \in T PROVE k + 1 \in T
    <2> SUFFICES ASSUME k + 1 <= n PROVE f[1..(k + 1)] \in A
      OBVIOUS
    <2>1. k < n /\ f[1..k] \in A
      BY <1>4
    <2> QED BY <1>2, <2>1
  <1> HIDE DEF T
  <1>5. \A k \in Nat : k \in T
    BY <1>3, <1>4, SetInduction
  <1> DEFINE p == [k \in 0..n |-> f[1..k]]
  <1>6. p \in [0..n -> A]
    BY <1>5 DEF T
  <1>7. p[0] = base /\ p[n] = f[1..n]
    BY <1>1 DEF StepRule
  <1>8. ASSUME NEW k \in Nat, k < n PROVE p[k + 1] = G[<<k + 1, p[k]>>]
    <2>1. f[1..k] \in A /\ k \in 0..n /\ k + 1 \in 0..n
      BY <1>5, <1>8 DEF T
    <2>2. f[1..(k + 1)] = G[<<k + 1, f[1..k]>>]
      BY <1>2, <1>8, <2>1
    <2> QED BY <2>1, <2>2
  <1> HIDE DEF p
  <1> QED BY <1>6, <1>7, <1>8 DEF StepsOf

\* Dedup takes the findings one by one.
AddTo(out, f) ==
    IF \E i \in DOMAIN out : out[i].key = f.key
      THEN [i \in DOMAIN out |-> IF out[i].key = f.key THEN MergeFindings(out[i], f) ELSE out[i]]
      ELSE Append(out, f)

LEMMA AddToType == ASSUME NEW out \in Seq(Issues), NEW f \in Issues PROVE AddTo(out, f) \in Seq(Issues)
  <1>1. \A a \in Issues : MergeFindings(a, f) \in Issues
    BY DEF Issues, MergeFindings, Harsher
  <1>2. CASE \E i \in DOMAIN out : out[i].key = f.key
    <2>1. DOMAIN out = 1..Len(out) /\ Len(out) \in Nat /\ \A i \in DOMAIN out : out[i] \in Issues
      BY LenProperties, ElementOfSeq
    <2>2. [i \in 1..Len(out) |-> IF out[i].key = f.key THEN MergeFindings(out[i], f) ELSE out[i]]
            \in [1..Len(out) -> Issues]
      BY <1>1, <2>1
    <2> QED BY <1>2, <2>1, <2>2, SeqDef DEF AddTo
  <1>3. CASE ~\E i \in DOMAIN out : out[i].key = f.key
    BY <1>3, AppendProperties DEF AddTo
  <1> QED BY <1>2, <1>3

DedupPath(p, fs) ==
    /\ p[0] = <<>> /\ p[Len(fs)] = Dedup(fs)
    /\ \A k \in Nat : k < Len(fs) => p[k + 1] = AddTo(p[k], fs[k + 1])

LEMMA DedupSteps ==
  ASSUME NEW fs \in Seq(Issues), NEW n, n = Len(fs)
  PROVE  \E p \in [0..n -> Seq(Issues)] : DedupPath(p, fs)
  <1> DEFINE S == 1..n
             A == Seq(Issues)
             Body(f) == [s \in SUBSET S |-> IF s = {} THEN <<>> ELSE AddTo(f[s \ {Max(s)}], fs[Max(s)])]
             iter == CHOOSE f : f = Body(f)
             G == [x \in S \X A |-> AddTo(x[2], fs[x[1]])]
  <1>1. n \in Nat /\ DOMAIN fs = S /\ \A i \in S : fs[i] \in Issues
    BY LenProperties, ElementOfSeq
  <1>2. Dedup(fs) = iter[S]
    BY <1>1 DEF Dedup, FoldLeft, MapThenFoldSet, AddTo
  <1>3. G \in [S \X A -> A]
    BY <1>1, AddToType
  <1>4. <<>> \in A
    BY EmptySeq
  <1>5. \A i \in S, out \in A : G[<<i, out>>] = AddTo(out, fs[i])
    OBVIOUS
  <1>6. \A s \in SUBSET S : s # {} => Max(s) \in S
    BY <1>1, LastOf
  <1> HIDE DEF A, G
  <1>7. PICK h \in [SUBSET S -> A] : FoldOf(h, <<>>, n, G)
    BY <1>1, <1>3, <1>4, FoldExists, Zenon
  <1>8. h = Body(h)
    BY <1>5, <1>6, <1>7 DEF FoldOf
  <1> HIDE DEF Body
  <1>9. iter = Body(iter)
    BY <1>8
  <1> HIDE DEF iter
  <1>10. iter[{}] = <<>>
    BY <1>9 DEF Body
  <1>11. ASSUME NEW s \in SUBSET S, s # {}, iter[s \ {Max(s)}] \in A
         PROVE  iter[s] = G[<<Max(s), iter[s \ {Max(s)}]>>]
    <2>1. iter[s] = AddTo(iter[s \ {Max(s)}], fs[Max(s)])
      BY <1>9, <1>11 DEF Body
    <2> QED BY <1>5, <1>6, <1>11, <2>1
  <1>14. StepRule(iter, <<>>, n, A, G)
    BY <1>10, <1>11, Zenon DEF StepRule
  <1>12. PICK p \in [0..n -> A] : StepsOf(p, iter, <<>>, n, G)
    BY <1>1, <1>3, <1>4, <1>14, FoldSteps, Zenon
  <1>13. ASSUME NEW k \in Nat, k < n PROVE p[k + 1] = AddTo(p[k], fs[k + 1])
    <2>1. k + 1 \in S /\ k \in 0..n
      BY <1>1, <1>13
    <2>2. p[k + 1] = G[<<k + 1, p[k]>>]
      BY <1>12, <1>13, Zenon DEF StepsOf
    <2>3. p[k] \in A
      BY <1>12, <2>1
    <2> QED BY <1>5, <2>1, <2>2, <2>3
  <1>15. p[0] = <<>> /\ p[n] = iter[S]
    BY <1>12 DEF StepsOf
  <1>16. DedupPath(p, fs)
    BY <1>2, <1>13, <1>15 DEF DedupPath
  <1> QED BY <1>12, <1>16 DEF A

\* A doubtful finding is dropped, softened or kept as it is.
Consider(v, out, f) ==
    IF f.sure THEN Append(out, f)
    ELSE IF ~v[f.key].keep THEN out
    ELSE Append(out, [f EXCEPT !.severity = Milder(@, v[f.key].severity)])

LEMMA VerifierType ==
  ASSUME NEW v \in Verifiers, NEW key \in IssueKeys
  PROVE  v[key] \in [keep : BOOLEAN, severity : 0..4]
  BY ReviewPolicyAssumption DEF IssueKeys

LEMMA ConsiderType ==
  ASSUME NEW v \in Verifiers, NEW out \in Seq(Issues), NEW f \in Issues
  PROVE  Consider(v, out, f) \in Seq(Issues)
  <1>1. v[f.key].severity \in 0..4
    BY VerifierType DEF Issues
  <1>2. [f EXCEPT !.severity = Milder(@, v[f.key].severity)] \in Issues
    BY <1>1 DEF Issues, Milder
  <1> QED BY <1>2, AppendProperties DEF Consider

VerifyPath(p, v, fs) ==
    /\ p[0] = <<>> /\ p[Len(fs)] = VerifyLowConfidence(fs, v)
    /\ \A k \in Nat : k < Len(fs) => p[k + 1] = Consider(v, p[k], fs[k + 1])

LEMMA VerifySteps ==
  ASSUME NEW fs \in Seq(Issues), NEW v \in Verifiers, NEW n, n = Len(fs)
  PROVE  \E p \in [0..n -> Seq(Issues)] : VerifyPath(p, v, fs)
  <1> DEFINE S == 1..n
             A == Seq(Issues)
             Body(f) == [s \in SUBSET S |-> IF s = {} THEN <<>> ELSE Consider(v, f[s \ {Max(s)}], fs[Max(s)])]
             iter == CHOOSE f : f = Body(f)
             G == [x \in S \X A |-> Consider(v, x[2], fs[x[1]])]
  <1>1. n \in Nat /\ DOMAIN fs = S /\ \A i \in S : fs[i] \in Issues
    BY LenProperties, ElementOfSeq
  <1>2. VerifyLowConfidence(fs, v) = iter[S]
    BY <1>1 DEF VerifyLowConfidence, FoldLeft, MapThenFoldSet, Consider
  <1>3. G \in [S \X A -> A]
    BY <1>1, ConsiderType
  <1>4. <<>> \in A
    BY EmptySeq
  <1>5. \A i \in S, out \in A : G[<<i, out>>] = Consider(v, out, fs[i])
    OBVIOUS
  <1>6. \A s \in SUBSET S : s # {} => Max(s) \in S
    BY <1>1, LastOf
  <1> HIDE DEF A, G
  <1>7. PICK h \in [SUBSET S -> A] : FoldOf(h, <<>>, n, G)
    BY <1>1, <1>3, <1>4, FoldExists, Zenon
  <1>8. h = Body(h)
    BY <1>5, <1>6, <1>7 DEF FoldOf
  <1> HIDE DEF Body
  <1>9. iter = Body(iter)
    BY <1>8
  <1> HIDE DEF iter
  <1>10. iter[{}] = <<>>
    BY <1>9 DEF Body
  <1>11. ASSUME NEW s \in SUBSET S, s # {}, iter[s \ {Max(s)}] \in A
         PROVE  iter[s] = G[<<Max(s), iter[s \ {Max(s)}]>>]
    <2>1. iter[s] = Consider(v, iter[s \ {Max(s)}], fs[Max(s)])
      BY <1>9, <1>11 DEF Body
    <2> QED BY <1>5, <1>6, <1>11, <2>1
  <1>14. StepRule(iter, <<>>, n, A, G)
    BY <1>10, <1>11, Zenon DEF StepRule
  <1>12. PICK p \in [0..n -> A] : StepsOf(p, iter, <<>>, n, G)
    BY <1>1, <1>3, <1>4, <1>14, FoldSteps, Zenon
  <1>13. ASSUME NEW k \in Nat, k < n PROVE p[k + 1] = Consider(v, p[k], fs[k + 1])
    <2>1. k + 1 \in S /\ k \in 0..n
      BY <1>1, <1>13
    <2>2. p[k + 1] = G[<<k + 1, p[k]>>]
      BY <1>12, <1>13, Zenon DEF StepsOf
    <2>3. p[k] \in A
      BY <1>12, <2>1
    <2> QED BY <1>5, <2>1, <2>2, <2>3
  <1>15. p[0] = <<>> /\ p[n] = iter[S]
    BY <1>12 DEF StepsOf
  <1>16. VerifyPath(p, v, fs)
    BY <1>2, <1>13, <1>15 DEF VerifyPath
  <1> QED BY <1>12, <1>16 DEF A

\* A finder's answer adds its findings, in the order of the roster.
Answers == {Failed, Clean} \cup {Report(<<f>>) : f \in Finding}

Join(as, out, k) == IF as[k] = Failed THEN out ELSE out \o as[k][2]

LEMMA AnswerFacts ==
  /\ Clean # Failed /\ Clean[2] = <<>>
  /\ \A f \in Finding : Report(<<f>>) # Failed /\ Report(<<f>>) # Clean /\ Report(<<f>>)[2] = <<f>>
  BY DEF Clean, Failed, Report

LEMMA RosterFacts ==
  ASSUME NEW t \in Tiers
  PROVE  /\ Len(Roster(t)) \in Nat /\ DOMAIN Roster(t) = 1..Len(Roster(t))
         /\ ToSet(Roster(t)) = {Roster(t)[i] : i \in 1..Len(Roster(t))}
  <1>1. CASE t = "trivial"
    BY <1>1 DEF Roster, ToSet
  <1>2. CASE t = "lite"
    BY <1>2 DEF Roster, ToSet
  <1>3. CASE t = "full"
    BY <1>3 DEF Roster, ToSet
  <1> QED BY <1>1, <1>2, <1>3 DEF Tiers

LEMMA JoinType ==
  ASSUME NEW K, NEW as \in [K -> Answers], NEW k \in K, NEW out \in Seq(Finding)
  PROVE  Join(as, out, k) \in Seq(Finding)
  <1>1. as[k] = Failed \/ as[k] = Clean \/ \E f \in Finding : as[k] = Report(<<f>>)
    BY DEF Answers
  <1>2. CASE as[k] = Failed
    BY <1>2 DEF Join
  <1>3. CASE as[k] = Clean
    <2>1. as[k] # Failed /\ as[k][2] = <<>>
      BY <1>3, AnswerFacts
    <2>2. Join(as, out, k) = out \o <<>>
      BY <2>1 DEF Join
    <2>3. out \o <<>> = out
      BY ConcatEmptySeq, Zenon
    <2> QED BY <2>2, <2>3
  <1>4. ASSUME NEW f \in Finding, as[k] = Report(<<f>>) PROVE Join(as, out, k) \in Seq(Finding)
    <2>1. as[k] # Failed /\ as[k][2] = <<f>>
      BY <1>4, AnswerFacts
    <2>2. Join(as, out, k) = out \o <<f>>
      BY <2>1 DEF Join
    <2>3. Append(out, f) = out \o <<f>> /\ Append(out, f) \in Seq(Finding)
      BY AppendIsConcat, AppendProperties
    <2> QED BY <2>2, <2>3
  <1> QED BY <1>1, <1>2, <1>3, <1>4

UnionPath(p, as, t) ==
    /\ p[0] = <<>> /\ p[Len(Roster(t))] = Union(as, t)
    /\ \A k \in Nat : k < Len(Roster(t)) => p[k + 1] = Join(as, p[k], Roster(t)[k + 1])

LEMMA UnionSteps ==
  ASSUME NEW t \in Tiers, NEW as \in [ToSet(Roster(t)) -> Answers], NEW n, n = Len(Roster(t))
  PROVE  \E p \in [0..n -> Seq(Finding)] : UnionPath(p, as, t)
  <1> DEFINE S == 1..n
             A == Seq(Finding)
             Body(f) == [s \in SUBSET S |->
                           IF s = {} THEN <<>> ELSE Join(as, f[s \ {Max(s)}], Roster(t)[Max(s)])]
             iter == CHOOSE f : f = Body(f)
             G == [x \in S \X A |-> Join(as, x[2], Roster(t)[x[1]])]
  <1>1. n \in Nat /\ DOMAIN Roster(t) = S /\ \A i \in S : Roster(t)[i] \in ToSet(Roster(t))
    BY RosterFacts
  <1>2. Union(as, t) = iter[S]
    BY <1>1 DEF Union, FoldLeft, MapThenFoldSet, Join
  <1>3. G \in [S \X A -> A]
    BY <1>1, JoinType
  <1>4. <<>> \in A
    BY EmptySeq
  <1>5. \A i \in S, out \in A : G[<<i, out>>] = Join(as, out, Roster(t)[i])
    OBVIOUS
  <1>6. \A s \in SUBSET S : s # {} => Max(s) \in S
    BY <1>1, LastOf
  <1> HIDE DEF A, G
  <1>7. PICK h \in [SUBSET S -> A] : FoldOf(h, <<>>, n, G)
    BY <1>1, <1>3, <1>4, FoldExists, Zenon
  <1>8. h = Body(h)
    BY <1>5, <1>6, <1>7 DEF FoldOf
  <1> HIDE DEF Body
  <1>9. iter = Body(iter)
    BY <1>8
  <1> HIDE DEF iter
  <1>10. iter[{}] = <<>>
    BY <1>9 DEF Body
  <1>11. ASSUME NEW s \in SUBSET S, s # {}, iter[s \ {Max(s)}] \in A
         PROVE  iter[s] = G[<<Max(s), iter[s \ {Max(s)}]>>]
    <2>1. iter[s] = Join(as, iter[s \ {Max(s)}], Roster(t)[Max(s)])
      BY <1>9, <1>11 DEF Body
    <2> QED BY <1>5, <1>6, <1>11, <2>1
  <1>14. StepRule(iter, <<>>, n, A, G)
    BY <1>10, <1>11, Zenon DEF StepRule
  <1>12. PICK p \in [0..n -> A] : StepsOf(p, iter, <<>>, n, G)
    BY <1>1, <1>3, <1>4, <1>14, FoldSteps, Zenon
  <1>13. ASSUME NEW k \in Nat, k < n PROVE p[k + 1] = Join(as, p[k], Roster(t)[k + 1])
    <2>1. k + 1 \in S /\ k \in 0..n
      BY <1>1, <1>13
    <2>2. p[k + 1] = G[<<k + 1, p[k]>>]
      BY <1>12, <1>13, Zenon DEF StepsOf
    <2>3. p[k] \in A
      BY <1>12, <2>1
    <2> QED BY <1>5, <2>1, <2>2, <2>3
  <1>15. p[0] = <<>> /\ p[n] = iter[S]
    BY <1>12 DEF StepsOf
  <1>16. UnionPath(p, as, t)
    BY <1>2, <1>13, <1>15 DEF UnionPath
  <1> QED BY <1>12, <1>16 DEF A

LEMMA Grown ==
  ASSUME NEW S, NEW out \in Seq(S), NEW x \in S
  PROVE  /\ DOMAIN Append(out, x) = DOMAIN out \cup {Len(out) + 1} /\ Len(out) + 1 \notin DOMAIN out
         /\ \A i \in DOMAIN out : Append(out, x)[i] = out[i]
         /\ Append(out, x)[Len(out) + 1] = x
         /\ ToSet(Append(out, x)) = ToSet(out) \cup {x}
  <1>1. /\ Len(out) \in Nat /\ DOMAIN out = 1..Len(out)
        /\ DOMAIN Append(out, x) = 1..(Len(out) + 1)
        /\ \A i \in 1..Len(out) : Append(out, x)[i] = out[i]
        /\ Append(out, x)[Len(out) + 1] = x
    BY LenProperties, AppendProperties
  <1>2. DOMAIN Append(out, x) = DOMAIN out \cup {Len(out) + 1} /\ Len(out) + 1 \notin DOMAIN out
    BY <1>1
  <1> QED BY <1>1, <1>2 DEF ToSet

\* The union has the findings that the roster has reported.
LEMMA UnionHolds ==
  ASSUME NEW t \in Tiers, NEW as \in [ToSet(Roster(t)) -> Answers]
  PROVE  /\ Union(as, t) \in Seq(Finding)
         /\ ToSet(Union(as, t)) = {f \in Finding : \E k \in ToSet(Roster(t)) : as[k] = Report(<<f>>)}
  <1> DEFINE n == Len(Roster(t))
             Said(k) == {f \in Finding : \E j \in 1..k : as[Roster(t)[j]] = Report(<<f>>)}
  <1>2. /\ n \in Nat /\ \A k \in 1..n : Roster(t)[k] \in ToSet(Roster(t))
        /\ ToSet(Roster(t)) = {Roster(t)[i] : i \in 1..n}
    BY RosterFacts
  <1>7. Said(n) = {f \in Finding : \E k \in ToSet(Roster(t)) : as[k] = Report(<<f>>)}
    BY <1>2
  <1>8. Said(0) = {}
    OBVIOUS
  <1>9. \A k \in Nat : Said(k + 1) = Said(k) \cup {f \in Finding : as[Roster(t)[k + 1]] = Report(<<f>>)}
    <2> SUFFICES ASSUME NEW k \in Nat
                 PROVE  Said(k + 1) = Said(k) \cup {f \in Finding : as[Roster(t)[k + 1]] = Report(<<f>>)}
      OBVIOUS
    <2>1. 1..(k + 1) = 1..k \cup {k + 1}
      OBVIOUS
    <2> QED BY <2>1
  <1>10. PICK p \in [0..n -> Seq(Finding)] : UnionPath(p, as, t)
    BY UnionSteps
  <1>1. /\ p[0] = <<>> /\ Union(as, t) = p[n]
        /\ \A k \in Nat : k < n => p[k + 1] = Join(as, p[k], Roster(t)[k + 1])
    BY <1>10 DEF UnionPath
  <1> HIDE DEF n, Said
  <1> DEFINE T == {k \in Nat : k <= n => ToSet(p[k]) = Said(k)}
  <1>3. 0 \in T
    BY <1>1, <1>8 DEF ToSet
  <1>4. ASSUME NEW k \in Nat, k \in T PROVE k + 1 \in T
    <2> SUFFICES ASSUME k + 1 <= n PROVE ToSet(p[k + 1]) = Said(k + 1)
      OBVIOUS
    <2> DEFINE a == as[Roster(t)[k + 1]]
    <2>1. ToSet(p[k]) = Said(k) /\ p[k] \in Seq(Finding) /\ k + 1 \in 1..n
      BY <1>1, <1>2, <1>4
    <2>2. Said(k + 1) = Said(k) \cup {f \in Finding : a = Report(<<f>>)}
      BY <1>9
    <2>3. p[k + 1] = IF a = Failed THEN p[k] ELSE p[k] \o a[2]
      <3>1. k < n
        BY <1>2
      <3>2. p[k + 1] = Join(as, p[k], Roster(t)[k + 1])
        BY <1>1, <3>1
      <3> QED BY <3>2, Zenon DEF Join
    <2>4. a = Failed \/ a = Clean \/ \E f \in Finding : a = Report(<<f>>)
      BY <1>2, <2>1 DEF Answers
    <2> HIDE DEF a
    <2>5. CASE a = Failed
      <3>1. {f \in Finding : a = Report(<<f>>)} = {}
        BY <2>5, AnswerFacts
      <3> QED BY <2>1, <2>2, <2>3, <2>5, <3>1
    <2>6. CASE a = Clean
      <3>1. {f \in Finding : a = Report(<<f>>)} = {}
        BY <2>6, AnswerFacts
      <3>2. p[k + 1] = p[k]
        <4>1. a # Failed /\ a[2] = <<>>
          BY <2>6, AnswerFacts
        <4>2. p[k] \o <<>> = p[k]
          BY <2>1, ConcatEmptySeq, Zenon
        <4> QED BY <2>3, <4>1, <4>2, Zenon
      <3> QED BY <2>1, <2>2, <3>1, <3>2
    <2>7. ASSUME NEW f \in Finding, a = Report(<<f>>) PROVE ToSet(p[k + 1]) = Said(k + 1)
      <3>1. {g \in Finding : a = Report(<<g>>)} = {f}
        BY <2>7 DEF Report
      <3>2. p[k + 1] = Append(p[k], f)
        <4>1. a # Failed /\ a[2] = <<f>>
          BY <2>7, AnswerFacts
        <4>2. Append(p[k], f) = p[k] \o <<f>>
          BY <2>1, <2>7, AppendIsConcat
        <4> QED BY <2>3, <4>1, <4>2, Zenon
      <3>3. ToSet(Append(p[k], f)) = ToSet(p[k]) \cup {f}
        BY <2>1, <2>7, Grown
      <3> QED BY <2>1, <2>2, <3>1, <3>2, <3>3, Zenon
    <2> QED BY <2>4, <2>5, <2>6, <2>7
  <1> HIDE DEF T
  <1>5. \A k \in Nat : k \in T
    BY <1>3, <1>4, SetInduction
  <1>6. ToSet(p[n]) = Said(n)
    BY <1>2, <1>5 DEF T
  <1> QED BY <1>1, <1>2, <1>6, <1>7

\* The merged findings sum up what was raised: one for each issue, with the highest
\* severity it was raised with, and sure if it was ever raised with confidence.
Sums(out, raised) ==
    /\ \A i, j \in DOMAIN out : out[i].key = out[j].key => i = j
    /\ \A f \in raised : \E i \in DOMAIN out :
         out[i].key = f.key /\ f.severity <= out[i].severity /\ (f.sure => out[i].sure)
    /\ \A i \in DOMAIN out :
         /\ \E f \in raised : f.key = out[i].key /\ f.severity = out[i].severity
         /\ out[i].sure => \E f \in raised : f.key = out[i].key /\ f.sure

LEMMA SumsStep ==
  ASSUME NEW out \in Seq(Issues), NEW raised \in SUBSET Issues, NEW f \in Issues, Sums(out, raised)
  PROVE  Sums(AddTo(out, f), raised \cup {f})
  <1>1. DOMAIN out = 1..Len(out) /\ \A i \in DOMAIN out : out[i] \in Issues
    BY LenProperties, ElementOfSeq
  <1>2. CASE \E i \in DOMAIN out : out[i].key = f.key
    <2>1. PICK m \in DOMAIN out : out[m].key = f.key
      BY <1>2
    <2> DEFINE new == [i \in DOMAIN out |-> IF out[i].key = f.key THEN MergeFindings(out[i], f) ELSE out[i]]
    <2>2. AddTo(out, f) = new /\ DOMAIN new = DOMAIN out
      BY <1>2 DEF AddTo
    <2>3. \A i \in DOMAIN out : i # m => out[i].key # f.key /\ new[i] = out[i]
      BY <2>1 DEF Sums
    <2>4. /\ new[m].key = f.key /\ new[m].severity = Harsher(out[m].severity, f.severity)
          /\ new[m].sure = (out[m].sure \/ f.sure)
      BY <1>1, <2>1 DEF MergeFindings, Issues
    <2> HIDE DEF new
    <2>5. /\ out[m].severity <= new[m].severity /\ f.severity <= new[m].severity
          /\ new[m].severity = out[m].severity \/ new[m].severity = f.severity
      BY <1>1, <2>4 DEF Harsher, Issues
    <2>6. \A i \in DOMAIN out : new[i].key = out[i].key
      BY <2>1, <2>3, <2>4
    <2>7. ASSUME NEW g \in raised \cup {f}
          PROVE  \E i \in DOMAIN out :
                   new[i].key = g.key /\ g.severity <= new[i].severity /\ (g.sure => new[i].sure)
      <3>1. CASE g = f
        BY <2>1, <2>4, <2>5, <3>1
      <3>2. CASE g \in raised
        <4>1. PICK i \in DOMAIN out :
                out[i].key = g.key /\ g.severity <= out[i].severity /\ (g.sure => out[i].sure)
          BY <3>2 DEF Sums
        <4>2. CASE i = m
          <5>1. g.severity <= new[m].severity
            BY <1>1, <2>1, <2>4, <2>5, <3>2, <4>1, <4>2 DEF Issues, Harsher
          <5> QED BY <2>4, <2>6, <4>1, <4>2, <5>1
        <4> QED BY <2>3, <4>1, <4>2
      <3> QED BY <3>1, <3>2
    <2>8. ASSUME NEW i \in DOMAIN out
          PROVE  /\ \E g \in raised \cup {f} : g.key = new[i].key /\ g.severity = new[i].severity
                 /\ new[i].sure => \E g \in raised \cup {f} : g.key = new[i].key /\ g.sure
      <3>1. /\ \E g \in raised : g.key = out[i].key /\ g.severity = out[i].severity
            /\ out[i].sure => \E g \in raised : g.key = out[i].key /\ g.sure
        BY DEF Sums
      <3>2. CASE i = m
        BY <2>1, <2>4, <2>5, <3>1, <3>2
      <3> QED BY <2>3, <3>1, <3>2
    <2>9. \A i, j \in DOMAIN out : new[i].key = new[j].key => i = j
      BY <2>6 DEF Sums
    <2>10. Sums(new, raised \cup {f})
      BY <2>2, <2>7, <2>8, <2>9, Zenon DEF Sums
    <2> QED BY <2>2, <2>10
  <1>3. CASE ~\E i \in DOMAIN out : out[i].key = f.key
    <2> DEFINE new == Append(out, f)
               m == Len(out) + 1
    <2>1. /\ AddTo(out, f) = new /\ DOMAIN new = DOMAIN out \cup {m} /\ new[m] = f
          /\ \A i \in DOMAIN out : new[i] = out[i] /\ out[i].key # f.key
      BY <1>3, Grown DEF AddTo
    <2> HIDE DEF new, m
    <2>2. f.severity <= f.severity
      BY DEF Issues
    <2>3. \A i, j \in DOMAIN new : new[i].key = new[j].key => i = j
      BY <2>1 DEF Sums
    <2>4. ASSUME NEW g \in raised \cup {f}
          PROVE  \E i \in DOMAIN new :
                   new[i].key = g.key /\ g.severity <= new[i].severity /\ (g.sure => new[i].sure)
      <3>1. CASE g = f
        BY <2>1, <2>2, <3>1
      <3>2. CASE g \in raised
        BY <2>1, <3>2 DEF Sums
      <3> QED BY <3>1, <3>2
    <2>5. ASSUME NEW i \in DOMAIN new
          PROVE  /\ \E g \in raised \cup {f} : g.key = new[i].key /\ g.severity = new[i].severity
                 /\ new[i].sure => \E g \in raised \cup {f} : g.key = new[i].key /\ g.sure
      BY <2>1 DEF Sums
    <2>6. Sums(new, raised \cup {f})
      BY <2>3, <2>4, <2>5, Zenon DEF Sums
    <2> QED BY <2>1, <2>6
  <1> QED BY <1>2, <1>3

LEMMA DedupHolds ==
  ASSUME NEW fs \in Seq(Issues)
  PROVE  Dedup(fs) \in Seq(Issues) /\ Sums(Dedup(fs), ToSet(fs))
  <1> DEFINE n == Len(fs)
             Taken(k) == {fs[j] : j \in 1..k}
  <1>2. n \in Nat /\ DOMAIN fs = 1..n /\ \A i \in 1..n : fs[i] \in Issues
    BY LenProperties, ElementOfSeq
  <1>7. PICK p \in [0..n -> Seq(Issues)] : DedupPath(p, fs)
    BY DedupSteps
  <1>1. /\ p[0] = <<>> /\ Dedup(fs) = p[n]
        /\ \A k \in Nat : k < n => p[k + 1] = AddTo(p[k], fs[k + 1])
    BY <1>7 DEF DedupPath
  <1> HIDE DEF n
  <1> DEFINE T == {k \in Nat : k <= n => Sums(p[k], Taken(k))}
  <1>3. 0 \in T
    BY <1>1 DEF Sums
  <1>4. ASSUME NEW k \in Nat, k \in T PROVE k + 1 \in T
    <2> SUFFICES ASSUME k + 1 <= n PROVE Sums(p[k + 1], Taken(k + 1))
      OBVIOUS
    <2>1. k < n /\ k \in 0..n /\ k + 1 \in 1..n /\ \A j \in 1..k : j \in 1..n
      BY <1>2
    <2>2. Sums(p[k], Taken(k))
      BY <1>4, <2>1
    <2>3. p[k] \in Seq(Issues) /\ fs[k + 1] \in Issues /\ p[k + 1] = AddTo(p[k], fs[k + 1])
      BY <1>1, <1>2, <2>1
    <2>4. Taken(k) \in SUBSET Issues
      BY <1>2, <2>1
    <2>5. 1..(k + 1) = 1..k \cup {k + 1}
      OBVIOUS
    <2>6. Taken(k + 1) = Taken(k) \cup {fs[k + 1]}
      BY <2>5
    <2> HIDE DEF Taken
    <2>7. Sums(AddTo(p[k], fs[k + 1]), Taken(k) \cup {fs[k + 1]})
      BY <2>2, <2>3, <2>4, SumsStep, Zenon
    <2> QED BY <2>3, <2>6, <2>7
  <1> HIDE DEF T
  <1>5. \A k \in Nat : k \in T
    BY <1>3, <1>4, SetInduction
  <1>6. Sums(p[n], Taken(n))
    <2>1. n \in T /\ n <= n
      BY <1>2, <1>5
    <2> HIDE DEF Taken
    <2> QED BY <2>1 DEF T
  <1>8. Taken(n) = ToSet(fs)
    BY <1>2 DEF ToSet
  <1>9. p[n] \in Seq(Issues)
    BY <1>2
  <1> QED BY <1>1, <1>6, <1>8, <1>9, Zenon

\* What the verifier makes of a merged finding: dropped it does not block, kept
\* it blocks exactly if it did before and was sure or not softened.
BlocksAfter(v, f) == Blocking(f) /\ (f.sure \/ v[f.key] = [keep |-> TRUE, severity |-> 4])

LEMMA ConsiderHolds ==
  ASSUME NEW v \in Verifiers, NEW out \in Seq(Issues), NEW f \in Issues
  PROVE  \/ Consider(v, out, f) = out /\ ~BlocksAfter(v, f)
         \/ \E g \in Issues : /\ Consider(v, out, f) = Append(out, g) /\ g.key = f.key
                              /\ Blocking(g) <=> BlocksAfter(v, f)
  <1> DEFINE w == v[f.key]
             g == [f EXCEPT !.severity = Milder(@, w.severity)]
  <1>1. w \in [keep : BOOLEAN, severity : 0..4]
    BY VerifierType DEF Issues
  <1>2. w = [keep |-> TRUE, severity |-> 4] <=> w.keep /\ w.severity = 4
    <2> HIDE DEF w
    <2>1. w = [keep |-> w.keep, severity |-> w.severity] /\ w.keep \in BOOLEAN
      BY <1>1
    <2>2. CASE w.keep /\ w.severity = 4
      <3>1. w.keep = TRUE
        BY <2>1, <2>2
      <3> QED BY <2>1, <2>2, <3>1
    <2>3. CASE w = [keep |-> TRUE, severity |-> 4]
      BY <2>3
    <2> QED BY <2>2, <2>3
  <1>3. /\ g \in Issues /\ g.key = f.key /\ g.sure = f.sure
        /\ g.severity = 4 <=> f.severity = 4 /\ w.severity = 4
    BY <1>1 DEF Issues, Milder
  <1>4. CASE f.sure
    BY <1>4 DEF Consider, BlocksAfter
  <1>5. CASE ~f.sure /\ ~w.keep
    BY <1>2, <1>5 DEF Consider, BlocksAfter
  <1>6. CASE ~f.sure /\ w.keep
    <2>1. Consider(v, out, f) = Append(out, g)
      BY <1>6 DEF Consider
    <2> HIDE DEF g
    <2>2. Blocking(g) <=> BlocksAfter(v, f)
      BY <1>2, <1>3, <1>6 DEF BlocksAfter, Blocking
    <2> QED BY <1>3, <2>1, <2>2
  <1>7. f.sure \in BOOLEAN
    BY DEF Issues
  <1> QED BY <1>4, <1>5, <1>6, <1>7

DistinctKeys(fs) == \A i, j \in DOMAIN fs : fs[i].key = fs[j].key => i = j

Judges(out, ds, v, k) ==
    /\ DistinctKeys(out)
    /\ \A i \in DOMAIN out : \E j \in 1..k : ds[j].key = out[i].key
    /\ (\E i \in DOMAIN out : Blocking(out[i])) <=> \E j \in 1..k : BlocksAfter(v, ds[j])

LEMMA JudgesStep ==
  ASSUME NEW ds \in Seq(Issues), DistinctKeys(ds), NEW v \in Verifiers,
         NEW k \in Nat, k + 1 \in DOMAIN ds, NEW out \in Seq(Issues), Judges(out, ds, v, k)
  PROVE  Judges(Consider(v, out, ds[k + 1]), ds, v, k + 1)
  <1> DEFINE f == ds[k + 1]
             m == Len(out) + 1
  <1>1. DOMAIN ds = 1..Len(ds) /\ Len(ds) \in Nat /\ f \in Issues
    BY LenProperties, ElementOfSeq
  <1>2. 1..(k + 1) = 1..k \cup {k + 1} /\ \A j \in 1..k : j \in DOMAIN ds /\ j # k + 1
    BY <1>1
  <1>3. \A j \in 1..k : ds[j].key # f.key
    BY <1>2 DEF DistinctKeys
  <1> HIDE DEF f
  <1>4. ASSUME Consider(v, out, f) = out, ~BlocksAfter(v, f)
        PROVE  Judges(Consider(v, out, f), ds, v, k + 1)
    <2>1. \A i \in DOMAIN out : \E j \in 1..(k + 1) : ds[j].key = out[i].key
      BY <1>2 DEF Judges
    <2>2. (\E i \in DOMAIN out : Blocking(out[i])) <=> \E j \in 1..(k + 1) : BlocksAfter(v, ds[j])
      BY <1>2, <1>4 DEF Judges, f
    <2>4. DistinctKeys(out)
      BY DEF Judges
    <2>3. Judges(out, ds, v, k + 1)
      BY <2>1, <2>2, <2>4, Zenon DEF Judges
    <2> QED BY <1>4, <2>3
  <1>5. ASSUME NEW g \in Issues, Consider(v, out, f) = Append(out, g), g.key = f.key,
               Blocking(g) <=> BlocksAfter(v, f)
        PROVE  Judges(Consider(v, out, f), ds, v, k + 1)
    <2> DEFINE new == Append(out, g)
    <2>1. /\ DOMAIN new = DOMAIN out \cup {m} /\ m \notin DOMAIN out /\ new[m] = g
          /\ \A i \in DOMAIN out : new[i] = out[i]
      BY Grown
    <2> HIDE DEF new, m
    <2>2. \A i \in DOMAIN out : out[i].key # f.key
      BY <1>3 DEF Judges
    <2>3. DistinctKeys(new)
      BY <1>5, <2>1, <2>2 DEF Judges, DistinctKeys
    <2>4. \A i \in DOMAIN new : \E j \in 1..(k + 1) : ds[j].key = new[i].key
      BY <1>2, <1>5, <2>1 DEF Judges, f
    <2>5. (\E i \in DOMAIN new : Blocking(new[i])) <=> \E j \in 1..(k + 1) : BlocksAfter(v, ds[j])
      BY <1>2, <1>5, <2>1 DEF Judges, f
    <2>6. Judges(new, ds, v, k + 1)
      BY <2>3, <2>4, <2>5, Zenon DEF Judges
    <2> QED BY <1>5, <2>6 DEF new
  <1>6. \/ Consider(v, out, f) = out /\ ~BlocksAfter(v, f)
        \/ \E g \in Issues : /\ Consider(v, out, f) = Append(out, g) /\ g.key = f.key
                             /\ Blocking(g) <=> BlocksAfter(v, f)
    BY <1>1, ConsiderHolds, Zenon
  <1>7. Judges(Consider(v, out, f), ds, v, k + 1)
    BY <1>4, <1>5, <1>6, Zenon
  <1> QED BY <1>7 DEF f

LEMMA VerifyHolds ==
  ASSUME NEW ds \in Seq(Issues), DistinctKeys(ds), NEW v \in Verifiers
  PROVE  /\ DistinctKeys(VerifyLowConfidence(ds, v))
         /\ (\E i \in DOMAIN VerifyLowConfidence(ds, v) : Blocking(VerifyLowConfidence(ds, v)[i]))
              <=> \E j \in DOMAIN ds : BlocksAfter(v, ds[j])
  <1> DEFINE n == Len(ds)
  <1>2. n \in Nat /\ DOMAIN ds = 1..n
    BY LenProperties
  <1>7. PICK p \in [0..n -> Seq(Issues)] : VerifyPath(p, v, ds)
    BY VerifySteps
  <1>1. /\ p[0] = <<>> /\ VerifyLowConfidence(ds, v) = p[n]
        /\ \A k \in Nat : k < n => p[k + 1] = Consider(v, p[k], ds[k + 1])
    BY <1>7 DEF VerifyPath
  <1> HIDE DEF n
  <1> DEFINE T == {k \in Nat : k <= n => Judges(p[k], ds, v, k)}
  <1>3. 0 \in T
    BY <1>1 DEF Judges, DistinctKeys
  <1>4. ASSUME NEW k \in Nat, k \in T PROVE k + 1 \in T
    <2> SUFFICES ASSUME k + 1 <= n PROVE Judges(p[k + 1], ds, v, k + 1)
      OBVIOUS
    <2>1. /\ Judges(p[k], ds, v, k) /\ p[k] \in Seq(Issues) /\ k + 1 \in DOMAIN ds
          /\ p[k + 1] = Consider(v, p[k], ds[k + 1])
      BY <1>1, <1>2, <1>4
    <2>2. Judges(Consider(v, p[k], ds[k + 1]), ds, v, k + 1)
      BY <2>1, JudgesStep, Zenon
    <2> QED BY <2>1, <2>2
  <1> HIDE DEF T
  <1>5. \A k \in Nat : k \in T
    BY <1>3, <1>4, SetInduction
  <1>6. Judges(p[n], ds, v, n)
    BY <1>2, <1>5 DEF T
  <1> QED BY <1>1, <1>2, <1>6 DEF Judges

----------------------------------------------------------------------------
(* The verdict, from the answers *)

Of(raised, key) == {f \in raised : f.key = key}

IsSure(issue) == \E f \in issue : f.sure
Blocks(issue) == \E f \in issue : f.severity = 4 \/ (f.severity = 3 /\ IsSure(issue))

LEMMA SumsBlock ==
  ASSUME NEW raised \in SUBSET Issues, NEW ds \in Seq(Issues), Sums(ds, raised), NEW i \in DOMAIN ds
  PROVE  /\ ds[i].sure <=> IsSure(Of(raised, ds[i].key))
         /\ Blocking(ds[i]) <=> Blocks(Of(raised, ds[i].key))
  <1> DEFINE d == ds[i]
             issue == Of(raised, d.key)
  <1>1. d \in Issues /\ issue \in SUBSET Issues
    BY ElementOfSeq, LenProperties DEF Of
  <1>2. \A f \in issue : f.severity <= d.severity /\ (f.sure => d.sure)
    <2> SUFFICES ASSUME NEW f \in issue PROVE f.severity <= d.severity /\ (f.sure => d.sure)
      OBVIOUS
    <2>1. f \in raised /\ f.key = d.key
      BY DEF Of
    <2>2. PICK j \in DOMAIN ds : ds[j].key = f.key /\ f.severity <= ds[j].severity /\ (f.sure => ds[j].sure)
      BY <2>1 DEF Sums
    <2>3. j = i
      BY <2>1, <2>2 DEF Sums
    <2> QED BY <2>2, <2>3
  <1>3. (\E f \in issue : f.severity = d.severity) /\ (d.sure => \E f \in issue : f.sure)
    BY DEF Sums, Of
  <1> HIDE DEF d, issue
  <1>4. d.sure <=> IsSure(issue)
    BY <1>1, <1>2, <1>3 DEF IsSure, Issues
  <1>5. Blocking(d) <=> Blocks(issue)
    <2>1. ASSUME Blocking(d) PROVE Blocks(issue)
      BY <1>3, <1>4, <2>1 DEF Blocking, Blocks
    <2>2. ASSUME NEW f \in issue, f.severity = 4 \/ (f.severity = 3 /\ IsSure(issue)) PROVE Blocking(d)
      <3>1. d.severity \in 0..4 /\ f.severity <= d.severity
        BY <1>1, <1>2 DEF Issues
      <3> QED BY <1>4, <2>2, <3>1 DEF Blocking
    <2> QED BY <2>1, <2>2 DEF Blocks
  <1> QED BY <1>4, <1>5 DEF d, issue

\* What coordinate is left with, and what was raised about an issue.
Left(as, t, v) ==
    IF t = "trivial" \/ v = NoVerifier THEN Dedup(Union(as, t))
    ELSE VerifyLowConfidence(Dedup(Union(as, t)), v)

Known(as, t) == {f \in Finding : \E k \in ToSet(Roster(t)) : as[k] = Report(<<f>>)}

Rubric(issue, key, t, v) ==
    /\ Blocks(issue)
    /\ t # "trivial" /\ ~IsSure(issue) /\ v # NoVerifier => v[key] = [keep |-> TRUE, severity |-> 4]

LEMMA RubricDecides ==
  ASSUME NEW t \in Tiers, NEW as \in [ToSet(Roster(t)) -> Answers], NEW v \in Verifiers \cup {NoVerifier}
  PROVE  /\ DistinctKeys(Left(as, t, v))
         /\ (\E i \in DOMAIN Left(as, t, v) : Blocking(Left(as, t, v)[i]))
              <=> \E key \in IssueKeys : Rubric(Of(Known(as, t), key), key, t, v)
  <1> DEFINE ds == Dedup(Union(as, t))
             raised == Known(as, t)
  <1>1. Union(as, t) \in Seq(Finding) /\ ToSet(Union(as, t)) = raised
    BY UnionHolds DEF Known
  <1>2. Union(as, t) \in Seq(Issues) /\ raised \in SUBSET Issues
    <2>1. Union(as, t) \in Seq(Issues)
      BY <1>1, FindingsAreIssues, SeqMonotonic
    <2> QED BY <2>1, FindingsAreIssues DEF Known
  <1>3. ds \in Seq(Issues) /\ Sums(ds, raised)
    BY <1>1, <1>2, DedupHolds
  <1>4. \A f \in raised : f \in Finding
    BY DEF Known
  <1> HIDE DEF ds, raised
  <1>5. DistinctKeys(ds)
    BY <1>3 DEF Sums, DistinctKeys
  <1> DEFINE Stands(d) == t # "trivial" /\ ~d.sure /\ v # NoVerifier
                             => v[d.key] = [keep |-> TRUE, severity |-> 4]
  <1>6. \A i \in DOMAIN ds :
          Blocking(ds[i]) /\ Stands(ds[i]) <=> Rubric(Of(raised, ds[i].key), ds[i].key, t, v)
    <2> SUFFICES ASSUME NEW i \in DOMAIN ds
                 PROVE  Blocking(ds[i]) /\ Stands(ds[i]) <=> Rubric(Of(raised, ds[i].key), ds[i].key, t, v)
      OBVIOUS
    <2>1. /\ ds[i].sure <=> IsSure(Of(raised, ds[i].key))
          /\ Blocking(ds[i]) <=> Blocks(Of(raised, ds[i].key))
      BY <1>2, <1>3, SumsBlock
    <2> QED BY <2>1, Zenon DEF Rubric
  <1>7. (\E i \in DOMAIN ds : Blocking(ds[i]) /\ Stands(ds[i]))
          <=> \E key \in IssueKeys : Rubric(Of(raised, key), key, t, v)
    <2>1. ASSUME NEW i \in DOMAIN ds, Blocking(ds[i]) /\ Stands(ds[i])
          PROVE  \E key \in IssueKeys : Rubric(Of(raised, key), key, t, v)
      <3>1. ds[i].key \in IssueKeys
        <4>1. ds[i] \in Issues
          BY <1>3, ElementOfSeq, LenProperties
        <4> QED BY <4>1 DEF Issues
      <3>2. Rubric(Of(raised, ds[i].key), ds[i].key, t, v)
        BY <1>6, <2>1
      <3> QED BY <3>1, <3>2, Zenon
    <2>2. ASSUME NEW key \in IssueKeys, Rubric(Of(raised, key), key, t, v)
          PROVE  \E i \in DOMAIN ds : Blocking(ds[i]) /\ Stands(ds[i])
      <3>1. PICK f \in raised : f.key = key
        BY <2>2 DEF Rubric, Blocks, Of
      <3>2. PICK i \in DOMAIN ds : ds[i].key = key
        BY <1>3, <3>1 DEF Sums
      <3>3. Rubric(Of(raised, ds[i].key), ds[i].key, t, v)
        BY <2>2, <3>2
      <3> QED BY <1>6, <3>3, Zenon
    <2> QED BY <2>1, <2>2
  <1>8. CASE t = "trivial" \/ v = NoVerifier
    <2>1. Left(as, t, v) = ds
      BY <1>8 DEF Left, ds
    <2>2. \A d : Stands(d)
      BY <1>8
    <2> HIDE DEF Stands
    <2>3. (\E i \in DOMAIN ds : Blocking(ds[i]))
            <=> \E key \in IssueKeys : Rubric(Of(raised, key), key, t, v)
      BY <1>7, <2>2, Zenon
    <2> QED BY <1>5, <2>1, <2>3, Zenon DEF raised
  <1>9. CASE t # "trivial" /\ v # NoVerifier
    <2>1. Left(as, t, v) = VerifyLowConfidence(ds, v) /\ v \in Verifiers
      BY <1>9 DEF Left, ds
    <2>2. /\ DistinctKeys(VerifyLowConfidence(ds, v))
          /\ (\E i \in DOMAIN VerifyLowConfidence(ds, v) : Blocking(VerifyLowConfidence(ds, v)[i]))
               <=> \E j \in DOMAIN ds : BlocksAfter(v, ds[j])
      BY <1>3, <1>5, <2>1, VerifyHolds
    <2>3. \A d : BlocksAfter(v, d) <=> Blocking(d) /\ Stands(d)
      BY <1>9, Zenon DEF BlocksAfter
    <2> HIDE DEF Stands
    <2>4. (\E j \in DOMAIN ds : BlocksAfter(v, ds[j]))
            <=> \E key \in IssueKeys : Rubric(Of(raised, key), key, t, v)
      BY <1>7, <2>3, Zenon
    <2> QED BY <2>1, <2>2, <2>4, Zenon DEF raised
  <1> QED BY <1>8, <1>9

----------------------------------------------------------------------------
(* The round *)

\* The tier follows from the diff; the finders that answer are the tier's; what
\* has been decided was decided with all their answers.
Decided(v) ==
    /\ v \in Verifiers \cup {NoVerifier} /\ DOMAIN answers = ToSet(Roster(tier))
    /\ outcome = [verdict |-> IF AllFailed THEN "block" ELSE DecideVerdict(Left(answers, tier, v)),
                  findings |-> Left(answers, tier, v), verifier |-> v]

RoundInv ==
    /\ reviewed \in Diffs
    /\ \/ tier = "none" /\ outcome = NoOutcome
       \/ tier = RiskTier(reviewed) /\ tier \in Tiers
    /\ answers \in [DOMAIN answers -> Answers]
    /\ outcome = NoOutcome \/ \E v : Decided(v)

LEMMA DiffFacts ==
  ASSUME NEW d \in Diffs
  PROVE  /\ RiskTier(d) \in Tiers /\ TierRank(RiskTier(d)) >= TierRank(d.declared)
         /\ d.security => RiskTier(d) = "full"
  <1>1. d.declared \in Tiers
    BY ReviewPolicyAssumption
  <1>2. /\ TierRank("trivial") = 0 /\ TierRank("lite") = 1 /\ TierRank("full") = 2
        /\ \A t \in Tiers : t = "trivial" \/ t = "lite" \/ t = "full"
    BY DEF TierRank, Tiers
  <1> DEFINE size == IF d.security \/ d.lines > 200 THEN "full"
                     ELSE IF d.lines <= 10 /\ d.files <= 2 THEN "trivial" ELSE "lite"
  <1>3. size \in Tiers /\ (d.security => size = "full")
    BY DEF Tiers
  <1>4. RiskTier(d) = IF TierRank(d.declared) > TierRank(size) THEN d.declared ELSE size
    BY DEF RiskTier
  <1> HIDE DEF size
  <1> QED BY <1>1, <1>2, <1>3, <1>4

LEMMA SixFinders == Cardinality(ToSet(Roster("full"))) = 6
  <1> DEFINE one == {"security"}
             two == one \cup {"correctness"}
             three == two \cup {"performance"}
             four == three \cup {"quality"}
             five == four \cup {"docs"}
             six == five \cup {"agents_md"}
  <1>1. ToSet(Roster("full")) = six
    BY DEF Roster, ToSet
  <1>2. IsFiniteSet(one) /\ Cardinality(one) = 1
    BY FS_Singleton
  <1>3. "correctness" \notin one
    OBVIOUS
  <1>4. "performance" \notin two
    OBVIOUS
  <1>5. "quality" \notin three
    OBVIOUS
  <1>6. "docs" \notin four
    OBVIOUS
  <1>7. "agents_md" \notin five
    OBVIOUS
  <1> HIDE DEF one
  <1>8. IsFiniteSet(two) /\ Cardinality(two) = 2
    BY <1>2, <1>3, FS_AddElement
  <1> HIDE DEF two
  <1>9. IsFiniteSet(three) /\ Cardinality(three) = 3
    BY <1>4, <1>8, FS_AddElement
  <1> HIDE DEF three
  <1>10. IsFiniteSet(four) /\ Cardinality(four) = 4
    BY <1>5, <1>9, FS_AddElement
  <1> HIDE DEF four
  <1>11. IsFiniteSet(five) /\ Cardinality(five) = 5
    BY <1>6, <1>10, FS_AddElement
  <1> HIDE DEF five
  <1>12. Cardinality(six) = 6
    BY <1>7, <1>11, FS_AddElement
  <1> QED BY <1>1, <1>12

LEMMA RoundInit == ReviewPolicyInit => RoundInv
  <1> SUFFICES ASSUME ReviewPolicyInit PROVE RoundInv
    OBVIOUS
  <1>1. answers \in [DOMAIN answers -> Answers]
    <2>1. <<>> \in Seq(Answers)
      BY EmptySeq
    <2>2. <<>> \in [1..Len(<<>>) -> Answers]
      BY <2>1, LenProperties
    <2> QED BY <2>2 DEF ReviewPolicyInit
  <1> QED BY <1>1 DEF ReviewPolicyInit, RoundInv

LEMMA PolicyStep == RoundInv /\ [ReviewPolicyNext]_reviewPolicyVars => RoundInv'
  <1> SUFFICES ASSUME RoundInv, [ReviewPolicyNext]_reviewPolicyVars PROVE RoundInv'
    OBVIOUS
  <1>1. CASE Classify
    <2>1. outcome = NoOutcome /\ tier' = RiskTier(reviewed) /\ tier' \in Tiers
      BY <1>1, DiffFacts DEF RoundInv, Classify, Tiers
    <2> QED BY <1>1, <2>1 DEF RoundInv, Classify
  <1>2. ASSUME NEW k, NEW a \in Answers, FinderAnswers(k, a) PROVE RoundInv'
    <2>1. /\ answers' = [j \in DOMAIN answers \cup {k} |-> IF j = k THEN a ELSE answers[j]]
          /\ outcome = NoOutcome /\ UNCHANGED <<reviewed, tier, outcome>>
      BY <1>2 DEF FinderAnswers
    <2>2. answers' \in [DOMAIN answers' -> Answers]
      BY <2>1 DEF RoundInv
    <2>3. NoOutcome' = NoOutcome
      BY DEF NoOutcome
    <2> QED BY <2>1, <2>2, <2>3 DEF RoundInv
  <1>3. ASSUME NEW v \in Verifiers \cup {NoVerifier}, Coordinate(v) PROVE RoundInv'
    <2>1. /\ UNCHANGED <<reviewed, tier, answers>> /\ DOMAIN answers = ToSet(Roster(tier)) /\ tier # "none"
          /\ outcome' = [verdict |-> IF AllFailed THEN "block" ELSE DecideVerdict(Left(answers, tier, v)),
                         findings |-> Left(answers, tier, v), verifier |-> v]
      BY <1>3 DEF Coordinate, Left
    <2>2. Decided(v)'
      BY <2>1 DEF Decided, AllFailed
    <2> QED BY <2>1, <2>2 DEF RoundInv
  <1>4. CASE UNCHANGED reviewPolicyVars
    <2>1. \A v : Decided(v)' <=> Decided(v)
      BY <1>4 DEF reviewPolicyVars, Decided, AllFailed
    <2> QED BY <1>4, <2>1 DEF reviewPolicyVars, RoundInv
  <1> QED BY <1>1, <1>2, <1>3, <1>4 DEF ReviewPolicyNext, Answers

\* What was raised is what the answers say.
LEMMA RaisedIsKnown ==
  ASSUME RoundInv, DOMAIN answers = ToSet(Roster(tier)), NEW key
  PROVE  Raised(key) = Of(Known(answers, tier), key)
  <1>1. \A k \in DOMAIN answers : answers[k] \in Answers
    BY DEF RoundInv
  <1>2. ASSUME NEW f \in Raised(key) PROVE f \in Of(Known(answers, tier), key)
    <2>1. PICK k \in DOMAIN answers :
            answers[k] # Clean /\ answers[k] # Failed /\ answers[k][2][1].key = key /\ f = answers[k][2][1]
      BY <1>2 DEF Raised, Reports
    <2>2. PICK g \in Finding : answers[k] = Report(<<g>>)
      BY <1>1, <2>1 DEF Answers
    <2>3. answers[k][2] = <<g>>
      BY <2>2, AnswerFacts
    <2>4. f = g /\ f.key = key
      BY <2>1, <2>3
    <2> QED BY <2>2, <2>4 DEF Of, Known
  <1>3. ASSUME NEW f \in Of(Known(answers, tier), key) PROVE f \in Raised(key)
    <2>1. f \in Finding /\ f.key = key
      BY <1>3 DEF Of, Known
    <2>2. PICK k \in DOMAIN answers : answers[k] = Report(<<f>>)
      BY <1>3 DEF Of, Known
    <2>3. answers[k] # Clean /\ answers[k] # Failed /\ answers[k][2] = <<f>>
      BY <2>1, <2>2, AnswerFacts
    <2>4. answers[k][2][1] = f
      BY <2>3
    <2> QED BY <2>1, <2>3, <2>4 DEF Raised, Reports
  <1> QED BY <1>2, <1>3

LEMMA DecidedHolds ==
  ASSUME RoundInv, NEW v, Decided(v)
  PROVE  VerdictIsTheRubric /\ ReviewPolicyTypeOK
  <1>1. /\ v \in Verifiers \cup {NoVerifier} /\ DOMAIN answers = ToSet(Roster(tier))
        /\ outcome.verdict = (IF AllFailed THEN "block" ELSE DecideVerdict(Left(answers, tier, v)))
        /\ outcome.findings = Left(answers, tier, v) /\ outcome.verifier = v
    BY DEF Decided
  <1>2. outcome # NoOutcome
    BY <1>1 DEF NoOutcome, DecideVerdict
  <1>3. tier = RiskTier(reviewed) /\ tier \in Tiers /\ reviewed \in Diffs
    BY <1>2 DEF RoundInv
  <1>4. answers \in [ToSet(Roster(tier)) -> Answers]
    BY <1>1 DEF RoundInv
  <1>5. /\ DistinctKeys(Left(answers, tier, v))
        /\ (\E i \in DOMAIN Left(answers, tier, v) : Blocking(Left(answers, tier, v)[i]))
             <=> \E key \in IssueKeys : Rubric(Of(Known(answers, tier), key), key, tier, v)
    BY <1>1, <1>3, <1>4, RubricDecides
  <1>6. reviewed.security => Cardinality(DOMAIN answers) = 6
    BY <1>1, <1>3, DiffFacts, SixFinders
  <1>7. TierRank(tier) >= TierRank(reviewed.declared)
    BY <1>3, DiffFacts
  <1>8. \A key \in IssueKeys : Rubric(Raised(key), key, tier, v) <=>
          LET sure == \E f \in Raised(key) : f.sure
              asked == tier # "trivial" /\ ~sure /\ v # NoVerifier
          IN \E f \in Raised(key) :
               /\ f.severity = 4 \/ (f.severity = 3 /\ sure)
               /\ asked => v[key] = [keep |-> TRUE, severity |-> 4]
    BY Zenon DEF Rubric, Blocks, IsSure
  <1>9. outcome.verdict = "block" <=> AllFailed \/ \E key \in IssueKeys : Rubric(Raised(key), key, tier, v)
    <2>1. \A key : Raised(key) = Of(Known(answers, tier), key)
      BY <1>1, RaisedIsKnown
    <2>2. (\E i \in DOMAIN Left(answers, tier, v) : Blocking(Left(answers, tier, v)[i]))
            <=> \E key \in IssueKeys : Rubric(Raised(key), key, tier, v)
      BY <1>5, <2>1
    <2>3. DecideVerdict(Left(answers, tier, v)) = "block"
            <=> \E i \in DOMAIN Left(answers, tier, v) : Blocking(Left(answers, tier, v)[i])
      BY DEF DecideVerdict
    <2> QED BY <1>1, <2>2, <2>3
  <1>10. VerdictIsTheRubric
    BY <1>1, <1>6, <1>7, <1>8, <1>9 DEF VerdictIsTheRubric, AllFailed, IssueKeys
  <1>11. ReviewPolicyTypeOK
    BY <1>1, <1>3, <1>5 DEF ReviewPolicyTypeOK, DistinctKeys, DecideVerdict
  <1> QED BY <1>10, <1>11

LEMMA RoundImplies == RoundInv => VerdictIsTheRubric /\ ReviewPolicyTypeOK
  <1> SUFFICES ASSUME RoundInv PROVE VerdictIsTheRubric /\ ReviewPolicyTypeOK
    OBVIOUS
  <1>1. CASE outcome = NoOutcome
    BY <1>1 DEF RoundInv, VerdictIsTheRubric, ReviewPolicyTypeOK, NoOutcome, Tiers
  <1>2. CASE \E v : Decided(v)
    BY <1>2, DecidedHolds
  <1> QED BY <1>1, <1>2 DEF RoundInv

THEOREM VerdictHolds == ReviewPolicySpec => []VerdictIsTheRubric
  <1>1. ReviewPolicySpec => []RoundInv
    BY RoundInit, PolicyStep, PTL DEF ReviewPolicySpec
  <1> QED BY <1>1, RoundImplies, PTL

THEOREM ReviewPolicyTypeCorrect == ReviewPolicySpec => []ReviewPolicyTypeOK
  <1>1. ReviewPolicySpec => []RoundInv
    BY RoundInit, PolicyStep, PTL DEF ReviewPolicySpec
  <1> QED BY <1>1, RoundImplies, PTL

----------------------------------------------------------------------------
(* The services side by side (MCServices) *)

\* A step of one service is a step of that service and a stutter of the others.
LEMMA OneServiceSteps ==
    ASSUME [ServicesNext]_servicesVars
    PROVE  /\ [ReviewMergeNext]_reviewMergeVars
           /\ [CapacityNext]_capacityVars
           /\ [WorktreeLockNext]_worktreeLockVars
           /\ [ExperimentNext]_experimentVars
           /\ [TriggersNext]_triggersVars
           /\ [ReviewPolicyNext]_reviewPolicyVars
  BY DEF ServicesNext, servicesVars, Review, Provider, Worktree, Experiments, Scheduling, Policy

\* The behaviours that the run `services` checks are behaviours of every service:
\* side by side, none of them can do what its own module does not let it do, so
\* what is proved of each of them holds of the composition.
THEOREM ServicesKeepTheirSpecs ==
    ServicesSpec => /\ ReviewMergeSpec /\ CapacitySpec /\ WorktreeLockSpec
                    /\ ExperimentSpec /\ TriggersSpec /\ ReviewPolicySpec
  <1>1. ServicesInit => /\ ReviewMergeInit /\ CapacityInit /\ WorktreeLockInit
                        /\ ExperimentInit /\ TriggersInit /\ ReviewPolicyInit
    BY DEF ServicesInit
  <1> QED
    BY <1>1, OneServiceSteps, PTL
    DEF ServicesSpec, ReviewMergeSpec, CapacitySpec, WorktreeLockSpec, ExperimentSpec, TriggersSpec,
        ReviewPolicySpec

\* Whichever service moves, the state of all of them keeps its shapes.
THEOREM ServicesTypeCorrect == ServicesSpec => []ServicesTypeOK
  <1>1. /\ ReviewMergeTypeOK /\ CapacityTypeOK /\ WorktreeLockTypeOK
        /\ ExperimentTypeOK /\ TriggersTypeOK /\ ReviewPolicyTypeOK
        => ServicesTypeOK
    BY DEF ServicesTypeOK
  <1> QED
    BY <1>1, ServicesKeepTheirSpecs, ReviewMergeTypeCorrect, CapacityTypeCorrect, LockTypeCorrect,
       ExperimentTypeCorrect, TriggersTypeCorrect, ReviewPolicyTypeCorrect, PTL

============================================================================
