------------------------------ MODULE Triggers ------------------------------
(***************************************************************************)
(* Triggers and their scheduler (src/triggers/triggers.ts, cron.ts,        *)
(* webhook.ts, chat.ts).  fireTrigger reads the gates, then makes a task   *)
(* in three links of the writer chain: the task, its routine, and the      *)
(* trigger's last_fired_at with the trigger.fired event the gates look at. *)
(* The chain serves the pending links in order of arrival.                 *)
(***************************************************************************)
EXTENDS Naturals, Sequences, FiniteSets

CONSTANTS
    Trigger,        \* triggers of project-scoped routines, all enabled
    CronTrigger,    \* those of kind cron, on one schedule
    CronMinutes,    \* the minutes that match it
    DryRun,         \* those with dry_run_default
    NoKey,          \* a fire without a delivery or update id
    Deliveries,     \* <<trigger, key, source>> that may come, any number of times
    DedupeWindow,   \* authz_json, in minutes
    RateLimit,      \*   and the fires it allows in RateWindow minutes
    RateWindow,
    MaxClock, MaxFires, MaxFailures   \* bounds

ASSUME TriggersAssumption ==
    /\ CronTrigger \subseteq Trigger /\ DryRun \subseteq Trigger
    /\ CronMinutes \subseteq Nat \ {0}
    /\ \A d \in Deliveries : d[1] \in Trigger /\ d[3] \in {"manual", "external"}
    /\ {DedupeWindow, RateLimit, RateWindow, MaxClock, MaxFires, MaxFailures} \subseteq Nat
    /\ MaxClock # 0

VARIABLES
    clock,      \* minutes since the server's first start
    exists,     \* triggers that have a row
    lastFired,  \* triggers.last_fired_at, 0 for null
    fired,      \* trigger.fired events, by fire: when they were emitted
    fires,      \* accepted fires, in order: what each was called with
    chain,      \* links at the writer: a fire, or a trigger to delete
    cronTick,   \* the scheduler's tick: the rest of its list, and its fire
    failures

triggersVars == <<clock, exists, lastFired, fired, fires, chain, cronTick, failures>>

NoTick == [on |-> FALSE, todo |-> {}, fire |-> 0]

TriggersInit ==
    /\ clock = 1
    /\ exists = Trigger
    /\ lastFired = [t \in Trigger |-> 0]
    /\ fired = <<>> /\ fires = <<>> /\ chain = <<>>
    /\ cronTick = NoTick /\ failures = 0

FireIds == DOMAIN fires

----------------------------------------------------------------------------
(* fireTrigger *)

\* recentFiredEvents
Recent(t, window) ==
    {f \in FireIds : fires[f].trigger = t /\ fired[f] # 0 /\ fired[f] + window > clock}

\* mutant: deliveries are not deduplicated
DuplicateNever(t, k) == FALSE

Duplicate(t, k) == k # NoKey /\ \E f \in Recent(t, DedupeWindow) : fires[f].key = k

RateLimited(t) == Cardinality(Recent(t, RateWindow)) >= RateLimit

\* The gates of processWebhook, processChat and fireTrigger, all read in one turn.
Passes(t, k, source) ==
    /\ t \in exists
    /\ ~Duplicate(t, k) /\ ~RateLimited(t)
    /\ source = "external" => t \notin DryRun

\* An accepted fire queues createTask.  overlaps: fires of this trigger that the
\* gates could not see.
Accept(t, k, source) ==
    /\ Len(fires) < MaxFires
    /\ fires' = Append(fires, [trigger |-> t, key |-> k, source |-> source, now |-> clock,
                               task |-> "none", overlaps |->
                               \E f \in FireIds : fires[f].trigger = t
                                                    /\ \E i \in DOMAIN chain : chain[i].fire = f])
    /\ fired' = Append(fired, 0)
    /\ chain' = Append(chain, [fire |-> Len(fires) + 1, link |-> "task"])

\* POST /triggers/:id/fire, or a webhook or chat delivery that has proved who it
\* is; a refusal changes nothing.
Deliver(t, k, source) ==
    /\ Passes(t, k, source) /\ Accept(t, k, source)
    /\ UNCHANGED <<clock, exists, lastFired, cronTick, failures>>

\* What follows a fire that is over, for the tick that waited for it.
AfterFire(f) ==
    cronTick' = IF cronTick.fire = f THEN [cronTick EXCEPT !.fire = 0] ELSE cronTick

\* mutant: only deliveries stamp last_fired_at
StampDeliveries(f) ==
    IF fires[f].source = "cron" THEN lastFired
    ELSE [lastFired EXCEPT ![fires[f].trigger] = fires[f].now]

\* The time the fire began; a trigger deleted meanwhile has no row to stamp.
Stamp(f) ==
    IF fires[f].trigger \in exists THEN [lastFired EXCEPT ![fires[f].trigger] = fires[f].now]
                                   ELSE lastFired

\* The link at the head runs; the caller queues its next one behind the others.
TaskLink ==
    /\ chain # <<>> /\ Head(chain).link = "task"
    /\ fires' = [fires EXCEPT ![Head(chain).fire].task = "created"]
    /\ chain' = Append(Tail(chain), [fire |-> Head(chain).fire, link |-> "routine"])
    /\ UNCHANGED <<clock, exists, lastFired, fired, cronTick, failures>>

RoutineLink ==
    /\ chain # <<>> /\ Head(chain).link = "routine"
    /\ fires' = [fires EXCEPT ![Head(chain).fire].task = "stamped"]
    /\ chain' = Append(Tail(chain), [fire |-> Head(chain).fire, link |-> "event"])
    /\ UNCHANGED <<clock, exists, lastFired, fired, cronTick, failures>>

EventLink ==
    /\ chain # <<>> /\ Head(chain).link = "event"
    /\ lastFired' = Stamp(Head(chain).fire)
    /\ fired' = [fired EXCEPT ![Head(chain).fire] = clock]
    /\ chain' = Tail(chain)
    /\ AfterFire(Head(chain).fire)
    /\ UNCHANGED <<clock, exists, fires, failures>>

\* A write that keeps failing: of the task or its routine, fireTrigger returns
\* the message; of the event, it throws, which drops the rest of a tick.
LinkFails ==
    /\ chain # <<>> /\ Head(chain).link \in {"task", "routine", "event"}
    /\ failures < MaxFailures /\ failures' = failures + 1
    /\ LET f == Head(chain).fire
       IN /\ lastFired' \in {lastFired, IF Head(chain).link = "event" THEN Stamp(f) ELSE lastFired}
          /\ IF Head(chain).link = "event" /\ cronTick.fire = f
               THEN cronTick' = NoTick ELSE AfterFire(f)
    /\ chain' = Tail(chain)
    /\ UNCHANGED <<clock, exists, fired, fires>>

----------------------------------------------------------------------------
(* The scheduler *)

\* dueTriggers: a match after last_fired_at that has come; without one the search
\* starts in 1970 and finds a match at once.
Due(t) == lastFired[t] = 0 \/ \E m \in CronMinutes : lastFired[t] < m /\ m <= clock

\* Single-flight: a tick that finds another one is skipped.
StartTick ==
    /\ ~cronTick.on
    /\ cronTick' = [on |-> TRUE, todo |-> {t \in exists \cap CronTrigger : Due(t)}, fire |-> 0]
    /\ UNCHANGED <<clock, exists, lastFired, fired, fires, chain, failures>>

\* The list is served one by one; a refused trigger is passed over.
FireNext(t) ==
    /\ cronTick.fire = 0 /\ t \in cronTick.todo
    /\ IF Passes(t, NoKey, "cron")
         THEN /\ Accept(t, NoKey, "cron")
              /\ cronTick' = [cronTick EXCEPT !.todo = @ \ {t}, !.fire = Len(fires) + 1]
         ELSE cronTick' = [cronTick EXCEPT !.todo = @ \ {t}] /\ UNCHANGED <<fires, fired, chain>>
    /\ UNCHANGED <<clock, exists, lastFired, failures>>

EndTick ==
    /\ cronTick.on /\ cronTick.todo = {} /\ cronTick.fire = 0
    /\ cronTick' = NoTick
    /\ UNCHANGED <<clock, exists, lastFired, fired, fires, chain, failures>>

----------------------------------------------------------------------------
(* The rest of the world *)

RequestDelete(t) ==
    /\ ~\E i \in DOMAIN chain : chain[i].link = "delete"
    /\ t \in exists
    /\ chain' = Append(chain, [fire |-> 0, link |-> "delete", trigger |-> t])
    /\ UNCHANGED <<clock, exists, lastFired, fired, fires, cronTick, failures>>

DeleteLink ==
    /\ chain # <<>> /\ Head(chain).link = "delete"
    /\ exists' = exists \ {Head(chain).trigger}
    /\ chain' = Tail(chain)
    /\ UNCHANGED <<clock, lastFired, fired, fires, cronTick, failures>>

TriggersRestart ==
    /\ failures < MaxFailures /\ failures' = failures + 1
    /\ chain' = <<>> /\ cronTick' = NoTick
    /\ UNCHANGED <<clock, exists, lastFired, fired, fires>>

MinutePasses ==
    /\ clock < MaxClock /\ clock' = clock + 1
    /\ UNCHANGED <<exists, lastFired, fired, fires, chain, cronTick, failures>>

TriggersNext ==
    \/ \E d \in Deliveries : Deliver(d[1], d[2], d[3])
    \/ TaskLink \/ RoutineLink \/ EventLink \/ LinkFails
    \/ StartTick \/ (\E t \in CronTrigger : FireNext(t)) \/ EndTick
    \/ (\E t \in Trigger : RequestDelete(t)) \/ DeleteLink
    \/ TriggersRestart \/ MinutePasses

TriggersSpec == TriggersInit /\ [][TriggersNext]_triggersVars

----------------------------------------------------------------------------
(* Properties *)

\* The shapes; a fire's event comes after its task and after the gates' time.
TriggersTypeOK ==
    /\ clock \in 1..MaxClock /\ exists \subseteq Trigger /\ lastFired \in [Trigger -> 0..clock]
    /\ Len(fired) = Len(fires)
    /\ \A f \in FireIds : fired[f] # 0 => fires[f].task = "stamped" /\ fires[f].now <= fired[f]
    /\ cronTick.todo \subseteq CronTrigger /\ cronTick.fire \in 0..Len(fires)

\* Whether the fire of f was cut off by a failed write or a restart.
Cut(f) == fired[f] = 0 /\ ~\E i \in DOMAIN chain : chain[i].fire = f

MadeTask(f) == fires[f].task # "none"

\* One delivery makes one task within the dedupe window, and a trigger makes no
\* more tasks than its rate allows: for fires that came one after the other.
\* Fires that overlap pass the gates together, and one that was cut off between
\* its task and its event has left nothing for the gates to see.
FiresAreGated ==
    /\ \A f, g \in FireIds :
         (/\ f < g /\ MadeTask(f) /\ MadeTask(g) /\ ~fires[g].overlaps /\ ~Cut(f)
          /\ fires[f].trigger = fires[g].trigger /\ fires[f].key = fires[g].key)
            => fires[f].key = NoKey \/ fired[f] + DedupeWindow <= fires[g].now
    /\ \A t \in Trigger :
         LET burst == {f \in FireIds : fires[f].trigger = t /\ fires[f].now + RateWindow > clock}
         IN (\A f \in burst : ~fires[f].overlaps /\ ~Cut(f)) => Cardinality(burst) <= RateLimit

\* The scheduler fires a trigger once per match of its schedule, deliveries to
\* it in between notwithstanding: last_fired_at never goes back, and no tick
\* overlaps another.  A fire that was cut off is made up for.
OncePerMatch ==
    \A f, g \in FireIds :
        (f < g /\ fires[f].trigger = fires[g].trigger /\ ~Cut(f)
           /\ fires[f].source = "cron" /\ fires[g].source = "cron")
          => \E m \in CronMinutes : fires[f].now < m /\ m <= fires[g].now

=============================================================================
