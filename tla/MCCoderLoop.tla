---------------------------- MODULE MCCoderLoop ----------------------------
(* Small instances of CoderLoop. *)
EXTENDS CoderLoop

\* One task on its own; two rivals for a slot; two tasks, the second waiting for
\* the first.
OneTask == {1}
TwoTasks == {1, 2}
NoDeps == {}
Chain == {<<2, 1>>}

\* What operators, reviews and merges do to a task.
MergePath == {<<"review", "approved">>, <<"approved", "merging">>, <<"merging", "done">>}
OperatorEdges == MergePath \cup {<<"ready", "cancelled">>, <<"coding", "cancelled">>,
                                 <<"failed", "backlog">>}
MergeOrWithdraw == MergePath \cup {<<"ready", "cancelled">>}
NoApiEdges == {}

AllFaults == {"spawn", "stop", "forge"}
SpawnFaults == {"spawn"}
NoFaults == {}

\* The task that waits is asked to become ready: for one without prerequisites the
\* readiness pass has done so by the time it is in backlog.
Waiter == {2}
Nobody == {}

============================================================================
