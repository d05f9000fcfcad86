--------------------------- MODULE MCDependencies ---------------------------
(* Small instances of Dependencies. *)
EXTENDS Dependencies, TLC

CONSTANTS t1, t2, t3, c1, c2

TwoTasks == {t1, t2}
ThreeTasks == {t1, t2, t3}
TwoCalls == {c1, c2}

\* Promotion, a coder run that ends in a merge, and a failure that is requeued
\* by triage or by hand.
Lifetime ==
    {<<"draft", "backlog">>, <<"ready", "coding">>, <<"coding", "review">>,
     <<"review", "approved">>, <<"approved", "merging">>, <<"merging", "done">>,
     <<"coding", "failed">>, <<"failed", "backlog">>}
NoMoves == {}

\* Others may be about to put the task into backlog.
BeforeBacklog == {"draft", "failed"}

\* Tasks and requests are interchangeable.
Symmetry == Permutations(ThreeTasks) \cup Permutations(TwoCalls)

============================================================================
