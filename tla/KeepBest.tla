------------------------------ MODULE KeepBest ------------------------------
(***************************************************************************)
(* What an experiment promises (the header of src/experiment/engine.ts):   *)
(* its ledger grows by one row per attempt, the branch advances with an    *)
(* attempt that beats everything kept so far, and with no other.           *)
(***************************************************************************)
EXTENDS Integers, Sequences

CONSTANTS Loop, Metric, NoMetric, Lower   \* metrics are integers; Lower minimises

VARIABLES
    rows,   \* of each experiment: <<status, metric>>, oldest first
    best    \* the best metric kept so far

vars == <<rows, best>>

Better(l, m, n) == n = NoMetric \/ IF l \in Lower THEN m < n ELSE m > n

Init == rows = [l \in Loop |-> <<>>] /\ best = [l \in Loop |-> NoMetric]

Row(l, status, m) == rows' = [rows EXCEPT ![l] = Append(@, <<status, m>>)]

Keep(l, m) ==
    /\ Better(l, m, best[l])
    /\ Row(l, "keep", m) /\ best' = [best EXCEPT ![l] = m]

Discard(l, m) == ~Better(l, m, best[l]) /\ Row(l, "discard", m) /\ UNCHANGED best

Crash(l) == Row(l, "crash", NoMetric) /\ UNCHANGED best

Next == \E l \in Loop : Crash(l) \/ \E m \in Metric : Keep(l, m) \/ Discard(l, m)

Spec == Init /\ [][Next]_vars

=============================================================================
