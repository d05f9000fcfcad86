------------------------------ MODULE Capacity ------------------------------
(***************************************************************************)
(* The capacity gate of one provider (src/providers/capacity.ts): a        *)
(* circuit that a rate or auth limit opens for a cooldown, one probe at a  *)
(* time after it, and a cap on active runs.  The fill pass asks the gate   *)
(* and creates the run some awaits later; resumed coders and reviewers are *)
(* created without asking; a run's signal arrives after the run has ended. *)
(***************************************************************************)
EXTENDS Naturals, FiniteSets

CONSTANTS
    ProviderCap,      \* providers.concurrency_cap
    OverflowToApiKey, \* config.capacity.overflowToApiKey
    ProviderRuns,     \* bound on the provider's runs
    MaxCooldowns      \* bound on the signals that trip the circuit

ASSUME CapacityAssumption ==
    /\ ProviderCap \in Nat \ {0} /\ OverflowToApiKey \in BOOLEAN
    /\ IsFiniteSet(ProviderRuns) /\ MaxCooldowns \in Nat

VARIABLES
    circuit,     \* providers.circuit_state
    cooldown,    \* providers.cooldown_until: none, in the future, or past
    gate,        \* the canSpawn call of the fill pass and what follows it
    running,     \* active runs of the provider
    gated,       \* those the gate let through
    probes,      \* those it let through under a half-open circuit
    ended,       \* runs that are over
    signals,     \* signals not yet observed
    trips,       \* signals that have tripped the circuit
    flipRaced    \* history: the circuit was tripped again before a flip

providerRow == <<circuit, cooldown, trips>>
providerRuns == <<running, gated, probes, ended>>
capacityVars == <<providerRow, gate, providerRuns, signals, flipRaced>>

CapacityInit ==
    /\ circuit = "closed" /\ cooldown = "none" /\ trips = 0
    /\ gate = "idle"
    /\ running = {} /\ gated = {} /\ probes = {} /\ ended = {}
    /\ signals = {}
    /\ flipRaced = FALSE

FreshProviderRuns == ProviderRuns \ (running \cup ended)

----------------------------------------------------------------------------
(* canSpawn *)

\* mutant: a half-open circuit has the full cap
HasRoomForAll(cap) == Cardinality(running) < ProviderCap

\* activeRunCount against the effective cap
HasRoom(cap) == Cardinality(running) < cap

\* The row is read; an unfinished cooldown, or no room, refuses and changes
\* nothing.
CanSpawn ==
    /\ gate = "idle"
    /\ \/ circuit = "open" /\ cooldown # "future" /\ gate' = "flip"
       \/ circuit = "half_open" /\ HasRoom(1) /\ gate' = "probe"
       \/ circuit = "closed" /\ cooldown # "future" /\ HasRoom(ProviderCap) /\ gate' = "admit"
       \/ circuit = "closed" /\ cooldown = "future" /\ OverflowToApiKey /\ gate' = "admit"
    /\ UNCHANGED <<providerRow, providerRuns, signals, flipRaced>>

\* flipToHalfOpen, a link of its own: the circuit is read again, the cooldown
\* is not.
FlipToHalfOpen ==
    /\ gate = "flip"
    /\ circuit' = IF circuit = "open" THEN "half_open" ELSE circuit
    /\ flipRaced' = (flipRaced \/ cooldown = "future")
    /\ gate' = "count"
    /\ UNCHANGED <<cooldown, trips, providerRuns, signals>>

CountAfterFlip ==
    /\ gate = "count"
    /\ gate' = IF HasRoom(1) THEN "probe" ELSE "idle"
    /\ UNCHANGED <<providerRow, providerRuns, signals, flipRaced>>

----------------------------------------------------------------------------
(* Runs *)

\* claimTaskAndCreateRun, or the claim is lost and nothing stays.
StartGated ==
    /\ gate \in {"admit", "probe"}
    /\ \/ \E r \in FreshProviderRuns :
             /\ running' = running \cup {r}
             /\ gated' = gated \cup {r}
             /\ probes' = IF gate = "probe" THEN probes \cup {r} ELSE probes
       \/ UNCHANGED <<running, gated, probes>>
    /\ gate' = "idle"
    /\ UNCHANGED <<providerRow, ended, signals, flipRaced>>

\* A resumed coder or a reviewer.
StartUngated ==
    /\ \E r \in FreshProviderRuns : running' = running \cup {r}
    /\ UNCHANGED <<providerRow, gate, gated, probes, ended, signals, flipRaced>>

\* A success, a limit or another error reaches observe later, or never: the
\* triage may find the run superseded.
RunEnds(r, kind) ==
    /\ r \in running
    /\ running' = running \ {r}
    /\ ended' = ended \cup {r}
    /\ signals' = IF kind = "none" THEN signals ELSE signals \cup {kind}
    /\ UNCHANGED <<providerRow, gate, gated, probes, flipRaced>>

----------------------------------------------------------------------------
(* observe *)

\* mutant: the cooldown is set and the circuit left as it is
TripCooldownOnly ==
    /\ "limit" \in signals /\ trips < MaxCooldowns
    /\ UNCHANGED circuit /\ cooldown' = "future" /\ trips' = trips + 1
    /\ signals' = signals \ {"limit"}
    /\ UNCHANGED <<gate, providerRuns, flipRaced>>

\* 429 and auth_limit
ObserveLimit ==
    /\ "limit" \in signals /\ trips < MaxCooldowns
    /\ circuit' = "open" /\ cooldown' = "future" /\ trips' = trips + 1
    /\ signals' = signals \ {"limit"}
    /\ UNCHANGED <<gate, providerRuns, flipRaced>>

\* Whichever run it is about, ok closes a half-open circuit.
ObserveOk ==
    /\ "ok" \in signals
    /\ IF circuit = "half_open" THEN circuit' = "closed" /\ cooldown' = "none"
                                ELSE UNCHANGED <<circuit, cooldown>>
    /\ signals' = signals \ {"ok"}
    /\ UNCHANGED <<trips, gate, providerRuns, flipRaced>>

\* error: last_error only
ObserveError ==
    /\ "error" \in signals
    /\ signals' = signals \ {"error"}
    /\ UNCHANGED <<providerRow, gate, providerRuns, flipRaced>>

CooldownPasses ==
    /\ cooldown = "future"
    /\ cooldown' = "past"
    /\ UNCHANGED <<circuit, trips, gate, providerRuns, signals, flipRaced>>

----------------------------------------------------------------------------

CapacityNext ==
    \/ CanSpawn \/ FlipToHalfOpen \/ CountAfterFlip \/ StartGated \/ StartUngated
    \/ \E r \in ProviderRuns, k \in {"ok", "limit", "error", "none"} : RunEnds(r, k)
    \/ ObserveLimit \/ ObserveOk \/ ObserveError \/ CooldownPasses

CapacitySpec == CapacityInit /\ [][CapacityNext]_capacityVars

----------------------------------------------------------------------------
(* Properties *)

\* The shapes; a run is over or active, and only gated runs are probes.
CapacityTypeOK ==
    /\ circuit \in {"closed", "open", "half_open"}
    /\ cooldown \in {"none", "future", "past"}
    /\ gate \in {"idle", "flip", "count", "admit", "probe"}
    /\ running \subseteq ProviderRuns /\ ended \subseteq ProviderRuns
    /\ running \cap ended = {}
    /\ gated \subseteq running \cup ended /\ probes \subseteq gated
    /\ signals \subseteq {"ok", "limit", "error"}
    /\ trips \in Nat /\ flipRaced \in BOOLEAN

\* One probe at a time, and the gate's runs within the cap: also when the circuit
\* trips, recovers or is flipped between the count and the run it admits.
GateKeepsCap ==
    /\ \A p, q \in probes \cap running : p = q
    /\ Cardinality(gated \cap running) <= ProviderCap

\* A cooldown refuses everyone: the circuit is never closed during one, so the
\* overflow to api_key has nothing to act on, and it is half-open during one only
\* if a limit was observed between a gate's read and its flip.
CooldownRefuses ==
    /\ circuit = "closed" => cooldown = "none"
    /\ circuit = "half_open" /\ cooldown = "future" => flipRaced

============================================================================
