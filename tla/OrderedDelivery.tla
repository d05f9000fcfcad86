-------------------------- MODULE OrderedDelivery --------------------------
(***************************************************************************)
(* What the event log promises its readers: there is one log, which only   *)
(* grows, and a reader gets the events it wants from where it stands,      *)
(* each once, in the order of the log, and without a gap unless its        *)
(* buffer has overflowed. A browser stands where it stopped reading, any   *)
(* other reader starts at the end of the log.                              *)
(***************************************************************************)
EXTENDS Naturals, Sequences

CONSTANTS Kind, Reader, Browsers, Wants

VARIABLES log, seen, cursor, lossy

vars == <<log, seen, cursor, lossy>>

Wanted(s, n) == log[n] \in Wants[s]

Init ==
    /\ log = <<>>
    /\ seen = [s \in Reader |-> <<>>]
    /\ cursor = [s \in Reader |-> 0]
    /\ lossy = {}

\* An event is logged; some of the buffers it goes into overflow.
Emit(k) ==
    /\ log' = Append(log, k)
    /\ lossy \subseteq lossy'
    /\ lossy' \subseteq Reader
    /\ UNCHANGED <<seen, cursor>>

\* A reader that starts watching: a browser asks for what follows its cursor.
Join(s) ==
    /\ cursor' = IF s \in Browsers THEN cursor ELSE [cursor EXCEPT ![s] = Len(log)]
    /\ lossy' = lossy \ {s}
    /\ UNCHANGED <<log, seen>>

\* Subscriptions end, and with them whatever they had dropped.
Break ==
    /\ lossy' \subseteq lossy
    /\ UNCHANGED <<log, seen, cursor>>

Receive(s, n) ==
    /\ n > cursor[s]
    /\ Wanted(s, n)
    /\ s \in lossy \/ \A m \in cursor[s] + 1 .. n - 1 : ~Wanted(s, m)
    /\ seen' = [seen EXCEPT ![s] = Append(@, n)]
    /\ cursor' = [cursor EXCEPT ![s] = n]
    /\ UNCHANGED <<log, lossy>>

Next ==
    \/ \E k \in Kind : Emit(k)
    \/ \E s \in Reader : Join(s) \/ \E n \in 1 .. Len(log) : Receive(s, n)
    \/ Break

Spec == Init /\ [][Next]_vars

============================================================================
