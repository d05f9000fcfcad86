------------------------------ MODULE EventLog ------------------------------
(***************************************************************************)
(* The writer chain and the event log (src/db/writer.ts,                   *)
(* src/events/events.ts): every write is a link of one chain and runs      *)
(* alone, is tried again when another process holds the database, and logs *)
(* its event in the same link; the event is pushed into the buffer of      *)
(* every subscription. A subscription is attached first, reads the history *)
(* second, and then goes on with its buffer.                               *)
(*                                                                         *)
(* The readers are the server's own triggers, which start at the end of    *)
(* the log, and browsers, which get their events over a connection and     *)
(* come back after a break with the last sequence number they have seen.   *)
(***************************************************************************)
EXTENDS Naturals, Sequences, FiniteSets

CONSTANTS
    Kind,           \* kinds of events
    MoveKinds,      \* those logged by a link that first updates a row
    Row,            \* the rows, and the states they are in
    RowState,
    Start,          \* Start[r]: where row r is at the beginning
    Update,         \* Update[k]: the guarded update of kind k: the row, the states it
                    \* may be taken from (one, when expected_from is given), the new one
    Reader,         \* who subscribes
    Browsers,       \* the readers behind GET /events/stream
    Wants,          \* Wants[s]: the kinds that pass the filter of s
    BufferSize,     \* DEFAULT_SUBSCRIPTION_BUFFER
    MaxAttempts,    \* MAX_ATTEMPTS
    MaxWrites,      \* bound on the links asked for
    MaxBreaks       \* bound on restarts and lost connections

ASSUME EventLogAssumption ==
    /\ MoveKinds \subseteq Kind
    /\ Start \in [Row -> RowState]
    /\ Update \in [MoveKinds -> [row : Row, from : SUBSET RowState, to : RowState]]
    /\ \A k \in MoveKinds : Update[k].to \notin Update[k].from
    /\ Browsers \subseteq Reader
    /\ Wants \in [Reader -> SUBSET Kind]
    /\ BufferSize \in Nat \ {0}
    /\ MaxAttempts \in Nat \ {0}
    /\ MaxWrites \in Nat
    /\ MaxBreaks \in Nat

VARIABLES
    told,           \* what the caller of each link has heard
    chain,          \* the links that have not settled, in order
    tries,          \* failed attempts at the first of them
    column,         \* the state of each row
    moved,          \* history variable: the links whose update has been committed
    log,            \* the events table; an event's index is its seq
    sub,            \* the subscriptions
    wire,           \* events sent to a browser and not read there
    cursor,         \* how far each reader has got
    seen,           \* history variable: the events each reader got, in order
    breaks          \* restarts and lost connections so far

rows == <<column, moved>>
writer == <<told, chain, tries, rows>>
readers == <<sub, wire, cursor, seen>>
vars == <<writer, log, readers, breaks>>

Link == 1 .. MaxWrites
Event == [link : Link, kind : Kind]

Asked == {l \in Link : told[l] # "unasked"}

Wanted(s, n) == log[n].kind \in Wants[s]

\* pc: not subscribed, attached, or the history has been read.
Off == [pc |-> "off", after |-> 0, last |-> 0, history |-> {}, queue |-> <<>>,
        dropped |-> 0]

Init ==
    /\ told = [l \in Link |-> "unasked"]
    /\ chain = <<>>
    /\ tries = 0
    /\ column = Start /\ moved = {}
    /\ log = <<>>
    /\ sub = [s \in Reader |-> Off]
    /\ wire = [s \in Reader |-> <<>>]
    /\ cursor = [s \in Reader |-> 0]
    /\ seen = [s \in Reader |-> <<>>]
    /\ breaks = 0

----------------------------------------------------------------------------
(* The writer chain *)

\* enqueueWrite: the link goes to the end of the chain.
EnqueueWrite(k) ==
    /\ \E l \in Link :
          /\ Asked = 1 .. l - 1
          /\ chain' = Append(chain, [link |-> l, kind |-> k])
          /\ told' = [told EXCEPT ![l] = "waiting"]
    /\ UNCHANGED <<tries, rows, log, readers, breaks>>

\* mutant: nothing is dropped
PushAlways(q, n) == Append(q, n)

\* controller.push: drop the oldest event when the buffer is full.
Push(q, n) == IF Len(q) >= BufferSize THEN Append(Tail(q), n) ELSE Append(q, n)

\* mutant: the overflow is not counted
PublishUncounted(n, k) ==
    sub' = [s \in Reader |->
              IF sub[s].pc = "off" \/ k \notin Wants[s] THEN sub[s]
              ELSE [sub[s] EXCEPT !.queue = Push(@, n)]]

\* The broker: the event goes into the buffer of everyone who wants it.
Publish(n, k) ==
    sub' = [s \in Reader |->
              IF sub[s].pc = "off" \/ k \notin Wants[s] THEN sub[s]
              ELSE [sub[s] EXCEPT !.queue = Push(@, n),
                                  !.dropped = IF Len(sub[s].queue) >= BufferSize
                                                THEN @ + 1 ELSE @]]

\* mutant: a rejected write breaks the chain
SettleOrBreak(answer) ==
    /\ told' = [told EXCEPT ![Head(chain).link] = answer]
    /\ chain' = IF answer = "thrown" THEN <<>> ELSE Tail(chain)
    /\ tries' = 0

\* The first link is answered, with a result or a throw, and the next one runs.
Settle(answer) ==
    /\ told' = [told EXCEPT ![Head(chain).link] = answer]
    /\ chain' = Tail(chain)
    /\ tries' = 0

\* The guarded update of link w finds its row where it asks for it ...
FindsRow(w) == w.kind \in MoveKinds => column[Update[w.kind].row] \in Update[w.kind].from

\* ... and takes it on; an insert has no row to find.
UpdateRow(w) ==
    IF w.kind \in MoveKinds
      THEN /\ column' = [column EXCEPT ![Update[w.kind].row] = Update[w.kind].to]
           /\ moved' = moved \cup {w}
      ELSE UNCHANGED rows

\* The link goes through: the update, if there is one, the next seq, the event
\* and the broker, with no await between them.
Commit ==
    /\ chain # <<>>
    /\ LET w == Head(chain)
       IN /\ FindsRow(w) /\ UpdateRow(w)
          /\ log' = Append(log, w)
          /\ Publish(Len(log) + 1, w.kind)
    /\ Settle("done")
    /\ UNCHANGED <<wire, cursor, seen, breaks>>

\* The row is elsewhere: somebody else has moved it, or the link itself at an
\* attempt that ended in a throw.  It answers ok: false and logs nothing.
LoseRace ==
    /\ chain # <<>>
    /\ ~FindsRow(Head(chain))
    /\ Settle("lost")
    /\ UNCHANGED <<rows, log, readers, breaks>>

\* Each statement commits by itself: what ends an attempt comes before the update
\* or between the update and the event.
BreaksOff ==
    /\ chain # <<>>
    /\ \/ UNCHANGED rows
       \/ FindsRow(Head(chain)) /\ UpdateRow(Head(chain))

\* mutant: the link that is to be retried goes to the end of the chain
RetryLast == Append(Tail(chain), Head(chain))

\* The link that is to be retried stays where it is.
RetryFirst == chain

\* SQLITE_BUSY: another process has taken the lock.
Busy ==
    /\ BreaksOff
    /\ IF tries + 1 < MaxAttempts
         THEN /\ tries' = tries + 1
              /\ chain' = RetryFirst
              /\ told' = told
         ELSE Settle("thrown")
    /\ UNCHANGED <<log, readers, breaks>>

\* Anything else that is thrown ends the link at once.
LinkFails ==
    /\ BreaksOff
    /\ Settle("thrown")
    /\ UNCHANGED <<log, readers, breaks>>

----------------------------------------------------------------------------
(* Subscriptions *)

StartAt(s) == IF s \in Browsers THEN cursor[s] ELSE Len(log)

\* log.subscribe: attach to the broker. The triggers look up the current seq
\* in the same turn.
Subscribe(s) ==
    /\ sub[s].pc = "off"
    /\ sub' = [sub EXCEPT ![s] = [Off EXCEPT !.pc = "attached", !.after = StartAt(s),
                                             !.last = StartAt(s)]]
    /\ cursor' = [cursor EXCEPT ![s] = StartAt(s)]
    /\ UNCHANGED <<writer, log, wire, seen, breaks>>

\* mutant: the first row after the sequence number is left out
HistoryShort(s, after) == {n \in after + 2 .. Len(log) : Wanted(s, n)}

\* The rows after a sequence number that pass the filter.
History(s, after) == {n \in after + 1 .. Len(log) : Wanted(s, n)}

\* The iterator's first turn reads the table.
Snapshot(s) ==
    /\ sub[s].pc = "attached"
    /\ sub' = [sub EXCEPT ![s].pc = "live", ![s].history = History(s, sub[s].after)]
    /\ UNCHANGED <<writer, log, wire, cursor, seen, breaks>>

\* A trigger's loop has the event at once, a browser's goes onto the wire.
HandOver(s, n) ==
    IF s \in Browsers
      THEN /\ wire' = [wire EXCEPT ![s] = Append(@, n)]
           /\ UNCHANGED <<cursor, seen>>
      ELSE /\ cursor' = [cursor EXCEPT ![s] = n]
           /\ seen' = [seen EXCEPT ![s] = Append(@, n)]
           /\ UNCHANGED wire

\* The rows come in the order of their seq.
YieldHistory(s) ==
    /\ sub[s].pc = "live"
    /\ \E n \in sub[s].history :
          /\ \A m \in sub[s].history : n <= m
          /\ sub' = [sub EXCEPT ![s].history = @ \ {n}, ![s].last = n]
          /\ HandOver(s, n)
    /\ UNCHANGED <<writer, log, breaks>>

\* mutant: no dedup between the history and the buffer
Repeated(s, n) == FALSE

\* The history had it: at or below the highest seq already yielded.
IsRepeat(s, n) == n <= sub[s].last

TakeLive(s) ==
    /\ sub[s].pc = "live" /\ sub[s].history = {} /\ sub[s].queue # <<>>
    /\ LET n == Head(sub[s].queue)
       IN IF IsRepeat(s, n)
            THEN /\ sub' = [sub EXCEPT ![s].queue = Tail(@)]
                 /\ UNCHANGED <<wire, cursor, seen>>
            ELSE /\ sub' = [sub EXCEPT ![s].queue = Tail(@), ![s].last = n]
                 /\ HandOver(s, n)
    /\ UNCHANGED <<writer, log, breaks>>

\* The browser reads an event and moves its after_seq.
Read(s) ==
    /\ wire[s] # <<>>
    /\ wire' = [wire EXCEPT ![s] = Tail(@)]
    /\ cursor' = [cursor EXCEPT ![s] = Head(wire[s])]
    /\ seen' = [seen EXCEPT ![s] = Append(@, Head(wire[s]))]
    /\ UNCHANGED <<writer, log, sub, breaks>>

----------------------------------------------------------------------------
(* Breaks *)

\* The connection of a browser is lost with what is on the wire, and its
\* subscription ends.
Disconnect(s) ==
    /\ s \in Browsers /\ sub[s].pc # "off"
    /\ breaks < MaxBreaks
    /\ breaks' = breaks + 1
    /\ sub' = [sub EXCEPT ![s] = Off]
    /\ wire' = [wire EXCEPT ![s] = <<>>]
    /\ UNCHANGED <<writer, log, cursor, seen>>

\* The process ends, perhaps between the update and the event of a link. The
\* chain and the subscriptions are gone, the tables and the browsers remain.
Restart ==
    /\ breaks < MaxBreaks
    /\ breaks' = breaks + 1
    /\ UNCHANGED rows \/ BreaksOff
    /\ told' = [l \in Link |-> IF told[l] = "waiting" THEN "cut off" ELSE told[l]]
    /\ chain' = <<>>
    /\ tries' = 0
    /\ sub' = [s \in Reader |-> Off]
    /\ wire' = [s \in Reader |-> <<>>]
    /\ UNCHANGED <<log, cursor, seen>>

----------------------------------------------------------------------------

Attempt == Commit \/ LoseRace \/ Busy \/ LinkFails

Consume(s) == Snapshot(s) \/ YieldHistory(s) \/ TakeLive(s) \/ Read(s)

Next ==
    \/ \E k \in Kind : EnqueueWrite(k)
    \/ Commit \/ LoseRace \/ Busy \/ LinkFails
    \/ \E s \in Reader :
          \/ Subscribe(s) \/ Snapshot(s) \/ YieldHistory(s) \/ TakeLive(s)
          \/ Read(s) \/ Disconnect(s)
    \/ Restart

Spec == Init /\ [][Next]_vars

\* The chain runs by itself, readers read, browsers reconnect on a timer.
Fairness ==
    /\ WF_vars(Attempt)
    /\ \A s \in Reader : WF_vars(Consume(s))
    /\ \A s \in Browsers : WF_vars(Subscribe(s))

FairSpec == Spec /\ Fairness

----------------------------------------------------------------------------
(* Properties *)

Answers == {"unasked", "waiting", "done", "lost", "thrown", "cut off"}

Subscriptions ==
    [pc : {"off", "attached", "live"}, after : Nat, last : Nat,
     history : SUBSET Nat, queue : Seq(Nat), dropped : Nat]

WriterTypes ==
    /\ told \in [Link -> Answers]
    /\ chain \in Seq(Event)
    /\ {chain[i].link : i \in 1 .. Len(chain)} = {l \in Link : told[l] = "waiting"}
    /\ tries \in 0 .. MaxAttempts - 1
    /\ column \in [Row -> RowState]
    /\ moved \subseteq Event
    /\ log \in Seq(Event)
    /\ breaks \in Nat

ReaderTypes ==
    /\ sub \in [Reader -> Subscriptions]
    /\ \A s \in Reader : Len(sub[s].queue) <= BufferSize
    /\ wire \in [Reader -> Seq(Nat)]
    /\ cursor \in [Reader -> Nat]
    /\ seen \in [Reader -> Seq(Nat)]

\* The shapes, and that no buffer outgrows its size, no link is tried more than
\* MaxAttempts times, and the chain holds exactly the writes that wait.
TypeOK == WriterTypes /\ ReaderTypes

\* Events are logged in the order their writes were asked for and none twice,
\* whatever has to be retried.
LogInOrder ==
    \A i, j \in 1 .. Len(log) : i < j => log[i].link < log[j].link

Elements(q) == {q[i] : i \in 1 .. Len(q)}

\* A subscriber that misses an event it wants can tell: dropped() is at least
\* the number of events its iterator passed over.
SkipsAreCounted ==
    \A s \in Reader :
        LET passed == {n \in sub[s].after + 1 .. sub[s].last : Wanted(s, n)}
        IN Cardinality(passed \ (Elements(seen[s]) \cup Elements(wire[s])))
              <= sub[s].dropped

Kinds == [n \in 1 .. Len(log) |-> log[n].kind]

Overflowed == {s \in Reader : sub[s].dropped > 0}

Delivery == INSTANCE OrderedDelivery WITH log <- Kinds, lossy <- Overflowed

\* Every reader gets the events it wants once, in order and, unless its buffer
\* overflowed, without a gap, across retries, restarts and reconnections.
DeliverySpec == Delivery!Spec

\* Every write is answered or cut off: one that fails to the last attempt does
\* not hold up those behind it.
WritesSettle == \A l \in Link : told[l] = "waiting" ~> told[l] # "waiting"

Awaits(s, n) ==
    /\ n \in 1 .. Len(log) /\ Wanted(s, n) /\ n > cursor[s]
    /\ s \in Browsers \/ sub[s].pc # "off"

\* An event a reader wants reaches it, unless its buffer overflowed or it was a
\* trigger of a process that ended; a browser gets it after it reconnects.
EventReaches ==
    \A s \in Reader, n \in Link :
        Awaits(s, n) ~> \/ n \in Elements(seen[s])
                        \/ sub[s].dropped > 0
                        \/ s \notin Browsers /\ sub[s].pc = "off"

\* What the comments at the transitions say: a row's move and its event commit
\* together or the caller sees a throw.
EventOrThrow ==
    \A w \in moved : \/ \E n \in 1 .. Len(log) : log[n] = w
                     \/ told[w.link] \in {"waiting", "thrown"}

============================================================================
