--------------------------- MODULE EventLogProofs ---------------------------
(***************************************************************************)
(* Proofs about the event log, for any readers and filters, any size of    *)
(* the buffers and any number of writes, attempts, restarts and lost       *)
(* connections: the log is in the order of the writes, what readers get is *)
(* what OrderedDelivery promises, what they miss is counted, and what a    *)
(* caller is told of its write is true.                                    *)
(***************************************************************************)
EXTENDS EventLog, FiniteSetTheorems, TLAPS

\* The links of the chain are in the order they were asked for, and those that
\* have logged their event come before them.
WriterInOrder ==
    /\ \A i, j \in 1 .. Len(chain) : i < j => chain[i].link < chain[j].link
    /\ \A i \in 1 .. Len(log), j \in 1 .. Len(chain) : log[i].link < chain[j].link
    /\ \A i \in 1 .. Len(log) : told[log[i].link] # "unasked"

Increasing(q) == \A i, j \in 1 .. Len(q) : i < j => q[i] < q[j]

\* A reader that is not subscribed has nothing on its way to it.
Quiet(s) ==
    /\ sub[s].pc = "off" => sub[s] = Off /\ wire[s] = <<>>
    /\ sub[s].pc = "attached" =>
          /\ sub[s].history = {} /\ wire[s] = <<>>
          /\ cursor[s] = sub[s].last /\ sub[s].after = sub[s].last
    /\ sub[s].pc # "off" /\ s \notin Browsers => wire[s] = <<>> /\ cursor[s] = sub[s].last

\* What is on the way to a reader are events it wants, in the order of the log.
InOrder(s) ==
    /\ cursor[s] <= Len(log)
    /\ sub[s].pc # "off" => cursor[s] <= sub[s].last /\ sub[s].last <= Len(log)
    /\ Increasing(wire[s])
    /\ \A n \in Elements(wire[s]) : cursor[s] < n /\ n <= sub[s].last /\ Wanted(s, n)
    /\ \A n \in sub[s].history : sub[s].last < n /\ n <= Len(log) /\ Wanted(s, n)
    /\ Increasing(sub[s].queue)
    /\ \A n \in Elements(sub[s].queue) : 1 <= n /\ n <= Len(log) /\ Wanted(s, n)

\* Nothing is missing between a reader and the end of the log, overflow aside.
NoGap(s) ==
    /\ \A h \in sub[s].history : \A n \in sub[s].last + 1 .. h :
          Wanted(s, n) => n \in sub[s].history
    /\ sub[s].dropped = 0 /\ sub[s].pc # "off" =>
          /\ \A n \in cursor[s] + 1 .. sub[s].last :
                Wanted(s, n) => n \in Elements(wire[s])
          /\ sub[s].pc = "live" =>
                \A n \in sub[s].last + 1 .. Len(log) :
                    Wanted(s, n) => n \in sub[s].history \cup Elements(sub[s].queue)

ReaderOK(s) == Quiet(s) /\ InOrder(s) /\ NoGap(s)

OnTheWay == \A s \in Reader : ReaderOK(s)

Inv == TypeOK /\ LogInOrder /\ WriterInOrder /\ OnTheWay

----------------------------------------------------------------------------
(* Sequences of numbers *)

\* An increasing sequence without its first element.
LEMMA TailIncreases ==
  ASSUME NEW q \in Seq(Nat), q # <<>>, Increasing(q)
  PROVE  /\ Tail(q) \in Seq(Nat) /\ Len(Tail(q)) = Len(q) - 1
         /\ Head(q) \in Nat /\ Head(q) \in Elements(q)
         /\ Increasing(Tail(q))
         /\ Elements(Tail(q)) = Elements(q) \ {Head(q)}
         /\ \A n \in Elements(Tail(q)) : Head(q) < n
  <1>1. /\ Tail(q) \in Seq(Nat) /\ Len(Tail(q)) = Len(q) - 1 /\ Len(q) \in Nat
        /\ Head(q) = q[1] /\ 1 \in 1 .. Len(q)
        /\ \A i \in 1 .. Len(q) - 1 : Tail(q)[i] = q[i + 1]
    OBVIOUS
  <1>2. \A i \in 1 .. Len(q) : q[i] \in Nat
    OBVIOUS
  <1>3. Increasing(Tail(q)) /\ \A i \in 1 .. Len(q) - 1 : q[1] < Tail(q)[i]
    BY <1>1, <1>2 DEF Increasing
  <1>4. \A n \in Elements(Tail(q)) : Head(q) < n
    BY <1>1, <1>3 DEF Elements
  <1>5. \A n \in Elements(q) : n # Head(q) => n \in Elements(Tail(q))
    <2> SUFFICES ASSUME NEW i \in 1 .. Len(q), q[i] # q[1]
                 PROVE  q[i] \in Elements(Tail(q))
      BY <1>1 DEF Elements
    <2>1. i - 1 \in 1 .. Len(q) - 1 /\ Tail(q)[i - 1] = q[i]
      BY <1>1
    <2> QED BY <1>1, <2>1 DEF Elements
  <1>6. \A n \in Elements(Tail(q)) : n \in Elements(q)
    BY <1>1 DEF Elements
  <1>7. Head(q) \in Elements(q) /\ Elements(q) \subseteq Nat
    BY <1>1, <1>2 DEF Elements
  <1>8. \A n \in Elements(Tail(q)) : n # Head(q)
    BY <1>4, <1>6, <1>7
  <1> QED BY <1>1, <1>2, <1>3, <1>4, <1>5, <1>6, <1>7, <1>8

LEMMA HeadIsLeast ==
  ASSUME NEW q \in Seq(Nat), q # <<>>, Increasing(q)
  PROVE  \A m \in Elements(q) : m \in Nat /\ ~(m < Head(q))
  <1>1. /\ Head(q) \in Nat /\ Elements(Tail(q)) = Elements(q) \ {Head(q)}
        /\ \A m \in Elements(Tail(q)) : Head(q) < m
    BY TailIncreases
  <1>2. \A m \in Elements(q) : m \in Nat
    BY DEF Elements
  <1> QED BY <1>1, <1>2

\* An increasing sequence with a larger element at its end.
LEMMA AppendIncreases ==
  ASSUME NEW q \in Seq(Nat), NEW n \in Nat, Increasing(q),
         \A m \in Elements(q) : m < n
  PROVE  /\ Append(q, n) \in Seq(Nat) /\ Len(Append(q, n)) = Len(q) + 1
         /\ Increasing(Append(q, n))
         /\ Elements(Append(q, n)) = Elements(q) \cup {n}
  <1>1. /\ Append(q, n) \in Seq(Nat) /\ Len(Append(q, n)) = Len(q) + 1 /\ Len(q) \in Nat
        /\ \A i \in 1 .. Len(q) : Append(q, n)[i] = q[i]
        /\ Append(q, n)[Len(q) + 1] = n
    OBVIOUS
  <1>2. \A i \in 1 .. Len(q) : q[i] < n
    BY DEF Elements
  <1>3. Increasing(Append(q, n))
    BY <1>1, <1>2 DEF Increasing
  <1>4. \A m \in Elements(Append(q, n)) : m \in Elements(q) \/ m = n
    BY <1>1 DEF Elements
  <1>5. \A m \in Elements(q) \cup {n} : m \in Elements(Append(q, n))
    BY <1>1 DEF Elements
  <1> QED BY <1>1, <1>3, <1>4, <1>5

\* The buffer after a push: the new event, and the old ones but for the oldest
\* if it was full.
LEMMA PushIncreases ==
  ASSUME NEW q \in Seq(Nat), NEW n \in Nat, Increasing(q),
         \A m \in Elements(q) : m < n,
         BufferSize \in Nat \ {0}, Len(q) <= BufferSize
  PROVE  /\ Push(q, n) \in Seq(Nat) /\ Len(Push(q, n)) <= BufferSize
         /\ Increasing(Push(q, n))
         /\ Elements(Push(q, n)) \subseteq Elements(q) \cup {n}
         /\ Len(q) < BufferSize => Elements(Push(q, n)) = Elements(q) \cup {n}
  <1>1. CASE Len(q) < BufferSize
    <2>1. Push(q, n) = Append(q, n) /\ Len(q) \in Nat
      BY <1>1 DEF Push
    <2> QED BY <1>1, <2>1, AppendIncreases
  <1>2. CASE ~(Len(q) < BufferSize)
    <2>1. Push(q, n) = Append(Tail(q), n) /\ Len(q) \in Nat /\ Len(q) = BufferSize /\ q # <<>>
      BY <1>2 DEF Push
    <2>2. /\ Tail(q) \in Seq(Nat) /\ Increasing(Tail(q)) /\ Len(Tail(q)) = Len(q) - 1
          /\ Elements(Tail(q)) \subseteq Elements(q)
      BY <2>1, TailIncreases
    <2>3. /\ Append(Tail(q), n) \in Seq(Nat) /\ Len(Append(Tail(q), n)) = Len(Tail(q)) + 1
          /\ Increasing(Append(Tail(q), n))
          /\ Elements(Append(Tail(q), n)) = Elements(Tail(q)) \cup {n}
      BY <2>2, AppendIncreases
    <2> QED BY <1>2, <2>1, <2>2, <2>3
  <1> QED BY <1>1, <1>2

----------------------------------------------------------------------------
(* The writer chain *)

\* A sequence with one more element at its end.
LEMMA AppendIndices ==
  ASSUME NEW S, NEW q \in Seq(S), NEW e \in S
  PROVE  /\ Append(q, e) \in Seq(S) /\ Len(q) \in Nat /\ Len(Append(q, e)) = Len(q) + 1
         /\ Append(q, e)[Len(q) + 1] = e
         /\ \A i \in 1 .. Len(q) : Append(q, e)[i] = q[i]
  OBVIOUS

LEMMA NothingLeft == ASSUME NEW S PROVE <<>> \in Seq(S) /\ Len(<<>>) = 0
  OBVIOUS

\* The events of a sequence belong to links.
LEMMA LinksOf ==
  ASSUME NEW q \in Seq(Event)
  PROVE  \A i \in 1 .. Len(q) : q[i] \in Event /\ q[i].link \in Link
  <1>1. \A i \in 1 .. Len(q) : q[i] \in Event
    OBVIOUS
  <1> QED BY <1>1 DEF Event

WriterInv == WriterTypes /\ LogInOrder /\ WriterInOrder

\* A link that settles leaves the chain in order.
LEMMA SettleKeeps ==
  ASSUME EventLogAssumption, WriterInv, chain # <<>>, NEW answer \in Answers,
         answer \notin {"unasked", "waiting"}, Settle(answer)
  PROVE  /\ told' \in [Link -> Answers] /\ chain' \in Seq(Event)
         /\ {chain[i].link : i \in 1 .. Len(chain)}' = {l \in Link : told[l] = "waiting"}'
         /\ tries' \in 0 .. MaxAttempts - 1
         /\ \A i, j \in 1 .. Len(chain') : i < j => chain'[i].link < chain'[j].link
         /\ \A j \in 1 .. Len(chain') : Head(chain).link < chain'[j].link
         /\ \A i \in 1 .. Len(log), j \in 1 .. Len(chain') : log[i].link < chain'[j].link
         /\ \A l \in Link : told[l] # "unasked" => told'[l] # "unasked"
         /\ Head(chain) \in Event /\ Head(chain).link \in Link
         /\ told'[Head(chain).link] = answer
         /\ \A i \in 1 .. Len(log) : log[i].link < Head(chain).link
  <1>1. /\ chain' = Tail(chain) /\ Tail(chain) \in Seq(Event) /\ Len(chain) \in Nat
        /\ Len(Tail(chain)) = Len(chain) - 1
        /\ Head(chain) = chain[1] /\ 1 \in 1 .. Len(chain) /\ chain[1] \in Event
        /\ \A i \in 1 .. Len(chain) - 1 : Tail(chain)[i] = chain[i + 1]
    BY DEF WriterInv, WriterTypes, Settle
  <1>2. /\ \A i \in 1 .. Len(chain) : chain[i].link \in Link
        /\ MaxAttempts \in Nat \ {0} /\ MaxWrites \in Nat
    BY <1>1 DEF WriterInv, WriterTypes, Event, EventLogAssumption
  <1>3. \A i, j \in 1 .. Len(chain) : i < j => chain[i].link < chain[j].link
    BY DEF WriterInv, WriterInOrder
  <1>4. told' = [told EXCEPT ![chain[1].link] = answer] /\ tries' = 0
    BY <1>1 DEF Settle
  <1>5. \A l \in Link : l = chain[1].link \/ told'[l] = told[l]
    BY <1>4 DEF WriterInv, WriterTypes
  <1>6. told'[chain[1].link] = answer /\ told' \in [Link -> Answers]
    BY <1>1, <1>2, <1>4 DEF WriterInv, WriterTypes
  <1>7. /\ \A i, j \in 1 .. Len(chain') : i < j => chain'[i].link < chain'[j].link
        /\ \A j \in 1 .. Len(chain') : Head(chain).link < chain'[j].link
    BY <1>1, <1>3
  <1>8. /\ \A i \in 1 .. Len(log), j \in 1 .. Len(chain') : log[i].link < chain'[j].link
        /\ \A i \in 1 .. Len(log) : log[i].link < Head(chain).link
    BY <1>1 DEF WriterInv, WriterInOrder
  <1>9. ASSUME NEW l \in Link PROVE told'[l] = "waiting" <=>
                  \E i \in 1 .. Len(chain') : chain'[i].link = l
    <2>1. told[l] = "waiting" <=> \E i \in 1 .. Len(chain) : chain[i].link = l
      BY DEF WriterInv, WriterTypes
    <2>2. CASE l = chain[1].link
      BY <1>1, <1>2, <1>6, <1>7, <2>2 DEF Link
    <2>3. CASE l # chain[1].link
      <3>1. told'[l] = told[l]
        BY <1>5, <2>3
      <3>2. ASSUME NEW i \in 1 .. Len(chain), chain[i].link = l
            PROVE  i - 1 \in 1 .. Len(chain') /\ chain'[i - 1].link = l
        BY <1>1, <2>3, <3>2
      <3>3. ASSUME NEW i \in 1 .. Len(chain'), chain'[i].link = l
            PROVE  i + 1 \in 1 .. Len(chain) /\ chain[i + 1].link = l
        BY <1>1, <3>3
      <3> QED BY <2>1, <3>1, <3>2, <3>3
    <2> QED BY <2>2, <2>3
  <1>10. \A i \in 1 .. Len(chain') : chain'[i].link \in Link
    BY <1>1, <1>2
  <1>11. {chain[i].link : i \in 1 .. Len(chain)}' = {l \in Link : told[l] = "waiting"}'
    BY <1>9, <1>10
  <1>12. \A l \in Link : told[l] # "unasked" => told'[l] # "unasked"
    BY <1>1, <1>5, <1>6
  <1> QED BY <1>1, <1>2, <1>4, <1>6, <1>7, <1>8, <1>11, <1>12

\* A new link comes after all that have been asked for.
LEMMA EnqueueKeeps ==
  ASSUME EventLogAssumption, WriterInv, NEW k \in Kind, EnqueueWrite(k)
  PROVE  WriterInv'
  <1>1. PICK l \in Link :
          /\ Asked = 1 .. l - 1
          /\ chain' = Append(chain, [link |-> l, kind |-> k])
          /\ told' = [told EXCEPT ![l] = "waiting"]
    BY DEF EnqueueWrite
  <1>2. UNCHANGED <<tries, column, moved, log, breaks>>
    BY DEF EnqueueWrite, rows
  <1> DEFINE w == [link |-> l, kind |-> k]
  <1>3. /\ w \in Event /\ w.link = l /\ MaxWrites \in Nat
        /\ chain \in Seq(Event) /\ log \in Seq(Event)
        /\ told \in [Link -> Answers] /\ told' \in [Link -> Answers]
        /\ told'[l] = "waiting" /\ told[l] = "unasked"
        /\ \A m \in Link : m = l \/ told'[m] = told[m]
    <2>1. l \notin Asked
      BY <1>1 DEF Link, EventLogAssumption
    <2> QED BY <1>1, <2>1 DEF Event, WriterInv, WriterTypes, Answers, Asked, EventLogAssumption
  <1> HIDE DEF w
  <1>4. chain' = Append(chain, w)
    BY <1>1 DEF w
  <1>5. /\ chain' \in Seq(Event) /\ Len(chain') = Len(chain) + 1 /\ Len(chain) \in Nat
        /\ chain'[Len(chain) + 1] = w
        /\ \A i \in 1 .. Len(chain) : chain'[i] = chain[i] /\ chain[i].link \in Link
    <2>1. \A i \in 1 .. Len(chain) : chain[i].link \in Link
      BY <1>3, LinksOf
    <2>2. /\ Append(chain, w) \in Seq(Event) /\ Len(chain) \in Nat
          /\ Len(Append(chain, w)) = Len(chain) + 1
          /\ Append(chain, w)[Len(chain) + 1] = w
          /\ \A i \in 1 .. Len(chain) : Append(chain, w)[i] = chain[i]
      BY <1>3, AppendIndices
    <2> QED BY <1>4, <2>1, <2>2
  <1>6. \A i \in 1 .. Len(log) : log[i].link \in Link
    BY <1>3, LinksOf
  <1>7. \A m \in Link : told[m] # "unasked" => m < l
    BY <1>1, <1>3 DEF Asked, Link
  <1>8. \A i \in 1 .. Len(chain) : told[chain[i].link] = "waiting"
    BY <1>5 DEF WriterInv, WriterTypes
  <1>9. \A i \in 1 .. Len(chain) : chain[i].link < l
    BY <1>5, <1>7, <1>8
  <1>10. \A i \in 1 .. Len(log) : told[log[i].link] # "unasked" /\ log[i].link < l
    BY <1>6, <1>7 DEF WriterInv, WriterInOrder
  <1>11. \A i, j \in 1 .. Len(chain') : i < j => chain'[i].link < chain'[j].link
    <2> SUFFICES ASSUME NEW i \in 1 .. Len(chain'), NEW j \in 1 .. Len(chain'), i < j
                 PROVE  chain'[i].link < chain'[j].link
      OBVIOUS
    <2>1. i \in 1 .. Len(chain) /\ (j \in 1 .. Len(chain) \/ j = Len(chain) + 1)
      BY <1>5
    <2>2. CASE j \in 1 .. Len(chain)
      BY <1>5, <2>1, <2>2 DEF WriterInv, WriterInOrder
    <2>3. CASE j = Len(chain) + 1
      BY <1>3, <1>5, <1>9, <2>1, <2>3
    <2> QED BY <2>1, <2>2, <2>3
  <1>12. \A i \in 1 .. Len(log), j \in 1 .. Len(chain') : log[i].link < chain'[j].link
    <2> SUFFICES ASSUME NEW i \in 1 .. Len(log), NEW j \in 1 .. Len(chain')
                 PROVE  log[i].link < chain'[j].link
      OBVIOUS
    <2>1. CASE j \in 1 .. Len(chain)
      BY <1>5, <2>1 DEF WriterInv, WriterInOrder
    <2>2. CASE j = Len(chain) + 1
      BY <1>3, <1>5, <1>10, <2>2
    <2> QED BY <1>5, <2>1, <2>2
  <1>13. \A i \in 1 .. Len(log) : told'[log[i].link] # "unasked"
    BY <1>3, <1>6, <1>10
  <1>14. ASSUME NEW m \in Link PROVE told'[m] = "waiting" <=>
                  \E i \in 1 .. Len(chain') : chain'[i].link = m
    <2>1. told[m] = "waiting" <=> \E i \in 1 .. Len(chain) : chain[i].link = m
      BY DEF WriterInv, WriterTypes
    <2>2. \A i \in 1 .. Len(chain') : i \in 1 .. Len(chain) \/ i = Len(chain) + 1
      BY <1>5
    <2>3. \A i \in 1 .. Len(chain) : i \in 1 .. Len(chain')
      BY <1>5
    <2>4. Len(chain) + 1 \in 1 .. Len(chain')
      BY <1>5
    <2>5. CASE m = l
      BY <1>3, <1>5, <2>4, <2>5
    <2>6. CASE m # l
      BY <1>3, <1>5, <2>1, <2>2, <2>3, <2>6
    <2> QED BY <2>5, <2>6
  <1>15. \A i \in 1 .. Len(chain') : chain'[i].link \in Link
    BY <1>5, LinksOf
  <1>16. {chain[i].link : i \in 1 .. Len(chain)}' = {m \in Link : told[m] = "waiting"}'
    BY <1>14, <1>15
  <1>17. WriterTypes'
    BY <1>2, <1>3, <1>5, <1>16 DEF WriterInv, WriterTypes
  <1> QED BY <1>2, <1>11, <1>12, <1>13, <1>17 DEF WriterInv, WriterInOrder, LogInOrder

\* What the first link may write of the rows.
LEMMA RowsKeep ==
  ASSUME EventLogAssumption, WriterTypes, chain # <<>>,
         UNCHANGED rows \/ UpdateRow(Head(chain))
  PROVE  /\ Head(chain) \in Event
         /\ column' \in [Row -> RowState] /\ moved' \subseteq Event
         /\ moved \subseteq moved' /\ moved' \subseteq moved \cup {Head(chain)}
  <1> DEFINE w == Head(chain)
  <1>1. w \in Event /\ column \in [Row -> RowState] /\ moved \subseteq Event
    BY DEF WriterTypes
  <1> HIDE DEF w
  <1>2. CASE UNCHANGED rows
    BY <1>1, <1>2 DEF rows, w
  <1>3. CASE w.kind \in MoveKinds /\ UpdateRow(w)
    <2>1. Update[w.kind].row \in Row /\ Update[w.kind].to \in RowState
      BY <1>3 DEF EventLogAssumption
    <2>2. /\ column' = [column EXCEPT ![Update[w.kind].row] = Update[w.kind].to]
          /\ moved' = moved \cup {w}
      BY <1>3 DEF UpdateRow
    <2> QED BY <1>1, <2>1, <2>2 DEF w
  <1> QED BY <1>2, <1>3 DEF UpdateRow, w

LEMMA BrokenOffKeeps ==
  ASSUME EventLogAssumption, WriterTypes, BreaksOff
  PROVE  /\ chain # <<>> /\ Head(chain) \in Event
         /\ column' \in [Row -> RowState] /\ moved' \subseteq Event
         /\ moved \subseteq moved' /\ moved' \subseteq moved \cup {Head(chain)}
  BY RowsKeep DEF BreaksOff

\* The event of the first link comes after all that are logged.
LEMMA CommitKeeps ==
  ASSUME EventLogAssumption, WriterInv, Commit
  PROVE  WriterInv'
  <1> DEFINE w == Head(chain)
  <1>1. /\ chain # <<>> /\ UpdateRow(w) /\ log' = Append(log, w)
        /\ Settle("done") /\ UNCHANGED breaks
    BY DEF Commit
  <1>2. "done" \in Answers /\ "done" \notin {"unasked", "waiting"}
    BY DEF Answers
  <1>6. column' \in [Row -> RowState] /\ moved' \subseteq Event
    BY <1>1, RowsKeep DEF WriterInv
  <1>3. /\ told' \in [Link -> Answers] /\ chain' \in Seq(Event)
        /\ {chain[i].link : i \in 1 .. Len(chain)}' = {l \in Link : told[l] = "waiting"}'
        /\ tries' \in 0 .. MaxAttempts - 1
        /\ \A i, j \in 1 .. Len(chain') : i < j => chain'[i].link < chain'[j].link
        /\ \A j \in 1 .. Len(chain') : w.link < chain'[j].link
        /\ \A i \in 1 .. Len(log), j \in 1 .. Len(chain') : log[i].link < chain'[j].link
        /\ \A l \in Link : told[l] # "unasked" => told'[l] # "unasked"
        /\ w \in Event /\ w.link \in Link /\ told'[w.link] = "done"
        /\ \A i \in 1 .. Len(log) : log[i].link < w.link
    BY <1>1, <1>2, SettleKeeps
  <1> HIDE DEF w
  <1>4. log \in Seq(Event)
    BY DEF WriterInv, WriterTypes
  <1>5. /\ log' \in Seq(Event) /\ Len(log') = Len(log) + 1 /\ Len(log) \in Nat
        /\ log'[Len(log) + 1] = w
        /\ \A i \in 1 .. Len(log) : log'[i] = log[i] /\ log[i].link \in Link
    BY <1>1, <1>3, <1>4, AppendIndices, LinksOf
  <1>7. WriterTypes'
    BY <1>1, <1>3, <1>5, <1>6 DEF WriterInv, WriterTypes
  <1>8. LogInOrder'
    <2> SUFFICES ASSUME NEW i \in 1 .. Len(log'), NEW j \in 1 .. Len(log'), i < j
                 PROVE  log'[i].link < log'[j].link
      BY DEF LogInOrder
    <2>1. i \in 1 .. Len(log) /\ (j \in 1 .. Len(log) \/ j = Len(log) + 1)
      BY <1>5
    <2>2. CASE j \in 1 .. Len(log)
      BY <1>5, <2>1, <2>2 DEF WriterInv, LogInOrder
    <2>3. CASE j = Len(log) + 1
      BY <1>3, <1>5, <2>1, <2>3
    <2> QED BY <2>1, <2>2, <2>3
  <1>9. ASSUME NEW i \in 1 .. Len(log'), NEW j \in 1 .. Len(chain')
        PROVE  log'[i].link < chain'[j].link
    <2>1. i \in 1 .. Len(log) \/ i = Len(log) + 1
      BY <1>5
    <2>2. CASE i \in 1 .. Len(log)
      <3>1. log'[i] = log[i] /\ log[i].link < chain'[j].link
        BY <1>3, <1>5, <2>2
      <3> QED BY <3>1
    <2>3. CASE i = Len(log) + 1
      BY <1>3, <1>5, <2>3
    <2> QED BY <2>1, <2>2, <2>3
  <1>10. \A i \in 1 .. Len(log') : told'[log'[i].link] # "unasked"
    BY <1>3, <1>5 DEF WriterInv, WriterInOrder
  <1> QED BY <1>3, <1>7, <1>8, <1>9, <1>10 DEF WriterInv, WriterInOrder

\* A link that is answered without an event leaves the log as it is.
LEMMA AnswerKeeps ==
  ASSUME EventLogAssumption, WriterInv, chain # <<>>, NEW answer \in {"lost", "thrown"},
         Settle(answer), column' \in [Row -> RowState], moved' \subseteq Event,
         UNCHANGED <<log, breaks>>
  PROVE  WriterInv'
  <1>1. answer \in Answers /\ answer \notin {"unasked", "waiting"}
    BY DEF Answers
  <1>2. /\ told' \in [Link -> Answers] /\ chain' \in Seq(Event)
        /\ {chain[i].link : i \in 1 .. Len(chain)}' = {l \in Link : told[l] = "waiting"}'
        /\ tries' \in 0 .. MaxAttempts - 1
        /\ \A i, j \in 1 .. Len(chain') : i < j => chain'[i].link < chain'[j].link
        /\ \A i \in 1 .. Len(log), j \in 1 .. Len(chain') : log[i].link < chain'[j].link
        /\ \A l \in Link : told[l] # "unasked" => told'[l] # "unasked"
    BY <1>1, SettleKeeps
  <1>3. \A i \in 1 .. Len(log) : log[i].link \in Link
    BY LinksOf DEF WriterInv, WriterTypes
  <1>4. WriterTypes'
    BY <1>2 DEF WriterInv, WriterTypes
  <1> QED BY <1>2, <1>3, <1>4 DEF WriterInv, WriterInOrder, LogInOrder

\* Every step keeps the order of the log and of the chain.
LEMMA WriterStep ==
  ASSUME EventLogAssumption, WriterInv, [Next]_vars
  PROVE  WriterInv'
  <1>1. ASSUME NEW k \in Kind, EnqueueWrite(k) PROVE WriterInv'
    BY <1>1, EnqueueKeeps
  <1>2. CASE Commit
    BY <1>2, CommitKeeps
  <1>3. CASE LoseRace
    <2>1. /\ chain # <<>> /\ Settle("lost") /\ UNCHANGED <<log, breaks>>
          /\ column' = column /\ moved' = moved
      BY <1>3 DEF LoseRace, rows
    <2> QED BY <2>1, AnswerKeeps DEF WriterInv, WriterTypes
  <1>4. CASE Busy
    <2>1. BreaksOff /\ UNCHANGED <<log, breaks>>
      BY <1>4 DEF Busy
    <2>3. chain # <<>> /\ column' \in [Row -> RowState] /\ moved' \subseteq Event
      BY <2>1, BrokenOffKeeps DEF WriterInv
    <2>4. CASE tries + 1 < MaxAttempts
      <3>1. tries' = tries + 1 /\ chain' = chain /\ told' = told
        BY <1>4, <2>4 DEF Busy, RetryFirst
      <3>2. tries' \in 0 .. MaxAttempts - 1
        BY <2>4, <3>1 DEF WriterInv, WriterTypes, EventLogAssumption
      <3> QED BY <2>1, <2>3, <3>1, <3>2 DEF WriterInv, WriterTypes, WriterInOrder, LogInOrder
    <2>5. CASE ~(tries + 1 < MaxAttempts)
      <3>1. Settle("thrown")
        BY <1>4, <2>5 DEF Busy
      <3> QED BY <2>1, <2>3, <3>1, AnswerKeeps
    <2> QED BY <2>4, <2>5
  <1>9. CASE LinkFails
    <2>1. BreaksOff /\ Settle("thrown") /\ UNCHANGED <<log, breaks>>
      BY <1>9 DEF LinkFails
    <2>2. chain # <<>> /\ column' \in [Row -> RowState] /\ moved' \subseteq Event
      BY <2>1, BrokenOffKeeps DEF WriterInv
    <2> QED BY <2>1, <2>2, AnswerKeeps
  <1>5. ASSUME UNCHANGED <<writer, log>>, breaks' \in Nat
        PROVE  WriterInv'
    BY <1>5 DEF writer, rows, WriterInv, WriterTypes, WriterInOrder, LogInOrder
  <1>6. ASSUME NEW s \in Reader,
               \/ Subscribe(s) \/ Snapshot(s) \/ YieldHistory(s) \/ TakeLive(s)
               \/ Read(s) \/ Disconnect(s)
        PROVE  WriterInv'
    <2>1. UNCHANGED <<writer, log>> /\ breaks' \in Nat
      BY <1>6 DEF Subscribe, Snapshot, YieldHistory, TakeLive, Read, Disconnect,
                  WriterInv, WriterTypes
    <2> QED BY <1>5, <2>1
  <1>7. CASE Restart
    <2>1. /\ chain' = <<>>
          /\ told' = [l \in Link |-> IF told[l] = "waiting" THEN "cut off" ELSE told[l]]
      BY <1>7 DEF Restart
    <2> tries' = 0 /\ log' = log /\ breaks' = breaks + 1
      BY <1>7 DEF Restart
    <2>2. column' \in [Row -> RowState] /\ moved' \subseteq Event
      <3>1. UNCHANGED rows \/ BreaksOff
        BY <1>7 DEF Restart
      <3> QED BY <3>1, BrokenOffKeeps DEF rows, WriterInv, WriterTypes
    <2>3. /\ told' \in [Link -> Answers]
          /\ \A l \in Link : told'[l] # "waiting" /\ (told[l] # "unasked" => told'[l] # "unasked")
      BY <2>1 DEF WriterInv, WriterTypes, Answers
    <2>4. \A i \in 1 .. Len(log) : log[i].link \in Link
      BY LinksOf DEF WriterInv, WriterTypes
    <2>5. chain' \in Seq(Event) /\ Len(chain') = 0
      BY <2>1, NothingLeft
    <2>6. {chain[i].link : i \in 1 .. Len(chain)}' = {l \in Link : told[l] = "waiting"}'
      BY <2>3, <2>5
    <2>7. WriterTypes'
      BY <2>2, <2>3, <2>5, <2>6 DEF WriterInv, WriterTypes, EventLogAssumption
    <2>8. WriterInOrder'
      BY <2>3, <2>4, <2>5 DEF WriterInv, WriterInOrder
    <2> QED BY <2>7, <2>8 DEF WriterInv, LogInOrder
  <1>8. CASE UNCHANGED vars
    BY <1>5, <1>8 DEF vars, WriterInv, WriterTypes
  <1> QED BY <1>1, <1>2, <1>3, <1>4, <1>6, <1>7, <1>8, <1>9 DEF Next

----------------------------------------------------------------------------
(* The readers *)

\* The types of what belongs to one reader.
LEMMA FieldTypes ==
  ASSUME ReaderTypes, NEW s \in Reader
  PROVE  /\ sub[s] \in Subscriptions
         /\ sub[s].pc \in {"off", "attached", "live"}
         /\ sub[s].after \in Nat /\ sub[s].last \in Nat /\ sub[s].dropped \in Nat
         /\ sub[s].history \subseteq Nat
         /\ sub[s].queue \in Seq(Nat) /\ Len(sub[s].queue) <= BufferSize
         /\ wire[s] \in Seq(Nat) /\ cursor[s] \in Nat /\ seen[s] \in Seq(Nat)
  <1>1. sub[s] \in Subscriptions
    BY DEF ReaderTypes
  <1>2. /\ sub[s].pc \in {"off", "attached", "live"}
        /\ sub[s].after \in Nat /\ sub[s].last \in Nat /\ sub[s].dropped \in Nat
        /\ sub[s].history \subseteq Nat
        /\ sub[s].queue \in Seq(Nat)
    BY <1>1 DEF Subscriptions
  <1> QED BY <1>1, <1>2 DEF ReaderTypes

\* A reader nothing happens to.
LEMMA OthersKeep ==
  ASSUME NEW s \in Reader, ReaderOK(s), sub'[s] = sub[s], wire'[s] = wire[s],
         cursor'[s] = cursor[s], log' = log
  PROVE  ReaderOK(s)'
  BY DEF ReaderOK, Quiet, InOrder, NoGap, Increasing, Elements, Wanted

\* A reader without a subscription.
LEMMA OffKeeps ==
  ASSUME NEW s \in Reader, ReaderTypes, ReaderOK(s), sub'[s] = Off, wire'[s] = <<>>,
         cursor'[s] = cursor[s], log' = log
  PROVE  ReaderOK(s)'
  <1>1. /\ sub'[s].pc = "off" /\ sub'[s].history = {} /\ sub'[s].queue = <<>>
        /\ Elements(wire'[s]) = {} /\ Elements(sub'[s].queue) = {}
        /\ Increasing(wire'[s]) /\ Increasing(sub'[s].queue)
    BY DEF Off, Elements, Increasing
  <1>2. cursor'[s] <= Len(log')
    BY DEF ReaderOK, InOrder
  <1>3. Quiet(s)' /\ InOrder(s)' /\ NoGap(s)'
    BY <1>1, <1>2 DEF Quiet, InOrder, NoGap, Increasing, Elements
  <1> QED BY <1>3 DEF ReaderOK

\* A subscription starts at the reader's cursor, within the log.
LEMMA SubscribeKeeps ==
  ASSUME EventLogAssumption, WriterTypes, ReaderTypes, NEW s \in Reader, ReaderOK(s),
         Subscribe(s)
  PROVE  /\ sub'[s] \in Subscriptions /\ Len(sub'[s].queue) <= BufferSize
         /\ cursor'[s] \in Nat
         /\ ReaderOK(s)'
  <1> DEFINE a == StartAt(s)
  <1>1. /\ sub[s].pc = "off"
        /\ sub'[s] = [Off EXCEPT !.pc = "attached", !.after = a, !.last = a]
        /\ cursor'[s] = a
        /\ UNCHANGED <<log, wire>>
    BY DEF Subscribe, ReaderTypes
  <1>2. a \in Nat /\ a <= Len(log)
    <2>1. Len(log) \in Nat
      BY DEF WriterTypes
    <2> QED BY <2>1, FieldTypes DEF StartAt, ReaderOK, InOrder
  <1> HIDE DEF a
  <1>3. /\ sub'[s].pc = "attached" /\ sub'[s].last = a /\ sub'[s].after = a
        /\ sub'[s].history = {} /\ sub'[s].queue = <<>> /\ sub'[s].dropped = 0
        /\ sub'[s] = [pc |-> "attached", after |-> a, last |-> a, history |-> {},
                      queue |-> <<>>, dropped |-> 0]
    BY <1>1 DEF Off
  <1>4. wire'[s] = <<>>
    BY <1>1 DEF ReaderOK, Quiet
  <1>5. /\ Elements(wire'[s]) = {} /\ Elements(sub'[s].queue) = {}
        /\ Increasing(wire'[s]) /\ Increasing(sub'[s].queue)
    BY <1>3, <1>4 DEF Elements, Increasing
  <1>6. sub'[s] \in Subscriptions /\ Len(sub'[s].queue) <= BufferSize
    BY <1>2, <1>3, NothingLeft DEF Subscriptions, EventLogAssumption
  <1>7. Quiet(s)'
    BY <1>1, <1>3, <1>4 DEF Quiet
  <1>8. InOrder(s)'
    <2>1. cursor'[s] <= Len(log') /\ cursor'[s] <= sub'[s].last /\ sub'[s].last <= Len(log')
      BY <1>1, <1>2, <1>3
    <2> QED BY <1>3, <1>5, <2>1 DEF InOrder
  <1>9. NoGap(s)'
    BY <1>1, <1>2, <1>3 DEF NoGap
  <1> QED BY <1>1, <1>2, <1>6, <1>7, <1>8, <1>9 DEF ReaderOK

\* The history is all there is after the start of the subscription.
LEMMA SnapshotKeeps ==
  ASSUME EventLogAssumption, WriterTypes, ReaderTypes, NEW s \in Reader, ReaderOK(s),
         Snapshot(s)
  PROVE  /\ sub'[s] \in Subscriptions /\ Len(sub'[s].queue) <= BufferSize
         /\ ReaderOK(s)'
  <1>1. /\ sub[s].pc = "attached"
        /\ sub'[s] = [sub[s] EXCEPT !.pc = "live", !.history = History(s, sub[s].after)]
        /\ UNCHANGED <<log, wire, cursor>>
    BY DEF Snapshot, ReaderTypes
  <1>2. History(s, sub[s].after) \subseteq Nat /\ Len(log) \in Nat
    BY FieldTypes DEF History, WriterTypes
  <1> sub[s].after = sub[s].last
    BY <1>1 DEF ReaderOK, Quiet
  <1>3. /\ sub'[s].pc = "live" /\ sub'[s].last = sub[s].last
        /\ sub'[s].history = History(s, sub[s].last)
        /\ sub'[s].queue = sub[s].queue /\ sub'[s].dropped = sub[s].dropped
        /\ sub'[s] \in Subscriptions
    BY <1>1, <1>2, FieldTypes DEF Subscriptions
  <1>4. /\ wire[s] = <<>> /\ cursor[s] = sub[s].last
        /\ sub[s].last <= Len(log) /\ cursor[s] <= sub[s].last /\ cursor[s] <= Len(log)
        /\ Increasing(sub[s].queue)
        /\ \A n \in Elements(sub[s].queue) : 1 <= n /\ n <= Len(log) /\ Wanted(s, n)
    BY <1>1 DEF ReaderOK, Quiet, InOrder
  <1>5. /\ Elements(wire'[s]) = {} /\ Increasing(wire'[s])
        /\ \A n : Wanted(s, n)' = Wanted(s, n)
    BY <1>1, <1>4 DEF Elements, Increasing, Wanted
  <1>6. Quiet(s)'
    BY <1>1, <1>3, <1>4 DEF Quiet
  <1>7. InOrder(s)'
    <2>1. \A n \in sub'[s].history : sub'[s].last < n /\ n <= Len(log') /\ Wanted(s, n)
      BY <1>1, <1>2, <1>3, FieldTypes DEF History
    <2>2. /\ Increasing(sub'[s].queue)
          /\ \A n \in Elements(sub'[s].queue) : 1 <= n /\ n <= Len(log') /\ Wanted(s, n)
      BY <1>1, <1>3, <1>4
    <2>3. /\ cursor'[s] <= Len(log') /\ cursor'[s] <= sub'[s].last
          /\ sub'[s].last <= Len(log')
      BY <1>1, <1>3, <1>4
    <2> QED BY <1>5, <2>1, <2>2, <2>3 DEF InOrder
  <1>8. NoGap(s)'
    BY <1>1, <1>2, <1>3, <1>4, <1>5, FieldTypes DEF NoGap, History
  <1>9. Len(sub'[s].queue) <= BufferSize
    BY <1>3, FieldTypes
  <1> QED BY <1>3, <1>6, <1>7, <1>8, <1>9 DEF ReaderOK

\* Between the cursor and what has been yielded: everything wanted is on the
\* wire, in order.
OnWire(s) ==
    /\ cursor[s] <= sub[s].last
    /\ Increasing(wire[s])
    /\ \A n \in Elements(wire[s]) : cursor[s] < n /\ n <= sub[s].last /\ Wanted(s, n)
    /\ sub[s].dropped = 0 =>
          \A n \in cursor[s] + 1 .. sub[s].last : Wanted(s, n) => n \in Elements(wire[s])
    /\ s \notin Browsers => wire[s] = <<>> /\ cursor[s] = sub[s].last

\* An event handed over follows everything yielded before it.
LEMMA HandOverKeeps ==
  ASSUME WriterTypes, ReaderTypes, NEW s \in Reader, ReaderOK(s), NEW n \in Nat,
         HandOver(s, n), sub[s].pc = "live", sub'[s].pc = "live",
         sub[s].last < n, n <= Len(log), Wanted(s, n), log' = log,
         sub'[s].last = n, sub'[s].dropped = sub[s].dropped,
         sub[s].dropped = 0 => \A m \in sub[s].last + 1 .. n - 1 : ~Wanted(s, m)
  PROVE  /\ wire'[s] \in Seq(Nat) /\ cursor'[s] \in Nat /\ seen'[s] \in Seq(Nat)
         /\ OnWire(s)'
  <1>1. /\ wire[s] \in Seq(Nat) /\ cursor[s] \in Nat /\ seen[s] \in Seq(Nat)
        /\ sub[s].last \in Nat /\ Len(log) \in Nat
    BY FieldTypes DEF WriterTypes
  <1>2. /\ cursor[s] <= sub[s].last /\ Increasing(wire[s])
        /\ \A m \in Elements(wire[s]) : cursor[s] < m /\ m <= sub[s].last /\ Wanted(s, m)
        /\ sub[s].dropped = 0 => \A m \in cursor[s] + 1 .. sub[s].last :
              Wanted(s, m) => m \in Elements(wire[s])
        /\ s \notin Browsers => wire[s] = <<>> /\ cursor[s] = sub[s].last
    BY DEF ReaderOK, Quiet, InOrder, NoGap
  <1>3. \A m : Wanted(s, m)' = Wanted(s, m)
    BY DEF Wanted
  <1>4. Elements(wire[s]) \subseteq Nat
    BY <1>1 DEF Elements
  <1>5. CASE s \in Browsers
    <2>1. wire'[s] = Append(wire[s], n) /\ cursor' = cursor /\ seen' = seen
      BY <1>5 DEF HandOver, ReaderTypes
    <2>2. \A m \in Elements(wire[s]) : m < n
      BY <1>1, <1>2, <1>4
    <2>3. /\ Append(wire[s], n) \in Seq(Nat) /\ Increasing(Append(wire[s], n))
          /\ Elements(Append(wire[s], n)) = Elements(wire[s]) \cup {n}
      BY <1>1, <1>2, <2>2, AppendIncreases
    <2>4. wire'[s] \in Seq(Nat) /\ Increasing(wire'[s])
          /\ Elements(wire'[s]) = Elements(wire[s]) \cup {n}
      BY <2>1, <2>3
    <2>5. \A m \in Elements(wire'[s]) : cursor[s] < m /\ m <= n /\ Wanted(s, m)
      BY <1>1, <1>2, <1>4, <2>4
    <2>6. sub[s].dropped = 0 =>
            \A m \in cursor[s] + 1 .. n : Wanted(s, m) => m \in Elements(wire'[s])
      <3> SUFFICES ASSUME sub[s].dropped = 0, NEW m \in cursor[s] + 1 .. n,
                          Wanted(s, m), m # n
                   PROVE  m \in Elements(wire[s])
        BY <2>4
      <3> QED BY <1>1, <1>2
    <2> QED BY <1>1, <1>2, <1>3, <1>5, <2>1, <2>4, <2>5, <2>6 DEF OnWire
  <1>6. CASE s \notin Browsers
    <2>1. cursor'[s] = n /\ seen'[s] = Append(seen[s], n) /\ wire' = wire /\ wire[s] = <<>>
      BY <1>2, <1>6 DEF HandOver, ReaderTypes
    <2>2. Elements(wire'[s]) = {} /\ Increasing(wire'[s])
      BY <2>1 DEF Elements, Increasing
    <2>3. \A m \in n + 1 .. n : FALSE
      OBVIOUS
    <2>4. seen'[s] \in Seq(Nat)
      BY <1>1, <2>1
    <2> QED BY <1>1, <1>6, <2>1, <2>2, <2>3, <2>4 DEF OnWire
  <1> QED BY <1>5, <1>6

\* The least row of the history is the next event of the log that is wanted.
LEMMA HistoryIsNext ==
  ASSUME WriterTypes, ReaderTypes, NEW s \in Reader, ReaderOK(s),
         NEW n \in sub[s].history, \A m \in sub[s].history : n <= m
  PROVE  /\ n \in Nat /\ sub[s].last < n /\ n <= Len(log) /\ Wanted(s, n)
         /\ \A m \in sub[s].last + 1 .. n - 1 : ~Wanted(s, m)
  <1>1. /\ sub[s].last \in Nat /\ sub[s].history \subseteq Nat
    BY FieldTypes
  <1>2. sub[s].last < n /\ n <= Len(log) /\ Wanted(s, n)
    BY DEF ReaderOK, InOrder
  <1>3. \A m \in sub[s].last + 1 .. n : Wanted(s, m) => m \in sub[s].history
    BY DEF ReaderOK, NoGap
  <1>4. \A m \in sub[s].last + 1 .. n - 1 : m \in sub[s].last + 1 .. n /\ ~(n <= m)
    BY <1>1
  <1> QED BY <1>1, <1>2, <1>3, <1>4

\* The head of the buffer is too, once the history is read, unless the history
\* had it or the buffer has overflowed.
LEMMA BufferIsNext ==
  ASSUME WriterTypes, ReaderTypes, NEW s \in Reader, ReaderOK(s),
         sub[s].pc = "live", sub[s].history = {}, sub[s].queue # <<>>
  PROVE  LET n == Head(sub[s].queue)
         IN /\ n \in Nat /\ n <= Len(log) /\ Wanted(s, n)
            /\ sub[s].dropped = 0 => \A m \in sub[s].last + 1 .. n - 1 : ~Wanted(s, m)
  <1> DEFINE q == sub[s].queue
  <1>1. /\ q \in Seq(Nat) /\ Increasing(q) /\ q # <<>> /\ sub[s].last \in Nat
        /\ Len(log) \in Nat
        /\ \A m \in Elements(q) : 1 <= m /\ m <= Len(log) /\ Wanted(s, m)
    BY FieldTypes DEF ReaderOK, InOrder, WriterTypes
  <1>2. sub[s].dropped = 0 =>
          \A m \in sub[s].last + 1 .. Len(log) : Wanted(s, m) => m \in Elements(q)
    BY DEF ReaderOK, NoGap
  <1> HIDE DEF q
  <1>3. Head(q) \in Nat /\ Head(q) \in Elements(q)
    BY <1>1, TailIncreases
  <1>4. \A m \in Elements(q) : ~(m < Head(q))
    BY <1>1, HeadIsLeast
  <1>5. sub[s].dropped = 0 => \A m \in sub[s].last + 1 .. Head(q) - 1 : ~Wanted(s, m)
    <2> SUFFICES ASSUME sub[s].dropped = 0, NEW m \in sub[s].last + 1 .. Head(q) - 1,
                        Wanted(s, m)
                 PROVE  FALSE
      OBVIOUS
    <2>1. m \in sub[s].last + 1 .. Len(log) /\ m < Head(q)
      BY <1>1, <1>3
    <2> QED BY <1>2, <1>4, <2>1
  <1> QED BY <1>1, <1>3, <1>5 DEF q

LEMMA YieldHistoryKeeps ==
  ASSUME WriterTypes, ReaderTypes, NEW s \in Reader, ReaderOK(s), YieldHistory(s)
  PROVE  /\ sub'[s] \in Subscriptions /\ Len(sub'[s].queue) <= BufferSize
         /\ wire'[s] \in Seq(Nat) /\ cursor'[s] \in Nat /\ seen'[s] \in Seq(Nat)
         /\ ReaderOK(s)'
  <1>1. PICK n \in sub[s].history :
          /\ sub[s].pc = "live" /\ log' = log
          /\ \A m \in sub[s].history : n <= m
          /\ sub'[s] = [sub[s] EXCEPT !.history = @ \ {n}, !.last = n]
          /\ HandOver(s, n)
    BY DEF YieldHistory, ReaderTypes
  <1>2. /\ n \in Nat /\ sub[s].last < n /\ n <= Len(log) /\ Wanted(s, n)
        /\ \A m \in sub[s].last + 1 .. n - 1 : ~Wanted(s, m)
    BY <1>1, HistoryIsNext
  <1>3. /\ sub[s].last \in Nat /\ Len(log) \in Nat /\ sub[s].history \subseteq Nat
        /\ sub[s] \in Subscriptions /\ Len(sub[s].queue) <= BufferSize
    BY FieldTypes DEF WriterTypes
  <1>4. /\ sub'[s].pc = "live" /\ sub'[s].last = n
        /\ sub'[s].history = sub[s].history \ {n}
        /\ sub'[s].queue = sub[s].queue /\ sub'[s].dropped = sub[s].dropped
        /\ sub'[s] \in Subscriptions
    BY <1>1, <1>2, <1>3 DEF Subscriptions
  <1>5. /\ wire'[s] \in Seq(Nat) /\ cursor'[s] \in Nat /\ seen'[s] \in Seq(Nat)
        /\ OnWire(s)'
    BY <1>1, <1>2, <1>4, HandOverKeeps
  <1>6. \A m : Wanted(s, m)' = Wanted(s, m)
    BY <1>1 DEF Wanted
  <1>7. Quiet(s)'
    BY <1>4, <1>5 DEF Quiet, OnWire
  <1>8. InOrder(s)'
    <2>1. \A m \in sub'[s].history : n < m /\ m <= Len(log) /\ Wanted(s, m)
      BY <1>1, <1>2, <1>3, <1>4 DEF ReaderOK, InOrder
    <2>2. /\ Increasing(sub'[s].queue)
          /\ \A m \in Elements(sub'[s].queue) : 1 <= m /\ m <= Len(log) /\ Wanted(s, m)
      BY <1>4 DEF ReaderOK, InOrder
    <2>3. cursor'[s] <= Len(log)
      BY <1>2, <1>3, <1>4, <1>5 DEF OnWire
    <2> QED BY <1>1, <1>2, <1>4, <1>5, <1>6, <2>1, <2>2, <2>3 DEF InOrder, OnWire
  <1>9. NoGap(s)'
    <2>1. ASSUME NEW h \in sub'[s].history, NEW m \in n + 1 .. h, Wanted(s, m)
          PROVE  m \in sub'[s].history
      <3>1. h \in sub[s].history /\ h \in Nat /\ m \in sub[s].last + 1 .. h /\ m # n
        BY <1>2, <1>3, <1>4
      <3> QED BY <1>4, <2>1, <3>1 DEF ReaderOK, NoGap
    <2>2. ASSUME sub[s].dropped = 0, NEW m \in n + 1 .. Len(log), Wanted(s, m)
          PROVE  m \in sub'[s].history \cup Elements(sub'[s].queue)
      <3>1. m \in sub[s].last + 1 .. Len(log) /\ m # n
        BY <1>2, <1>3
      <3> QED BY <1>1, <1>4, <2>2, <3>1 DEF ReaderOK, NoGap
    <2> QED BY <1>1, <1>4, <1>5, <1>6, <2>1, <2>2 DEF NoGap, OnWire
  <1> QED BY <1>3, <1>4, <1>5, <1>7, <1>8, <1>9 DEF ReaderOK

LEMMA TakeLiveKeeps ==
  ASSUME WriterTypes, ReaderTypes, NEW s \in Reader, ReaderOK(s), TakeLive(s)
  PROVE  /\ sub'[s] \in Subscriptions /\ Len(sub'[s].queue) <= BufferSize
         /\ wire'[s] \in Seq(Nat) /\ cursor'[s] \in Nat /\ seen'[s] \in Seq(Nat)
         /\ ReaderOK(s)'
  <1> DEFINE q == sub[s].queue
             n == Head(q)
  <1>1. /\ sub[s].pc = "live" /\ sub[s].history = {} /\ q # <<>> /\ log' = log
    BY DEF TakeLive
  <1>2. /\ sub[s].last \in Nat /\ Len(log) \in Nat /\ q \in Seq(Nat) /\ Len(q) <= BufferSize
        /\ sub[s] \in Subscriptions /\ BufferSize \in Nat
        /\ wire[s] \in Seq(Nat) /\ cursor[s] \in Nat /\ seen[s] \in Seq(Nat)
    BY FieldTypes, EventLogAssumption DEF WriterTypes, EventLogAssumption
  <1>3. /\ n \in Nat /\ n <= Len(log) /\ Wanted(s, n)
        /\ sub[s].dropped = 0 => \A m \in sub[s].last + 1 .. n - 1 : ~Wanted(s, m)
    BY <1>1, BufferIsNext
  <1>4. Increasing(q) /\ \A m \in Elements(q) : 1 <= m /\ m <= Len(log) /\ Wanted(s, m)
    BY DEF ReaderOK, InOrder
  <1>5. \/ sub'[s] = [sub[s] EXCEPT !.queue = Tail(q)]
        \/ sub'[s] = [sub[s] EXCEPT !.queue = Tail(q), !.last = n]
    BY <1>2, <1>3 DEF TakeLive, IsRepeat, ReaderTypes
  <1> HIDE DEF q, n
  <1>6. /\ Tail(q) \in Seq(Nat) /\ Len(Tail(q)) = Len(q) - 1 /\ Increasing(Tail(q))
        /\ Elements(Tail(q)) = Elements(q) \ {n}
    BY <1>1, <1>2, <1>4, TailIncreases DEF n
  <1>7. /\ sub'[s].pc = "live" /\ sub'[s].history = {} /\ sub'[s].queue = Tail(q)
        /\ sub'[s].dropped = sub[s].dropped /\ sub'[s] \in Subscriptions
        /\ Len(sub'[s].queue) <= BufferSize
    <2>1. Len(q) \in Nat
      BY <1>2
    <2>2. /\ sub'[s].pc = sub[s].pc /\ sub'[s].history = sub[s].history
          /\ sub'[s].queue = Tail(q) /\ sub'[s].dropped = sub[s].dropped
          /\ sub'[s] \in Subscriptions
      BY <1>2, <1>3, <1>5, <1>6 DEF Subscriptions
    <2> QED BY <1>1, <1>2, <1>6, <2>1, <2>2
  <1>8. \A m : Wanted(s, m)' = Wanted(s, m)
    BY <1>1 DEF Wanted
  <1>9. /\ Increasing(sub'[s].queue)
        /\ \A m \in Elements(sub'[s].queue) : 1 <= m /\ m <= Len(log) /\ Wanted(s, m)
    BY <1>4, <1>6, <1>7
  <1>10. CASE n <= sub[s].last
    <2>1. /\ sub'[s].last = sub[s].last
          /\ wire'[s] = wire[s] /\ cursor'[s] = cursor[s] /\ seen'[s] = seen[s]
      BY <1>2, <1>10 DEF TakeLive, IsRepeat, ReaderTypes, q, n, Subscriptions
    <2>2. Quiet(s)'
      BY <1>1, <1>7, <2>1 DEF ReaderOK, Quiet
    <2>3. InOrder(s)'
      BY <1>1, <1>7, <1>8, <1>9, <2>1 DEF ReaderOK, InOrder
    <2>4. ASSUME sub[s].dropped = 0, NEW m \in sub[s].last + 1 .. Len(log), Wanted(s, m)
          PROVE  m \in Elements(Tail(q))
      <3>1. m \in Elements(q)
        BY <1>1, <2>4 DEF ReaderOK, NoGap, q
      <3> QED BY <1>2, <1>3, <1>6, <1>10, <3>1
    <2>5. NoGap(s)'
      BY <1>1, <1>7, <1>8, <2>1, <2>4 DEF ReaderOK, NoGap
    <2> QED BY <1>2, <1>7, <2>1, <2>2, <2>3, <2>5 DEF ReaderOK
  <1>11. CASE sub[s].last < n
    <2>1. sub'[s].last = n /\ HandOver(s, n)
      BY <1>2, <1>3, <1>11 DEF TakeLive, IsRepeat, ReaderTypes, q, n, Subscriptions
    <2>2. /\ wire'[s] \in Seq(Nat) /\ cursor'[s] \in Nat /\ seen'[s] \in Seq(Nat)
          /\ OnWire(s)'
      BY <1>1, <1>3, <1>7, <1>11, <2>1, HandOverKeeps
    <2>3. Quiet(s)'
      BY <1>7, <2>2 DEF Quiet, OnWire
    <2>4. cursor'[s] <= Len(log)
      BY <1>2, <1>3, <2>1, <2>2 DEF OnWire
    <2>5. InOrder(s)'
      BY <1>1, <1>3, <1>7, <1>8, <1>9, <2>1, <2>2, <2>4 DEF InOrder, OnWire
    <2>6. ASSUME sub[s].dropped = 0, NEW m \in n + 1 .. Len(log), Wanted(s, m)
          PROVE  m \in Elements(Tail(q))
      <3>1. m \in sub[s].last + 1 .. Len(log) /\ m # n
        BY <1>2, <1>3, <1>11
      <3>2. m \in Elements(q)
        BY <1>1, <2>6, <3>1 DEF ReaderOK, NoGap, q
      <3> QED BY <1>6, <3>1, <3>2
    <2>7. NoGap(s)'
      BY <1>1, <1>7, <1>8, <2>1, <2>2, <2>6 DEF NoGap, OnWire
    <2> QED BY <1>7, <2>2, <2>3, <2>5, <2>7 DEF ReaderOK
  <1> QED BY <1>2, <1>3, <1>10, <1>11

\* The first event on the wire is the next one the browser wants.
LEMMA WireIsNext ==
  ASSUME ReaderTypes, NEW s \in Reader, ReaderOK(s), wire[s] # <<>>
  PROVE  LET n == Head(wire[s])
         IN /\ n \in Nat /\ cursor[s] < n /\ n <= sub[s].last /\ sub[s].last <= Len(log)
            /\ Wanted(s, n)
            /\ sub[s].pc = "live" /\ s \in Browsers
            /\ sub[s].dropped = 0 => \A m \in cursor[s] + 1 .. n - 1 : ~Wanted(s, m)
  <1> DEFINE q == wire[s]
  <1>1. /\ q \in Seq(Nat) /\ q # <<>> /\ Increasing(q)
        /\ \A m \in Elements(q) : cursor[s] < m /\ m <= sub[s].last /\ Wanted(s, m)
        /\ cursor[s] \in Nat /\ sub[s].last \in Nat
    BY FieldTypes DEF ReaderOK, InOrder
  <1>2. sub[s].pc = "live" /\ s \in Browsers
    BY FieldTypes DEF ReaderOK, Quiet
  <1>3. /\ sub[s].last <= Len(log)
        /\ sub[s].dropped = 0 => \A m \in cursor[s] + 1 .. sub[s].last :
              Wanted(s, m) => m \in Elements(q)
    BY <1>2 DEF ReaderOK, InOrder, NoGap
  <1> HIDE DEF q
  <1>4. Head(q) \in Nat /\ Head(q) \in Elements(q)
    BY <1>1, TailIncreases
  <1>5. \A m \in Elements(q) : ~(m < Head(q))
    BY <1>1, HeadIsLeast
  <1>6. sub[s].dropped = 0 => \A m \in cursor[s] + 1 .. Head(q) - 1 : ~Wanted(s, m)
    <2> SUFFICES ASSUME sub[s].dropped = 0, NEW m \in cursor[s] + 1 .. Head(q) - 1,
                        Wanted(s, m)
                 PROVE  FALSE
      OBVIOUS
    <2>1. m \in cursor[s] + 1 .. sub[s].last /\ m < Head(q)
      BY <1>1, <1>4
    <2> QED BY <1>3, <1>5, <2>1
  <1> QED BY <1>1, <1>2, <1>3, <1>4, <1>6 DEF q

LEMMA ReadKeeps ==
  ASSUME WriterTypes, ReaderTypes, NEW s \in Reader, ReaderOK(s), Read(s)
  PROVE  /\ wire'[s] \in Seq(Nat) /\ cursor'[s] \in Nat /\ seen'[s] \in Seq(Nat)
         /\ ReaderOK(s)'
  <1> DEFINE n == Head(wire[s])
  <1>1. /\ wire[s] # <<>> /\ wire'[s] = Tail(wire[s]) /\ cursor'[s] = n
        /\ seen'[s] = Append(seen[s], n) /\ log' = log /\ sub' = sub
    BY DEF Read, ReaderTypes
  <1>2. /\ n \in Nat /\ cursor[s] < n /\ n <= sub[s].last /\ sub[s].last <= Len(log)
        /\ sub[s].pc = "live" /\ s \in Browsers
    BY <1>1, WireIsNext
  <1>3. /\ wire[s] \in Seq(Nat) /\ cursor[s] \in Nat /\ seen[s] \in Seq(Nat)
        /\ sub[s].last \in Nat /\ Len(log) \in Nat /\ Increasing(wire[s])
    BY FieldTypes DEF WriterTypes, ReaderOK, InOrder
  <1>4. /\ Tail(wire[s]) \in Seq(Nat) /\ Increasing(Tail(wire[s]))
        /\ Elements(Tail(wire[s])) = Elements(wire[s]) \ {n}
        /\ \A m \in Elements(Tail(wire[s])) : n < m
    BY <1>1, <1>3, TailIncreases
  <1> HIDE DEF n
  <1>5. \A m : Wanted(s, m)' = Wanted(s, m)
    BY <1>1 DEF Wanted
  <1>6. Quiet(s)'
    BY <1>1, <1>2 DEF Quiet
  <1>7. \A m \in Elements(wire'[s]) : n < m /\ m <= sub[s].last /\ Wanted(s, m)
    BY <1>1, <1>4 DEF ReaderOK, InOrder
  <1>8. Increasing(wire'[s]) /\ n <= Len(log)
    BY <1>1, <1>2, <1>3, <1>4
  <1>9. InOrder(s)'
    BY <1>1, <1>2, <1>5, <1>7, <1>8 DEF ReaderOK, InOrder
  <1>10. ASSUME sub[s].dropped = 0, NEW m \in n + 1 .. sub[s].last, Wanted(s, m)
         PROVE  m \in Elements(wire'[s])
    <2>1. m \in cursor[s] + 1 .. sub[s].last /\ m # n
      BY <1>2, <1>3
    <2> QED BY <1>1, <1>2, <1>4, <1>10, <2>1 DEF ReaderOK, NoGap
  <1>11. NoGap(s)'
    BY <1>1, <1>5, <1>10 DEF ReaderOK, NoGap
  <1>12. seen'[s] \in Seq(Nat)
    BY <1>1, <1>2, <1>3
  <1> QED BY <1>1, <1>2, <1>4, <1>6, <1>9, <1>11, <1>12 DEF ReaderOK

\* A new event goes to the end of every buffer it is wanted in.
LEMMA PublishKeeps ==
  ASSUME EventLogAssumption, WriterTypes, ReaderTypes, NEW s \in Reader, ReaderOK(s), Commit
  PROVE  /\ sub'[s] \in Subscriptions /\ Len(sub'[s].queue) <= BufferSize
         /\ sub[s].dropped <= sub'[s].dropped
         /\ ReaderOK(s)'
  <1> DEFINE w == Head(chain)
             l == Len(log)
             q == sub[s].queue
  <1>1. /\ log' = Append(log, w) /\ Publish(l + 1, w.kind)
        /\ UNCHANGED <<wire, cursor>> /\ chain # <<>>
    BY DEF Commit
  <1>2. /\ w \in Event /\ log \in Seq(Event)
    BY <1>1 DEF WriterTypes
  <1>3. /\ l \in Nat /\ Len(log') = l + 1 /\ log'[l + 1] = w
        /\ \A i \in 1 .. l : log'[i] = log[i]
    BY <1>1, <1>2, AppendIndices
  <1>4. /\ \A m \in 1 .. l : Wanted(s, m)' <=> Wanted(s, m)
        /\ \A m : m = l + 1 => (Wanted(s, m)' <=> w.kind \in Wants[s])
    BY <1>3 DEF Wanted
  <1>5. /\ sub[s] \in Subscriptions /\ sub[s].last \in Nat /\ sub[s].dropped \in Nat
        /\ q \in Seq(Nat) /\ Len(q) <= BufferSize /\ BufferSize \in Nat \ {0}
        /\ sub[s].history \subseteq Nat /\ cursor[s] \in Nat /\ wire[s] \in Seq(Nat)
        /\ sub[s].pc \in {"off", "attached", "live"}
    BY FieldTypes DEF EventLogAssumption
  <1>6. /\ Increasing(q) /\ Increasing(wire[s])
        /\ \A m \in Elements(q) : 1 <= m /\ m <= l /\ Wanted(s, m)
        /\ \A m \in Elements(wire[s]) : cursor[s] < m /\ m <= sub[s].last /\ Wanted(s, m)
        /\ \A m \in sub[s].history : sub[s].last < m /\ m <= l /\ Wanted(s, m)
        /\ cursor[s] <= l
        /\ sub[s].pc # "off" => cursor[s] <= sub[s].last /\ sub[s].last <= l
    BY DEF ReaderOK, InOrder
  <1>7. Elements(q) \subseteq Nat /\ Elements(wire[s]) \subseteq Nat
    <2>1. /\ \A i \in 1..Len(q) : q[i] \in Nat
          /\ \A i \in 1..Len(wire[s]) : wire[s][i] \in Nat
      BY SMTT(30), <1>5
    <2> HIDE DEF q
    <2> QED BY <2>1 DEF Elements
  <1>8. \/ sub'[s] = sub[s] /\ (sub[s].pc = "off" \/ w.kind \notin Wants[s])
        \/ /\ sub[s].pc # "off" /\ w.kind \in Wants[s]
           /\ sub'[s] = [sub[s] EXCEPT !.queue = Push(q, l + 1),
                                       !.dropped = IF Len(q) >= BufferSize
                                                     THEN sub[s].dropped + 1
                                                     ELSE sub[s].dropped]
    BY <1>1 DEF Publish
  <1> HIDE DEF w, l, q
  <1>9. /\ Push(q, l + 1) \in Seq(Nat) /\ Len(Push(q, l + 1)) <= BufferSize
        /\ Increasing(Push(q, l + 1))
        /\ Elements(Push(q, l + 1)) \subseteq Elements(q) \cup {l + 1}
        /\ Len(q) < BufferSize => Elements(Push(q, l + 1)) = Elements(q) \cup {l + 1}
    <2>1. l + 1 \in Nat /\ \A m \in Elements(q) : m < l + 1
      BY <1>3, <1>6, <1>7
    <2> QED BY <1>5, <1>6, <2>1, PushIncreases
  <1>10. \/ /\ sub'[s] = sub[s] /\ sub'[s].queue = q /\ sub'[s].dropped = sub[s].dropped
            /\ sub[s].pc = "off" \/ w.kind \notin Wants[s]
         \/ /\ sub[s].pc # "off" /\ w.kind \in Wants[s]
            /\ sub'[s].queue = Push(q, l + 1)
            /\ sub'[s].dropped = IF Len(q) >= BufferSize THEN sub[s].dropped + 1
                                                        ELSE sub[s].dropped
            /\ sub'[s] \in Subscriptions
            /\ sub'[s].pc = sub[s].pc /\ sub'[s].last = sub[s].last
            /\ sub'[s].after = sub[s].after /\ sub'[s].history = sub[s].history
    <2>1. CASE sub[s].pc = "off" \/ w.kind \notin Wants[s]
      BY <1>8, <2>1 DEF q
    <2>2. CASE ~(sub[s].pc = "off" \/ w.kind \notin Wants[s])
      <3>1. /\ sub[s].pc # "off" /\ w.kind \in Wants[s]
            /\ sub'[s] = [sub[s] EXCEPT !.queue = Push(q, l + 1),
                                        !.dropped = IF Len(q) >= BufferSize
                                                      THEN sub[s].dropped + 1
                                                      ELSE sub[s].dropped]
        BY <1>8, <2>2
      <3>2. (IF Len(q) >= BufferSize THEN sub[s].dropped + 1 ELSE sub[s].dropped) \in Nat
        BY <1>5
      <3> QED BY <1>5, <1>9, <3>1, <3>2 DEF Subscriptions
    <2> QED BY <2>1, <2>2
  <1>11. /\ sub'[s] \in Subscriptions
         /\ sub'[s].pc = sub[s].pc /\ sub'[s].last = sub[s].last
         /\ sub'[s].after = sub[s].after /\ sub'[s].history = sub[s].history
         /\ sub[s].dropped <= sub'[s].dropped
         /\ Len(sub'[s].queue) <= BufferSize /\ Increasing(sub'[s].queue)
         /\ \A m \in Elements(sub'[s].queue) :
               \/ m \in Elements(q)
               \/ m = l + 1 /\ w.kind \in Wants[s]
    BY <1>5, <1>6, <1>9, <1>10
  <1>12. sub'[s].dropped = 0 /\ sub[s].pc # "off" =>
           /\ sub[s].dropped = 0
           /\ Elements(q) \subseteq Elements(sub'[s].queue)
           /\ w.kind \in Wants[s] => l + 1 \in Elements(sub'[s].queue)
    <2>1. Len(q) \in Nat
      BY <1>5
    <2> QED BY <1>5, <1>9, <1>10, <2>1
  <1>13. Quiet(s)'
    BY <1>1, <1>10, <1>11 DEF ReaderOK, Quiet
  <1>14. \A m \in Elements(sub'[s].queue) : 1 <= m /\ m <= l + 1 /\ Wanted(s, m)'
    <2> SUFFICES ASSUME NEW m \in Elements(sub'[s].queue)
                 PROVE  1 <= m /\ m <= l + 1 /\ Wanted(s, m)'
      OBVIOUS
    <2>1. CASE m \in Elements(q)
      <3>1. m \in 1 .. l /\ Wanted(s, m)
        BY <1>3, <1>6, <1>7, <2>1
      <3> QED BY <1>3, <1>4, <3>1
    <2>2. CASE m = l + 1 /\ w.kind \in Wants[s]
      BY <1>3, <1>4, <2>2
    <2> QED BY <1>11, <2>1, <2>2
  <1>15. \A m \in Elements(wire[s]) : cursor[s] < m /\ m <= sub[s].last /\ Wanted(s, m)'
    <2>1. wire[s] # <<>> => sub[s].pc = "live"
      BY <1>5 DEF ReaderOK, Quiet
    <2>2. ASSUME NEW m \in Elements(wire[s]) PROVE m \in 1 .. l
      <3>1. wire[s] # <<>>
        BY <2>2 DEF Elements
      <3> QED BY <1>3, <1>5, <1>6, <1>7, <2>1, <2>2, <3>1
    <2> QED BY <1>4, <1>6, <2>2
  <1>16. \A m \in sub[s].history : sub[s].last < m /\ m <= l + 1 /\ Wanted(s, m)'
    <2>1. \A m \in sub[s].history : m \in 1 .. l
      BY <1>3, <1>5, <1>6
    <2> QED BY <1>3, <1>4, <1>6, <2>1
  <1>17. cursor[s] <= l + 1 /\ (sub[s].pc # "off" => sub[s].last <= l + 1)
    BY <1>3, <1>5, <1>6
  <1>18. InOrder(s)'
    BY <1>1, <1>3, <1>6, <1>11, <1>14, <1>15, <1>16, <1>17 DEF InOrder
  <1>19. ASSUME NEW h \in sub[s].history, NEW m \in sub[s].last + 1 .. h, Wanted(s, m)'
         PROVE  m \in sub[s].history
    <2>1. m \in 1 .. l
      BY <1>3, <1>5, <1>6
    <2> QED BY <1>4, <1>19, <2>1 DEF ReaderOK, NoGap
  <1>20. ASSUME sub'[s].dropped = 0, sub[s].pc # "off",
                NEW m \in cursor[s] + 1 .. sub[s].last, Wanted(s, m)'
         PROVE  m \in Elements(wire[s])
    <2>1. m \in 1 .. l
      BY <1>3, <1>5, <1>6, <1>20
    <2> QED BY <1>4, <1>12, <1>20, <2>1 DEF ReaderOK, NoGap
  <1>21. ASSUME sub'[s].dropped = 0, sub[s].pc = "live",
                NEW m \in sub[s].last + 1 .. l + 1, Wanted(s, m)'
         PROVE  m \in sub[s].history \cup Elements(sub'[s].queue)
    <2>1. CASE m = l + 1
      BY <1>4, <1>12, <1>21, <2>1
    <2>2. CASE m # l + 1
      <3>1. m \in 1 .. l /\ m \in sub[s].last + 1 .. l
        BY <1>3, <1>5, <1>6, <1>21, <2>2
      <3>2. sub[s].dropped = 0 /\ Wanted(s, m)
        BY <1>4, <1>12, <1>21, <3>1
      <3>3. m \in sub[s].history \cup Elements(q)
        BY <1>21, <3>1, <3>2 DEF ReaderOK, NoGap, l, q
      <3> QED BY <1>12, <1>21, <3>3
    <2> QED BY <2>1, <2>2
  <1>22. NoGap(s)'
    BY <1>1, <1>3, <1>11, <1>19, <1>20, <1>21 DEF NoGap
  <1> QED BY <1>11, <1>13, <1>18, <1>22 DEF ReaderOK

----------------------------------------------------------------------------
(* The invariant *)

\* Every step keeps what is on the way to each reader.
LEMMA ReaderStep ==
  ASSUME EventLogAssumption, WriterTypes, ReaderTypes, OnTheWay, [Next]_vars
  PROVE  ReaderTypes' /\ OnTheWay'
  <1> USE DEF OnTheWay
  <1>1. ASSUME UNCHANGED <<log, sub, wire, cursor, seen>>
        PROVE  ReaderTypes' /\ OnTheWay'
    BY <1>1, OthersKeep DEF ReaderTypes
  <1>2. CASE Commit
    <2>1. UNCHANGED <<wire, cursor, seen>> /\ DOMAIN sub' = Reader
      BY <1>2 DEF Commit, Publish
    <2>2. \A s \in Reader : /\ sub'[s] \in Subscriptions
                           /\ Len(sub'[s].queue) <= BufferSize
                           /\ ReaderOK(s)'
      BY <1>2, PublishKeeps
    <2>3. sub' \in [Reader -> Subscriptions]
      BY <1>2, <2>2 DEF Commit, Publish
    <2> QED BY <2>1, <2>2, <2>3 DEF ReaderTypes
  <1>3. ASSUME NEW s \in Reader,
               log' = log,
               \A t \in Reader : t # s =>
                   /\ sub'[t] = sub[t] /\ wire'[t] = wire[t]
                   /\ cursor'[t] = cursor[t] /\ seen'[t] = seen[t],
               DOMAIN sub' = Reader, sub' = [t \in Reader |-> sub'[t]],
               wire' = [t \in Reader |-> wire'[t]],
               cursor' = [t \in Reader |-> cursor'[t]],
               seen' = [t \in Reader |-> seen'[t]],
               sub'[s] \in Subscriptions, Len(sub'[s].queue) <= BufferSize,
               wire'[s] \in Seq(Nat), cursor'[s] \in Nat, seen'[s] \in Seq(Nat),
               ReaderOK(s)'
        PROVE  ReaderTypes' /\ OnTheWay'
    <2>1. ASSUME NEW t \in Reader
          PROVE  /\ sub'[t] \in Subscriptions /\ Len(sub'[t].queue) <= BufferSize
                 /\ wire'[t] \in Seq(Nat) /\ cursor'[t] \in Nat /\ seen'[t] \in Seq(Nat)
                 /\ ReaderOK(t)'
      <3>1. CASE t = s
        BY <1>3, <3>1
      <3>2. CASE t # s
        <4>1. /\ sub'[t] = sub[t] /\ wire'[t] = wire[t]
              /\ cursor'[t] = cursor[t] /\ seen'[t] = seen[t]
          BY <1>3, <3>2
        <4>2. ReaderOK(t)'
          BY <1>3, <4>1, OthersKeep
        <4> QED BY <4>1, <4>2, FieldTypes
      <3> QED BY <3>1, <3>2
    <2>2. /\ sub' \in [Reader -> Subscriptions] /\ wire' \in [Reader -> Seq(Nat)]
          /\ cursor' \in [Reader -> Nat] /\ seen' \in [Reader -> Seq(Nat)]
      BY <1>3, <2>1
    <2> QED BY <2>1, <2>2 DEF ReaderTypes
  <1>4. ASSUME NEW s \in Reader, Subscribe(s) PROVE ReaderTypes' /\ OnTheWay'
    <2>1. /\ sub'[s] \in Subscriptions /\ Len(sub'[s].queue) <= BufferSize
          /\ cursor'[s] \in Nat /\ ReaderOK(s)'
      BY <1>4, SubscribeKeeps
    <2>2. wire' = wire /\ seen' = seen /\ log' = log
      BY <1>4 DEF Subscribe
    <2> QED BY <1>3, <1>4, <2>1, <2>2, FieldTypes DEF Subscribe, ReaderTypes
  <1>5. ASSUME NEW s \in Reader, Snapshot(s) PROVE ReaderTypes' /\ OnTheWay'
    <2>1. /\ sub'[s] \in Subscriptions /\ Len(sub'[s].queue) <= BufferSize
          /\ ReaderOK(s)'
      BY <1>5, SnapshotKeeps
    <2> QED BY <1>3, <1>5, <2>1, FieldTypes DEF Snapshot, ReaderTypes
  <1>6. ASSUME NEW s \in Reader, YieldHistory(s) PROVE ReaderTypes' /\ OnTheWay'
    <2>1. /\ sub'[s] \in Subscriptions /\ Len(sub'[s].queue) <= BufferSize
          /\ wire'[s] \in Seq(Nat) /\ cursor'[s] \in Nat /\ seen'[s] \in Seq(Nat)
          /\ ReaderOK(s)'
      BY <1>6, YieldHistoryKeeps
    <2> QED BY ZenonT(60), <1>3, <1>6, <2>1 DEF YieldHistory, HandOver, ReaderTypes
  <1>7. ASSUME NEW s \in Reader, TakeLive(s) PROVE ReaderTypes' /\ OnTheWay'
    <2>1. /\ sub'[s] \in Subscriptions /\ Len(sub'[s].queue) <= BufferSize
          /\ wire'[s] \in Seq(Nat) /\ cursor'[s] \in Nat /\ seen'[s] \in Seq(Nat)
          /\ ReaderOK(s)'
      BY <1>7, TakeLiveKeeps
    <2> QED BY ZenonT(60), <1>3, <1>7, <2>1 DEF TakeLive, HandOver, ReaderTypes
  <1>8. ASSUME NEW s \in Reader, Read(s) PROVE ReaderTypes' /\ OnTheWay'
    <2>1. /\ wire'[s] \in Seq(Nat) /\ cursor'[s] \in Nat /\ seen'[s] \in Seq(Nat)
          /\ ReaderOK(s)'
      BY <1>8, ReadKeeps
    <2> QED BY <1>3, <1>8, <2>1, FieldTypes DEF Read, ReaderTypes
  <1>9. Off \in Subscriptions /\ Len(Off.queue) <= BufferSize /\ <<>> \in Seq(Nat)
    BY NothingLeft DEF Off, Subscriptions, EventLogAssumption
  <1>10. ASSUME NEW s \in Reader, Disconnect(s) PROVE ReaderTypes' /\ OnTheWay'
    <2>1. ReaderOK(s)'
      BY <1>10, OffKeeps DEF Disconnect, ReaderTypes
    <2>2. sub'[s] = Off /\ wire'[s] = <<>>
      BY <1>10 DEF Disconnect, ReaderTypes
    <2> QED BY <1>3, <1>9, <1>10, <2>1, <2>2, FieldTypes DEF Disconnect, ReaderTypes
  <1>11. CASE Restart
    <2>1. /\ sub' = [s \in Reader |-> Off] /\ wire' = [s \in Reader |-> <<>>]
          /\ UNCHANGED <<log, cursor, seen>>
      BY <1>11 DEF Restart
    <2>2. \A s \in Reader : ReaderOK(s)'
      BY <2>1, OffKeeps
    <2> QED BY <1>9, <2>1, <2>2 DEF ReaderTypes
  <1>12. CASE (\E k \in Kind : EnqueueWrite(k)) \/ LoseRace \/ Busy \/ LinkFails \/ UNCHANGED vars
    BY <1>1, <1>12 DEF EnqueueWrite, LoseRace, Busy, LinkFails, readers, vars
  <1> QED BY <1>2, <1>4, <1>5, <1>6, <1>7, <1>8, <1>10, <1>11, <1>12 DEF Next

\* The types and the invariants together are inductive.
THEOREM Invariance == Spec => []Inv
  <1> USE EventLogAssumption
  <1>1. Init => Inv
    <2> SUFFICES ASSUME Init PROVE Inv
      OBVIOUS
    <2>1. /\ Len(chain) = 0 /\ Len(log) = 0 /\ chain \in Seq(Event) /\ log \in Seq(Event)
          /\ told \in [Link -> Answers] /\ \A l \in Link : told[l] # "waiting"
          /\ column \in [Row -> RowState] /\ moved \subseteq Event /\ breaks \in Nat
      BY NothingLeft DEF Init, Answers, EventLogAssumption
    <2>2. tries \in 0 .. MaxAttempts - 1
      BY DEF Init, EventLogAssumption
    <2>3. {chain[i].link : i \in 1 .. Len(chain)} = {l \in Link : told[l] = "waiting"}
      BY <2>1
    <2>4. WriterTypes /\ WriterInOrder /\ LogInOrder
      BY <2>1, <2>2, <2>3 DEF WriterTypes, WriterInOrder, LogInOrder
    <2>5. Off \in Subscriptions /\ Len(Off.queue) <= BufferSize /\ <<>> \in Seq(Nat)
      BY NothingLeft DEF Off, Subscriptions, EventLogAssumption
    <2>6. ReaderTypes
      BY <2>5 DEF Init, ReaderTypes
    <2>7. ASSUME NEW s \in Reader PROVE ReaderOK(s)
      <3>1. /\ sub[s] = Off /\ sub[s].pc = "off" /\ sub[s].history = {}
            /\ wire[s] = <<>> /\ sub[s].queue = <<>> /\ cursor[s] = 0
        BY DEF Init, Off
      <3>2. /\ Increasing(wire[s]) /\ Elements(wire[s]) = {}
            /\ Increasing(sub[s].queue) /\ Elements(sub[s].queue) = {}
        BY <3>1 DEF Increasing, Elements
      <3> QED BY <2>1, <3>1, <3>2 DEF ReaderOK, Quiet, InOrder, NoGap
    <2> QED BY <2>4, <2>6, <2>7 DEF Inv, TypeOK, OnTheWay
  <1>2. Inv /\ [Next]_vars => Inv'
    BY WriterStep, ReaderStep DEF Inv, WriterInv, TypeOK
  <1> QED BY <1>1, <1>2, PTL DEF Spec

\* The types are right, the buffers bounded, and the chain is what waits.
THEOREM LogTypeCorrect == Spec => []TypeOK
  <1>1. Inv => TypeOK
    BY DEF Inv
  <1> QED BY <1>1, Invariance, PTL

\* The log is in the order of the writes, whatever is retried.
THEOREM LogStaysInOrder == Spec => []LogInOrder
  <1>1. Inv => LogInOrder
    BY DEF Inv
  <1> QED BY <1>1, Invariance, PTL

----------------------------------------------------------------------------
(* The log delivers what OrderedDelivery promises *)

\* The kinds of a sequence of events.
LEMMA KindsOf ==
  ASSUME NEW q \in Seq(Event)
  PROVE  /\ [n \in 1 .. Len(q) |-> q[n].kind] \in Seq(Kind)
         /\ Len([n \in 1 .. Len(q) |-> q[n].kind]) = Len(q) /\ Len(q) \in Nat
         /\ \A m \in 1 .. Len(q) : [n \in 1 .. Len(q) |-> q[n].kind][m] = q[m].kind
  <1>1. \A n \in 1 .. Len(q) : q[n] \in Event
    OBVIOUS
  <1>2. \A n \in 1 .. Len(q) : q[n].kind \in Kind
    BY <1>1 DEF Event
  <1> DEFINE ks == [n \in 1 .. Len(q) |-> q[n].kind]
  <1>3. ks \in [1 .. Len(q) -> Kind] /\ Len(q) \in Nat
    BY <1>2
  <1>4. \A m \in 1 .. Len(q) : ks[m] = q[m].kind
    OBVIOUS
  <1> HIDE DEF ks
  <1>5. ks \in Seq(Kind) /\ Len(ks) = Len(q)
    BY <1>3
  <1> QED BY <1>3, <1>4, <1>5 DEF ks

\* The two views of the log agree.
LEMMA KindsAre ==
  ASSUME WriterTypes
  PROVE  /\ Kinds \in Seq(Kind) /\ Len(Kinds) = Len(log) /\ Len(log) \in Nat
         /\ \A n \in 1 .. Len(log) : Kinds[n] = log[n].kind
  BY KindsOf DEF WriterTypes, Kinds

\* A logged event is emitted, and no overflow forgotten.
LEMMA CommitEmits ==
  ASSUME EventLogAssumption, WriterTypes, WriterTypes', ReaderTypes, OnTheWay, Commit
  PROVE  \E k \in Kind : Delivery!Emit(k)
  <1> DEFINE w == Head(chain)
  <1>1. w \in Event /\ log \in Seq(Event) /\ log' = Append(log, w)
    BY DEF Commit, WriterTypes
  <1>2. w.kind \in Kind
    BY <1>1 DEF Event
  <1> HIDE DEF w
  <1>3. /\ Len(log') = Len(log) + 1 /\ log'[Len(log) + 1] = w
        /\ \A n \in 1 .. Len(log) : log'[n] = log[n]
    BY <1>1, AppendIndices
  <1>4. /\ Kinds \in Seq(Kind) /\ Len(Kinds) = Len(log) /\ Len(log) \in Nat
        /\ \A n \in 1 .. Len(log) : Kinds[n] = log[n].kind
    BY KindsAre
  <1>5. /\ Kinds' \in Seq(Kind) /\ Len(Kinds') = Len(log) + 1
        /\ \A n \in 1 .. Len(log) + 1 : Kinds'[n] = log'[n].kind
    <2>1. /\ Kinds' \in Seq(Kind) /\ Len(Kinds') = Len(log')
          /\ \A n \in 1 .. Len(log') : Kinds'[n] = log'[n].kind
      BY KindsOf DEF WriterTypes, Kinds
    <2> QED BY <1>3, <2>1
  <1>6. /\ Append(Kinds, w.kind) \in Seq(Kind) /\ Len(Append(Kinds, w.kind)) = Len(log) + 1
        /\ Append(Kinds, w.kind)[Len(log) + 1] = w.kind
        /\ \A n \in 1 .. Len(log) : Append(Kinds, w.kind)[n] = Kinds[n]
    BY <1>2, <1>4, AppendIndices
  <1>7. \A n \in 1 .. Len(log) + 1 : Kinds'[n] = Append(Kinds, w.kind)[n]
    BY <1>3, <1>4, <1>5, <1>6
  <1>8. Kinds' = Append(Kinds, w.kind)
    BY <1>4, <1>5, <1>6, <1>7
  <1>9. Overflowed \subseteq Overflowed' /\ Overflowed' \subseteq Reader
    <2>1. \A s \in Reader : sub[s].dropped <= sub'[s].dropped /\ sub'[s] \in Subscriptions
      BY PublishKeeps DEF OnTheWay
    <2>2. \A s \in Reader : sub[s].dropped \in Nat /\ sub'[s].dropped \in Nat
      BY <2>1, FieldTypes DEF Subscriptions
    <2> QED BY <2>1, <2>2 DEF Overflowed
  <1>10. UNCHANGED <<seen, cursor>>
    BY DEF Commit
  <1> QED BY <1>2, <1>8, <1>9, <1>10 DEF Delivery!Emit

\* The event a reader gets is the next one it wants.
LEMMA NextIsReceived ==
  ASSUME WriterTypes, ReaderTypes, NEW s \in Reader, NEW n \in Nat,
         cursor[s] < n, n <= Len(log), Wanted(s, n),
         sub[s].dropped = 0 => \A m \in cursor[s] + 1 .. n - 1 : ~Wanted(s, m),
         seen' = [seen EXCEPT ![s] = Append(@, n)], cursor' = [cursor EXCEPT ![s] = n],
         log' = log, Overflowed' = Overflowed
  PROVE  Delivery!Next
  <1>1. /\ Len(Kinds) = Len(log) /\ Len(log) \in Nat
        /\ \A m \in 1 .. Len(log) : Kinds[m] = log[m].kind
    BY KindsAre
  <1>2. cursor[s] \in Nat /\ sub[s].dropped \in Nat
    BY FieldTypes
  <1>3. n \in 1 .. Len(Kinds) /\ Delivery!Wanted(s, n)
    BY <1>1, <1>2 DEF Delivery!Wanted, Wanted
  <1>4. s \in Overflowed \/ \A m \in cursor[s] + 1 .. n - 1 : ~Delivery!Wanted(s, m)
    <2> SUFFICES ASSUME s \notin Overflowed, NEW m \in cursor[s] + 1 .. n - 1
                 PROVE  ~Delivery!Wanted(s, m)
      OBVIOUS
    <2>1. sub[s].dropped = 0
      BY <1>2 DEF Overflowed
    <2>2. m \in 1 .. Len(log)
      BY <1>1, <1>2
    <2> QED BY <1>1, <2>1, <2>2 DEF Delivery!Wanted, Wanted
  <1>5. Kinds' = Kinds
    BY DEF Kinds
  <1>6. Delivery!Receive(s, n)
    BY <1>3, <1>4, <1>5 DEF Delivery!Receive
  <1> QED BY <1>3, <1>6 DEF Delivery!Next

\* A hand-over is an event received, or one put on the wire.
LEMMA HandOverDelivers ==
  ASSUME WriterTypes, ReaderTypes, NEW s \in Reader, ReaderOK(s), NEW n \in Nat,
         HandOver(s, n), sub[s].pc = "live", sub[s].last < n, n <= Len(log), Wanted(s, n),
         sub[s].dropped = 0 => \A m \in sub[s].last + 1 .. n - 1 : ~Wanted(s, m),
         log' = log, Overflowed' = Overflowed
  PROVE  [Delivery!Next]_Delivery!vars
  <1>1. CASE s \in Browsers
    BY <1>1 DEF HandOver, Delivery!vars, Kinds
  <1>2. CASE s \notin Browsers
    <2>1. cursor[s] = sub[s].last
      BY <1>2 DEF ReaderOK, Quiet
    <2>2. /\ seen' = [seen EXCEPT ![s] = Append(@, n)]
          /\ cursor' = [cursor EXCEPT ![s] = n]
      BY <1>2 DEF HandOver
    <2> QED BY <2>1, <2>2, NextIsReceived
  <1> QED BY <1>1, <1>2

\* Every step of the log is one of OrderedDelivery or none.
LEMMA DeliveryStep ==
  ASSUME EventLogAssumption, WriterTypes, WriterTypes', ReaderTypes, OnTheWay, [Next]_vars
  PROVE  [Delivery!Next]_Delivery!vars
  <1>1. ASSUME UNCHANGED <<log, sub, seen, cursor>> PROVE [Delivery!Next]_Delivery!vars
    BY <1>1 DEF Delivery!vars, Kinds, Overflowed
  <1>2. CASE Commit
    BY <1>2, CommitEmits DEF Delivery!Next
  <1>3. ASSUME NEW s \in Reader, Subscribe(s) PROVE Delivery!Next
    <2>1. /\ log' = log /\ seen' = seen
          /\ cursor' = [cursor EXCEPT ![s] = StartAt(s)]
          /\ \A t \in Reader : t # s => sub'[t] = sub[t]
          /\ sub'[s].dropped = 0
      BY <1>3 DEF Subscribe, Off, ReaderTypes
    <2>2. Kinds' = Kinds /\ Len(Kinds) = Len(log)
      BY <2>1, KindsAre DEF Kinds
    <2>3. cursor' = IF s \in Browsers THEN cursor ELSE [cursor EXCEPT ![s] = Len(Kinds)]
      BY <2>1, <2>2 DEF StartAt, ReaderTypes
    <2>4. Overflowed' = Overflowed \ {s}
      BY <2>1 DEF Overflowed
    <2>5. Delivery!Join(s)
      BY <2>1, <2>2, <2>3, <2>4 DEF Delivery!Join
    <2> QED BY <2>5 DEF Delivery!Next
  <1>4. ASSUME NEW s \in Reader, Snapshot(s) PROVE [Delivery!Next]_Delivery!vars
    <2>1. \A t \in Reader : sub'[t].dropped = sub[t].dropped
      BY <1>4, FieldTypes DEF Snapshot, ReaderTypes, Subscriptions
    <2>2. Overflowed' = Overflowed
      BY <2>1 DEF Overflowed
    <2> QED BY <1>4, <2>2 DEF Snapshot, Delivery!vars, Kinds
  <1>5. ASSUME NEW s \in Reader, YieldHistory(s) PROVE [Delivery!Next]_Delivery!vars
    <2>1. PICK n \in sub[s].history :
            /\ \A m \in sub[s].history : n <= m
            /\ sub' = [sub EXCEPT ![s].history = @ \ {n}, ![s].last = n]
            /\ HandOver(s, n) /\ sub[s].pc = "live" /\ log' = log
      BY <1>5 DEF YieldHistory
    <2>2. \A t \in Reader : sub'[t].dropped = sub[t].dropped
      BY <2>1, FieldTypes DEF ReaderTypes, Subscriptions
    <2>3. Overflowed' = Overflowed
      BY <2>2 DEF Overflowed
    <2>4. /\ n \in Nat /\ sub[s].last < n /\ n <= Len(log) /\ Wanted(s, n)
          /\ \A m \in sub[s].last + 1 .. n - 1 : ~Wanted(s, m)
      BY <2>1, HistoryIsNext DEF OnTheWay
    <2> QED BY <2>1, <2>3, <2>4, HandOverDelivers DEF OnTheWay
  <1>6. ASSUME NEW s \in Reader, TakeLive(s) PROVE [Delivery!Next]_Delivery!vars
    <2> DEFINE n == Head(sub[s].queue)
    <2>1. /\ sub[s].pc = "live" /\ sub[s].history = {} /\ sub[s].queue # <<>> /\ log' = log
      BY <1>6 DEF TakeLive
    <2>2. /\ n \in Nat /\ n <= Len(log) /\ Wanted(s, n)
          /\ sub[s].dropped = 0 => \A m \in sub[s].last + 1 .. n - 1 : ~Wanted(s, m)
      BY <2>1, BufferIsNext DEF OnTheWay
    <2>3. \A t \in Reader : sub'[t].dropped = sub[t].dropped
      <3>1. \/ sub' = [sub EXCEPT ![s].queue = Tail(@)]
            \/ sub' = [sub EXCEPT ![s].queue = Tail(@), ![s].last = n]
        BY <1>6 DEF TakeLive
      <3>2. \A t \in Reader : t # s => sub'[t] = sub[t]
        BY <3>1 DEF ReaderTypes
      <3>3. \/ sub'[s] = [sub[s] EXCEPT !.queue = Tail(@)]
            \/ sub'[s] = [sub[s] EXCEPT !.queue = Tail(@), !.last = n]
        BY <3>1 DEF ReaderTypes
      <3>4. sub'[s].dropped = sub[s].dropped
        <4> HIDE DEF n
        <4> QED BY <3>3, FieldTypes DEF Subscriptions
      <3> QED BY <3>2, <3>4
    <2>4. Overflowed' = Overflowed
      BY <2>3 DEF Overflowed
    <2>5. CASE n <= sub[s].last
      <3>1. UNCHANGED <<cursor, seen>>
        BY <1>6, <2>5 DEF TakeLive, IsRepeat
      <3> QED BY <2>1, <2>4, <3>1 DEF Delivery!vars, Kinds
    <2>6. CASE sub[s].last < n
      <3>1. sub[s].last \in Nat
        BY FieldTypes
      <3>2. HandOver(s, n)
        BY <1>6, <2>2, <2>6, <3>1 DEF TakeLive, IsRepeat
      <3> QED BY <2>1, <2>2, <2>4, <2>6, <3>2, HandOverDelivers DEF OnTheWay
    <2>7. sub[s].last \in Nat
      BY FieldTypes
    <2> QED BY <2>2, <2>5, <2>6, <2>7
  <1>7. ASSUME NEW s \in Reader, Read(s) PROVE Delivery!Next
    <2> DEFINE n == Head(wire[s])
    <2>1. /\ wire[s] # <<>> /\ sub' = sub /\ log' = log
          /\ seen' = [seen EXCEPT ![s] = Append(@, n)] /\ cursor' = [cursor EXCEPT ![s] = n]
      BY <1>7 DEF Read
    <2>2. /\ n \in Nat /\ cursor[s] < n /\ n <= sub[s].last /\ sub[s].last <= Len(log)
          /\ Wanted(s, n)
          /\ sub[s].dropped = 0 => \A m \in cursor[s] + 1 .. n - 1 : ~Wanted(s, m)
      BY <2>1, WireIsNext DEF OnTheWay
    <2>3. n <= Len(log)
      <3>1. sub[s].last \in Nat /\ Len(log) \in Nat
        BY FieldTypes DEF WriterTypes
      <3> QED BY <2>2, <3>1
    <2>4. Overflowed' = Overflowed
      BY <2>1 DEF Overflowed
    <2> QED BY <2>1, <2>2, <2>3, <2>4, NextIsReceived
  <1>8. ASSUME NEW s \in Reader, Disconnect(s) PROVE Delivery!Next
    <2>1. \A t \in Reader : sub'[t] = sub[t] \/ sub'[t] = Off
      BY <1>8 DEF Disconnect, ReaderTypes
    <2>2. Overflowed' \subseteq Overflowed
      BY <2>1 DEF Overflowed, Off
    <2>3. Delivery!Break
      BY <1>8, <2>2 DEF Disconnect, Delivery!Break, Kinds
    <2> QED BY <2>3 DEF Delivery!Next
  <1>9. CASE Restart
    <2>1. \A t \in Reader : sub'[t] = Off
      BY <1>9 DEF Restart
    <2>2. Overflowed' \subseteq Overflowed
      BY <2>1 DEF Overflowed, Off
    <2>3. Delivery!Break
      BY <1>9, <2>2 DEF Restart, Delivery!Break, Kinds
    <2> QED BY <2>3 DEF Delivery!Next
  <1>10. CASE (\E k \in Kind : EnqueueWrite(k)) \/ LoseRace \/ Busy \/ LinkFails \/ UNCHANGED vars
    BY <1>1, <1>10 DEF EnqueueWrite, LoseRace, Busy, LinkFails, readers, vars
  <1> QED BY <1>2, <1>3, <1>4, <1>5, <1>6, <1>7, <1>8, <1>9, <1>10 DEF Next

\* Readers get what OrderedDelivery promises: every event they want once, in the
\* order of the log, and without a gap unless their buffer has overflowed.
THEOREM EventsAreDelivered == Spec => DeliverySpec
  <1> USE EventLogAssumption
  <1>1. Init => Delivery!Init
    BY DEF Init, Off, Delivery!Init, Kinds, Overflowed
  <1>2. Inv /\ Inv' /\ [Next]_vars => [Delivery!Next]_Delivery!vars
    BY DeliveryStep DEF Inv, TypeOK
  <1> QED BY <1>1, <1>2, Invariance, PTL DEF Spec, DeliverySpec, Delivery!Spec

----------------------------------------------------------------------------
(* What a reader misses is counted *)

Got(s) == Elements(seen[s]) \cup Elements(wire[s])

\* Between the start of a subscription and the end of the log, every event the
\* reader wants has reached it, is on its way or is one of M.
AccountsFor(s, M) ==
    \A n \in sub[s].after + 1 .. Len(log) :
        Wanted(s, n) => n \in Got(s) \cup sub[s].history \cup Elements(sub[s].queue) \cup M

\* At most dropped() events are neither; what the buffer repeats of the history has
\* already reached the reader.
Counted(s) ==
    /\ \A n \in Elements(sub[s].queue) : n <= sub[s].last => n \in Got(s)
    /\ sub[s].pc = "live" =>
          \E M \in SUBSET Nat :
              /\ IsFiniteSet(M) /\ Cardinality(M) <= sub[s].dropped
              /\ AccountsFor(s, M)

AllCounted == \A s \in Reader : Counted(s)

\* What an iterator has passed over and not handed over was dropped.
LEMMA PassedOver ==
  ASSUME WriterTypes, ReaderTypes, NEW s \in Reader, ReaderOK(s), Counted(s)
  PROVE  LET passed == {n \in sub[s].after + 1 .. sub[s].last : Wanted(s, n)}
         IN Cardinality(passed \ Got(s)) <= sub[s].dropped
  <1> DEFINE passed == {n \in sub[s].after + 1 .. sub[s].last : Wanted(s, n)}
  <1>1. /\ sub[s].after \in Nat /\ sub[s].last \in Nat /\ sub[s].dropped \in Nat
        /\ sub[s].pc \in {"off", "attached", "live"} /\ Len(log) \in Nat
    BY FieldTypes DEF WriterTypes
  <1>2. CASE sub[s].pc = "live"
    <2>1. PICK M \in SUBSET Nat :
            /\ IsFiniteSet(M) /\ Cardinality(M) <= sub[s].dropped /\ AccountsFor(s, M)
      BY <1>2 DEF Counted
    <2>2. passed \ Got(s) \in SUBSET M
      <3> SUFFICES ASSUME NEW n \in passed, n \notin Got(s) PROVE n \in M
        OBVIOUS
      <3>1. sub[s].last <= Len(log) /\ n \notin sub[s].history
        BY <1>1, <1>2 DEF ReaderOK, InOrder
      <3>2. n \in sub[s].after + 1 .. Len(log) /\ Wanted(s, n) /\ n <= sub[s].last
        BY <1>1, <3>1
      <3>3. n \notin Elements(sub[s].queue)
        BY <3>2 DEF Counted
      <3> QED BY <2>1, <3>1, <3>2, <3>3 DEF AccountsFor
    <2>3. Cardinality(passed \ Got(s)) <= Cardinality(M)
      BY <2>1, <2>2, FS_Subset
    <2>4. Cardinality(M) \in Nat /\ Cardinality(passed \ Got(s)) \in Nat
      BY <2>1, <2>2, FS_Subset, FS_CardinalityType
    <2> HIDE DEF passed
    <2>5. Cardinality(passed \ Got(s)) <= sub[s].dropped
      BY <1>1, <2>1, <2>3, <2>4
    <2> QED BY <2>5 DEF passed
  <1>3. CASE sub[s].pc # "live"
    <2>1. sub[s].after = sub[s].last
      BY <1>1, <1>3 DEF ReaderOK, Quiet, Off
    <2>2. passed = {}
      BY <1>1, <2>1
    <2>3. passed \ Got(s) = {}
      BY <2>2
    <2>4. Cardinality(passed \ Got(s)) = 0
      BY <2>3, FS_EmptySet
    <2> HIDE DEF passed
    <2>5. Cardinality(passed \ Got(s)) <= sub[s].dropped
      BY <1>1, <2>4
    <2> QED BY <2>5 DEF passed
  <1> QED BY <1>2, <1>3

\* The elements of a sequence with one more at its end.
LEMMA AppendElements ==
  ASSUME NEW q \in Seq(Nat), NEW n \in Nat
  PROVE  Elements(Append(q, n)) = Elements(q) \cup {n}
  <1>1. /\ Len(Append(q, n)) = Len(q) + 1 /\ Len(q) \in Nat
        /\ \A i \in 1 .. Len(q) : Append(q, n)[i] = q[i]
        /\ Append(q, n)[Len(q) + 1] = n
    OBVIOUS
  <1>2. \A i : i \in 1 .. Len(q) + 1 <=> i \in 1 .. Len(q) \/ i = Len(q) + 1
    BY <1>1
  <1> QED BY <1>1, <1>2 DEF Elements

\* Whoever it is, the reader has the event or it is on its wire.
LEMMA HandOverGets ==
  ASSUME ReaderTypes, NEW s \in Reader, NEW n \in Nat, HandOver(s, n)
  PROVE  Got(s)' = Got(s) \cup {n}
  <1>1. wire[s] \in Seq(Nat) /\ seen[s] \in Seq(Nat)
    BY FieldTypes
  <1>2. \/ wire'[s] = Append(wire[s], n) /\ seen'[s] = seen[s]
        \/ seen'[s] = Append(seen[s], n) /\ wire'[s] = wire[s]
    BY DEF HandOver, ReaderTypes
  <1>3. Elements(Append(wire[s], n)) = Elements(wire[s]) \cup {n}
    BY <1>1, AppendElements
  <1>4. Elements(Append(seen[s], n)) = Elements(seen[s]) \cup {n}
    BY <1>1, AppendElements
  <1>5. Got(s)' = Elements(seen'[s]) \cup Elements(wire'[s])
    BY DEF Got, Elements
  <1> QED BY <1>2, <1>3, <1>4, <1>5 DEF Got

\* A reader whose subscription and events stay as they are.
LEMMA CountedKeeps ==
  ASSUME NEW s \in Reader, Counted(s), sub'[s] = sub[s], Got(s)' = Got(s), log' = log
  PROVE  Counted(s)'
  <1>1. \A n : Wanted(s, n)' = Wanted(s, n)
    BY DEF Wanted
  <1>2. \A M : AccountsFor(s, M)' = AccountsFor(s, M)
    BY <1>1 DEF AccountsFor, Elements
  <1>3. Elements(sub[s].queue)' = Elements(sub[s].queue)
    BY DEF Elements
  <1> QED BY <1>2, <1>3 DEF Counted

\* A subscription with nothing in its buffer that has not read the history.
LEMMA CountedAtStart ==
  ASSUME NEW s \in Reader, sub'[s].queue = <<>>, sub'[s].pc # "live" PROVE Counted(s)'
  <1>1. Elements(sub[s].queue)' = {}
    BY DEF Elements
  <1> QED BY <1>1 DEF Counted

\* The history holds every event wanted up to the end of the log.
LEMMA SnapshotCounts ==
  ASSUME WriterTypes, ReaderTypes, NEW s \in Reader, ReaderOK(s), Counted(s), Snapshot(s)
  PROVE  Counted(s)'
  <1>1. /\ sub'[s].pc = "live" /\ sub'[s].queue = sub[s].queue /\ sub'[s].last = sub[s].last
        /\ sub'[s].after = sub[s].after /\ sub'[s].dropped = sub[s].dropped
        /\ sub'[s].history = History(s, sub[s].after)
        /\ UNCHANGED <<log, wire, seen>>
    BY DEF Snapshot, ReaderTypes, Subscriptions
  <1>2. Got(s)' = Got(s) /\ Elements(sub[s].queue)' = Elements(sub[s].queue)
    BY <1>1 DEF Got, Elements
  <1>3. AccountsFor(s, {})'
    BY <1>1 DEF AccountsFor, History, Wanted
  <1>4. IsFiniteSet({}) /\ Cardinality({}) = 0 /\ sub[s].dropped \in Nat
    BY FS_EmptySet, FieldTypes
  <1>5. IsFiniteSet({}) /\ Cardinality({}) <= sub'[s].dropped
    BY <1>1, <1>4
  <1>6. \E M \in SUBSET Nat :
           IsFiniteSet(M) /\ Cardinality(M) <= sub'[s].dropped /\ AccountsFor(s, M)'
    <2> WITNESS {} \in SUBSET Nat
    <2> QED BY <1>3, <1>5
  <1> QED BY <1>1, <1>2, <1>6 DEF Counted

LEMMA YieldHistoryCounts ==
  ASSUME WriterTypes, ReaderTypes, NEW s \in Reader, ReaderOK(s), Counted(s), YieldHistory(s)
  PROVE  Counted(s)'
  <1>1. PICK n \in sub[s].history :
          /\ sub[s].pc = "live" /\ log' = log
          /\ \A m \in sub[s].history : n <= m
          /\ sub'[s] = [sub[s] EXCEPT !.history = @ \ {n}, !.last = n]
          /\ HandOver(s, n)
    BY DEF YieldHistory, ReaderTypes
  <1>2. /\ n \in Nat /\ sub[s].last < n /\ \A m \in sub[s].last + 1 .. n - 1 : ~Wanted(s, m)
    BY <1>1, HistoryIsNext
  <1>3. /\ sub[s].last \in Nat /\ sub[s].queue \in Seq(Nat) /\ sub[s] \in Subscriptions
    BY FieldTypes
  <1>4. /\ sub'[s].pc = "live" /\ sub'[s].last = n /\ sub'[s].after = sub[s].after
        /\ sub'[s].history = sub[s].history \ {n}
        /\ sub'[s].queue = sub[s].queue /\ sub'[s].dropped = sub[s].dropped
    BY <1>1, <1>3 DEF Subscriptions
  <1>5. Got(s)' = Got(s) \cup {n}
    BY <1>1, <1>2, HandOverGets
  <1>6. Elements(sub[s].queue)' = Elements(sub[s].queue)
    BY <1>4 DEF Elements
  <1>7. ASSUME NEW m \in Elements(sub[s].queue), m <= n PROVE m \in Got(s)'
    <2>1. m \in Nat
      BY <1>3 DEF Elements
    <2>3. Wanted(s, m)
      BY DEF ReaderOK, InOrder
    <2>2. m <= sub[s].last \/ m = n
      BY <1>2, <1>3, <1>7, <2>1, <2>3
    <2> QED BY <1>5, <2>2 DEF Counted
  <1>8. \A M : AccountsFor(s, M) => AccountsFor(s, M)'
    BY <1>1, <1>4, <1>5, <1>6 DEF AccountsFor, Wanted
  <1> QED BY <1>1, <1>4, <1>6, <1>7, <1>8 DEF Counted

LEMMA TakeLiveCounts ==
  ASSUME WriterTypes, ReaderTypes, NEW s \in Reader, ReaderOK(s), Counted(s), TakeLive(s)
  PROVE  Counted(s)'
  <1> DEFINE q == sub[s].queue
             n == Head(q)
  <1>1. /\ sub[s].pc = "live" /\ q # <<>> /\ log' = log
    BY DEF TakeLive
  <1>2. /\ sub[s].last \in Nat /\ q \in Seq(Nat) /\ sub[s] \in Subscriptions /\ Increasing(q)
    BY FieldTypes DEF ReaderOK, InOrder
  <1>3. \/ n <= sub[s].last /\ sub'[s] = [sub[s] EXCEPT !.queue = Tail(q)] /\ UNCHANGED <<wire, seen>>
        \/ ~(n <= sub[s].last) /\ sub'[s] = [sub[s] EXCEPT !.queue = Tail(q), !.last = n] /\ HandOver(s, n)
    BY <1>2 DEF TakeLive, IsRepeat, ReaderTypes
  <1> HIDE DEF q, n
  <1>4. /\ n \in Nat /\ n \in Elements(q) /\ Tail(q) \in Seq(Nat)
        /\ Elements(Tail(q)) = Elements(q) \ {n}
        /\ \A m \in Elements(Tail(q)) : n < m
    BY <1>1, <1>2, TailIncreases DEF n
  <1>5. /\ sub'[s].pc = "live" /\ sub'[s].after = sub[s].after
        /\ sub'[s].history = sub[s].history
        /\ sub'[s].queue = Tail(q) /\ sub'[s].dropped = sub[s].dropped
        /\ \/ n <= sub[s].last /\ sub'[s].last = sub[s].last
           \/ ~(n <= sub[s].last) /\ sub'[s].last = n
    BY <1>1, <1>2, <1>3, <1>4 DEF Subscriptions
  <1>6. Elements(sub[s].queue)' = Elements(q) \ {n}
    BY <1>4, <1>5 DEF Elements
  <1>7. Got(s)' = Got(s) \cup {n}
    <2>1. CASE n <= sub[s].last
      <3>1. UNCHANGED <<wire, seen>>
        BY <1>3, <2>1
      <3>2. Got(s)' = Got(s)
        BY <3>1 DEF Got, Elements
      <3>3. n \in Got(s)
        BY <1>4, <2>1 DEF Counted, q
      <3> QED BY <3>2, <3>3
    <2>2. CASE ~(n <= sub[s].last)
      BY <1>3, <1>4, <2>2, HandOverGets
    <2> QED BY <2>1, <2>2
  <1>8. ASSUME NEW m \in Elements(Tail(q)), m <= sub'[s].last PROVE m \in Got(s)'
    <2>1. m \in Nat /\ n < m
      BY <1>4 DEF Elements
    <2>2. m <= sub[s].last
      BY <1>4, <1>5, <1>8, <2>1
    <2> QED BY <1>4, <1>7, <2>2 DEF Counted, q
  <1>9. \A M : AccountsFor(s, M) => AccountsFor(s, M)'
    BY <1>1, <1>5, <1>6, <1>7 DEF AccountsFor, Wanted, q
  <1> QED BY <1>1, <1>4, <1>5, <1>6, <1>8, <1>9 DEF Counted

\* A push loses at most the head of the buffer, and only when it is full.
LEMMA PushLoses ==
  ASSUME NEW q \in Seq(Nat), NEW n \in Nat, Increasing(q), BufferSize \in Nat \ {0}
  PROVE  /\ Elements(Push(q, n)) \subseteq Elements(q) \cup {n}
         /\ ~(Len(q) >= BufferSize) => Elements(Push(q, n)) = Elements(q) \cup {n}
         /\ Len(q) >= BufferSize =>
               /\ Head(q) \in Nat
               /\ Elements(q) \cup {n} \subseteq Elements(Push(q, n)) \cup {Head(q)}
  <1>1. CASE ~(Len(q) >= BufferSize)
    BY <1>1, AppendElements DEF Push
  <1>2. CASE Len(q) >= BufferSize
    <2>1. q # <<>>
      BY <1>2
    <2>2. Tail(q) \in Seq(Nat) /\ Head(q) \in Nat /\ Elements(Tail(q)) = Elements(q) \ {Head(q)}
      BY <2>1, TailIncreases
    <2>3. Elements(Push(q, n)) = Elements(Tail(q)) \cup {n}
      BY <1>2, <2>2, AppendElements DEF Push
    <2> QED BY <1>2, <2>2, <2>3
  <1> QED BY <1>1, <1>2

LEMMA PublishCounts ==
  ASSUME EventLogAssumption, WriterTypes, ReaderTypes, NEW s \in Reader, ReaderOK(s), Counted(s),
         Commit
  PROVE  Counted(s)'
  <1> DEFINE w == Head(chain)
             l == Len(log)
             q == sub[s].queue
             full == Len(q) >= BufferSize
  <1>1. /\ log' = Append(log, w) /\ Publish(l + 1, w.kind)
        /\ UNCHANGED <<wire, seen>> /\ chain # <<>>
    BY DEF Commit
  <1>2. /\ w \in Event /\ log \in Seq(Event)
    BY <1>1 DEF WriterTypes
  <1>3. /\ l \in Nat /\ Len(log') = l + 1 /\ log'[l + 1] = w
        /\ \A i \in 1 .. l : log'[i] = log[i]
    BY <1>1, <1>2, AppendIndices
  <1>4. /\ \A m \in 1 .. l : Wanted(s, m)' <=> Wanted(s, m)
        /\ \A m : m = l + 1 => (Wanted(s, m)' <=> w.kind \in Wants[s])
    BY <1>3 DEF Wanted
  <1>5. /\ sub[s] \in Subscriptions /\ sub[s].last \in Nat /\ sub[s].dropped \in Nat
        /\ sub[s].after \in Nat /\ q \in Seq(Nat) /\ Increasing(q) /\ BufferSize \in Nat \ {0}
    BY FieldTypes DEF EventLogAssumption, ReaderOK, InOrder
  <1>6. sub[s].pc # "off" => sub[s].last <= l
    BY DEF ReaderOK, InOrder
  <1>7. \/ sub'[s] = sub[s] /\ (sub[s].pc = "off" \/ w.kind \notin Wants[s])
        \/ /\ sub[s].pc # "off"
           /\ sub'[s] = [sub[s] EXCEPT !.queue = Push(q, l + 1),
                                       !.dropped = IF full THEN sub[s].dropped + 1
                                                           ELSE sub[s].dropped]
    BY <1>1 DEF Publish
  <1>8. Got(s)' = Got(s)
    BY <1>1 DEF Got, Elements
  <1> HIDE DEF w, l, q
  <1>9. \A m \in sub[s].after + 1 .. l + 1 : m \in sub[s].after + 1 .. l \/ m = l + 1
    BY <1>3, <1>5
  <1>10. \A m \in sub[s].after + 1 .. l : m \in 1 .. l
    BY <1>3, <1>5
  <1>11. CASE sub'[s] = sub[s] /\ (sub[s].pc = "off" \/ w.kind \notin Wants[s])
    <2>1. Elements(sub[s].queue)' = Elements(sub[s].queue)
      BY <1>11 DEF Elements
    <2>2. sub[s].pc = "live" => \A M : AccountsFor(s, M) => AccountsFor(s, M)'
      BY <1>3, <1>4, <1>8, <1>9, <1>10, <1>11, <2>1 DEF AccountsFor, l
    <2> QED BY <1>8, <1>11, <2>1, <2>2 DEF Counted
  <1>12. CASE /\ sub[s].pc # "off"
              /\ sub'[s] = [sub[s] EXCEPT !.queue = Push(q, l + 1),
                                          !.dropped = IF full THEN sub[s].dropped + 1
                                                              ELSE sub[s].dropped]
    <2>1. /\ sub'[s].pc = sub[s].pc /\ sub'[s].last = sub[s].last
          /\ sub'[s].after = sub[s].after /\ sub'[s].history = sub[s].history
          /\ sub'[s].queue = Push(q, l + 1)
          /\ sub'[s].dropped = IF full THEN sub[s].dropped + 1 ELSE sub[s].dropped
      BY <1>5, <1>12 DEF Subscriptions
    <2> HIDE DEF full
    <2>2. /\ Elements(Push(q, l + 1)) \subseteq Elements(q) \cup {l + 1}
          /\ ~full => Elements(Push(q, l + 1)) = Elements(q) \cup {l + 1}
          /\ full => /\ Head(q) \in Nat
                     /\ Elements(q) \cup {l + 1} \subseteq Elements(Push(q, l + 1)) \cup {Head(q)}
      <3>1. l + 1 \in Nat
        BY <1>3
      <3> QED BY <1>5, <3>1, PushLoses DEF full
    <2>3. Elements(sub[s].queue)' = Elements(Push(q, l + 1))
      BY <2>1 DEF Elements
    <2>4. ASSUME NEW m \in Elements(Push(q, l + 1)), m <= sub[s].last PROVE m \in Got(s)
      <3>1. m # l + 1
        BY <1>3, <1>5, <1>6, <1>12, <2>4
      <3> QED BY <2>2, <2>4, <3>1 DEF Counted, q
    <2>5. ASSUME sub[s].pc = "live"
          PROVE  \E M \in SUBSET Nat :
                    IsFiniteSet(M) /\ Cardinality(M) <= sub'[s].dropped /\ AccountsFor(s, M)'
      <3>1. PICK M \in SUBSET Nat :
              /\ IsFiniteSet(M) /\ Cardinality(M) <= sub[s].dropped /\ AccountsFor(s, M)
        BY <2>5 DEF Counted
      <3>2. ASSUME NEW K, M \subseteq K, Elements(q) \cup {l + 1} \subseteq Elements(Push(q, l + 1)) \cup K
            PROVE  AccountsFor(s, K)'
        BY <1>3, <1>4, <1>8, <1>9, <1>10, <2>1, <2>3, <3>1, <3>2 DEF AccountsFor, l, q
      <3>3. CASE ~full
        <4>1. AccountsFor(s, M)'
          BY <2>2, <3>2, <3>3
        <4> QED BY <2>1, <3>1, <3>3, <4>1
      <3>4. CASE full
        <4> PICK h : h = Head(q)
          OBVIOUS
        <4> DEFINE K == M \cup {h}
        <4>0. /\ K \in SUBSET Nat /\ M \subseteq K
              /\ Elements(q) \cup {l + 1} \subseteq Elements(Push(q, l + 1)) \cup K
          BY <2>2, <3>1, <3>4
        <4>1. AccountsFor(s, K)'
          <5> HIDE DEF K
          <5> QED BY <3>2, <4>0
        <4>2. /\ IsFiniteSet(K) /\ Cardinality(M) \in Nat
              /\ Cardinality(K) = Cardinality(M) \/ Cardinality(K) = Cardinality(M) + 1
          BY <3>1, FS_AddElement, FS_CardinalityType
        <4> HIDE DEF K
        <4>3. Cardinality(K) <= sub'[s].dropped
          BY <1>5, <2>1, <3>1, <3>4, <4>2
        <4> QED BY <4>0, <4>1, <4>2, <4>3
      <3> QED BY <3>3, <3>4
    <2> QED BY <1>8, <2>1, <2>3, <2>4, <2>5 DEF Counted
  <1> QED BY <1>7, <1>11, <1>12

\* An event that is read leaves the wire and is seen.
LEMMA ReadCounts ==
  ASSUME WriterTypes, ReaderTypes, NEW s \in Reader, ReaderOK(s), Counted(s), Read(s)
  PROVE  Counted(s)'
  <1> DEFINE n == Head(wire[s])
  <1>1. /\ wire[s] # <<>> /\ wire'[s] = Tail(wire[s]) /\ seen'[s] = Append(seen[s], n)
        /\ log' = log /\ sub' = sub
    BY DEF Read, ReaderTypes
  <1>2. wire[s] \in Seq(Nat) /\ seen[s] \in Seq(Nat) /\ Increasing(wire[s])
    BY FieldTypes DEF ReaderOK, InOrder
  <1>3. n \in Nat /\ n \in Elements(wire[s]) /\ Elements(Tail(wire[s])) = Elements(wire[s]) \ {n}
    BY <1>1, <1>2, TailIncreases
  <1> HIDE DEF n
  <1>4. Elements(Append(seen[s], n)) = Elements(seen[s]) \cup {n}
    BY <1>2, <1>3, AppendElements
  <1>5. Got(s)' = Elements(seen'[s]) \cup Elements(wire'[s])
    BY DEF Got, Elements
  <1>6. Got(s)' = Got(s)
    BY <1>1, <1>3, <1>4, <1>5 DEF Got
  <1> QED BY <1>1, <1>6, CountedKeeps

LEMMA CountedStep == Inv /\ AllCounted /\ [Next]_vars => AllCounted'
  <1> SUFFICES ASSUME Inv, AllCounted, [Next]_vars, NEW t \in Reader PROVE Counted(t)'
    BY DEF AllCounted
  <1>1. WriterTypes /\ ReaderTypes /\ ReaderOK(t) /\ Counted(t) /\ EventLogAssumption
    BY EventLogAssumption DEF Inv, TypeOK, OnTheWay, AllCounted
  <1>2. ASSUME sub'[t] = sub[t], wire'[t] = wire[t], seen'[t] = seen[t], log' = log
        PROVE  Counted(t)'
    <2>1. Got(t)' = Got(t)
      BY <1>2 DEF Got, Elements
    <2> QED BY <1>1, <1>2, <2>1, CountedKeeps
  <1>3. CASE Commit
    BY <1>1, <1>3, PublishCounts
  <1>4. ASSUME NEW s \in Reader, s # t,
               Subscribe(s) \/ Snapshot(s) \/ YieldHistory(s) \/ TakeLive(s) \/ Read(s) \/ Disconnect(s)
        PROVE  /\ sub'[t] = sub[t] /\ wire'[t] = wire[t] /\ seen'[t] = seen[t] /\ log' = log
    BY <1>1, <1>4
    DEF Subscribe, Snapshot, YieldHistory, TakeLive, Read, Disconnect, HandOver, ReaderTypes
  <1>5. CASE Subscribe(t)
    <2>1. sub'[t] = [Off EXCEPT !.pc = "attached", !.after = StartAt(t), !.last = StartAt(t)]
      BY <1>1, <1>5 DEF Subscribe, ReaderTypes
    <2>2. sub'[t].queue = <<>> /\ sub'[t].pc = "attached"
      BY <2>1 DEF Off
    <2> QED BY <2>2, CountedAtStart
  <1>6. CASE Disconnect(t) \/ Restart
    <2>1. sub'[t] = Off
      BY <1>1, <1>6 DEF Disconnect, Restart, ReaderTypes
    <2> QED BY <2>1, CountedAtStart DEF Off
  <1>7. CASE Snapshot(t) \/ YieldHistory(t) \/ TakeLive(t) \/ Read(t)
    BY <1>1, <1>7, SnapshotCounts, YieldHistoryCounts, TakeLiveCounts, ReadCounts
  <1>8. CASE (\E k \in Kind : EnqueueWrite(k)) \/ LoseRace \/ Busy \/ LinkFails \/ UNCHANGED vars
    BY <1>2, <1>8 DEF EnqueueWrite, LoseRace, Busy, LinkFails, readers, vars
  <1> QED BY <1>2, <1>3, <1>4, <1>5, <1>6, <1>7, <1>8 DEF Next

\* SkipsAreCounted: for any buffers, filters, retries and lost connections, the events
\* an iterator passed over and its reader never gets are at most what dropped() says.
THEOREM DropsAreCounted == Spec => []SkipsAreCounted
  <1>1. Init => AllCounted
    <2> SUFFICES ASSUME Init, NEW s \in Reader PROVE Counted(s)
      BY DEF AllCounted
    <2>1. sub[s].queue = <<>> /\ sub[s].pc = "off"
      BY DEF Init, Off
    <2>2. Elements(sub[s].queue) = {}
      BY <2>1 DEF Elements
    <2> QED BY <2>1, <2>2 DEF Counted
  <1>2. Inv /\ AllCounted => SkipsAreCounted
    <2> SUFFICES ASSUME Inv, AllCounted, NEW s \in Reader
                 PROVE  LET passed == {n \in sub[s].after + 1 .. sub[s].last : Wanted(s, n)}
                        IN Cardinality(passed \ (Elements(seen[s]) \cup Elements(wire[s])))
                              <= sub[s].dropped
      BY DEF SkipsAreCounted
    <2> QED BY PassedOver DEF Inv, TypeOK, OnTheWay, AllCounted, Got
  <1> QED BY <1>1, <1>2, CountedStep, Invariance, PTL DEF Spec

----------------------------------------------------------------------------
(* What the caller of a write is told *)

Logged == {log[n].link : n \in 1 .. Len(log)}

\* The links whose update has been committed.
Updated == {w.link : w \in moved}

\* Where a row is: where it began, or where a committed update has taken it.
RowsAreWritten ==
    /\ \A w \in moved : w.kind \in MoveKinds
    /\ \A r \in Row : \/ column[r] = Start[r]
                      \/ \E w \in moved : /\ Update[w.kind].row = r
                                          /\ Update[w.kind].to = column[r]

Recorded == Elements(log) \cup Elements(chain)

\* The update and the event of a link are of the same kind.
OneKind == \A w \in moved, e \in Recorded : e.link = w.link => e = w

\* What each answer says of the write, and when the row of one that waits has moved already.
Answered ==
    \A l \in Link :
       /\ told[l] = "done" <=> l \in Logged
       /\ told[l] = "lost" /\ l \in Updated => MaxAttempts > 1
       /\ told[l] = "cut off" => breaks > 0
       /\ told[l] = "unasked" => l \notin Updated
       /\ told[l] = "waiting" /\ l \in Updated => tries > 0 /\ l = Head(chain).link

\* The first link of the chain is one that waits, and every one that waits is in the chain.
LEMMA HeadWaits ==
  ASSUME WriterTypes
  PROVE  /\ chain # <<>> => Head(chain).link \in Link /\ told[Head(chain).link] = "waiting"
         /\ chain = <<>> => \A l \in Link : told[l] # "waiting"
  <1>1. chain # <<>> => 1 \in 1 .. Len(chain) /\ chain[1] = Head(chain)
    BY DEF WriterTypes
  <1>2. chain = <<>> => 1 .. Len(chain) = {}
    BY DEF WriterTypes
  <1> QED BY <1>1, <1>2 DEF WriterTypes

\* What the first link writes is counted as its own.
LEMMA UpdatedGrows ==
  ASSUME moved \subseteq moved', moved' \subseteq moved \cup {Head(chain)}
  PROVE  /\ Updated \subseteq Updated'
         /\ Updated' \subseteq Updated \cup {Head(chain).link}
  BY DEF Updated

\* A link that settles keeps the answers true if its own is; no other link that waits has
\* moved its row, so that the count of attempts may start again.
LEMMA SettleAnswers ==
  ASSUME WriterTypes, Answered, chain # <<>>, NEW answer \in {"done", "lost", "thrown"},
         Settle(answer), Updated \subseteq Updated',
         Updated' \subseteq Updated \cup {Head(chain).link}, UNCHANGED breaks,
         Logged' = IF answer = "done" THEN Logged \cup {Head(chain).link} ELSE Logged,
         answer = "lost" /\ Head(chain).link \in Updated' => MaxAttempts > 1
  PROVE  Answered'
  <1> DEFINE h == Head(chain).link
  <1>1. h \in Link /\ told[h] = "waiting"
    BY HeadWaits
  <1>2. told' = [told EXCEPT ![h] = answer] /\ tries' = 0
    BY DEF Settle
  <1>3. Updated \subseteq Updated' /\ Updated' \subseteq Updated \cup {h} /\ breaks' = breaks
    OBVIOUS
  <1>4. /\ Logged' = IF answer = "done" THEN Logged \cup {h} ELSE Logged
        /\ answer = "lost" /\ h \in Updated' => MaxAttempts > 1
    OBVIOUS
  <1>5. \A l \in Link : told[l] = "waiting" /\ l \in Updated => l = h
    BY DEF Answered
  <1> HIDE DEF h
  <1>6. ASSUME NEW l \in Link
        PROVE  /\ told'[l] = "done" <=> l \in Logged'
               /\ told'[l] = "lost" /\ l \in Updated' => MaxAttempts > 1
               /\ told'[l] = "cut off" => breaks > 0
               /\ told'[l] = "unasked" => l \notin Updated'
               /\ ~(told'[l] = "waiting" /\ l \in Updated')
    <2>1. CASE l = h
      <3>1. told'[l] = answer /\ l \notin Logged
        BY <1>1, <1>2, <2>1 DEF Answered, WriterTypes
      <3> QED BY <1>3, <1>4, <2>1, <3>1
    <2>2. CASE l # h
      <3>1. /\ told'[l] = told[l] /\ (l \in Updated' <=> l \in Updated)
            /\ l \in Logged' <=> l \in Logged
        BY <1>2, <1>3, <1>4, <2>2 DEF WriterTypes
      <3> QED BY <1>5, <2>2, <3>1 DEF Answered
    <2> QED BY <2>1, <2>2
  <1> QED BY <1>3, <1>6 DEF Answered

\* The rows change by the guarded update of the first link, and by nothing else.
LEMMA RowsChange ==
  ASSUME [Next]_vars
  PROVE  \/ UNCHANGED rows
         \/ chain # <<>> /\ FindsRow(Head(chain)) /\ UpdateRow(Head(chain))
  BY DEF Next, vars, writer, EnqueueWrite, Commit, LoseRace, Busy, LinkFails, BreaksOff,
         Subscribe, Snapshot, YieldHistory, TakeLive, Read, Disconnect, Restart

\* A row stays where an update has taken it until the next one.
LEMMA RowsStep == WriterTypes /\ RowsAreWritten /\ [Next]_vars => RowsAreWritten'
  <1> SUFFICES ASSUME WriterTypes, RowsAreWritten, [Next]_vars PROVE RowsAreWritten'
    OBVIOUS
  <1>1. CASE UNCHANGED rows
    BY <1>1 DEF rows, RowsAreWritten
  <1> DEFINE w == Head(chain)
  <1>2. CASE chain # <<>> /\ UpdateRow(w) /\ w.kind \in MoveKinds
    <2>1. /\ column' = [column EXCEPT ![Update[w.kind].row] = Update[w.kind].to]
          /\ moved' = moved \cup {w}
      BY <1>2 DEF UpdateRow
    <2>2. w.kind \in MoveKinds /\ Update[w.kind].row \in Row /\ column \in [Row -> RowState]
      BY <1>2, EventLogAssumption DEF EventLogAssumption, WriterTypes
    <2> HIDE DEF w
    <2>3. ASSUME NEW r \in Row
          PROVE  \/ column'[r] = Start[r]
                 \/ \E v \in moved' : /\ Update[v.kind].row = r
                                      /\ Update[v.kind].to = column'[r]
      <3>1. CASE r = Update[w.kind].row
        BY <2>1, <2>2, <3>1
      <3>2. CASE r # Update[w.kind].row
        <4>1. column'[r] = column[r]
          BY <2>1, <2>2, <3>2
        <4> QED BY <2>1, <4>1 DEF RowsAreWritten
      <3> QED BY <3>1, <3>2
    <2>4. \A v \in moved' : v.kind \in MoveKinds
      BY <2>1, <2>2 DEF RowsAreWritten
    <2> QED BY <2>3, <2>4 DEF RowsAreWritten
  <1> QED BY <1>1, <1>2, RowsChange DEF UpdateRow

\* No two of the events in the log and the chain are of one link.
LEMMA LinksDiffer ==
  ASSUME WriterInv, NEW e \in Recorded, NEW f \in Recorded, e.link = f.link
  PROVE  e = f
  <1>1. log \in Seq(Event) /\ chain \in Seq(Event)
    BY DEF WriterInv, WriterTypes
  <1>2. /\ Len(log) \in Nat /\ Len(chain) \in Nat
        /\ \A i \in 1 .. Len(log) : log[i].link \in Nat
        /\ \A i \in 1 .. Len(chain) : chain[i].link \in Nat
    BY <1>1, LinksOf DEF Link
  <1>3. /\ \A i, j \in 1 .. Len(log) : i < j => log[i].link < log[j].link
        /\ \A i, j \in 1 .. Len(chain) : i < j => chain[i].link < chain[j].link
        /\ \A i \in 1 .. Len(log), j \in 1 .. Len(chain) : log[i].link < chain[j].link
    BY DEF WriterInv, WriterInOrder, LogInOrder
  <1>4. CASE e \in Elements(log) /\ f \in Elements(log)
    <2>1. PICK i \in 1 .. Len(log), j \in 1 .. Len(log) : e = log[i] /\ f = log[j]
      BY <1>4 DEF Elements
    <2>2. i = j
      BY <1>2, <1>3, <2>1
    <2> QED BY <2>1, <2>2
  <1>5. CASE e \in Elements(chain) /\ f \in Elements(chain)
    <2>1. PICK i \in 1 .. Len(chain), j \in 1 .. Len(chain) : e = chain[i] /\ f = chain[j]
      BY <1>5 DEF Elements
    <2>2. i = j
      BY <1>2, <1>3, <2>1
    <2> QED BY <2>1, <2>2
  <1>6. \A g \in Elements(log), h \in Elements(chain) : g.link # h.link
    BY <1>2, <1>3 DEF Elements
  <1> QED BY <1>4, <1>5, <1>6 DEF Recorded

\* Nothing is recorded but what the chain brought, and only its first link writes.
LEMMA RecordsKeep ==
  ASSUME WriterInv, OneKind, Recorded' \subseteq Recorded,
         moved' \subseteq moved \cup Recorded
  PROVE  OneKind'
  <1> SUFFICES ASSUME NEW w \in moved', NEW e \in Recorded', e.link = w.link PROVE e = w
    BY DEF OneKind
  <1>1. CASE w \in moved
    BY <1>1 DEF OneKind
  <1>2. CASE w \in Recorded
    BY <1>2, LinksDiffer
  <1> QED BY <1>1, <1>2

\* A sequence, its first element and the others.
LEMMA HeadAndTail ==
  ASSUME NEW q \in Seq(Event), q # <<>>
  PROVE  Head(q) \in Elements(q) /\ Elements(Tail(q)) \subseteq Elements(q)
  <1>1. /\ 1 \in 1 .. Len(q) /\ Head(q) = q[1] /\ Len(Tail(q)) = Len(q) - 1
        /\ \A i \in 1 .. Len(q) - 1 : Tail(q)[i] = q[i + 1] /\ i + 1 \in 1 .. Len(q)
    OBVIOUS
  <1> QED BY <1>1 DEF Elements

LEMMA WithOneMore ==
  ASSUME NEW q \in Seq(Event), NEW e \in Event
  PROVE  Elements(Append(q, e)) = Elements(q) \cup {e}
  <1>1. /\ Len(q) \in Nat /\ Len(Append(q, e)) = Len(q) + 1
        /\ Append(q, e)[Len(q) + 1] = e
        /\ \A i \in 1 .. Len(q) : Append(q, e)[i] = q[i]
    BY AppendIndices
  <1>2. 1 .. Len(q) + 1 = (1 .. Len(q)) \cup {Len(q) + 1}
    BY <1>1
  <1> QED BY <1>1, <1>2 DEF Elements

\* Every step keeps the kinds.
LEMMA KindStep == Inv /\ OneKind /\ Answered /\ [Next]_vars => OneKind'
  <1> SUFFICES ASSUME Inv, OneKind, Answered, [Next]_vars PROVE OneKind'
    OBVIOUS
  <1>0. /\ WriterInv /\ WriterTypes /\ EventLogAssumption
        /\ chain \in Seq(Event) /\ log \in Seq(Event)
    BY EventLogAssumption DEF Inv, TypeOK, WriterInv, WriterTypes
  <1>1. ASSUME NEW k \in Kind, EnqueueWrite(k) PROVE OneKind'
    <2>1. PICK l \in Link :
            /\ Asked = 1 .. l - 1
            /\ chain' = Append(chain, [link |-> l, kind |-> k])
      BY <1>1 DEF EnqueueWrite
    <2> DEFINE w == [link |-> l, kind |-> k]
    <2>2. w \in Event /\ w.link = l
      BY DEF Event
    <2>3. told[l] = "unasked"
      BY <2>1, EventLogAssumption DEF Link, Asked, EventLogAssumption
    <2> HIDE DEF w
    <2>4. Elements(chain') = Elements(chain) \cup {w} /\ moved' = moved /\ log' = log
      BY <1>0, <1>1, <2>1, <2>2, WithOneMore DEF EnqueueWrite, rows, w
    <2>5. Recorded' = Recorded \cup {w}
      BY <2>4 DEF Recorded, Elements
    <2>6. l \notin Updated
      BY <2>3 DEF Answered
    <2> QED BY <2>2, <2>4, <2>5, <2>6 DEF OneKind, Updated
  <1>2. chain # <<>> => /\ Head(chain) \in Recorded /\ Head(chain) \in Event
                        /\ Elements(Tail(chain)) \subseteq Elements(chain)
    BY <1>0, HeadAndTail DEF Recorded
  <1>3. moved' \subseteq moved \cup Recorded
    <2>1. CASE UNCHANGED rows
      BY <2>1 DEF rows
    <2>2. CASE chain # <<>> /\ UpdateRow(Head(chain))
      BY <1>0, <1>2, <2>2, RowsKeep
    <2> QED BY <2>1, <2>2, RowsChange
  <1>4. CASE Commit
    <2>1. /\ chain # <<>> /\ chain' = Tail(chain) /\ log' = Append(log, Head(chain))
      BY <1>4 DEF Commit, Settle
    <2>2. Elements(log') = Elements(log) \cup {Head(chain)}
      BY <1>0, <1>2, <2>1, WithOneMore
    <2>3. Recorded' = Elements(log') \cup Elements(Tail(chain))
      BY <2>1 DEF Recorded, Elements
    <2>4. Recorded' \subseteq Recorded
      BY <1>2, <2>1, <2>2, <2>3 DEF Recorded
    <2> QED BY <1>0, <1>3, <2>4, RecordsKeep
  <1>5. ASSUME log' = log, chain' = chain \/ (chain # <<>> /\ chain' = Tail(chain)) \/ chain' = <<>>
        PROVE  OneKind'
    <2>1. Elements(log') = Elements(log)
      BY <1>5 DEF Elements
    <2>2. Elements(chain') \subseteq Elements(chain)
      <3>1. Elements(<<>>) = {}
        BY DEF Elements
      <3>2. CASE chain' = chain
        BY <3>2 DEF Elements
      <3>3. CASE chain # <<>> /\ chain' = Tail(chain)
        <4>1. Elements(chain') = Elements(Tail(chain))
          BY <3>3 DEF Elements
        <4> QED BY <1>2, <3>3, <4>1
      <3>4. CASE chain' = <<>>
        <4>1. Elements(chain') = Elements(<<>>)
          BY <3>4 DEF Elements
        <4> QED BY <3>1, <4>1
      <3> QED BY <1>5, <3>2, <3>3, <3>4
    <2>3. Recorded' \subseteq Recorded
      BY <2>1, <2>2 DEF Recorded
    <2> QED BY <1>0, <1>3, <2>3, RecordsKeep
  <1>6. CASE LoseRace \/ Busy \/ LinkFails
    BY <1>5, <1>6 DEF LoseRace, Busy, LinkFails, BreaksOff, Settle, RetryFirst
  <1>7. CASE Restart
    BY <1>5, <1>7 DEF Restart
  <1>8. CASE UNCHANGED <<writer, log>>
    BY <1>5, <1>8 DEF writer
  <1> QED BY <1>1, <1>4, <1>6, <1>7, <1>8
      DEF Next, vars, Subscribe, Snapshot, YieldHistory, TakeLive, Read, Disconnect

\* Every step keeps the answers true.
LEMMA AnswerStep == Inv /\ Answered /\ [Next]_vars => Answered'
  <1> SUFFICES ASSUME Inv, Answered, [Next]_vars PROVE Answered'
    OBVIOUS
  <1>0. /\ WriterTypes /\ MaxAttempts \in Nat \ {0} /\ tries \in Nat
        /\ breaks \in Nat /\ told \in [Link -> Answers]
    BY EventLogAssumption DEF Inv, TypeOK, WriterTypes, EventLogAssumption
  <1>m. ASSUME chain # <<>>, UNCHANGED rows \/ UpdateRow(Head(chain))
        PROVE  /\ Updated \subseteq Updated'
               /\ Updated' \subseteq Updated \cup {Head(chain).link}
    BY <1>0, <1>m, RowsKeep, UpdatedGrows, EventLogAssumption
  <1>1. ASSUME NEW k \in Kind, EnqueueWrite(k) PROVE Answered'
    <2>1. PICK l \in Link :
            /\ Asked = 1 .. l - 1
            /\ chain' = Append(chain, [link |-> l, kind |-> k])
            /\ told' = [told EXCEPT ![l] = "waiting"]
      BY <1>1 DEF EnqueueWrite
    <2>2. UNCHANGED <<tries, breaks>> /\ Updated' = Updated /\ Logged' = Logged
      BY <1>1 DEF EnqueueWrite, rows, Logged, Updated
    <2>3. told[l] = "unasked"
      BY <2>1, EventLogAssumption DEF Link, Asked, EventLogAssumption
    <2>4. told'[l] = "waiting" /\ \A m \in Link : m = l \/ told'[m] = told[m]
      BY <1>0, <2>1
    <2>5. chain # <<>> => Head(chain') = Head(chain)
      BY <1>0, <2>1 DEF WriterTypes
    <2>6. \A m \in Link : told[m] = "waiting" => chain # <<>>
      BY <1>0, HeadWaits
    <2>7. l \notin Updated /\ l \notin Logged
      BY <2>3 DEF Answered
    <2> QED BY <2>2, <2>4, <2>5, <2>6, <2>7 DEF Answered
  <1>2. CASE Commit
    <2> DEFINE w == Head(chain)
    <2>1. /\ chain # <<>> /\ UpdateRow(w) /\ log' = Append(log, w)
          /\ Settle("done") /\ UNCHANGED breaks
      BY <1>2 DEF Commit
    <2>2. Logged' = Logged \cup {w.link}
      <3> HIDE DEF w
      <3>1. /\ Len(log') = Len(log) + 1 /\ Len(log) \in Nat /\ log'[Len(log) + 1] = w
            /\ \A i \in 1 .. Len(log) : log'[i] = log[i]
        BY <1>0, <2>1 DEF WriterTypes
      <3>2. 1 .. Len(log') = (1 .. Len(log)) \cup {Len(log) + 1}
        BY <3>1
      <3> QED BY <3>1, <3>2 DEF Logged
    <2> QED BY <1>0, <1>m, <2>1, <2>2, SettleAnswers
  <1>3. CASE LoseRace
    <2>1. /\ chain # <<>> /\ Settle("lost") /\ UNCHANGED <<rows, log, breaks>>
      BY <1>3 DEF LoseRace
    <2>2. Updated' = Updated /\ Logged' = Logged
      BY <2>1 DEF rows, Logged, Updated
    <2>3. Head(chain).link \in Updated => tries > 0
      BY <1>0, <2>1, HeadWaits DEF Answered
    <2>4. Head(chain).link \in Updated' => MaxAttempts > 1
      BY <1>0, <2>2, <2>3 DEF WriterTypes
    <2> QED BY <1>0, <2>1, <2>2, <2>4, SettleAnswers
  <1>4. CASE Busy
    <2>1. chain # <<>> /\ (UNCHANGED rows \/ UpdateRow(Head(chain))) /\ UNCHANGED <<log, breaks>>
      BY <1>4 DEF Busy, BreaksOff
    <2>2. /\ Updated \subseteq Updated' /\ Updated' \subseteq Updated \cup {Head(chain).link}
          /\ Logged' = Logged
      BY <1>m, <2>1 DEF Logged
    <2>3. CASE tries' = tries + 1 /\ chain' = chain /\ told' = told
      <3>1. Head(chain).link \in Link /\ told[Head(chain).link] = "waiting"
        BY <1>0, <2>1, HeadWaits
      <3>2. tries' > 0
        BY <1>0, <2>3
      <3>3. \A l \in Link : l \in Updated' /\ l \notin Updated => l = Head(chain).link
        BY <2>2
      <3> QED BY <2>1, <2>2, <2>3, <3>1, <3>2, <3>3 DEF Answered
    <2>4. CASE Settle("thrown")
      BY <1>0, <2>1, <2>2, <2>4, SettleAnswers
    <2> QED BY <1>4, <2>3, <2>4 DEF Busy, RetryFirst
  <1>7. CASE LinkFails
    <2>1. /\ chain # <<>> /\ (UNCHANGED rows \/ UpdateRow(Head(chain)))
          /\ Settle("thrown") /\ UNCHANGED <<log, breaks>>
      BY <1>7 DEF LinkFails, BreaksOff
    <2>2. Logged' = Logged
      BY <2>1 DEF Logged
    <2> QED BY <1>0, <1>m, <2>1, <2>2, SettleAnswers
  <1>5. CASE Restart
    <2>0. \/ UNCHANGED rows
          \/ chain # <<>> /\ UpdateRow(Head(chain))
      BY <1>5 DEF Restart, BreaksOff
    <2>1. /\ UNCHANGED log
          /\ told' = [l \in Link |-> IF told[l] = "waiting" THEN "cut off" ELSE told[l]]
      BY <1>5 DEF Restart
    <2>2. Logged' = Logged
      BY <2>1 DEF Logged
    <2>3. \A l \in Link : l \in Updated' /\ l \notin Updated => told[l] = "waiting"
      BY <1>0, <1>m, <2>0, HeadWaits DEF rows, Updated
    <2>8. Updated \subseteq Updated'
      BY <1>m, <2>0 DEF rows, Updated
    <2>4. breaks' > 0
      <3>1. breaks' = breaks + 1
        BY <1>5 DEF Restart
      <3> QED BY <1>0, <3>1
    <2>5. \A l \in Link : told'[l] = IF told[l] = "waiting" THEN "cut off" ELSE told[l]
      BY <2>1
    <2>6. ASSUME NEW l \in Link
          PROVE  /\ told'[l] = "done" <=> l \in Logged
                 /\ told'[l] = "lost" /\ l \in Updated' => MaxAttempts > 1
                 /\ told'[l] = "unasked" => l \notin Updated'
                 /\ told'[l] # "waiting"
      <3>1. told[l] = "waiting" => told'[l] = "cut off" /\ l \notin Logged
        BY <2>5 DEF Answered
      <3>2. told[l] # "waiting" => told'[l] = told[l] /\ (l \in Updated' <=> l \in Updated)
        BY <2>3, <2>5, <2>8
      <3> QED BY <3>1, <3>2 DEF Answered
    <2> QED BY <2>2, <2>4, <2>6 DEF Answered
  <1>6. CASE UNCHANGED <<writer, log>> /\ breaks' \in {breaks, breaks + 1}
    <2>1. Logged' = Logged /\ Updated' = Updated
      BY <1>6 DEF Logged, Updated, writer, rows
    <2>2. breaks > 0 => breaks' > 0
      BY <1>0, <1>6
    <2> QED BY <1>6, <2>1, <2>2 DEF Answered, writer
  <1> QED BY <1>1, <1>2, <1>3, <1>4, <1>5, <1>6, <1>7
      DEF Next, vars, Subscribe, Snapshot, YieldHistory, TakeLive, Read, Disconnect

Truthful == RowsAreWritten /\ OneKind /\ Answered

\* The rows, the kinds and the answers together.
LEMMA TruthfulAlways == Spec => [](Inv /\ Truthful)
  <1>1. Init => Truthful
    <2> SUFFICES ASSUME Init PROVE Truthful
      OBVIOUS
    <2>1. 1 .. Len(log) = {} /\ Updated = {} /\ moved = {} /\ column = Start
      BY DEF Init, Updated
    <2> QED BY <2>1 DEF Init, Truthful, RowsAreWritten, OneKind, Answered, Logged
  <1>2. Inv /\ Truthful /\ [Next]_vars => Truthful'
    BY RowsStep, KindStep, AnswerStep DEF Truthful, Inv, TypeOK
  <1> QED BY <1>1, <1>2, Invariance, PTL DEF Spec

\* Whatever is retried, whatever is thrown and wherever the process ends, a caller that
\* hears "done" has its event and no other caller has one; one whose own update went
\* through hears "lost" only where writes are retried; and of the writes that wait only
\* the first, at a later attempt, may have moved its row already.
THEOREM AnswersHold == Spec => []Answered
  <1>1. Truthful => Answered
    BY DEF Truthful
  <1> QED BY <1>1, TruthfulAlways, PTL

\* Whoever hears "lost" has asked for a row that was not there to begin with, or that a
\* committed update has moved to where it does not look for it: another link's, or its
\* own at an attempt before this one.
LostToAMove ==
    \A l \in Link :
        told[l] # "lost" /\ told'[l] = "lost" =>
            LET w == Head(chain)
                u == Update[w.kind]
            IN /\ w.link = l /\ w.kind \in MoveKinds
               /\ \/ Start[u.row] \notin u.from
                  \/ \E v \in moved : /\ Update[v.kind].row = u.row
                                      /\ Update[v.kind].to \notin u.from
                                      /\ v.link = l => tries > 0

\* lost_race is never said for nothing: behind it is a move that was committed, and the
\* caller's own move only if the link has been tried before.
THEOREM RacesAreLostToMoves == Spec => [][LostToAMove]_vars
  <1>1. Inv /\ Truthful /\ [Next]_vars => LostToAMove
    <2> SUFFICES ASSUME Inv, Truthful, [Next]_vars,
                        NEW l \in Link, told[l] # "lost", told'[l] = "lost"
                 PROVE  LET w == Head(chain)
                            u == Update[w.kind]
                        IN /\ w.link = l /\ w.kind \in MoveKinds
                           /\ \/ Start[u.row] \notin u.from
                              \/ \E v \in moved : /\ Update[v.kind].row = u.row
                                                  /\ Update[v.kind].to \notin u.from
                                                  /\ v.link = l => tries > 0
      BY DEF LostToAMove
    <2>0. WriterTypes /\ told \in [Link -> Answers]
      BY DEF Inv, TypeOK, WriterTypes
    <2>1. LoseRace
      <3>1. ASSUME NEW k \in Kind, EnqueueWrite(k) PROVE FALSE
        BY <2>0, <3>1 DEF EnqueueWrite
      <3>2. ASSUME NEW answer, Settle(answer), answer # "lost" PROVE FALSE
        BY <2>0, <3>2 DEF Settle
      <3>3. ~Restart
        BY DEF Restart
      <3>4. ~Commit /\ ~Busy /\ ~LinkFails
        BY <3>2 DEF Commit, Busy, LinkFails
      <3>5. told' # told
        OBVIOUS
      <3> QED BY <3>1, <3>3, <3>4, <3>5
          DEF Next, vars, writer, Subscribe, Snapshot, YieldHistory, TakeLive, Read, Disconnect
    <2> DEFINE w == Head(chain)
               u == Update[w.kind]
    <2>2. chain # <<>> /\ ~FindsRow(w) /\ Settle("lost")
      BY <2>1 DEF LoseRace
    <2>3. w.link = l
      BY <2>0, <2>2 DEF Settle
    <2>4. w.kind \in MoveKinds /\ column[u.row] \notin u.from /\ u.row \in Row
      BY <2>2, EventLogAssumption DEF FindsRow, EventLogAssumption
    <2>5. told[l] = "waiting"
      BY <2>0, <2>2, <2>3, HeadWaits
    <2>6. \A v \in moved : v.link = l => tries > 0
      BY <2>5 DEF Truthful, Answered, Updated
    <2> HIDE DEF u
    <2>7. \/ column[u.row] = Start[u.row]
          \/ \E v \in moved : Update[v.kind].row = u.row /\ Update[v.kind].to = column[u.row]
      BY <2>4 DEF Truthful, RowsAreWritten
    <2> QED BY <2>3, <2>4, <2>6, <2>7 DEF u
  <1> QED BY <1>1, TruthfulAlways, PTL DEF Spec

\* What the caller hears of a row that it has moved.
MovesAreTold ==
    \A w \in moved : \/ \E n \in 1 .. Len(log) : log[n] = w
                     \/ told[w.link] \in {"waiting", "thrown"}
                     \/ told[w.link] = "lost" /\ MaxAttempts > 1
                     \/ told[w.link] = "cut off" /\ breaks > 0

\* The comment at the transitions, which the run finds violated, has two exceptions and no
\* third: a move without an event and without a throw is either one that a retry has turned
\* into a lost race, or one whose process ended before it could answer. Were no write
\* retried, EventOrThrow would hold in every state that no restart has preceded.
THEOREM MovesWithoutEvent ==
  Spec => [](MovesAreTold /\ (MaxAttempts = 1 /\ breaks = 0 => EventOrThrow))
  <1>1. Inv /\ Truthful => MovesAreTold
    <2> SUFFICES ASSUME Inv, Truthful, NEW w \in moved
                 PROVE  \/ \E n \in 1 .. Len(log) : log[n] = w
                        \/ told[w.link] \in {"waiting", "thrown"}
                        \/ told[w.link] = "lost" /\ MaxAttempts > 1
                        \/ told[w.link] = "cut off" /\ breaks > 0
      BY DEF MovesAreTold
    <2>1. w.link \in Link /\ told[w.link] \in Answers /\ w.link \in Updated
      BY DEF Inv, TypeOK, WriterTypes, Event, Updated
    <2>2. /\ told[w.link] = "done" => w.link \in Logged
          /\ told[w.link] # "unasked"
          /\ told[w.link] = "lost" => MaxAttempts > 1
          /\ told[w.link] = "cut off" => breaks > 0
      BY <2>1 DEF Truthful, Answered
    <2>3. w.link \in Logged => \E n \in 1 .. Len(log) : log[n] = w
      BY DEF Truthful, OneKind, Recorded, Elements, Logged
    <2> QED BY <2>1, <2>2, <2>3 DEF Answers
  <1>2. MovesAreTold /\ MaxAttempts = 1 /\ breaks = 0 => EventOrThrow
    <2> SUFFICES ASSUME MovesAreTold, MaxAttempts = 1, breaks = 0, NEW w \in moved
                 PROVE  \/ \E n \in 1 .. Len(log) : log[n] = w
                        \/ told[w.link] \in {"waiting", "thrown"}
      BY DEF EventOrThrow
    <2>1. ~(MaxAttempts > 1) /\ ~(breaks > 0)
      OBVIOUS
    <2> QED BY <2>1 DEF MovesAreTold
  <1>3. Inv /\ Truthful => MovesAreTold /\ (MaxAttempts = 1 /\ breaks = 0 => EventOrThrow)
    BY <1>1, <1>2
  <1> QED BY <1>3, TruthfulAlways, PTL
============================================================================
