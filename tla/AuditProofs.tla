------------------------------ MODULE AuditProofs ------------------------------
(***************************************************************************)
(* Proofs about DbFlusher: for any number of rows an event has, of events  *)
(* and of faults.                                                          *)
(***************************************************************************)
EXTENDS DbFlusher, SequenceTheorems, TLAPS

-------------------------------------------------------------------------------
(***************************************************************************)
(* The position of part p of the k-th event of a sequence of rows.         *)
(***************************************************************************)
At(k, p) == (k - 1) * RowsPerEvent + p

(***************************************************************************)
(* It lies within the first n events for k up to n, ...                    *)
(***************************************************************************)
LEMMA AtBounded ==
  ASSUME NEW n \in Nat, NEW k \in 1 .. n, NEW p \in 1 .. RowsPerEvent
  PROVE  At(k, p) \in 1 .. n * RowsPerEvent
<1> DEFINE R == RowsPerEvent
<1>1. R \in Nat \ {0}
  BY BoundAssumption
<1>2. (k - 1) * R \in Nat
  BY <1>1
<1>3. n * R = (n - k) * R + k * R /\ (n - k) * R \in Nat
  BY <1>1
<1>4. k * R = (k - 1) * R + R
  BY <1>1
<1> HIDE DEF R
<1>5. p \in 1 .. R
  BY DEF R
<1>6. n * R \in Nat /\ k * R \in Nat
  BY <1>1
<1>7. (k - 1) * R + p \in 1 .. n * R
  <2> DEFINE a == (k - 1) * R
             b == n * R
             c == k * R
             d == (n - k) * R
  <2>1. a \in Nat /\ b \in Nat /\ c \in Nat /\ d \in Nat /\ b = d + c /\ c = a + R
    BY <1>2, <1>3, <1>4, <1>6
  <2> HIDE DEF a, b, c, d
  <2>2. a + p \in 1 .. b
    BY <2>1, <1>1, <1>5
  <2> QED
    BY <2>2 DEF a, b
<1> QED
  BY <1>7 DEF At, R

(***************************************************************************)
(* ... and lies n events further on for k + n.                             *)
(***************************************************************************)
LEMMA AtShifts ==
  ASSUME NEW n \in Nat, NEW k \in Nat \ {0}, NEW p \in Nat
  PROVE  At(n + k, p) = n * RowsPerEvent + At(k, p)
  BY BoundAssumption DEF At

(***************************************************************************)
(* Every position is that of a part of an event.                           *)
(***************************************************************************)
LEMMA AtCovers ==
  ASSUME NEW n \in Nat, NEW i \in 1 .. n * RowsPerEvent
  PROVE  \E k \in 1 .. n : \E p \in 1 .. RowsPerEvent : i = At(k, p)
<1> DEFINE R == RowsPerEvent
           d == (i - 1) \div R
           r == (i - 1) % R
<1>1. R \in Nat \ {0}
  BY BoundAssumption
<1>2. d \in Nat /\ r \in 0 .. R - 1 /\ i - 1 = d * R + r
  BY <1>1
<1>3. d < n
  <2>1. SUFFICES ASSUME d >= n PROVE FALSE
    BY <1>2
  <2>2. d * R = n * R + (d - n) * R /\ (d - n) * R \in Nat
    BY <2>1, <1>1, <1>2
  <2> QED
    BY <2>2, <1>1, <1>2
<1>4. d + 1 \in 1 .. n /\ r + 1 \in 1 .. R /\ i = At(d + 1, r + 1)
  BY <1>1, <1>2, <1>3 DEF At
<1> QED
  BY <1>4

(***************************************************************************)
(* The rows of n events are n * RowsPerEvent in number.                    *)
(***************************************************************************)
LEMMA WholeNumber ==
  ASSUME NEW n \in Nat
  PROVE  n * RowsPerEvent \in Nat /\ (n * RowsPerEvent) \div RowsPerEvent = n
  BY BoundAssumption

-------------------------------------------------------------------------------
(***************************************************************************)
(* Rows that are the rows of n events, one event after the other.          *)
(***************************************************************************)
RowsOfEvents(rows, n) ==
  /\ Len(rows) = n * RowsPerEvent
  /\ \A k \in 1 .. n : \A p \in 1 .. RowsPerEvent :
       rows[At(k, p)].part = p /\ rows[At(k, p)].event = rows[At(k, 1)].event

Whole(rows) == rows \in Seq(Row) /\ \E n \in Nat : RowsOfEvents(rows, n)

(***************************************************************************)
(* The events of such rows are n.                                          *)
(***************************************************************************)
LEMMA EventsOfRows ==
  ASSUME NEW rows \in Seq(Row), NEW n \in Nat, Len(rows) = n * RowsPerEvent
  PROVE  /\ EventsIn(rows) \in Seq(Events)
         /\ Len(EventsIn(rows)) = n
         /\ \A k \in 1 .. n : EventsIn(rows)[k] = rows[At(k, 1)].event
<1>1. EventsIn(rows) = [k \in 1 .. n |-> rows[At(k, 1)].event]
  <2>1. Len(rows) \div RowsPerEvent = n
    BY WholeNumber
  <2> QED
    BY <2>1 DEF EventsIn, At
<1>2. ASSUME NEW k \in 1 .. n PROVE rows[At(k, 1)].event \in Events
  <2>1. 1 \in 1 .. RowsPerEvent
    BY BoundAssumption
  <2>2. At(k, 1) \in 1 .. Len(rows)
    BY <2>1, AtBounded
  <2>3. rows[At(k, 1)] \in Row
    BY <2>2, ElementOfSeq
  <2> QED
    BY <2>3 DEF Row
<1>3. EventsIn(rows) \in [1 .. n -> Events]
  BY <1>1, <1>2
<1> QED
  BY <1>1, <1>3

LEMMA EmptyIsWhole == Whole(<<>>) /\ EventsIn(<<>>) = <<>>
<1>1. <<>> \in Seq(Row) /\ Len(<<>>) = 0 * RowsPerEvent
  BY BoundAssumption
<1>2. RowsOfEvents(<<>>, 0)
  BY <1>1 DEF RowsOfEvents
<1>3. EventsIn(<<>>) \in Seq(Events) /\ Len(EventsIn(<<>>)) = 0
  BY <1>1, EventsOfRows
<1> QED
  BY <1>1, <1>2, <1>3, EmptySeq DEF Whole

(***************************************************************************)
(* What one handler queues is the rows of one event.                       *)
(***************************************************************************)
LEMMA RecordIsWhole ==
  ASSUME NEW e \in Events
  PROVE  Whole(RowsOf(e)) /\ EventsIn(RowsOf(e)) = <<e>>
<1>1. RowsOf(e) \in Seq(Row) /\ Len(RowsOf(e)) = RowsPerEvent
  BY BoundAssumption DEF RowsOf, Row
<1>2. Len(RowsOf(e)) = 1 * RowsPerEvent
  BY <1>1, BoundAssumption
<1>3. \A p \in 1 .. RowsPerEvent : At(1, p) = p
  BY BoundAssumption DEF At
<1>4. ASSUME NEW p \in 1 .. RowsPerEvent
      PROVE  RowsOf(e)[At(1, p)].part = p /\ RowsOf(e)[At(1, p)].event = e
  BY <1>3 DEF RowsOf
<1>5. 1 \in 1 .. RowsPerEvent
  BY BoundAssumption
<1>6. RowsOf(e)[At(1, 1)].event = e
  BY <1>4, <1>5
<1>7. RowsOfEvents(RowsOf(e), 1)
  <2>1. \A k \in 1 .. 1 : k = 1
    OBVIOUS
  <2> QED
    BY <1>2, <1>4, <1>6, <2>1 DEF RowsOfEvents
<1>8. /\ EventsIn(RowsOf(e)) \in Seq(Events) /\ Len(EventsIn(RowsOf(e))) = 1
      /\ \A k \in 1 .. 1 : EventsIn(RowsOf(e))[k] = RowsOf(e)[At(k, 1)].event
  BY <1>1, <1>2, EventsOfRows, Zenon, 1 \in Nat
<1>9. EventsIn(RowsOf(e))[1] = e
  BY <1>6, <1>8
<1> QED
  BY <1>1, <1>7, <1>8, <1>9 DEF Whole

(***************************************************************************)
(* A sequence that begins like u and goes on like v is u \o v.             *)
(***************************************************************************)
LEMMA IsConcat ==
  ASSUME NEW S, NEW u \in Seq(S), NEW v \in Seq(S), NEW w \in Seq(S),
         Len(w) = Len(u) + Len(v),
         \A k \in 1 .. Len(u) : w[k] = u[k],
         \A k \in 1 .. Len(v) : w[Len(u) + k] = v[k]
  PROVE  w = u \o v
<1>1. u \o v \in Seq(S) /\ Len(u \o v) = Len(w)
  OBVIOUS
<1>2. ASSUME NEW k \in 1 .. Len(w) PROVE w[k] = (u \o v)[k]
  <2>1. CASE k \in 1 .. Len(u)
    BY <2>1
  <2>2. CASE k \notin 1 .. Len(u)
    <3>1. k - Len(u) \in 1 .. Len(v) /\ k = Len(u) + (k - Len(u))
      BY <2>2
    <3>2. (u \o v)[k] = v[k - Len(u)]
      BY <3>1, <2>2
    <3> QED
      BY <3>1, <3>2
  <2> QED
    BY <2>1, <2>2
<1> QED
  BY <1>1, <1>2, SeqEqual

(***************************************************************************)
(* Whole events one after the other are whole events, and their events     *)
(* come one after the other.                                               *)
(***************************************************************************)
LEMMA ConcatIsWhole ==
  ASSUME NEW s, NEW t, Whole(s), Whole(t)
  PROVE  Whole(s \o t) /\ EventsIn(s \o t) = EventsIn(s) \o EventsIn(t)
<1>1. PICK n \in Nat : RowsOfEvents(s, n)
  BY DEF Whole
<1>2. PICK m \in Nat : RowsOfEvents(t, m)
  BY DEF Whole
<1>3. s \in Seq(Row) /\ t \in Seq(Row) /\ s \o t \in Seq(Row) /\ Len(s \o t) = Len(s) + Len(t)
  BY ConcatProperties DEF Whole
<1>4. Len(s \o t) = (n + m) * RowsPerEvent
  <2>1. Len(s \o t) = n * RowsPerEvent + m * RowsPerEvent
    BY <1>1, <1>2, <1>3 DEF RowsOfEvents
  <2> QED
    BY <2>1, BoundAssumption
<1>5. 1 \in 1 .. RowsPerEvent
  BY BoundAssumption
<1>6. ASSUME NEW k \in 1 .. n, NEW p \in 1 .. RowsPerEvent
      PROVE  (s \o t)[At(k, p)] = s[At(k, p)]
  <2>1. At(k, p) \in 1 .. Len(s)
    BY <1>1, AtBounded DEF RowsOfEvents
  <2> QED
    BY <2>1, <1>3
<1>7. ASSUME NEW k \in 1 .. m, NEW p \in 1 .. RowsPerEvent
      PROVE  (s \o t)[At(n + k, p)] = t[At(k, p)]
  <2>1. At(k, p) \in 1 .. Len(t)
    BY <1>2, AtBounded DEF RowsOfEvents
  <2>2. At(n + k, p) = Len(s) + At(k, p)
    <3>1. At(n + k, p) = n * RowsPerEvent + At(k, p)
      BY AtShifts, BoundAssumption
    <3> QED
      BY <3>1, <1>1 DEF RowsOfEvents
  <2> QED
    BY <2>1, <2>2, <1>3
<1>8. ASSUME NEW k \in 1 .. n + m, NEW p \in 1 .. RowsPerEvent
      PROVE  (s \o t)[At(k, p)].part = p /\ (s \o t)[At(k, p)].event = (s \o t)[At(k, 1)].event
  <2>1. CASE k \in 1 .. n
    BY <2>1, <1>1, <1>5, <1>6 DEF RowsOfEvents
  <2>2. CASE k \notin 1 .. n
    <3>1. PICK j \in 1 .. m : k = n + j
      <4>1. k - n \in 1 .. m /\ k = n + (k - n)
        BY <2>2
      <4> QED
        BY <4>1
    <3>2. (s \o t)[At(k, p)] = t[At(j, p)] /\ (s \o t)[At(k, 1)] = t[At(j, 1)]
      BY <3>1, <1>5, <1>7
    <3>3. t[At(j, p)].part = p /\ t[At(j, p)].event = t[At(j, 1)].event
      BY <1>2 DEF RowsOfEvents
    <3> QED
      BY <3>2, <3>3
  <2> QED
    BY <2>1, <2>2
<1>9. Whole(s \o t)
  <2>1. RowsOfEvents(s \o t, n + m)
    BY <1>4, <1>8 DEF RowsOfEvents
  <2> QED
    BY <2>1, <1>3 DEF Whole
<1>10. /\ EventsIn(s) \in Seq(Events) /\ Len(EventsIn(s)) = n
       /\ \A k \in 1 .. n : EventsIn(s)[k] = s[At(k, 1)].event
  BY <1>1, <1>3, EventsOfRows DEF RowsOfEvents
<1>11. /\ EventsIn(t) \in Seq(Events) /\ Len(EventsIn(t)) = m
       /\ \A k \in 1 .. m : EventsIn(t)[k] = t[At(k, 1)].event
  BY <1>2, <1>3, EventsOfRows DEF RowsOfEvents
<1>12. /\ EventsIn(s \o t) \in Seq(Events) /\ Len(EventsIn(s \o t)) = n + m
       /\ \A k \in 1 .. n + m : EventsIn(s \o t)[k] = (s \o t)[At(k, 1)].event
  <2>1. n + m \in Nat
    OBVIOUS
  <2> QED
    BY <2>1, <1>3, <1>4, EventsOfRows, Zenon
<1>13. ASSUME NEW k \in 1 .. n PROVE EventsIn(s \o t)[k] = EventsIn(s)[k]
  <2>1. k \in 1 .. n + m
    OBVIOUS
  <2>2. (s \o t)[At(k, 1)] = s[At(k, 1)]
    BY <1>5, <1>6
  <2> QED
    BY <2>1, <2>2, <1>10, <1>12, Zenon
<1>14. ASSUME NEW k \in 1 .. m PROVE EventsIn(s \o t)[n + k] = EventsIn(t)[k]
  <2>1. n + k \in 1 .. n + m
    OBVIOUS
  <2>2. (s \o t)[At(n + k, 1)] = t[At(k, 1)]
    BY <1>5, <1>7
  <2> QED
    BY <2>1, <2>2, <1>11, <1>12, Zenon
<1>15. EventsIn(s \o t) = EventsIn(s) \o EventsIn(t)
  BY <1>10, <1>11, <1>12, <1>13, <1>14, IsConcat
<1> QED
  BY <1>9, <1>15

(***************************************************************************)
(* Every event of whole rows is there with all of its parts.               *)
(***************************************************************************)
LEMMA WholeIsAtomic ==
  ASSUME NEW rows, Whole(rows), NEW i \in DOMAIN rows, NEW p \in 1 .. RowsPerEvent
  PROVE  \E j \in DOMAIN rows : rows[j].event = rows[i].event /\ rows[j].part = p
<1>1. PICK n \in Nat : RowsOfEvents(rows, n)
  BY DEF Whole
<1>2. rows \in Seq(Row) /\ DOMAIN rows = 1 .. n * RowsPerEvent
  BY <1>1 DEF Whole, RowsOfEvents
<1>3. PICK k \in 1 .. n, q \in 1 .. RowsPerEvent : i = At(k, q)
  BY <1>2, AtCovers
<1>4. At(k, p) \in DOMAIN rows
  BY <1>2, AtBounded
<1>5. rows[At(k, p)].part = p /\ rows[At(k, p)].event = rows[At(k, 1)].event
  BY <1>1 DEF RowsOfEvents
<1>6. rows[At(k, q)].event = rows[At(k, 1)].event
  BY <1>1 DEF RowsOfEvents
<1> QED
  BY <1>3, <1>4, <1>5, <1>6

-------------------------------------------------------------------------------
(***************************************************************************)
(* The inductive invariant.  A round has what its place in it says: while  *)
(* the flusher sleeps no rows are on their way, while it does not the      *)
(* queue is empty, and only an open connection has a transaction.          *)
(***************************************************************************)
RoundsEnd ==
  /\ pc = "sleeping" => batch = <<>> /\ txn = <<>>
  /\ pc # "sleeping" => queue = <<>>
  /\ pc = "connecting" => conn = "none"
  /\ pc = "executing" => conn # "none"
  /\ conn # "open" => txn = <<>>

(***************************************************************************)
(* Queue, round and tables hold whole events.  A round whose connection    *)
(* has broken is over: what is left of its batch goes nowhere.             *)
(***************************************************************************)
WholeEvents ==
  /\ Whole(queue)
  /\ conn # "broken" => Whole(txn \o batch)
  /\ Whole(committed)

AuditInv == TypeOK /\ RoundsEnd /\ WholeEvents

(***************************************************************************)
(* Executing a row moves it from the batch to the transaction.             *)
(***************************************************************************)
LEMMA ExecuteMoves ==
  ASSUME TypeOK, Execute
  PROVE  /\ txn' \in Seq(Row) /\ batch' \in Seq(Row)
         /\ txn' \o batch' = txn \o batch
<1>1. /\ txn' = txn \o <<Head(batch)>> /\ batch' = Tail(batch)
      /\ txn \in Seq(Row) /\ batch \in Seq(Row) /\ Head(batch) \in Row
  BY HeadTailProperties DEF Execute, TypeOK
<1>2. /\ batch' \in Seq(Row) /\ Len(batch) = Len(batch') + 1
      /\ \A i \in 1 .. Len(batch') : batch'[i] = batch[i + 1]
  BY <1>1, HeadTailProperties DEF Execute
<1>3. batch = <<Head(batch)>> \o batch'
  <2>1. Len(<<Head(batch)>>) = 1 /\ <<Head(batch)>> \in Seq(Row) /\ batch[1] = <<Head(batch)>>[1]
    BY <1>1 DEF Execute
  <2> QED
    BY <1>1, <1>2, <2>1, IsConcat
<1>4. (txn \o <<Head(batch)>>) \o batch' = txn \o (<<Head(batch)>> \o batch')
  BY <1>1, <1>2, ConcatAssociative
<1> QED
  BY <1>1, <1>2, <1>3, <1>4

LEMMA AuditInit == Init => AuditInv
<1> SUFFICES ASSUME Init PROVE AuditInv
  OBVIOUS
<1>1. TypeOK
  BY BoundAssumption DEF Init, TypeOK
<1>2. <<>> \o <<>> = <<>>
  OBVIOUS
<1> QED
  BY <1>1, <1>2, EmptyIsWhole DEF Init, AuditInv, RoundsEnd, WholeEvents

(***************************************************************************)
(* A round that gives up leaves nothing behind but what is committed.      *)
(***************************************************************************)
LEMMA GivingUp ==
  ASSUME AuditInv, GiveUp, queue' \in {queue, <<>>}, Whole(committed'), next' = next,
         noConnect' = noConnect, faults' \in 0 .. MaxFaults,
         queue' = <<>> \/ pc # "sleeping"
  PROVE  AuditInv'
<1>1. queue' = <<>>
  BY DEF AuditInv, RoundsEnd
<1>2. <<>> \o <<>> = <<>> /\ <<>> \in Seq(Row)
  OBVIOUS
<1>3. TypeOK'
  BY <1>1, <1>2 DEF AuditInv, TypeOK, GiveUp, Whole
<1> QED
  BY <1>1, <1>2, <1>3, EmptyIsWhole DEF AuditInv, RoundsEnd, WholeEvents, GiveUp

LEMMA AuditStep == AuditInv /\ [Next]_vars => AuditInv'
<1> SUFFICES ASSUME AuditInv, [Next]_vars PROVE AuditInv'
  OBVIOUS
<1>0. TypeOK /\ RoundsEnd /\ WholeEvents
  BY DEF AuditInv
<1>1. CASE Record
  <2>1. next \in Events /\ next + 1 \in 1 .. MaxEvents + 1
    BY <1>0, <1>1, BoundAssumption DEF TypeOK, Record, Events
  <2>2. Whole(queue')
    BY <1>0, <1>1, <2>1, RecordIsWhole, ConcatIsWhole DEF Record, WholeEvents
  <2>3. TypeOK'
    BY <1>0, <1>1, <2>1, <2>2 DEF Record, TypeOK, Whole
  <2> QED
    BY <1>0, <1>1, <2>2, <2>3 DEF Record, AuditInv, RoundsEnd, WholeEvents
<1>2. CASE EmptyRound \/ UNCHANGED vars
  BY <1>0, <1>2 DEF EmptyRound, vars, AuditInv, TypeOK, RoundsEnd, WholeEvents
<1>3. CASE Drain
  <2>1. <<>> \o queue = queue
    BY <1>0 DEF TypeOK
  <2>2. TypeOK'
    BY <1>0, <1>3 DEF Drain, TypeOK
  <2> QED
    BY <1>0, <1>3, <2>1, <2>2, EmptyIsWhole DEF Drain, AuditInv, TypeOK, RoundsEnd, WholeEvents
<1>4. CASE Connect
  BY <1>0, <1>4 DEF Connect, AuditInv, TypeOK, RoundsEnd, WholeEvents
<1>5. CASE Execute
  BY <1>0, <1>5, ExecuteMoves DEF Execute, AuditInv, TypeOK, RoundsEnd, WholeEvents
<1>6. CASE Commit
  <2>1. txn \o batch = txn /\ <<>> \o batch = <<>>
    BY <1>0, <1>6 DEF Commit, TypeOK
  <2>2. Whole(committed')
    BY <1>0, <1>6, <2>1, ConcatIsWhole DEF Commit, WholeEvents
  <2>3. TypeOK'
    BY <1>0, <1>6, <2>2 DEF Commit, TypeOK, Whole
  <2> QED
    BY <1>0, <1>6, <2>1, <2>2, <2>3, EmptyIsWhole DEF Commit, AuditInv, RoundsEnd, WholeEvents
<1>7. CASE FlushFails
  <2>1. faults' \in 0 .. MaxFaults
    BY <1>0, <1>7, BoundAssumption DEF FlushFails, TypeOK
  <2> QED
    BY <1>0, <1>7, <2>1, GivingUp DEF FlushFails, WholeEvents
<1>8. CASE ConnectFails
  <2>1. <<>> \o <<>> = <<>> /\ <<>> \in Seq(Row)
    OBVIOUS
  <2>2. faults' \in 0 .. MaxFaults /\ noConnect' \in Nat
    BY <1>0, <1>8, BoundAssumption DEF ConnectFails, TypeOK
  <2>3. TypeOK'
    BY <1>0, <1>8, <2>1, <2>2 DEF ConnectFails, TypeOK
  <2> QED
    BY <1>0, <1>8, <2>1, <2>3, EmptyIsWhole DEF ConnectFails, AuditInv, RoundsEnd, WholeEvents
<1>9. CASE CommitUnacknowledged
  <2>1. faults' \in 0 .. MaxFaults
    BY <1>0, <1>9, BoundAssumption DEF CommitUnacknowledged, TypeOK
  <2>2. txn \o batch = txn
    BY <1>0, <1>9 DEF CommitUnacknowledged, TypeOK
  <2>3. Whole(committed')
    BY <1>0, <1>9, <2>2, ConcatIsWhole DEF CommitUnacknowledged, WholeEvents
  <2> QED
    BY <1>9, <2>1, <2>3, GivingUp DEF CommitUnacknowledged
<1>10. CASE ServerRestart
  <2>1. faults' \in 0 .. MaxFaults
    BY <1>0, <1>10, BoundAssumption DEF ServerRestart, TypeOK
  <2>2. TypeOK'
    BY <1>0, <1>10, <2>1 DEF ServerRestart, TypeOK
  <2> QED
    BY <1>0, <1>10, <2>2 DEF ServerRestart, AuditInv, RoundsEnd, WholeEvents
<1>11. CASE Restart
  <2>1. faults' \in 0 .. MaxFaults
    BY <1>0, <1>11, BoundAssumption DEF Restart, TypeOK
  <2> QED
    BY <1>0, <1>11, <2>1, GivingUp DEF Restart, WholeEvents
<1> QED
  BY <1>1, <1>2, <1>3, <1>4, <1>5, <1>6, <1>7, <1>8, <1>9, <1>10, <1>11 DEF Next, Flush, Fault

LEMMA AuditInvariant == Spec => []AuditInv
  BY AuditInit, AuditStep, PTL DEF Spec

(***************************************************************************)
(* The queue, the round and the tables hold rows of recorded events, and   *)
(* faults stay within their bound.                                         *)
(***************************************************************************)
THEOREM TypeCorrect == Spec => []TypeOK
<1>1. AuditInv => TypeOK
  BY DEF AuditInv
<1> QED
  BY <1>1, AuditInvariant, PTL

(***************************************************************************)
(* An event's rows are in the database all or not at all, whenever         *)
(* db_flusher drains, whatever breaks and however many rows an event has   *)
(* (state_machine.py's one transaction per drained batch).                 *)
(***************************************************************************)
THEOREM EventsStayWhole == Spec => []EventAtomic
<1>1. AuditInv => EventAtomic
  <2> SUFFICES ASSUME AuditInv, NEW e \in Events,
                      NEW i \in DOMAIN committed, committed[i].event = e
               PROVE  {committed[k].part : k \in {j \in DOMAIN committed : committed[j].event = e}}
                        = 1 .. RowsPerEvent
    BY DEF EventAtomic
  <2>1. \A j \in DOMAIN committed : committed[j].part \in 1 .. RowsPerEvent
    <3> TAKE j \in DOMAIN committed
    <3>1. committed[j] \in Row
      BY ElementOfSeq, LenProperties DEF AuditInv, TypeOK
    <3> QED
      BY <3>1 DEF Row
  <2>2. \A p \in 1 .. RowsPerEvent :
          \E j \in DOMAIN committed : committed[j].event = e /\ committed[j].part = p
    BY WholeIsAtomic DEF AuditInv, WholeEvents
  <2> QED
    BY <2>1, <2>2
<1> QED
  BY <1>1, AuditInvariant, PTL

-------------------------------------------------------------------------------
(***************************************************************************)
(* The refinement.  What is on its way, outside a round and in one.        *)
(***************************************************************************)
Pending == EventsIn(InRound \o queue)
Stored == EventsIn(committed)

LEMMA PendingAsleep ==
  ASSUME AuditInv, pc = "sleeping" PROVE Pending = EventsIn(queue)
<1>1. InRound = <<>>
  BY DEF AuditInv, RoundsEnd, InRound
<1>2. InRound \o queue = queue
  BY <1>1 DEF AuditInv, TypeOK
<1> QED
  BY <1>2 DEF Pending

LEMMA PendingInRound ==
  ASSUME AuditInv, pc # "sleeping"
  PROVE  Pending = IF conn = "broken" THEN <<>> ELSE EventsIn(txn \o batch)
<1>1. queue = <<>> /\ InRound \in Seq(Row)
  BY DEF AuditInv, RoundsEnd, TypeOK, InRound
<1>2. InRound \o queue = InRound
  BY <1>1
<1> QED
  BY <1>2, EmptyIsWhole DEF Pending, InRound

(***************************************************************************)
(* A round that is over leaves nothing on its way.                         *)
(***************************************************************************)
LEMMA NothingPending ==
  ASSUME queue' = <<>>, txn' = <<>>, batch' = <<>>
  PROVE  Pending' = <<>>
<1>1. InRound' = <<>> \o <<>> \/ InRound' = <<>>
  BY DEF InRound
<1>2. InRound' \o queue' = <<>>
  BY <1>1
<1> QED
  BY <1>2, EmptyIsWhole DEF Pending

(***************************************************************************)
(* db_flusher implements the abstract audit trail: every event is stored   *)
(* at most once, whole and in the order of recording, whatever fails: a    *)
(* step of the flusher, the server or the process records an event, stores *)
(* all that is on its way, loses all of it, or is not seen.                *)
(***************************************************************************)
THEOREM FlusherImplementsAuditLog == Spec => ImplementsAuditLog
<1>1. Init => Trail!Init
  <2> SUFFICES ASSUME Init PROVE Trail!Init
    OBVIOUS
  <2>1. InRound \o queue = <<>>
    BY DEF Init, InRound
  <2> QED
    BY <2>1, EmptyIsWhole DEF Init, Trail!Init
<1>2. AuditInv /\ AuditInv' /\ [Next]_vars => [Trail!Next]_Trail!vars
  <2> SUFFICES ASSUME AuditInv, AuditInv', [Next]_vars
               PROVE  \/ Pending' = Append(Pending, next) /\ next <= MaxEvents
                         /\ next' = next + 1 /\ Stored' = Stored
                      \/ Stored' = Stored \o Pending /\ Pending' = <<>> /\ next' = next
                      \/ Pending' = <<>> /\ next' = next /\ Stored' = Stored
                      \/ Pending' = Pending /\ next' = next /\ Stored' = Stored
    BY DEF Trail!Next, Trail!Record, Trail!Store, Trail!Lose, Trail!vars, Pending, Stored
  <2>0. TypeOK /\ RoundsEnd /\ WholeEvents
    BY DEF AuditInv
  <2>1. CASE Record
    <3>1. next \in Events
      BY <2>0, <2>1, BoundAssumption DEF TypeOK, Record, Events
    <3>2. EventsIn(queue') = EventsIn(queue) \o <<next>>
      BY <2>0, <2>1, <3>1, RecordIsWhole, ConcatIsWhole DEF Record, WholeEvents
    <3>3. InRound' \o queue' = queue' /\ EventsIn(queue) \in Seq(Events)
      <4>1. InRound' = <<>>
        BY <2>0, <2>1 DEF Record, RoundsEnd, InRound
      <4>2. queue' \in Seq(Row)
        BY DEF AuditInv, TypeOK
      <4>3. PICK n \in Nat : RowsOfEvents(queue, n)
        BY <2>0 DEF WholeEvents, Whole
      <4> QED
        BY <2>0, <4>1, <4>2, <4>3, EventsOfRows DEF TypeOK, RowsOfEvents
    <3>4. Pending = EventsIn(queue) /\ Pending' = EventsIn(queue')
      BY <2>1, <3>3, PendingAsleep DEF Record, Pending
    <3> QED
      BY <2>1, <3>2, <3>3, <3>4 DEF Record, Stored
  <2>2. CASE EmptyRound \/ UNCHANGED vars
    BY <2>2 DEF EmptyRound, vars, Pending, Stored, InRound
  <2>3. CASE Drain
    <3>1. Pending' = IF conn = "broken" THEN <<>> ELSE EventsIn(queue)
      <4>1. txn' \o batch' = queue /\ queue' = <<>>
        BY <2>0, <2>3 DEF Drain, RoundsEnd, TypeOK
      <4>2. InRound' = IF conn = "broken" THEN <<>> ELSE queue
        BY <2>3, <4>1 DEF Drain, InRound
      <4>3. InRound' \o queue' = InRound'
        BY <2>0, <4>1, <4>2 DEF TypeOK
      <4> QED
        BY <4>2, <4>3, EmptyIsWhole DEF Pending
    <3> QED
      BY <2>3, <3>1, PendingAsleep DEF Drain, Stored
  <2>4. CASE Connect
    BY <2>0, <2>4 DEF Connect, RoundsEnd, Pending, Stored, InRound
  <2>5. CASE Execute
    <3>1. InRound' = InRound /\ queue' = queue
      BY <2>0, <2>5, ExecuteMoves DEF Execute, InRound
    <3> QED
      BY <2>5, <3>1 DEF Execute, Pending, Stored
  <2>6. CASE Commit \/ CommitUnacknowledged
    <3>1. txn \o batch = txn /\ Whole(txn)
      <4>1. batch = <<>> /\ conn = "open" /\ txn \in Seq(Row)
        BY <2>0, <2>6 DEF Commit, CommitUnacknowledged, TypeOK
      <4>2. txn \o batch = txn
        BY <4>1
      <4> QED
        BY <2>0, <4>1, <4>2 DEF WholeEvents
    <3>2. Pending = EventsIn(txn)
      BY <2>6, <3>1, PendingInRound DEF Commit, CommitUnacknowledged
    <3>3. Pending' = <<>>
      BY <2>0, <2>6, NothingPending DEF Commit, CommitUnacknowledged, GiveUp, RoundsEnd
    <3>4. Stored' = Stored \o EventsIn(txn)
      BY <2>0, <2>6, <3>1, ConcatIsWhole DEF Commit, CommitUnacknowledged, WholeEvents, Stored
    <3> QED
      BY <2>6, <3>2, <3>3, <3>4 DEF Commit, CommitUnacknowledged
  <2>7. CASE FlushFails \/ ConnectFails \/ Restart
    <3>1. queue' = <<>> /\ txn' = <<>> /\ batch' = <<>>
      BY <2>0, <2>7 DEF FlushFails, ConnectFails, Restart, GiveUp, RoundsEnd
    <3> QED
      BY <2>7, <3>1, NothingPending DEF FlushFails, ConnectFails, Restart, Stored
  <2>8. CASE ServerRestart
    <3>1. InRound' = <<>> /\ queue' = queue
      BY <2>8 DEF ServerRestart, InRound
    <3>2. Pending' = EventsIn(queue)
      BY <2>0, <3>1 DEF TypeOK, Pending
    <3>3. Pending' = Pending \/ Pending' = <<>>
      BY <2>0, <3>2, PendingAsleep, EmptyIsWhole DEF RoundsEnd
    <3> QED
      BY <2>8, <3>3 DEF ServerRestart, Stored
  <2> QED
    BY <2>1, <2>2, <2>3, <2>4, <2>5, <2>6, <2>7, <2>8 DEF Next, Flush, Fault
<1> QED
  BY <1>1, <1>2, AuditInvariant, PTL DEF Spec, ImplementsAuditLog, Trail!Spec

(***************************************************************************)
(* What is stored and, after it, what is on its way ascends up to the last *)
(* event recorded.                                                         *)
(***************************************************************************)
TrailInv ==
  /\ next \in Nat
  /\ Stored \in Seq(Nat) /\ Pending \in Seq(Nat)
  /\ Trail!Ascending(Stored) /\ Trail!Ascending(Pending)
  /\ \A i \in DOMAIN Stored : Stored[i] < next
  /\ \A j \in DOMAIN Pending : Pending[j] < next
  /\ \A i \in DOMAIN Stored : \A j \in DOMAIN Pending : Stored[i] < Pending[j]

(***************************************************************************)
(* Two ascending sequences, one before the other, ascend.                  *)
(***************************************************************************)
LEMMA ConcatAscends ==
  ASSUME NEW s \in Seq(Nat), NEW t \in Seq(Nat), NEW bound \in Nat,
         Trail!Ascending(s), Trail!Ascending(t),
         \A i \in DOMAIN s : s[i] < bound,
         \A j \in DOMAIN t : t[j] < bound,
         \A i \in DOMAIN s : \A j \in DOMAIN t : s[i] < t[j]
  PROVE  /\ s \o t \in Seq(Nat)
         /\ Trail!Ascending(s \o t)
         /\ \A i \in DOMAIN (s \o t) : (s \o t)[i] < bound
<1>1. /\ s \o t \in Seq(Nat) /\ DOMAIN (s \o t) = 1 .. Len(s) + Len(t)
      /\ DOMAIN s = 1 .. Len(s) /\ DOMAIN t = 1 .. Len(t)
  OBVIOUS
<1>2. ASSUME NEW i \in 1 .. Len(s) PROVE (s \o t)[i] = s[i]
  OBVIOUS
<1>3. ASSUME NEW i \in 1 .. Len(s) + Len(t), i \notin 1 .. Len(s)
      PROVE  i - Len(s) \in 1 .. Len(t) /\ (s \o t)[i] = t[i - Len(s)]
  BY <1>3
<1>4. ASSUME NEW i \in 1 .. Len(s) + Len(t), NEW j \in 1 .. Len(s) + Len(t), i < j
      PROVE  (s \o t)[i] < (s \o t)[j]
  <2>1. CASE j \in 1 .. Len(s)
    <3>1. i \in 1 .. Len(s)
      BY <2>1, <1>4
    <3> QED
      BY <2>1, <3>1, <1>1, <1>2, <1>4 DEF Trail!Ascending
  <2>2. CASE i \in 1 .. Len(s) /\ j \notin 1 .. Len(s)
    BY <2>2, <1>1, <1>2, <1>3
  <2>3. CASE i \notin 1 .. Len(s)
    <3>1. j \notin 1 .. Len(s) /\ i - Len(s) < j - Len(s)
      BY <2>3, <1>4
    <3> QED
      BY <3>1, <2>3, <1>1, <1>3 DEF Trail!Ascending
  <2> QED
    BY <2>1, <2>2, <2>3
<1>5. ASSUME NEW i \in 1 .. Len(s) + Len(t) PROVE (s \o t)[i] < bound
  BY <1>1, <1>2, <1>3
<1> QED
  BY <1>1, <1>4, <1>5 DEF Trail!Ascending

(***************************************************************************)
(* The audit tables hold each event at most once and in order: a batch     *)
(* whose commit was not acknowledged is never written again.               *)
(***************************************************************************)
THEOREM EventsOnceInOrder == Spec => []Trail!OnceInOrder
<1>1. Init => TrailInv
  <2> SUFFICES ASSUME Init PROVE TrailInv
    OBVIOUS
  <2>1. Pending = <<>>
    BY EmptyIsWhole DEF Init, InRound, Pending
  <2>2. Stored = <<>>
    BY EmptyIsWhole DEF Init, Stored
  <2> QED
    BY <2>1, <2>2 DEF Init, TrailInv, Trail!Ascending
<1>2. TrailInv /\ [Trail!Next]_Trail!vars => TrailInv'
  <2> SUFFICES ASSUME TrailInv, [Trail!Next]_Trail!vars PROVE TrailInv'
    OBVIOUS
  <2>1. CASE Trail!Record
    <3>1. Pending' = Pending \o <<next>> /\ next' = next + 1 /\ Stored' = Stored
      BY <2>1 DEF Trail!Record, Pending, Stored, TrailInv
    <3>2. <<next>> \in Seq(Nat) /\ DOMAIN <<next>> = {1} /\ <<next>>[1] = next
      BY DEF TrailInv
    <3>3. next' \in Nat /\ \A j \in DOMAIN Pending : Pending[j] < next' /\ Pending[j] \in Nat
      BY <3>1 DEF TrailInv
    <3>4. Pending' \in Seq(Nat) /\ Trail!Ascending(Pending')
          /\ \A j \in DOMAIN Pending' : Pending'[j] < next'
      <4>1. Trail!Ascending(<<next>>)
        BY <3>2 DEF Trail!Ascending
      <4>2. /\ \A j \in DOMAIN <<next>> : <<next>>[j] < next'
            /\ \A i \in DOMAIN Pending : \A j \in DOMAIN <<next>> : Pending[i] < <<next>>[j]
        BY <3>1, <3>2 DEF TrailInv
      <4> DEFINE last == <<next>>
      <4>3. /\ last \in Seq(Nat) /\ Trail!Ascending(last)
            /\ \A j \in DOMAIN last : last[j] < next'
            /\ \A i \in DOMAIN Pending : \A j \in DOMAIN last : Pending[i] < last[j]
            /\ Pending' = Pending \o last
        BY <3>1, <3>2, <4>1, <4>2
      <4>4. Pending \in Seq(Nat) /\ Trail!Ascending(Pending) /\ next' \in Nat
            /\ \A j \in DOMAIN Pending : Pending[j] < next'
        BY <3>3 DEF TrailInv
      <4> HIDE DEF last
      <4> QED
        BY <4>3, <4>4, ConcatAscends
    <3>5. ASSUME NEW i \in DOMAIN Stored, NEW j \in DOMAIN Pending' PROVE Stored[i] < Pending'[j]
      BY <3>1 DEF TrailInv
    <3>6. /\ Stored' \in Seq(Nat) /\ Trail!Ascending(Stored') /\ DOMAIN Stored' = DOMAIN Stored
          /\ \A i \in DOMAIN Stored : Stored'[i] = Stored[i] /\ Stored[i] \in Nat /\ Stored[i] < next
      BY <3>1 DEF TrailInv
    <3>7. \A i \in DOMAIN Stored' : Stored'[i] < next'
      BY <3>1, <3>6 DEF TrailInv
    <3>8. \A i \in DOMAIN Stored' : \A j \in DOMAIN Pending' : Stored'[i] < Pending'[j]
      BY <3>1, <3>5
    <3> QED
      BY <3>3, <3>4, <3>6, <3>7, <3>8, Zenon DEF TrailInv
  <2>2. CASE Trail!Store
    <3>1. Stored' = Stored \o Pending /\ Pending' = <<>> /\ next' = next
      BY <2>2 DEF Trail!Store, Pending, Stored
    <3>2. /\ Stored' \in Seq(Nat) /\ Trail!Ascending(Stored')
          /\ \A i \in DOMAIN Stored' : Stored'[i] < next
      BY <3>1, ConcatAscends DEF TrailInv
    <3>3. Pending' \in Seq(Nat) /\ DOMAIN Pending' = {}
      BY <3>1
    <3>4. Trail!Ascending(Pending')
      BY <3>3 DEF Trail!Ascending
    <3> QED
      BY <3>1, <3>2, <3>3, <3>4 DEF TrailInv
  <2>3. CASE Trail!Lose
    <3>1. Stored' = Stored /\ Pending' = <<>> /\ next' = next
      BY <2>3 DEF Trail!Lose, Pending, Stored
    <3> QED
      BY <3>1 DEF TrailInv, Trail!Ascending
  <2>4. CASE UNCHANGED Trail!vars
    <3>1. Stored' = Stored /\ Pending' = Pending /\ next' = next
      BY <2>4 DEF Trail!vars, Pending, Stored
    <3> QED
      BY <3>1 DEF TrailInv
  <2> QED
    BY <2>1, <2>2, <2>3, <2>4 DEF Trail!Next
<1>3. TrailInv => Trail!OnceInOrder
  BY DEF TrailInv, Trail!OnceInOrder, Stored
<1> QED
  BY <1>1, <1>2, <1>3, FlusherImplementsAuditLog, PTL DEF Spec, ImplementsAuditLog, Trail!Spec
===============================================================================
