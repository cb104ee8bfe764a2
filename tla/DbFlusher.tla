------------------------------ MODULE DbFlusher -------------------------------
(***************************************************************************)
(* The audit path of fuelsim: state_machine.py's db_queue, filled by the   *)
(* event handlers and the snapshot loop, and db_flusher, which moves it to *)
(* PostgreSQL in one transaction per round.                                *)
(*                                                                         *)
(* psycopg2 blocks: from the moment a round has drained the queue until it *)
(* ends, no other coroutine of fuelsim runs.  The database server and the  *)
(* death of the process do not wait for it, so a round is modelled in the  *)
(* steps between which they can strike.                                    *)
(***************************************************************************)
EXTENDS Naturals, Sequences

CONSTANTS
  RowsPerEvent,  \* rows one handler puts, with no await that suspends in between
  MaxEvents,     \* bound: events recorded in a behaviour
  MaxFaults      \* bound: server outages, failed connects and process deaths

ASSUME BoundAssumption ==
  /\ RowsPerEvent \in Nat \ {0}
  /\ MaxEvents \in Nat
  /\ MaxFaults \in Nat

VARIABLES
  next,       \* the next event to happen
  queue,      \* db_queue
  pc,         \* where db_flusher is
  batch,      \* rows of this round not yet executed
  conn,       \* the psycopg2 connection: none, open, or broken under us
  txn,        \* rows executed in the open transaction, as the server has them
  committed,  \* rows the server has committed
  noConnect,  \* history: rows of batches that were dropped for want of a connection
  faults      \* faults so far

vars == <<next, queue, pc, batch, conn, txn, committed, noConnect, faults>>

Events == 1 .. MaxEvents
Row == [event : Events, part : 1 .. RowsPerEvent]

TypeOK ==
  /\ next \in 1 .. MaxEvents + 1
  /\ queue \in Seq(Row)
  /\ pc \in {"sleeping", "connecting", "executing"}
  /\ batch \in Seq(Row)
  /\ conn \in {"none", "open", "broken"}
  /\ txn \in Seq(Row)
  /\ committed \in Seq(Row)
  /\ noConnect \in Nat
  /\ faults \in 0 .. MaxFaults

Init ==
  /\ next = 1
  /\ queue = <<>>
  /\ pc = "sleeping"
  /\ batch = <<>>
  /\ conn = "none"
  /\ txn = <<>>
  /\ committed = <<>>
  /\ noConnect = 0
  /\ faults = 0

-------------------------------------------------------------------------------
(***************************************************************************)
(* The statements one handler queues.  (OneRowTooMany: one put too many.)  *)
(***************************************************************************)
OneRowTooMany(e) == [i \in 1 .. RowsPerEvent + 1 |-> [event |-> e, part |-> i]]

RowsOf(e) == [i \in 1 .. RowsPerEvent |-> [event |-> e, part |-> i]]

(***************************************************************************)
(* A handler (or the snapshot loop) queues the rows of one event, without  *)
(* pause: a put on a queue without limit does not wait.  It runs only      *)
(* while db_flusher sleeps.                                                *)
(***************************************************************************)
Record ==
  /\ pc = "sleeping"
  /\ next <= MaxEvents
  /\ queue' = queue \o RowsOf(next)
  /\ next' = next + 1
  /\ UNCHANGED <<pc, batch, conn, txn, committed, noConnect, faults>>

(***************************************************************************)
(* A round that finds the queue empty goes back to sleep ...               *)
(***************************************************************************)
EmptyRound ==
  /\ pc = "sleeping"
  /\ queue = <<>>
  /\ UNCHANGED vars

(***************************************************************************)
(* ... any other drains all of it, without awaiting.                       *)
(***************************************************************************)
Drain ==
  /\ pc = "sleeping"
  /\ queue # <<>>
  /\ batch' = queue
  /\ queue' = <<>>
  /\ pc' = IF conn = "none" THEN "connecting" ELSE "executing"
  /\ UNCHANGED <<next, conn, txn, committed, noConnect, faults>>

Connect ==
  /\ pc = "connecting"
  /\ conn' = "open"
  /\ pc' = "executing"
  /\ UNCHANGED <<next, queue, batch, txn, committed, noConnect, faults>>

(***************************************************************************)
(* "connect failed; will retry": the round ends and its batch, a local     *)
(* variable, is gone.                                                      *)
(***************************************************************************)
ConnectFails ==
  /\ pc = "connecting"
  /\ faults < MaxFaults
  /\ faults' = faults + 1
  /\ noConnect' = noConnect + Len(batch)
  /\ batch' = <<>>
  /\ pc' = "sleeping"
  /\ UNCHANGED <<next, queue, conn, txn, committed>>

(***************************************************************************)
(* One row of the batch.  (ExecuteAutocommit: on a connection that commits *)
(* every statement.)                                                       *)
(***************************************************************************)
ExecuteAutocommit ==
  /\ pc = "executing"
  /\ conn = "open"
  /\ batch # <<>>
  /\ committed' = Append(committed, Head(batch))
  /\ batch' = Tail(batch)
  /\ UNCHANGED <<next, queue, pc, conn, txn, noConnect, faults>>

Execute ==
  /\ pc = "executing"
  /\ conn = "open"
  /\ batch # <<>>
  /\ txn' = Append(txn, Head(batch))
  /\ batch' = Tail(batch)
  /\ UNCHANGED <<next, queue, pc, conn, committed, noConnect, faults>>

Commit ==
  /\ pc = "executing"
  /\ conn = "open"
  /\ batch = <<>>
  /\ committed' = committed \o txn
  /\ txn' = <<>>
  /\ pc' = "sleeping"
  /\ UNCHANGED <<next, queue, batch, conn, noConnect, faults>>

(***************************************************************************)
(* execute or commit raises: roll back, close, forget the connection.  The *)
(* batch is not kept.  (GiveUpOpen: without the rollback.  CrashOnOutage:  *)
(* an except clause too narrow for a connection broken from outside.)      *)
(***************************************************************************)
GiveUpOpen ==
  /\ batch' = <<>>
  /\ txn' = txn
  /\ conn' = "none"
  /\ pc' = "sleeping"

GiveUp ==
  /\ batch' = <<>>
  /\ txn' = <<>>
  /\ conn' = "none"
  /\ pc' = "sleeping"

CrashOnOutage ==
  /\ pc = "executing"
  /\ conn = "open" /\ faults < MaxFaults /\ faults' = faults + 1
  /\ GiveUp
  /\ UNCHANGED <<next, queue, committed, noConnect>>

FlushFails ==
  /\ pc = "executing"
  /\ \/ conn = "broken" /\ faults' = faults
     \/ conn = "open" /\ faults < MaxFaults /\ faults' = faults + 1
  /\ GiveUp
  /\ UNCHANGED <<next, queue, committed, noConnect>>

(***************************************************************************)
(* The server commits but its answer is lost: commit() raises all the same.*)
(***************************************************************************)
CommitUnacknowledged ==
  /\ pc = "executing"
  /\ conn = "open"
  /\ batch = <<>>
  /\ faults < MaxFaults
  /\ faults' = faults + 1
  /\ committed' = committed \o txn
  /\ GiveUp
  /\ UNCHANGED <<next, queue, noConnect>>

(***************************************************************************)
(* The database server restarts: the connection breaks and the open        *)
(* transaction is rolled back, at any point of a round.                    *)
(***************************************************************************)
ServerRestart ==
  /\ conn = "open"
  /\ faults < MaxFaults
  /\ faults' = faults + 1
  /\ conn' = "broken"
  /\ txn' = <<>>
  /\ UNCHANGED <<next, queue, pc, batch, committed, noConnect>>

(***************************************************************************)
(* fuelsim dies (or is stopped: the tasks are cancelled and nothing        *)
(* flushes the queue) and systemd starts it again.                         *)
(***************************************************************************)
Restart ==
  /\ faults < MaxFaults
  /\ faults' = faults + 1
  /\ queue' = <<>>
  /\ GiveUp
  /\ UNCHANGED <<next, committed, noConnect>>

-------------------------------------------------------------------------------
Flush == EmptyRound \/ Drain \/ Connect \/ Execute \/ Commit \/ FlushFails

Fault == ConnectFails \/ CommitUnacknowledged \/ ServerRestart \/ Restart

Next == Record \/ Flush \/ Fault

Spec == Init /\ [][Next]_vars

(***************************************************************************)
(* db_flusher wakes every second and psycopg2 returns or raises at last:   *)
(* connect_timeout bounds the connect, TCP's own timeouts the rest.        *)
(***************************************************************************)
FairSpec == Spec /\ WF_vars(Flush) /\ WF_vars(Record)

-------------------------------------------------------------------------------
(***************************************************************************)
(* An event's rows reach the database together or not at all, whatever     *)
(* else is in the batch that takes them and however its round fails.       *)
(***************************************************************************)
EventAtomic ==
  \A e \in Events :
    LET parts == {committed[i].part : i \in {j \in DOMAIN committed : committed[j].event = e}}
    IN parts \in {{}, 1 .. RowsPerEvent}

(***************************************************************************)
(* The implementation of the abstract audit trail: what is on its way is   *)
(* what is queued and, unless its connection has broken, what is in the    *)
(* round.  Of every RowsPerEvent rows the first names the event.           *)
(***************************************************************************)
EventsIn(rows) ==
  [i \in 1 .. Len(rows) \div RowsPerEvent |-> rows[(i - 1) * RowsPerEvent + 1].event]

InRound == IF conn = "broken" THEN <<>> ELSE txn \o batch

Trail == INSTANCE AuditLog WITH
  pending <- EventsIn(InRound \o queue),
  stored <- EventsIn(committed)

ImplementsAuditLog == Trail!Spec

(***************************************************************************)
(* A round never hangs on to its batch and the flusher never gets stuck    *)
(* behind a broken connection: once the events are over the queue drains   *)
(* and the flusher goes back to sleep.                                     *)
(***************************************************************************)
EventuallyIdle == <>[](pc = "sleeping" /\ queue = <<>> /\ batch = <<>> /\ txn = <<>>)

-------------------------------------------------------------------------------
(***************************************************************************)
(* "db_flusher: connect failed; will retry" (state_machine.py:151): a      *)
(* failed connect costs no row, the round's batch is retried.              *)
(***************************************************************************)
ConnectFailureLosesNothing == noConnect = 0
===============================================================================
