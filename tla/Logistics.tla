------------------------------ MODULE Logistics -------------------------------
(***************************************************************************)
(* The logistics side of fuelsim: a timeline of sorties replayed by        *)
(* replay.py into state_machine.py's handlers, which keep two dictionaries *)
(* in memory (open_loads, open_deliveries) and the rows of the audit       *)
(* database.  Each sortie emits six events in order; the events of         *)
(* different sorties interleave as their times fall.                       *)
(*                                                                         *)
(* Gallons are left to FuelFarm: here a load_txn or a delivery_txn is one  *)
(* row.  The rows of one handler reach the database together, in the order *)
(* of the handlers, or are lost together (DbFlusher, AuditLog), so a       *)
(* handler either applies its statements or loses them.                    *)
(***************************************************************************)
EXTENDS Naturals, FiniteSets

CONSTANTS
  Sorties,        \* refuelling cycles of the timeline; a sortie is its order
  Trucks,
  TruckOf,        \* the truck of sortie s
  RackOf,         \* the rack of truck k
  None,           \* no open load, no open delivery
  Overlapping,    \* may the timeline let sorties meet at a rack or a truck?
  MaxIterations,  \* bound: passes over the timeline
  MaxRestarts,    \* bound: process deaths
  MaxLosses       \* bound: handlers whose rows never reach the database

ASSUME TimelineAssumption ==
  /\ TruckOf \in [Sorties -> Trucks]
  /\ RackOf \in [Trucks -> 1 .. 2]
  /\ None \notin Sorties
  /\ Overlapping \in BOOLEAN

ASSUME BoundAssumption == {MaxIterations, MaxRestarts, MaxLosses} \subseteq Nat

Racks == 1 .. 2

VARIABLES
  stage,           \* the last event of each sortie that has been applied
  iteration,       \* completed passes since the process started
  openLoads,       \* open_loads: the sortie whose load_start is open at a rack
  openDeliveries,  \* open_deliveries: the sortie whose delivery_start is open
  status,          \* trucks.status
  queueRows,       \* truck_queue: how many rows of truck k are in a state
  orders,          \* fuel_orders.status
  loads,           \* load_txn rows per truck
  deliveries,      \* delivery_txn rows per order
  restarts, losses \* faults so far

memory == <<openLoads, openDeliveries>>
db     == <<status, queueRows, orders, loads, deliveries>>
vars   == <<stage, iteration, memory, db, restarts, losses>>

Stages == {"new", "ordered", "arrived", "loading", "loaded", "delivering", "over"}

QueueStates == {"QUEUED", "LOADING", "ENROUTE", "DISPENSING", "RETURNING"}

TypeOK ==
  /\ stage \in [Sorties -> Stages]
  /\ iteration \in 0 .. MaxIterations
  /\ openLoads \in [Racks -> Sorties \cup {None}]
  /\ openDeliveries \in [Trucks -> Sorties \cup {None}]
  /\ status \in [Trucks -> QueueStates \cup {"AVAILABLE"}]
  /\ queueRows \in [Trucks -> [QueueStates -> Nat]]
  /\ orders \in [Sorties -> {"none", "OPEN", "FILLED"}]
  /\ loads \in [Trucks -> Nat]
  /\ deliveries \in [Sorties -> Nat]
  /\ restarts \in 0 .. MaxRestarts
  /\ losses \in 0 .. MaxLosses

Init ==
  /\ stage = [s \in Sorties |-> "new"]
  /\ iteration = 0
  /\ openLoads = [r \in Racks |-> None]
  /\ openDeliveries = [k \in Trucks |-> None]
  /\ status = [k \in Trucks |-> "AVAILABLE"]
  /\ queueRows = [k \in Trucks |-> [q \in QueueStates |-> 0]]
  /\ orders = [s \in Sorties |-> "none"]
  /\ loads = [k \in Trucks |-> 0]
  /\ deliveries = [s \in Sorties |-> 0]
  /\ restarts = 0
  /\ losses = 0

-------------------------------------------------------------------------------
(***************************************************************************)
(* What the statements do to the tables.                                   *)
(***************************************************************************)

(***************************************************************************)
(* UPDATE trucks SET status=new WHERE truck_id=k                           *)
(***************************************************************************)
SetStatus(k, new) == status' = [status EXCEPT ![k] = new]

(***************************************************************************)
(* UPDATE truck_queue SET state=to WHERE truck_id=k AND state=from: every  *)
(* row of the truck in that state moves, those of earlier sorties too.     *)
(* (MoveOneRow: an UPDATE of the truck's latest row.)                      *)
(***************************************************************************)
MoveOneRow(k, from, to) ==
  queueRows' = [queueRows EXCEPT ![k][to] = @ + 1, ![k][from] = @ - 1]

MoveRows(k, from, to) ==
  queueRows' = [queueRows EXCEPT ![k][to] = @ + queueRows[k][from], ![k][from] = 0]

(***************************************************************************)
(* A handler's rows, or their loss.                                        *)
(***************************************************************************)
Lost ==
  /\ losses < MaxLosses
  /\ losses' = losses + 1
  /\ UNCHANGED db

Kept == losses' = losses

(***************************************************************************)
(* The dispatcher applies the next event of sortie s.                      *)
(***************************************************************************)
Advance(s, from, to) ==
  /\ stage[s] = from
  /\ stage' = [stage EXCEPT ![s] = to]
  /\ UNCHANGED <<iteration, restarts>>

-------------------------------------------------------------------------------
(***************************************************************************)
(* ON CONFLICT DO NOTHING: the order of an earlier pass stays as it is.    *)
(***************************************************************************)
OrderCreated(s) ==
  /\ Advance(s, "new", "ordered")
  /\ UNCHANGED memory
  /\ \/ /\ Kept
        /\ orders' = [orders EXCEPT ![s] = IF @ = "none" THEN "OPEN" ELSE @]
        /\ UNCHANGED <<status, queueRows, loads, deliveries>>
     \/ Lost

(***************************************************************************)
(* A timeline without overlap brings a truck only after its last sortie.   *)
(***************************************************************************)
TruckIsFree(k) ==
  \A s \in Sorties : TruckOf[s] = k => stage[s] \in {"new", "ordered", "over"}

TruckArrival(s) ==
  LET k == TruckOf[s] IN
  /\ Overlapping \/ TruckIsFree(k)
  /\ Advance(s, "ordered", "arrived")
  /\ UNCHANGED memory
  /\ \/ /\ Kept
        /\ SetStatus(k, "QUEUED")
        /\ queueRows' = [queueRows EXCEPT ![k]["QUEUED"] = @ + 1]
        /\ UNCHANGED <<orders, loads, deliveries>>
     \/ Lost

(***************************************************************************)
(* ... and a load only to a free rack.  The handler itself does not look.  *)
(***************************************************************************)
LoadStart(s) ==
  LET k == TruckOf[s] IN
  /\ Overlapping \/ openLoads[RackOf[k]] = None
  /\ Advance(s, "arrived", "loading")
  /\ openLoads' = [openLoads EXCEPT ![RackOf[k]] = s]
  /\ UNCHANGED openDeliveries
  /\ \/ /\ Kept
        /\ SetStatus(k, "LOADING")
        /\ MoveRows(k, "QUEUED", "LOADING")
        /\ UNCHANGED <<orders, loads, deliveries>>
     \/ Lost

(***************************************************************************)
(* The rack is found by truck; a truck without an open load is dropped.    *)
(* (RacksAfterFirst: a search that skips rack 1.)                          *)
(***************************************************************************)
RacksAfterFirst(k) == {r \in Racks \ {1} : openLoads[r] # None /\ TruckOf[openLoads[r]] = k}

RacksOf(k) == {r \in Racks : openLoads[r] # None /\ TruckOf[openLoads[r]] = k}

LoadEnd(s) ==
  LET k == TruckOf[s] IN
  /\ Advance(s, "loading", "loaded")
  /\ UNCHANGED openDeliveries
  /\ \/ /\ RacksOf(k) = {}
        /\ Kept
        /\ UNCHANGED <<openLoads, db>>
     \/ \E r \in RacksOf(k) :
          /\ openLoads' = [openLoads EXCEPT ![r] = None]
          /\ \/ /\ Kept
                /\ loads' = [loads EXCEPT ![k] = @ + 1]
                /\ SetStatus(k, "ENROUTE")
                /\ MoveRows(k, "LOADING", "ENROUTE")
                /\ UNCHANGED <<orders, deliveries>>
             \/ Lost

DeliveryStart(s) ==
  LET k == TruckOf[s] IN
  /\ Advance(s, "loaded", "delivering")
  /\ openDeliveries' = [openDeliveries EXCEPT ![k] = s]
  /\ UNCHANGED openLoads
  /\ \/ /\ Kept
        /\ SetStatus(k, "DISPENSING")
        /\ MoveRows(k, "ENROUTE", "DISPENSING")
        /\ UNCHANGED <<orders, loads, deliveries>>
     \/ Lost

(***************************************************************************)
(* open_deliveries.pop(truck_id).  (PeekDelivery: a get instead.)          *)
(***************************************************************************)
PeekDelivery(k) == UNCHANGED openDeliveries

PopDelivery(k) == openDeliveries' = [openDeliveries EXCEPT ![k] = None]

(***************************************************************************)
(* The order a delivery_end of sortie s marks FILLED is the one its truck  *)
(* has open, whichever sortie opened it.  (OwnOrder: the sortie's own.)    *)
(***************************************************************************)
OwnOrder(s) == s

FilledOrder(s) == openDeliveries[TruckOf[s]]

(***************************************************************************)
(* RETURNING and AVAILABLE are set in the same transaction.                *)
(***************************************************************************)
DeliveryEnd(s) ==
  LET k == TruckOf[s]
      o == openDeliveries[k]
  IN
  /\ Advance(s, "delivering", "over")
  /\ PopDelivery(k)
  /\ UNCHANGED openLoads
  /\ \/ /\ o = None
        /\ Kept
        /\ UNCHANGED db
     \/ /\ o # None
        /\ \/ /\ Kept
              /\ deliveries' = [deliveries EXCEPT ![o] = @ + 1]
              /\ orders' = [orders EXCEPT ![FilledOrder(s)] = IF @ = "none" THEN @ ELSE "FILLED"]
              /\ SetStatus(k, "AVAILABLE")
              /\ MoveRows(k, "DISPENSING", "RETURNING")
              /\ UNCHANGED loads
           \/ Lost

-------------------------------------------------------------------------------
TimelineOver == \A s \in Sorties : stage[s] = "over"

(***************************************************************************)
(* replay.run wraps and sends the same events, order ids included.         *)
(***************************************************************************)
Rewind ==
  /\ TimelineOver
  /\ iteration < MaxIterations
  /\ iteration' = iteration + 1
  /\ stage' = [s \in Sorties |-> "new"]
  /\ UNCHANGED <<memory, db, restarts, losses>>

(***************************************************************************)
(* fuelsim dies and systemd starts it again: memory is empty, the timeline *)
(* begins anew, the database is as it was.  (RestartResumes: the timeline  *)
(* goes on where it was.)                                                  *)
(***************************************************************************)
RestartResumes ==
  /\ restarts < MaxRestarts
  /\ restarts' = restarts + 1
  /\ UNCHANGED <<stage, iteration>>
  /\ openLoads' = [r \in Racks |-> None]
  /\ openDeliveries' = [k \in Trucks |-> None]
  /\ UNCHANGED <<db, losses>>

Restart ==
  /\ restarts < MaxRestarts
  /\ restarts' = restarts + 1
  /\ stage' = [s \in Sorties |-> "new"]
  /\ iteration' = 0
  /\ openLoads' = [r \in Racks |-> None]
  /\ openDeliveries' = [k \in Trucks |-> None]
  /\ UNCHANGED <<db, losses>>

(***************************************************************************)
(* replay with loop: false returns after the last event.                   *)
(***************************************************************************)
SinglePassOver ==
  /\ TimelineOver
  /\ iteration = MaxIterations
  /\ UNCHANGED vars

Dispatch(s) ==
  \/ OrderCreated(s) \/ TruckArrival(s) \/ LoadStart(s)
  \/ LoadEnd(s) \/ DeliveryStart(s) \/ DeliveryEnd(s)

Next ==
  \/ \E s \in Sorties : Dispatch(s)
  \/ Rewind \/ Restart \/ SinglePassOver

Spec == Init /\ [][Next]_vars

(***************************************************************************)
(* Every event falls due and the dispatcher takes events as they come.     *)
(***************************************************************************)
FairSpec == Spec /\ \A s \in Sorties : WF_vars(Dispatch(s))

-------------------------------------------------------------------------------
(***************************************************************************)
(* An order is FILLED only if the delivery that filled it is on record,    *)
(* whatever overlaps, restarts and lost rows did to the trucks.            *)
(***************************************************************************)
FilledIsDelivered == \A s \in Sorties : orders[s] = "FILLED" => deliveries[s] > 0

(***************************************************************************)
(* No order is delivered twice in one pass of the timeline, even when a    *)
(* delivery_end closes another sortie's delivery.                          *)
(***************************************************************************)
Passes == (restarts * (MaxIterations + 1)) + iteration + 1

DeliveredOncePerPass == \A s \in Sorties : deliveries[s] <= Passes

(***************************************************************************)
(* "Truck returns to queue / marked AVAILABLE" (build sheet, cycle step    *)
(* 6): when the timeline is over every truck is AVAILABLE and nothing is   *)
(* open in memory, although loads and deliveries overwrote each other and  *)
(* the process died on the way.  (A truck whose last rows were lost keeps  *)
(* the state it had; nothing is left open for it.)                         *)
(***************************************************************************)
FleetReturns ==
  TimelineOver =>
    /\ \A k \in Trucks : openDeliveries[k] = None /\ (losses = 0 => status[k] = "AVAILABLE")
    /\ \A r \in Racks : openLoads[r] = None

(***************************************************************************)
(* The state machine "drives trucks through QUEUED -> LOADING -> ENROUTE   *)
(* -> DISPENSING -> RETURNING" (build sheet, section 8): when the timeline *)
(* is over every truck_queue row has come all the way, those a restart     *)
(* left behind included.                                                   *)
(***************************************************************************)
QueueRowsFinish ==
  TimelineOver => \A k \in Trucks, q \in QueueStates \ {"RETURNING"} : queueRows[k][q] = 0

(***************************************************************************)
(* Reconciliation (build sheet, section 7), in rows: a truck never has     *)
(* more deliveries than loads on record.                                   *)
(***************************************************************************)
DeliveryRows(k) ==
  UNION {{<<s, i>> : i \in 1 .. deliveries[s]} : s \in {o \in Sorties : TruckOf[o] = k}}

NoDeliveryWithoutLoad == \A k \in Trucks : Cardinality(DeliveryRows(k)) <= loads[k]

(***************************************************************************)
(* An order once on record is filled at last.                              *)
(***************************************************************************)
OrdersGetFilled == \A s \in Sorties : orders[s] = "OPEN" ~> orders[s] = "FILLED"
===============================================================================
