---------------------------- MODULE LogisticsProofs ----------------------------
(***************************************************************************)
(* Proofs about Logistics, for every timeline, fleet and number of passes, *)
(* process deaths and lost rows.                                           *)
(***************************************************************************)
EXTENDS Logistics, FiniteSetTheorems, TLAPS

-------------------------------------------------------------------------------
(***************************************************************************)
(* Type correctness.                                                       *)
(***************************************************************************)

(***************************************************************************)
(* An UPDATE of truck_queue leaves counts of rows.                         *)
(***************************************************************************)
LEMMA MoveRowsType ==
  ASSUME queueRows \in [Trucks -> [QueueStates -> Nat]],
         NEW k \in Trucks, NEW from \in QueueStates, NEW to \in QueueStates,
         MoveRows(k, from, to)
  PROVE  queueRows' \in [Trucks -> [QueueStates -> Nat]]
  BY DEF MoveRows


(***************************************************************************)
(* The types in three parts: what the dispatcher, the dictionaries and the *)
(* database keep.                                                          *)
(***************************************************************************)
ReplayType ==
  stage \in [Sorties -> Stages] /\ iteration \in 0 .. MaxIterations /\ restarts \in 0 .. MaxRestarts

MemoryType ==
  /\ openLoads \in [Racks -> Sorties \cup {None}]
  /\ openDeliveries \in [Trucks -> Sorties \cup {None}]

TablesType ==
  /\ status \in [Trucks -> QueueStates \cup {"AVAILABLE"}]
  /\ queueRows \in [Trucks -> [QueueStates -> Nat]]
  /\ orders \in [Sorties -> {"none", "OPEN", "FILLED"}]
  /\ loads \in [Trucks -> Nat]
  /\ deliveries \in [Sorties -> Nat]
  /\ losses \in 0 .. MaxLosses

LEMMA TypeParts == TypeOK <=> ReplayType /\ MemoryType /\ TablesType
  BY DEF TypeOK, ReplayType, MemoryType, TablesType

LEMMA AdvanceType ==
  ASSUME ReplayType, NEW s \in Sorties, NEW from \in Stages, NEW to \in Stages, Advance(s, from, to)
  PROVE  ReplayType'
  BY DEF ReplayType, Advance

LEMMA LostType ==
  ASSUME TablesType, Lost PROVE TablesType'
  BY BoundAssumption DEF TablesType, Lost, db

(***************************************************************************)
(* The dispatcher, the dictionaries and the tables keep their types: every *)
(* UPDATE of truck_queue leaves counts of rows, and what is open at a rack *)
(* or a truck is a sortie.                                                 *)
(***************************************************************************)
THEOREM TypeCorrect ==
  Spec => []TypeOK
<1>1. Init => TypeOK
  BY TimelineAssumption, BoundAssumption DEF Init, TypeOK, Stages, QueueStates
<1>2. TypeOK /\ [Next]_vars => TypeOK'
  <2> SUFFICES ASSUME TypeOK, [Next]_vars PROVE TypeOK'
    OBVIOUS
  <2> USE TimelineAssumption, BoundAssumption
  <2>0. ReplayType /\ MemoryType /\ TablesType
    BY TypeParts
  <2>5. ReplayType' /\ MemoryType' /\ TablesType' => TypeOK'
    BY DEF TypeOK, ReplayType, MemoryType, TablesType
  <2>1. ASSUME NEW s \in Sorties, Dispatch(s) PROVE TypeOK'
    <3> DEFINE k == TruckOf[s]
    <3>0. k \in Trucks /\ RackOf[k] \in Racks
      BY DEF Racks
    <3> HIDE DEF k
    <3>1. CASE OrderCreated(s)
      <4>1. ReplayType'
        BY <2>0, <3>1, AdvanceType DEF OrderCreated, Stages
      <4>2. MemoryType'
        BY <2>0, <3>1 DEF OrderCreated, MemoryType, memory
      <4>3. TablesType'
        BY <2>0, <3>1, LostType DEF OrderCreated, TablesType, Kept
      <4> QED
        BY <4>1, <4>2, <4>3, <2>5
    <3>2. CASE TruckArrival(s)
      <4>1. ReplayType'
        BY <2>0, <3>2, AdvanceType DEF TruckArrival, Stages
      <4>2. MemoryType'
        BY <2>0, <3>2 DEF TruckArrival, MemoryType, memory
      <4>3. CASE Lost
        BY <2>0, <4>1, <4>2, <4>3, LostType, <2>5
      <4>4. CASE ~Lost
        <5>1. status' \in [Trucks -> QueueStates \cup {"AVAILABLE"}]
          BY <2>0, <3>0, <3>2, <4>4 DEF TruckArrival, SetStatus, TablesType, QueueStates, k
        <5>2. queueRows' \in [Trucks -> [QueueStates -> Nat]]
          BY <2>0, <3>0, <3>2, <4>4 DEF TruckArrival, TablesType, QueueStates, k
        <5>3. TablesType'
          BY <2>0, <3>2, <4>4, <5>1, <5>2 DEF TruckArrival, TablesType, Kept
        <5> QED
          BY <4>1, <4>2, <5>3, <2>5
      <4> QED
        BY <4>3, <4>4
    <3>3. CASE LoadStart(s)
      <4>1. ReplayType'
        BY <2>0, <3>3, AdvanceType DEF LoadStart, Stages
      <4>2. MemoryType'
        BY <2>0, <3>0, <3>3 DEF LoadStart, MemoryType, k
      <4>3. CASE Lost
        BY <2>0, <4>1, <4>2, <4>3, LostType, <2>5
      <4>4. CASE ~Lost
        <5>1. status' \in [Trucks -> QueueStates \cup {"AVAILABLE"}]
          BY <2>0, <3>0, <3>3, <4>4 DEF LoadStart, SetStatus, TablesType, QueueStates, k
        <5>2. queueRows' \in [Trucks -> [QueueStates -> Nat]]
          BY <2>0, <3>0, <3>3, <4>4, MoveRowsType DEF LoadStart, TablesType, QueueStates, k
        <5>3. TablesType'
          BY <2>0, <3>3, <4>4, <5>1, <5>2 DEF LoadStart, TablesType, Kept
        <5> QED
          BY <4>1, <4>2, <5>3, <2>5
      <4> QED
        BY <4>3, <4>4
    <3>4. CASE LoadEnd(s)
      <4>1. ReplayType'
        BY <2>0, <3>4, AdvanceType DEF LoadEnd, Stages
      <4>2. MemoryType'
        BY <2>0, <3>4 DEF LoadEnd, MemoryType, RacksOf
      <4>3. CASE Lost
        BY <2>0, <4>1, <4>2, <4>3, LostType, <2>5
      <4>4. CASE UNCHANGED <<db, losses>>
        BY <2>0, <4>1, <4>2, <4>4, <2>5 DEF TablesType, db
      <4>5. CASE /\ Kept
                 /\ loads' = [loads EXCEPT ![k] = @ + 1]
                 /\ SetStatus(k, "ENROUTE")
                 /\ MoveRows(k, "LOADING", "ENROUTE")
                 /\ UNCHANGED <<orders, deliveries>>
        <5>1. status' \in [Trucks -> QueueStates \cup {"AVAILABLE"}]
          BY <2>0, <3>0, <4>5 DEF SetStatus, TablesType, QueueStates
        <5>2. queueRows' \in [Trucks -> [QueueStates -> Nat]]
          BY <2>0, <3>0, <4>5, MoveRowsType DEF TablesType, QueueStates
        <5>3. loads' \in [Trucks -> Nat]
          BY <2>0, <3>0, <4>5 DEF TablesType
        <5>4. TablesType'
          BY <2>0, <4>5, <5>1, <5>2, <5>3 DEF TablesType, Kept
        <5> QED
          BY <4>1, <4>2, <5>4, <2>5
      <4> QED
        BY <3>4, <4>3, <4>4, <4>5 DEF LoadEnd, Kept, k
    <3>5. CASE DeliveryStart(s)
      <4>1. ReplayType'
        BY <2>0, <3>5, AdvanceType DEF DeliveryStart, Stages
      <4>2. MemoryType'
        BY <2>0, <3>0, <3>5 DEF DeliveryStart, MemoryType, k
      <4>3. CASE Lost
        BY <2>0, <4>1, <4>2, <4>3, LostType, <2>5
      <4>4. CASE ~Lost
        <5>1. status' \in [Trucks -> QueueStates \cup {"AVAILABLE"}]
          BY <2>0, <3>0, <3>5, <4>4 DEF DeliveryStart, SetStatus, TablesType, QueueStates, k
        <5>2. queueRows' \in [Trucks -> [QueueStates -> Nat]]
          BY <2>0, <3>0, <3>5, <4>4, MoveRowsType DEF DeliveryStart, TablesType, QueueStates, k
        <5>3. TablesType'
          BY <2>0, <3>5, <4>4, <5>1, <5>2 DEF DeliveryStart, TablesType, Kept
        <5> QED
          BY <4>1, <4>2, <5>3, <2>5
      <4> QED
        BY <4>3, <4>4
    <3>6. CASE DeliveryEnd(s)
      <4>1. ReplayType'
        BY <2>0, <3>6, AdvanceType DEF DeliveryEnd, Stages
      <4>2. MemoryType'
        BY <2>0, <3>6 DEF DeliveryEnd, MemoryType, PopDelivery
      <4>3. CASE Lost
        BY <2>0, <4>1, <4>2, <4>3, LostType, <2>5
      <4>4. CASE UNCHANGED <<db, losses>>
        BY <2>0, <4>1, <4>2, <4>4, <2>5 DEF TablesType, db
      <4>5. CASE ~Lost /\ ~UNCHANGED <<db, losses>>
        <5> DEFINE o == openDeliveries[k]
        <5>0. /\ o \in Sorties /\ Kept
              /\ deliveries' = [deliveries EXCEPT ![o] = @ + 1]
              /\ orders' = [orders EXCEPT ![o] = IF @ = "none" THEN @ ELSE "FILLED"]
              /\ SetStatus(k, "AVAILABLE")
              /\ MoveRows(k, "DISPENSING", "RETURNING")
              /\ UNCHANGED loads
          BY <2>0, <3>0, <3>6, <4>5 DEF DeliveryEnd, FilledOrder, MemoryType, Kept, k
        <5> HIDE DEF o
        <5>1. status' \in [Trucks -> QueueStates \cup {"AVAILABLE"}]
          BY <2>0, <3>0, <5>0 DEF SetStatus, TablesType
        <5>2. queueRows' \in [Trucks -> [QueueStates -> Nat]]
          BY <2>0, <3>0, <5>0, MoveRowsType DEF TablesType, QueueStates
        <5>3. orders' \in [Sorties -> {"none", "OPEN", "FILLED"}]
          BY <2>0, <5>0 DEF TablesType
        <5>4. TablesType'
          BY <2>0, <5>0, <5>1, <5>2, <5>3 DEF TablesType, Kept
        <5> QED
          BY <4>1, <4>2, <5>4, <2>5
      <4> QED
        BY <4>3, <4>4, <4>5
    <3> QED
      BY <2>1, <3>1, <3>2, <3>3, <3>4, <3>5, <3>6 DEF Dispatch
  <2>2. CASE Rewind
    BY <2>2 DEF TypeOK, Rewind, memory, db, Stages
  <2>3. CASE Restart
    BY <2>3 DEF TypeOK, Restart, memory, db, Stages
  <2>4. CASE SinglePassOver \/ UNCHANGED vars
    BY <2>4 DEF TypeOK, SinglePassOver, vars, memory, db
  <2> QED
    BY <2>1, <2>2, <2>3, <2>4 DEF Next
<1> QED
  BY <1>1, <1>2, PTL DEF Spec

-------------------------------------------------------------------------------
(***************************************************************************)
(* What is open in memory will be closed, and a truck that is not back has *)
(* something still to come.                                                *)
(***************************************************************************)
LoadsAwaitTheirEnd ==
  \A r \in Racks : openLoads[r] # None =>
    /\ RackOf[TruckOf[openLoads[r]]] = r
    /\ \E s \in Sorties : TruckOf[s] = TruckOf[openLoads[r]] /\ stage[s] = "loading"

DeliveriesAwaitTheirEnd ==
  \A k \in Trucks : openDeliveries[k] # None =>
    /\ TruckOf[openDeliveries[k]] = k
    /\ stage[openDeliveries[k]] \in {"delivering", "over"}
    /\ \E s \in Sorties : TruckOf[s] = k /\ stage[s] = "delivering"

TrucksComeBack ==
  losses = 0 => \A k \in Trucks : status[k] # "AVAILABLE" =>
    \/ openDeliveries[k] # None
    \/ \E s \in Sorties : TruckOf[s] = k /\ stage[s] \notin {"delivering", "over"}

(***************************************************************************)
(* This pass has delivered an order only if its delivery was open and is   *)
(* not any more.                                                           *)
(***************************************************************************)
DeliveredThisPass ==
  \A s \in Sorties :
    \/ deliveries[s] < Passes
    \/ /\ deliveries[s] = Passes
       /\ stage[s] \in {"delivering", "over"}
       /\ \A k \in Trucks : openDeliveries[k] # s

LEMMA LoadsEnd ==
  Spec => []LoadsAwaitTheirEnd
<1>1. Init => LoadsAwaitTheirEnd
  BY DEF Init, LoadsAwaitTheirEnd
<1>2. TypeOK /\ LoadsAwaitTheirEnd /\ [Next]_vars => LoadsAwaitTheirEnd'
  <2> SUFFICES ASSUME TypeOK, LoadsAwaitTheirEnd, [Next]_vars, NEW r \in Racks, openLoads'[r] # None
               PROVE  /\ RackOf[TruckOf[openLoads'[r]]] = r
                      /\ \E s \in Sorties : TruckOf[s] = TruckOf[openLoads'[r]] /\ stage'[s] = "loading"
    BY DEF LoadsAwaitTheirEnd
  <2> USE TimelineAssumption
  <2>1. stage \in [Sorties -> Stages] /\ openLoads \in [Racks -> Sorties \cup {None}]
    BY DEF TypeOK
  <2>2. openLoads[r] # None =>
          /\ RackOf[TruckOf[openLoads[r]]] = r
          /\ \E s \in Sorties : TruckOf[s] = TruckOf[openLoads[r]] /\ stage[s] = "loading"
    BY DEF LoadsAwaitTheirEnd
  <2>3. ASSUME NEW s \in Sorties, LoadStart(s)
        PROVE  /\ RackOf[TruckOf[openLoads'[r]]] = r
               /\ \E q \in Sorties : TruckOf[q] = TruckOf[openLoads'[r]] /\ stage'[q] = "loading"
    <3>1. stage' = [stage EXCEPT ![s] = "loading"] /\ stage[s] = "arrived"
      BY <2>3 DEF LoadStart, Advance
    <3>2. openLoads' = [openLoads EXCEPT ![RackOf[TruckOf[s]]] = s]
      BY <2>3 DEF LoadStart
    <3>3. CASE r = RackOf[TruckOf[s]]
      BY <2>1, <3>1, <3>2, <3>3
    <3>4. CASE r # RackOf[TruckOf[s]]
      BY <2>1, <2>2, <3>1, <3>2, <3>4
    <3> QED
      BY <3>3, <3>4
  <2>4. ASSUME NEW s \in Sorties, LoadEnd(s)
        PROVE  /\ RackOf[TruckOf[openLoads'[r]]] = r
               /\ \E q \in Sorties : TruckOf[q] = TruckOf[openLoads'[r]] /\ stage'[q] = "loading"
    <3>1. stage' = [stage EXCEPT ![s] = "loaded"] /\ stage[s] = "loading"
      BY <2>4 DEF LoadEnd, Advance
    <3>2. openLoads'[r] = openLoads[r]
      BY <2>1, <2>4 DEF LoadEnd, RacksOf
    <3>3. TruckOf[openLoads[r]] # TruckOf[s]
      <4> SUFFICES ASSUME TruckOf[openLoads[r]] = TruckOf[s] PROVE FALSE
        OBVIOUS
      <4>1. r \in RacksOf(TruckOf[s])
        BY <3>2 DEF RacksOf
      <4>2. \A q \in RacksOf(TruckOf[s]) : q = r
        BY <2>2, <3>2 DEF RacksOf, LoadsAwaitTheirEnd
      <4>3. openLoads' = [openLoads EXCEPT ![r] = None]
        BY <2>4, <4>1, <4>2 DEF LoadEnd
      <4> QED
        BY <2>1, <4>3
    <3> QED
      BY <2>1, <2>2, <3>1, <3>2, <3>3
  <2>5. ASSUME NEW s \in Sorties, Dispatch(s), ~LoadStart(s), ~LoadEnd(s)
        PROVE  /\ RackOf[TruckOf[openLoads'[r]]] = r
               /\ \E q \in Sorties : TruckOf[q] = TruckOf[openLoads'[r]] /\ stage'[q] = "loading"
    <3>1. openLoads' = openLoads
      BY <2>5 DEF Dispatch, OrderCreated, TruckArrival, DeliveryStart, DeliveryEnd, memory
    <3>2. \E to \in Stages : stage' = [stage EXCEPT ![s] = to] /\ stage[s] # "loading"
      BY <2>5 DEF Dispatch, OrderCreated, TruckArrival, DeliveryStart, DeliveryEnd, Advance, Stages
    <3> QED
      BY <2>1, <2>2, <3>1, <3>2
  <2>6. ~Restart
    BY DEF Restart
  <2>7. ~Rewind
    BY <2>2 DEF Rewind, memory, TimelineOver
  <2>8. CASE SinglePassOver \/ UNCHANGED vars
    BY <2>2, <2>8 DEF SinglePassOver, vars, memory
  <2> QED
    BY <2>3, <2>4, <2>5, <2>6, <2>7, <2>8 DEF Next
<1> QED
  BY <1>1, <1>2, TypeCorrect, PTL DEF Spec

LEMMA DeliveriesEnd ==
  Spec => []DeliveriesAwaitTheirEnd
<1>1. Init => DeliveriesAwaitTheirEnd
  BY DEF Init, DeliveriesAwaitTheirEnd
<1>2. TypeOK /\ DeliveriesAwaitTheirEnd /\ [Next]_vars => DeliveriesAwaitTheirEnd'
  <2> DEFINE Awaits(k) ==
        /\ TruckOf[openDeliveries[k]] = k
        /\ stage[openDeliveries[k]] \in {"delivering", "over"}
        /\ \E s \in Sorties : TruckOf[s] = k /\ stage[s] = "delivering"
  <2> SUFFICES ASSUME TypeOK, DeliveriesAwaitTheirEnd, [Next]_vars, NEW k \in Trucks, openDeliveries'[k] # None
               PROVE  Awaits(k)'
    BY DEF DeliveriesAwaitTheirEnd
  <2> USE TimelineAssumption
  <2>1. stage \in [Sorties -> Stages] /\ openDeliveries \in [Trucks -> Sorties \cup {None}]
    BY DEF TypeOK
  <2>2. openDeliveries[k] # None => openDeliveries[k] \in Sorties /\ Awaits(k)
    BY <2>1 DEF DeliveriesAwaitTheirEnd
  <2>3. ASSUME NEW s \in Sorties, DeliveryStart(s)
        PROVE  Awaits(k)'
    <3>1. stage' = [stage EXCEPT ![s] = "delivering"]
      BY <2>3 DEF DeliveryStart, Advance
    <3>2. openDeliveries' = [openDeliveries EXCEPT ![TruckOf[s]] = s]
      BY <2>3 DEF DeliveryStart
    <3>3. CASE k = TruckOf[s]
      BY <2>1, <3>1, <3>2, <3>3
    <3>4. CASE k # TruckOf[s]
      BY <2>1, <2>2, <3>1, <3>2, <3>4
    <3> QED
      BY <3>3, <3>4
  <2>4. ASSUME NEW s \in Sorties, DeliveryEnd(s)
        PROVE  Awaits(k)'
    <3>1. stage' = [stage EXCEPT ![s] = "over"] /\ stage[s] = "delivering"
      BY <2>4 DEF DeliveryEnd, Advance
    <3>2. openDeliveries' = [openDeliveries EXCEPT ![TruckOf[s]] = None]
      BY <2>4 DEF DeliveryEnd, PopDelivery
    <3>3. k # TruckOf[s]
      BY <2>1, <3>2
    <3> QED
      BY <2>1, <2>2, <3>1, <3>2, <3>3
  <2>5. ASSUME NEW s \in Sorties, Dispatch(s), ~DeliveryStart(s), ~DeliveryEnd(s)
        PROVE  Awaits(k)'
    <3>1. openDeliveries' = openDeliveries
      BY <2>5 DEF Dispatch, OrderCreated, TruckArrival, LoadStart, LoadEnd, memory
    <3>2. \E to \in Stages : /\ stage' = [stage EXCEPT ![s] = to]
                             /\ stage[s] \notin {"delivering", "over"}
      BY <2>5 DEF Dispatch, OrderCreated, TruckArrival, LoadStart, LoadEnd, Advance, Stages
    <3> QED
      BY <2>1, <2>2, <3>1, <3>2
  <2>6. ~Restart
    BY DEF Restart
  <2>7. ~Rewind
    BY <2>2 DEF Rewind, memory, TimelineOver
  <2>8. CASE SinglePassOver \/ UNCHANGED vars
    BY <2>2, <2>8 DEF SinglePassOver, vars, memory
  <2> QED
    BY <2>3, <2>4, <2>5, <2>6, <2>7, <2>8 DEF Next
<1> QED
  BY <1>1, <1>2, TypeCorrect, PTL DEF Spec

LEMMA TrucksReturn ==
  Spec => []TrucksComeBack
<1>1. Init => TrucksComeBack
  BY DEF Init, TrucksComeBack
<1>2. TypeOK /\ DeliveriesAwaitTheirEnd /\ TrucksComeBack /\ [Next]_vars => TrucksComeBack'
  <2> DEFINE Early(k) == \E s \in Sorties : TruckOf[s] = k /\ stage[s] \notin {"delivering", "over"}
             Back(k) == status[k] = "AVAILABLE" \/ openDeliveries[k] # None \/ Early(k)
  <2> SUFFICES ASSUME TypeOK, DeliveriesAwaitTheirEnd, TrucksComeBack, [Next]_vars,
                      losses' = 0, NEW k \in Trucks
               PROVE  Back(k)'
    BY DEF TrucksComeBack
  <2> USE TimelineAssumption
  <2>1. /\ stage \in [Sorties -> Stages]
        /\ openDeliveries \in [Trucks -> Sorties \cup {None}]
        /\ status \in [Trucks -> QueueStates \cup {"AVAILABLE"}]
        /\ losses \in Nat
    BY BoundAssumption DEF TypeOK
  <2>2. ~Lost
    BY <2>1 DEF Lost
  <2>3. losses = 0 => Back(k)
    BY DEF TrucksComeBack
  <2>4. ASSUME NEW s \in Sorties, OrderCreated(s) \/ TruckArrival(s) \/ LoadStart(s) \/ LoadEnd(s)
        PROVE  Back(k)'
    <3>1. \E to \in Stages \ {"delivering", "over"} : stage' = [stage EXCEPT ![s] = to]
      BY <2>4 DEF OrderCreated, TruckArrival, LoadStart, LoadEnd, Advance, Stages
    <3>2. openDeliveries' = openDeliveries /\ losses' = losses
      BY <2>2, <2>4 DEF OrderCreated, TruckArrival, LoadStart, LoadEnd, memory, Kept
    <3>3. TruckOf[s] # k => status'[k] = status[k]
      BY <2>1, <2>2, <2>4 DEF OrderCreated, TruckArrival, LoadStart, LoadEnd, SetStatus, db
    <3>4. CASE TruckOf[s] = k
      BY <2>1, <3>1, <3>4
    <3>5. CASE TruckOf[s] # k
      BY <2>1, <2>3, <3>1, <3>2, <3>3, <3>5
    <3> QED
      BY <3>4, <3>5
  <2>5. ASSUME NEW s \in Sorties, DeliveryStart(s)
        PROVE  Back(k)'
    <3>1. stage' = [stage EXCEPT ![s] = "delivering"]
      BY <2>5 DEF DeliveryStart, Advance
    <3>2. openDeliveries' = [openDeliveries EXCEPT ![TruckOf[s]] = s] /\ losses' = losses
      BY <2>2, <2>5 DEF DeliveryStart, Kept
    <3>3. TruckOf[s] # k => status'[k] = status[k]
      BY <2>1, <2>2, <2>5 DEF DeliveryStart, SetStatus
    <3>4. CASE TruckOf[s] = k
      BY <2>1, <3>2, <3>4
    <3>5. CASE TruckOf[s] # k
      BY <2>1, <2>3, <3>1, <3>2, <3>3, <3>5
    <3> QED
      BY <3>4, <3>5
  <2>6. ASSUME NEW s \in Sorties, DeliveryEnd(s)
        PROVE  Back(k)'
    <3>1. stage' = [stage EXCEPT ![s] = "over"] /\ stage[s] = "delivering"
      BY <2>6 DEF DeliveryEnd, Advance
    <3>2. openDeliveries' = [openDeliveries EXCEPT ![TruckOf[s]] = None] /\ losses' = losses
      BY <2>2, <2>6 DEF DeliveryEnd, PopDelivery, Kept
    <3>3. IF TruckOf[s] = k /\ openDeliveries[k] # None
            THEN status'[k] = "AVAILABLE" ELSE status'[k] = status[k]
      BY <2>1, <2>2, <2>6 DEF DeliveryEnd, SetStatus, db
    <3>4. CASE TruckOf[s] = k
      BY <2>1, <2>3, <3>1, <3>2, <3>3, <3>4
    <3>5. CASE TruckOf[s] # k
      BY <2>1, <2>3, <3>1, <3>2, <3>3, <3>5
    <3> QED
      BY <3>4, <3>5
  <2>7. CASE Rewind \/ Restart
    <3>1. stage' = [s \in Sorties |-> "new"] /\ losses' = losses /\ status' = status
      BY <2>7 DEF Rewind, Restart, db
    <3>2. CASE \E s \in Sorties : TruckOf[s] = k
      BY <3>1, <3>2
    <3>3. CASE ~ \E s \in Sorties : TruckOf[s] = k
      BY <2>3, <3>1, <3>3 DEF DeliveriesAwaitTheirEnd
    <3> QED
      BY <3>2, <3>3
  <2>8. CASE SinglePassOver \/ UNCHANGED vars
    BY <2>3, <2>8 DEF SinglePassOver, vars, memory, db
  <2> QED
    BY <2>4, <2>5, <2>6, <2>7, <2>8 DEF Next, Dispatch
<1> QED
  BY <1>1, <1>2, TypeCorrect, DeliveriesEnd, PTL DEF Spec

(***************************************************************************)
(* Whatever overlapped, was lost or died: when the timeline is over no     *)
(* load and no delivery is open in memory, and if no rows were lost every  *)
(* truck is back.                                                          *)
(***************************************************************************)
THEOREM FleetCorrect ==
  Spec => []FleetReturns
<1>1. TypeOK /\ LoadsAwaitTheirEnd /\ DeliveriesAwaitTheirEnd /\ TrucksComeBack => FleetReturns
  <2> SUFFICES ASSUME LoadsAwaitTheirEnd, DeliveriesAwaitTheirEnd, TrucksComeBack,
                      \A s \in Sorties : stage[s] = "over"
               PROVE  /\ \A k \in Trucks : openDeliveries[k] = None /\ (losses = 0 => status[k] = "AVAILABLE")
                      /\ \A r \in Racks : openLoads[r] = None
    BY DEF FleetReturns, TimelineOver
  <2>1. \A k \in Trucks : openDeliveries[k] = None
    BY DEF DeliveriesAwaitTheirEnd
  <2>2. \A r \in Racks : openLoads[r] = None
    BY DEF LoadsAwaitTheirEnd
  <2> QED
    BY <2>1, <2>2 DEF TrucksComeBack
<1> QED
  BY <1>1, TypeCorrect, LoadsEnd, DeliveriesEnd, TrucksReturn, PTL

-------------------------------------------------------------------------------
(***************************************************************************)
(* Orders and their deliveries.                                            *)
(***************************************************************************)

(***************************************************************************)
(* What a step does to the deliveries on record: nothing, or a delivery_end *)
(* records the one it closes.                                              *)
(***************************************************************************)
LEMMA DeliveryRecorded ==
  ASSUME TypeOK, [Next]_vars
  PROVE  \/ /\ deliveries' = deliveries
            /\ \A s \in Sorties : orders'[s] = "FILLED" => orders[s] = "FILLED"
         \/ \E s \in Sorties : LET o == openDeliveries[TruckOf[s]] IN
              /\ DeliveryEnd(s) /\ o \in Sorties
              /\ deliveries' = [deliveries EXCEPT ![o] = @ + 1]
              /\ orders' = [orders EXCEPT ![o] = IF @ = "none" THEN @ ELSE "FILLED"]
<1>1. /\ openDeliveries \in [Trucks -> Sorties \cup {None}]
      /\ orders \in [Sorties -> {"none", "OPEN", "FILLED"}]
  BY DEF TypeOK
<1>2. ASSUME NEW s \in Sorties, DeliveryEnd(s)
      PROVE  LET o == openDeliveries[TruckOf[s]] IN
             \/ deliveries' = deliveries /\ orders' = orders
             \/ /\ o \in Sorties
                /\ deliveries' = [deliveries EXCEPT ![o] = @ + 1]
                /\ orders' = [orders EXCEPT ![o] = IF @ = "none" THEN @ ELSE "FILLED"]
  BY <1>1, <1>2, TimelineAssumption DEF DeliveryEnd, FilledOrder, Lost, db
<1>3. ASSUME NEW s \in Sorties, OrderCreated(s)
      PROVE  /\ deliveries' = deliveries
             /\ \A q \in Sorties : orders'[q] = "FILLED" => orders[q] = "FILLED"
  BY <1>1, <1>3 DEF OrderCreated, Lost, db
<1>4. ASSUME NEW s \in Sorties, TruckArrival(s) \/ LoadStart(s) \/ LoadEnd(s) \/ DeliveryStart(s)
      PROVE  deliveries' = deliveries /\ orders' = orders
  BY <1>4 DEF TruckArrival, LoadStart, LoadEnd, DeliveryStart, Lost, db
<1>5. CASE Rewind \/ Restart \/ SinglePassOver \/ UNCHANGED vars
  BY <1>5 DEF Rewind, Restart, SinglePassOver, vars, db
<1> QED
  BY <1>2, <1>3, <1>4, <1>5 DEF Next, Dispatch

(***************************************************************************)
(* An order that is FILLED has a delivery on record: the delivery_end that *)
(* fills it, of whichever sortie, records the one it fills.                *)
(***************************************************************************)
THEOREM FilledCorrect ==
  Spec => []FilledIsDelivered
<1>1. Init => FilledIsDelivered
  BY DEF Init, FilledIsDelivered
<1>2. TypeOK /\ FilledIsDelivered /\ [Next]_vars => FilledIsDelivered'
  <2> SUFFICES ASSUME TypeOK, FilledIsDelivered, [Next]_vars,
                      NEW s \in Sorties, orders'[s] = "FILLED"
               PROVE  deliveries'[s] > 0
    BY DEF FilledIsDelivered
  <2>1. deliveries \in [Sorties -> Nat] /\ orders \in [Sorties -> {"none", "OPEN", "FILLED"}]
    BY DEF TypeOK
  <2>2. orders[s] = "FILLED" => deliveries[s] > 0
    BY DEF FilledIsDelivered
  <2>3. CASE orders'[s] = "FILLED" /\ orders[s] # "FILLED"
    <3>1. PICK o \in Sorties : /\ deliveries' = [deliveries EXCEPT ![o] = @ + 1]
                               /\ orders' = [orders EXCEPT ![o] = IF @ = "none" THEN @ ELSE "FILLED"]
      BY <2>3, DeliveryRecorded
    <3> QED
      BY <2>1, <2>3, <3>1
  <2>4. CASE orders[s] = "FILLED"
    BY <2>1, <2>2, <2>4, DeliveryRecorded
  <2> QED
    BY <2>3, <2>4
<1> QED
  BY <1>1, <1>2, TypeCorrect, PTL DEF Spec

(***************************************************************************)
(* Passes grows by one with a pass, and by one at least with a restart.    *)
(***************************************************************************)
LEMMA PassesGrow ==
  ASSUME TypeOK
  PROVE  /\ Passes \in Nat
         /\ Rewind => Passes' = Passes + 1
         /\ Restart => Passes' \in Nat /\ Passes < Passes'
         /\ UNCHANGED <<iteration, restarts>> => Passes' = Passes
<1> DEFINE n == MaxIterations + 1
<1>1. restarts \in Nat /\ iteration \in 0 .. MaxIterations /\ MaxIterations \in Nat
  BY BoundAssumption DEF TypeOK
<1>2. restarts * n \in Nat
  BY <1>1
<1>3. (restarts + 1) * n = restarts * n + n
  BY <1>1
<1>4. Passes = restarts * n + iteration + 1
  BY DEF Passes
<1>5. ASSUME Rewind PROVE Passes' = Passes + 1
  <2>1. restarts' = restarts /\ iteration' = iteration + 1
    BY <1>5 DEF Rewind
  <2> QED
    BY <1>1, <1>2, <2>1 DEF Passes
<1>6. ASSUME Restart PROVE Passes' \in Nat /\ Passes < Passes'
  <2>1. restarts' = restarts + 1 /\ iteration' = 0
    BY <1>6 DEF Restart
  <2>2. Passes' = restarts * n + n + 0 + 1
    BY <1>3, <2>1 DEF Passes
  <2> QED
    BY <1>1, <1>2, <1>4, <2>2
<1>7. ASSUME UNCHANGED <<iteration, restarts>> PROVE Passes' = Passes
  BY <1>7 DEF Passes
<1> QED
  BY <1>1, <1>2, <1>4, <1>5, <1>6, <1>7

(***************************************************************************)
(* No order has more deliveries on record than there can have been passes: *)
(* a delivery is open only after its delivery_start, which comes once in a *)
(* pass, and a delivery_end takes it from memory.                          *)
(***************************************************************************)
THEOREM OncePerPass ==
  Spec => []DeliveredOncePerPass
<1>1. Init => DeliveredThisPass
  BY BoundAssumption DEF Init, DeliveredThisPass, Passes
<1>2. TypeOK /\ DeliveriesAwaitTheirEnd /\ DeliveredThisPass /\ [Next]_vars => DeliveredThisPass'
  <2> DEFINE Shut(s) == stage[s] \in {"delivering", "over"} /\ \A k \in Trucks : openDeliveries[k] # s
             Fine(s) == deliveries[s] < Passes \/ (deliveries[s] = Passes /\ Shut(s))
  <2> SUFFICES ASSUME TypeOK, DeliveriesAwaitTheirEnd, DeliveredThisPass, [Next]_vars, NEW s \in Sorties
               PROVE  Fine(s)'
    BY DEF DeliveredThisPass
  <2> USE TimelineAssumption
  <2>1. /\ stage \in [Sorties -> Stages]
        /\ openDeliveries \in [Trucks -> Sorties \cup {None}]
        /\ deliveries \in [Sorties -> Nat]
        /\ Passes \in Nat
    BY PassesGrow DEF TypeOK
  <2>2. Fine(s)
    BY DEF DeliveredThisPass
  <2>3. ASSUME NEW q \in Sorties, DeliveryEnd(q), deliveries' = deliveries
        PROVE  Fine(s)'
    <3>1. stage' = [stage EXCEPT ![q] = "over"] /\ UNCHANGED <<iteration, restarts>>
      BY <2>3 DEF DeliveryEnd, Advance
    <3>2. openDeliveries' = [openDeliveries EXCEPT ![TruckOf[q]] = None]
      BY <2>3 DEF DeliveryEnd, PopDelivery
    <3>3. Passes' = Passes
      BY <3>1, PassesGrow
    <3> QED
      BY <2>1, <2>2, <2>3, <3>1, <3>2, <3>3
  <2>4. ASSUME NEW q \in Sorties, DeliveryEnd(q), openDeliveries[TruckOf[q]] \in Sorties,
               deliveries' = [deliveries EXCEPT ![openDeliveries[TruckOf[q]]] = @ + 1]
        PROVE  Fine(s)'
    <3> DEFINE o == openDeliveries[TruckOf[q]]
    <3>1. stage' = [stage EXCEPT ![q] = "over"] /\ UNCHANGED <<iteration, restarts>>
      BY <2>4 DEF DeliveryEnd, Advance
    <3>2. openDeliveries' = [openDeliveries EXCEPT ![TruckOf[q]] = None]
      BY <2>4 DEF DeliveryEnd, PopDelivery
    <3>3. Passes' = Passes
      BY <3>1, PassesGrow
    <3>4. CASE s = o
      <4>1. deliveries[s] < Passes
        BY <2>2, <3>4
      <4>2. \A k \in Trucks : openDeliveries[k] = s => k = TruckOf[q]
        BY <3>4 DEF DeliveriesAwaitTheirEnd
      <4>3. stage[s] \in {"delivering", "over"}
        BY <2>4, <3>4 DEF DeliveriesAwaitTheirEnd
      <4>4. Shut(s)'
        BY <2>1, <3>1, <3>2, <4>2, <4>3
      <4>5. deliveries'[s] = deliveries[s] + 1
        BY <2>1, <2>4, <3>4
      <4> QED
        BY <2>1, <3>3, <4>1, <4>4, <4>5
    <3>5. CASE s # o
      <4>1. deliveries'[s] = deliveries[s]
        BY <2>1, <2>4, <3>5
      <4> QED
        BY <2>1, <2>2, <3>1, <3>2, <3>3, <4>1
    <3> QED
      BY <3>4, <3>5
  <2>5. ASSUME NEW q \in Sorties, Dispatch(q), ~DeliveryEnd(q)
        PROVE  Fine(s)'
    <3>1. \E from, to \in Stages : /\ Advance(q, from, to)
                                   /\ from \notin {"delivering", "over"}
      BY <2>5 DEF Dispatch, OrderCreated, TruckArrival, LoadStart, LoadEnd, DeliveryStart, Stages
    <3>2. Passes' = Passes
      BY <3>1, PassesGrow DEF Advance
    <3>3. deliveries' = deliveries
      BY <2>5 DEF Dispatch, OrderCreated, TruckArrival, LoadStart, LoadEnd, DeliveryStart, Lost, db
    <3>4. \A k \in Trucks : openDeliveries'[k] \in {openDeliveries[k], q}
      BY <2>1, <2>5
        DEF Dispatch, OrderCreated, TruckArrival, LoadStart, LoadEnd, DeliveryStart, memory
    <3>5. Shut(s) => Shut(s)'
      BY <2>1, <3>1, <3>4 DEF Advance
    <3> QED
      BY <2>2, <3>2, <3>3, <3>5
  <2>6. CASE Rewind \/ Restart
    <3>1. Passes' \in Nat /\ Passes < Passes' /\ deliveries' = deliveries
      BY <2>1, <2>6, PassesGrow DEF Rewind, Restart, db
    <3> QED
      BY <2>1, <2>2, <3>1
  <2>7. CASE SinglePassOver \/ UNCHANGED vars
    <3>1. Passes' = Passes
      BY <2>7, PassesGrow DEF SinglePassOver, vars
    <3> QED
      BY <2>2, <2>7, <3>1 DEF SinglePassOver, vars, memory, db
  <2> QED
    BY <2>3, <2>4, <2>5, <2>6, <2>7, DeliveryRecorded DEF Next
<1>3. TypeOK /\ DeliveredThisPass => DeliveredOncePerPass
  BY PassesGrow DEF DeliveredThisPass, DeliveredOncePerPass, TypeOK
<1> QED
  BY <1>1, <1>2, <1>3, TypeCorrect, DeliveriesEnd, PTL DEF Spec

-------------------------------------------------------------------------------
(***************************************************************************)
(* The queue, on a timeline whose sorties do not meet and with every row   *)
(* kept: a truck has one sortie under way, whose load and delivery are the *)
(* ones open, and its rows have left the states the sortie has left.       *)
(***************************************************************************)
UnderWay == {"arrived", "loading", "loaded", "delivering"}

OneAtATime ==
  \A s, q \in Sorties :
    TruckOf[s] = TruckOf[q] /\ {stage[s], stage[q]} \subseteq UnderWay => s = q

OpenIsOurs ==
  \A s \in Sorties :
    /\ stage[s] = "loading" => openLoads[RackOf[TruckOf[s]]] = s
    /\ stage[s] = "delivering" => openDeliveries[TruckOf[s]] = s

LeftBehind(st) ==
  CASE st = "loading" -> {"QUEUED"}
    [] st = "loaded" -> {"QUEUED", "LOADING"}
    [] st = "delivering" -> {"QUEUED", "LOADING", "ENROUTE"}
    [] OTHER -> {}

RowsFollow ==
  \A s \in Sorties, q \in QueueStates :
    q \in LeftBehind(stage[s]) => queueRows[TruckOf[s]][q] = 0

Home(k) ==
  /\ \A s \in Sorties : TruckOf[s] = k => stage[s] \notin UnderWay
  /\ (\E s \in Sorties : TruckOf[s] = k) => \E s \in Sorties : TruckOf[s] = k /\ stage[s] = "over"

RowsComeHome ==
  \A k \in Trucks : Home(k) =>
    \A q \in QueueStates \ {"RETURNING"} : queueRows[k][q] = 0

SerialInv ==
  /\ TypeOK /\ LoadsAwaitTheirEnd
  /\ OneAtATime /\ OpenIsOurs /\ RowsFollow /\ RowsComeHome

LEMMA MoveRowsEffect ==
  ASSUME TypeOK, NEW k \in Trucks, NEW from \in QueueStates, NEW to \in QueueStates,
         from # to, MoveRows(k, from, to)
  PROVE  /\ \A j \in Trucks : j # k => queueRows'[j] = queueRows[j]
         /\ queueRows'[k][from] = 0
         /\ \A q \in QueueStates \ {from, to} : queueRows'[k][q] = queueRows[k][q]
  BY DEF TypeOK, MoveRows

(***************************************************************************)
(* A sortie under way goes on, and its truck's rows with it: what the new  *)
(* stage has left behind it had left already, or leaves now.               *)
(***************************************************************************)
Unfinished == QueueStates \ {"RETURNING"}

Behind(st) == IF st = "over" THEN Unfinished ELSE LeftBehind(st)

LEMMA GoesOn ==
  ASSUME SerialInv, NEW s \in Sorties, NEW from \in UnderWay, NEW to \in UnderWay \cup {"over"},
         stage[s] = from, stage' = [stage EXCEPT ![s] = to],
         NEW out \in QueueStates, NEW in \in QueueStates, out # in,
         MoveRows(TruckOf[s], out, in),
         Behind(to) \subseteq (LeftBehind(from) \ {in}) \cup {out}
  PROVE  OneAtATime' /\ RowsFollow' /\ RowsComeHome'
<1> DEFINE k == TruckOf[s]
<1>1. /\ k \in Trucks /\ stage \in [Sorties -> Stages]
      /\ \A q \in Sorties : TruckOf[q] \in Trucks
  BY TimelineAssumption DEF SerialInv, TypeOK
<1>2. /\ \A j \in Trucks : j # k => queueRows'[j] = queueRows[j]
      /\ queueRows'[k][out] = 0
      /\ \A q \in QueueStates \ {out, in} : queueRows'[k][q] = queueRows[k][q]
  BY <1>1, MoveRowsEffect DEF SerialInv
<1> HIDE DEF k
<1>3. OneAtATime'
  BY <1>1 DEF SerialInv, OneAtATime
<1>4. \A q \in Sorties : TruckOf[q] = k /\ q # s => stage[q] \notin UnderWay
  BY DEF SerialInv, OneAtATime, k
<1>5. \A q \in LeftBehind(from) \cap QueueStates : queueRows[k][q] = 0
  BY DEF SerialInv, RowsFollow, k
<1>6. \A q \in Behind(to) \cap QueueStates : queueRows'[k][q] = 0
  BY <1>2, <1>5
<1>7. RowsFollow'
  <2> SUFFICES ASSUME NEW p \in Sorties, NEW q \in QueueStates, q \in LeftBehind(stage'[p])
               PROVE  queueRows'[TruckOf[p]][q] = 0
    BY DEF RowsFollow
  <2>1. CASE p = s
    <3>1. stage'[p] = to /\ to # "over"
      BY <1>1, <2>1 DEF LeftBehind
    <3> QED
      BY <1>6, <2>1, <3>1 DEF Behind, k
  <2>2. CASE p # s
    <3>1. stage'[p] = stage[p] /\ stage[p] \in UnderWay
      BY <1>1, <2>2 DEF LeftBehind, UnderWay
    <3>2. TruckOf[p] # k
      BY <1>4, <2>2, <3>1
    <3> QED
      BY <1>1, <1>2, <3>1, <3>2 DEF SerialInv, RowsFollow
  <2> QED
    BY <2>1, <2>2
<1>8. RowsComeHome'
  <2> SUFFICES ASSUME NEW j \in Trucks, Home(j)', NEW q \in Unfinished
               PROVE  queueRows'[j][q] = 0
    BY DEF RowsComeHome, Unfinished
  <2>1. CASE j = k
    <3>1. to = "over"
      BY <1>1, <2>1 DEF Home, k
    <3> QED
      BY <1>6, <2>1, <3>1 DEF Behind, Unfinished
  <2>2. CASE j # k
    <3>1. \A p \in Sorties : TruckOf[p] = j => stage'[p] = stage[p]
      BY <1>1, <2>2 DEF k
    <3>2. Home(j)
      BY <3>1 DEF Home
    <3> QED
      BY <1>2, <2>2, <3>2 DEF SerialInv, RowsComeHome, Unfinished
  <2> QED
    BY <2>1, <2>2
<1> QED
  BY <1>3, <1>7, <1>8

(***************************************************************************)
(* An arrival finds its truck free, and puts a row where no sortie has     *)
(* left anything behind.                                                   *)
(***************************************************************************)
LEMMA ArrivalIsSerial ==
  ASSUME SerialInv, Overlapping = FALSE, NEW s \in Sorties, TruckArrival(s), ~Lost
  PROVE  OneAtATime' /\ OpenIsOurs' /\ RowsFollow' /\ RowsComeHome'
<1> DEFINE k == TruckOf[s]
<1>1. /\ k \in Trucks /\ stage \in [Sorties -> Stages]
      /\ \A q \in Sorties : TruckOf[q] \in Trucks
      /\ queueRows \in [Trucks -> [QueueStates -> Nat]]
  BY TimelineAssumption DEF SerialInv, TypeOK
<1>2. /\ stage' = [stage EXCEPT ![s] = "arrived"] /\ stage[s] = "ordered"
      /\ UNCHANGED memory
      /\ queueRows' = [queueRows EXCEPT ![k]["QUEUED"] = @ + 1]
  BY DEF TruckArrival, Advance
<1>3. \A q \in Sorties : TruckOf[q] = k => stage[q] \notin UnderWay
  BY DEF TruckArrival, TruckIsFree, UnderWay
<1>4. \A j \in Trucks : j # k => queueRows'[j] = queueRows[j]
  BY <1>1, <1>2
<1>5. OneAtATime'
  BY <1>1, <1>2, <1>3 DEF SerialInv, OneAtATime
<1>6. OpenIsOurs'
  BY <1>1, <1>2 DEF SerialInv, OpenIsOurs, memory
<1>7. RowsFollow'
  BY <1>1, <1>2, <1>3, <1>4 DEF SerialInv, RowsFollow, LeftBehind, UnderWay
<1>8. RowsComeHome'
  <2> SUFFICES ASSUME NEW j \in Trucks, Home(j)'
               PROVE  \A q \in QueueStates \ {"RETURNING"} : queueRows'[j][q] = 0
    BY DEF RowsComeHome
  <2>1. j # k
    BY <1>1, <1>2 DEF Home, UnderWay
  <2>2. \A p \in Sorties : TruckOf[p] = j => stage'[p] = stage[p]
    BY <1>1, <1>2, <2>1
  <2>3. Home(j)
    BY <2>2 DEF Home
  <2> QED
    BY <1>4, <2>1, <2>3 DEF SerialInv, RowsComeHome
<1> QED
  BY <1>5, <1>6, <1>7, <1>8

(***************************************************************************)
(* The dictionaries: a load starts at a free rack and ends at its own, and *)
(* a truck has no second delivery.                                         *)
(***************************************************************************)
LEMMA OpenStaysOurs ==
  ASSUME SerialInv, Overlapping = FALSE, NEW s \in Sorties,
         LoadStart(s) \/ LoadEnd(s) \/ DeliveryStart(s) \/ DeliveryEnd(s)
  PROVE  OpenIsOurs'
<1> USE TimelineAssumption
<1>1. /\ stage \in [Sorties -> Stages]
      /\ openLoads \in [Racks -> Sorties \cup {None}]
      /\ openDeliveries \in [Trucks -> Sorties \cup {None}]
      /\ \A q \in Sorties : TruckOf[q] \in Trucks /\ RackOf[TruckOf[q]] \in Racks
  BY DEF SerialInv, TypeOK, Racks
<1>2. \A q \in Sorties : stage[q] = "loading" => openLoads[RackOf[TruckOf[q]]] = q
  BY DEF SerialInv, OpenIsOurs
<1>3. \A q \in Sorties : stage[q] = "delivering" => openDeliveries[TruckOf[q]] = q
  BY DEF SerialInv, OpenIsOurs
<1>4. \A q \in Sorties : TruckOf[q] = TruckOf[s] /\ stage[q] \in UnderWay /\ stage[s] \in UnderWay => q = s
  BY DEF SerialInv, OneAtATime
<1>5. CASE LoadStart(s)
  <2>1. /\ stage' = [stage EXCEPT ![s] = "loading"] /\ stage[s] = "arrived"
        /\ openLoads[RackOf[TruckOf[s]]] = None
        /\ openLoads' = [openLoads EXCEPT ![RackOf[TruckOf[s]]] = s]
        /\ openDeliveries' = openDeliveries
    BY <1>5 DEF LoadStart, Advance
  <2>2. \A q \in Sorties : stage'[q] = "loading" => openLoads'[RackOf[TruckOf[q]]] = q
    BY <1>1, <1>2, <2>1
  <2> QED
    BY <1>1, <1>3, <2>1, <2>2 DEF OpenIsOurs
<1>6. CASE LoadEnd(s)
  <2>1. /\ stage' = [stage EXCEPT ![s] = "loaded"] /\ stage[s] = "loading"
        /\ openDeliveries' = openDeliveries
    BY <1>6 DEF LoadEnd, Advance
  <2>2. RacksOf(TruckOf[s]) = {RackOf[TruckOf[s]]}
    BY <1>1, <1>2, <2>1 DEF RacksOf, SerialInv, LoadsAwaitTheirEnd
  <2>3. openLoads' = [openLoads EXCEPT ![RackOf[TruckOf[s]]] = None]
    BY <1>6, <2>2 DEF LoadEnd
  <2>4. \A q \in Sorties : stage'[q] = "loading" => openLoads'[RackOf[TruckOf[q]]] = q
    BY <1>1, <1>2, <2>1, <2>3
  <2> QED
    BY <1>1, <1>3, <2>1, <2>4 DEF OpenIsOurs
<1>7. CASE DeliveryStart(s)
  <2>1. /\ stage' = [stage EXCEPT ![s] = "delivering"] /\ stage[s] = "loaded"
        /\ openDeliveries' = [openDeliveries EXCEPT ![TruckOf[s]] = s]
        /\ openLoads' = openLoads
    BY <1>7 DEF DeliveryStart, Advance
  <2>2. \A q \in Sorties : stage'[q] = "delivering" => openDeliveries'[TruckOf[q]] = q
    BY <1>1, <1>3, <1>4, <2>1 DEF UnderWay
  <2> QED
    BY <1>1, <1>2, <2>1, <2>2 DEF OpenIsOurs
<1>8. CASE DeliveryEnd(s)
  <2>1. /\ stage' = [stage EXCEPT ![s] = "over"] /\ stage[s] = "delivering"
        /\ openDeliveries' = [openDeliveries EXCEPT ![TruckOf[s]] = None]
        /\ openLoads' = openLoads
    BY <1>8 DEF DeliveryEnd, Advance, PopDelivery
  <2>2. \A q \in Sorties : stage'[q] = "delivering" => openDeliveries'[TruckOf[q]] = q
    BY <1>1, <1>3, <1>4, <2>1 DEF UnderWay
  <2> QED
    BY <1>1, <1>2, <2>1, <2>2 DEF OpenIsOurs
<1> QED
  BY <1>5, <1>6, <1>7, <1>8

(***************************************************************************)
(* What a sortie's handlers do on such a timeline.                         *)
(***************************************************************************)
LEMMA DispatchIsSerial ==
  ASSUME SerialInv, Overlapping = FALSE, NEW s \in Sorties, Dispatch(s), ~Lost
  PROVE  OneAtATime' /\ OpenIsOurs' /\ RowsFollow' /\ RowsComeHome'
<1> USE TimelineAssumption
<1>1. CASE OrderCreated(s)
  <2>1. /\ stage' = [stage EXCEPT ![s] = "ordered"] /\ stage[s] = "new"
        /\ UNCHANGED <<openLoads, openDeliveries, queueRows>>
    BY <1>1 DEF OrderCreated, Advance, memory
  <2>2. stage \in [Sorties -> Stages]
    BY DEF SerialInv, TypeOK
  <2>3. /\ \A q \in Sorties : stage'[q] \in UnderWay \/ stage'[q] = "over" => stage'[q] = stage[q]
        /\ \A q \in Sorties : stage[q] \in UnderWay \/ stage[q] = "over" => stage'[q] = stage[q]
    BY <2>1, <2>2 DEF UnderWay
  <2>4. OneAtATime'
    BY <2>3 DEF SerialInv, OneAtATime
  <2>5. OpenIsOurs'
    BY <2>1, <2>3 DEF SerialInv, OpenIsOurs, UnderWay
  <2>6. RowsFollow'
    BY <2>1, <2>3 DEF SerialInv, RowsFollow, LeftBehind, UnderWay
  <2>7. \A k \in Trucks : Home(k)' => Home(k)
    BY <2>3 DEF Home
  <2>8. RowsComeHome'
    BY <2>1, <2>7 DEF SerialInv, RowsComeHome
  <2> QED
    BY <2>4, <2>5, <2>6, <2>8
<1>2. CASE TruckArrival(s)
  BY <1>2, ArrivalIsSerial
<1>3. CASE LoadStart(s)
  <2>1. /\ stage' = [stage EXCEPT ![s] = "loading"] /\ stage[s] = "arrived"
        /\ MoveRows(TruckOf[s], "QUEUED", "LOADING")
    BY <1>3 DEF LoadStart, Advance
  <2>2. Behind("loading") \subseteq (LeftBehind("arrived") \ {"LOADING"}) \cup {"QUEUED"}
    BY DEF Behind, LeftBehind
  <2>7. OneAtATime' /\ RowsFollow' /\ RowsComeHome'
    BY <2>1, <2>2, GoesOn DEF UnderWay, QueueStates
  <2>8. OpenIsOurs'
    BY <1>3, OpenStaysOurs
  <2> QED
    BY <2>7, <2>8
<1>4. CASE LoadEnd(s)
  <2>1. stage' = [stage EXCEPT ![s] = "loaded"] /\ stage[s] = "loading"
    BY <1>4 DEF LoadEnd, Advance
  <2>2. RacksOf(TruckOf[s]) # {}
    BY <2>1 DEF SerialInv, OpenIsOurs, RacksOf, Racks
  <2>3. MoveRows(TruckOf[s], "LOADING", "ENROUTE")
    BY <1>4, <2>2 DEF LoadEnd
  <2>4. Behind("loaded") \subseteq (LeftBehind("loading") \ {"ENROUTE"}) \cup {"LOADING"}
    BY DEF Behind, LeftBehind
  <2>7. OneAtATime' /\ RowsFollow' /\ RowsComeHome'
    BY <2>1, <2>3, <2>4, GoesOn DEF UnderWay, QueueStates
  <2>8. OpenIsOurs'
    BY <1>4, OpenStaysOurs
  <2> QED
    BY <2>7, <2>8
<1>5. CASE DeliveryStart(s)
  <2>1. /\ stage' = [stage EXCEPT ![s] = "delivering"] /\ stage[s] = "loaded"
        /\ MoveRows(TruckOf[s], "ENROUTE", "DISPENSING")
    BY <1>5 DEF DeliveryStart, Advance
  <2>2. Behind("delivering") \subseteq (LeftBehind("loaded") \ {"DISPENSING"}) \cup {"ENROUTE"}
    BY DEF Behind, LeftBehind
  <2>7. OneAtATime' /\ RowsFollow' /\ RowsComeHome'
    BY <2>1, <2>2, GoesOn DEF UnderWay, QueueStates
  <2>8. OpenIsOurs'
    BY <1>5, OpenStaysOurs
  <2> QED
    BY <2>7, <2>8
<1>6. CASE DeliveryEnd(s)
  <2>1. stage' = [stage EXCEPT ![s] = "over"] /\ stage[s] = "delivering"
    BY <1>6 DEF DeliveryEnd, Advance
  <2>2. openDeliveries[TruckOf[s]] # None
    BY <2>1 DEF SerialInv, OpenIsOurs
  <2>3. MoveRows(TruckOf[s], "DISPENSING", "RETURNING")
    BY <1>6, <2>2 DEF DeliveryEnd
  <2>4. Behind("over") \subseteq (LeftBehind("delivering") \ {"RETURNING"}) \cup {"DISPENSING"}
    BY DEF Behind, LeftBehind, Unfinished, QueueStates
  <2>7. OneAtATime' /\ RowsFollow' /\ RowsComeHome'
    BY <2>1, <2>3, <2>4, GoesOn DEF UnderWay, QueueStates
  <2>8. OpenIsOurs'
    BY <1>6, OpenStaysOurs
  <2> QED
    BY <2>7, <2>8
<1> QED
  BY <1>1, <1>2, <1>3, <1>4, <1>5, <1>6 DEF Dispatch

(***************************************************************************)
(* All of it holds as long as the timeline goes on.                        *)
(***************************************************************************)
LEMMA SerialInvariant ==
  ASSUME Overlapping = FALSE, MaxLosses = 0
  PROVE  Spec => []SerialInv
<1>1. Init => OneAtATime /\ OpenIsOurs /\ RowsFollow /\ RowsComeHome
  <2> SUFFICES ASSUME Init PROVE OneAtATime /\ OpenIsOurs /\ RowsFollow /\ RowsComeHome
    OBVIOUS
  <2>1. \A s \in Sorties : stage[s] = "new"
    BY DEF Init
  <2>2. \A k \in Trucks, q \in QueueStates : queueRows[k][q] = 0
    BY DEF Init
  <2> QED
    BY <2>1, <2>2, TimelineAssumption
      DEF OneAtATime, OpenIsOurs, RowsFollow, RowsComeHome, UnderWay, LeftBehind
<1>2. SerialInv /\ [Next]_vars => OneAtATime' /\ OpenIsOurs' /\ RowsFollow' /\ RowsComeHome'
  <2> SUFFICES ASSUME SerialInv, [Next]_vars
               PROVE  OneAtATime' /\ OpenIsOurs' /\ RowsFollow' /\ RowsComeHome'
    OBVIOUS
  <2>1. ~Lost
    BY DEF SerialInv, TypeOK, Lost
  <2>2. ASSUME NEW s \in Sorties, Dispatch(s)
        PROVE  OneAtATime' /\ OpenIsOurs' /\ RowsFollow' /\ RowsComeHome'
    BY <2>1, <2>2, DispatchIsSerial
  <2>3. CASE Rewind \/ Restart
    <3>1. stage' = [s \in Sorties |-> "new"] /\ queueRows' = queueRows
      BY <2>3 DEF Rewind, Restart, db
    <3>2. \A s \in Sorties : stage'[s] = "new"
      BY <3>1
    <3>3. OneAtATime' /\ OpenIsOurs' /\ RowsFollow'
      BY <3>2 DEF OneAtATime, OpenIsOurs, RowsFollow, UnderWay, LeftBehind
    <3>4. ASSUME NEW k \in Trucks, Home(k)' PROVE Home(k)
      BY <3>2, <3>4 DEF Home
    <3>5. RowsComeHome'
      BY <3>1, <3>4 DEF SerialInv, RowsComeHome
    <3> QED
      BY <3>3, <3>5
  <2>4. CASE SinglePassOver \/ UNCHANGED vars
    <3>1. UNCHANGED <<stage, openLoads, openDeliveries, queueRows>>
      BY <2>4 DEF SinglePassOver, vars, memory, db
    <3> QED
      BY <3>1 DEF SerialInv, OneAtATime, OpenIsOurs, RowsFollow, RowsComeHome, Home
  <2> QED
    BY <2>2, <2>3, <2>4 DEF Next
<1>3. SerialInv <=> /\ TypeOK /\ LoadsAwaitTheirEnd
                    /\ OneAtATime /\ OpenIsOurs /\ RowsFollow /\ RowsComeHome
  BY DEF SerialInv
<1> QED
  BY <1>1, <1>2, <1>3, TypeCorrect, LoadsEnd, PTL DEF Spec

(***************************************************************************)
(* Where sorties do not meet and no rows are lost, every queue row has     *)
(* come to its last state when the timeline is over, those of sorties a    *)
(* restart cut off with the next one of their truck: every UPDATE moves    *)
(* all rows of its state.                                                  *)
(***************************************************************************)
THEOREM QueueRowsCorrect ==
  ASSUME Overlapping = FALSE, MaxLosses = 0
  PROVE  Spec => []QueueRowsFinish
<1>1. SerialInv => QueueRowsFinish
  <2> SUFFICES ASSUME SerialInv, TimelineOver, NEW k \in Trucks, NEW q \in QueueStates \ {"RETURNING"}
               PROVE  queueRows[k][q] = 0
    BY DEF QueueRowsFinish
  <2>1. Home(k)
    BY DEF Home, TimelineOver, UnderWay
  <2> QED
    BY <2>1 DEF SerialInv, RowsComeHome
<1> QED
  BY <1>1, SerialInvariant, PTL

-------------------------------------------------------------------------------
(***************************************************************************)
(* Reconciliation.                                                         *)
(***************************************************************************)

(***************************************************************************)
(* A truck between its load_end and its delivery_end has one load on       *)
(* record that no delivery has used up.                                    *)
(***************************************************************************)
Carrying(k) == \E s \in Sorties : TruckOf[s] = k /\ stage[s] \in {"loaded", "delivering"}

LoadsPayForDeliveries ==
  \A k \in Trucks :
    /\ IsFiniteSet(DeliveryRows(k))
    /\ Cardinality(DeliveryRows(k)) <= loads[k]
    /\ Carrying(k) => Cardinality(DeliveryRows(k)) < loads[k]

LEMMA RowsOf ==
  ASSUME NEW k \in Trucks, NEW x
  PROVE  x \in DeliveryRows(k)
           <=> \E s \in Sorties : TruckOf[s] = k /\ \E i \in 1 .. deliveries[s] : x = <<s, i>>
  BY DEF DeliveryRows

(***************************************************************************)
(* One delivery_txn more is one row more for its truck.                    *)
(***************************************************************************)
LEMMA OneRowMore ==
  ASSUME deliveries \in [Sorties -> Nat], NEW o \in Sorties,
         deliveries' = [deliveries EXCEPT ![o] = @ + 1],
         NEW k \in Trucks, IsFiniteSet(DeliveryRows(k))
  PROVE  /\ TruckOf[o] # k => DeliveryRows(k)' = DeliveryRows(k)
         /\ TruckOf[o] = k => /\ IsFiniteSet(DeliveryRows(k)')
                              /\ Cardinality(DeliveryRows(k)') = Cardinality(DeliveryRows(k)) + 1
<1>1. ASSUME NEW s \in Sorties, s # o PROVE deliveries'[s] = deliveries[s]
  BY <1>1
<1>2. /\ deliveries'[o] = deliveries[o] + 1 /\ deliveries[o] \in Nat
      /\ 1 .. deliveries'[o] = (1 .. deliveries[o]) \cup {deliveries[o] + 1}
  BY DEF DeliveryRows
<1>3. CASE TruckOf[o] # k
  BY <1>1, <1>3 DEF DeliveryRows
<1>4. CASE TruckOf[o] = k
  <2> DEFINE new == <<o, deliveries[o] + 1>>
  <2>1. new \notin DeliveryRows(k)
    <3>1. deliveries[o] + 1 \notin 1 .. deliveries[o]
      BY <1>2
    <3> QED
      BY <3>1, RowsOf
  <2>2. DeliveryRows(k)' = DeliveryRows(k) \cup {new}
    <3>1. ASSUME NEW x PROVE x \in DeliveryRows(k)' <=> x \in DeliveryRows(k) \/ x = new
      <4>1. x \in DeliveryRows(k)'
              <=> \E s \in Sorties : TruckOf[s] = k /\ \E i \in 1 .. deliveries'[s] : x = <<s, i>>
        BY DEF DeliveryRows
      <4>2. x \in DeliveryRows(k)
              <=> \E s \in Sorties : TruckOf[s] = k /\ \E i \in 1 .. deliveries[s] : x = <<s, i>>
        BY RowsOf
      <4> QED
        BY <1>1, <1>2, <1>4, <4>1, <4>2
    <3> QED
      BY <3>1
  <2> QED
    BY <1>4, <2>1, <2>2, FS_AddElement
<1> QED
  BY <1>3, <1>4

LEMMA DispatchPays ==
  ASSUME SerialInv, LoadsPayForDeliveries, NEW s \in Sorties, Dispatch(s), ~ Lost
  PROVE  LoadsPayForDeliveries'
<1> DEFINE k == TruckOf[s]
<1>1. /\ k \in Trucks /\ stage \in [Sorties -> Stages] /\ loads \in [Trucks -> Nat]
      /\ deliveries \in [Sorties -> Nat] /\ \A q \in Sorties : TruckOf[q] \in Trucks
  BY TimelineAssumption DEF SerialInv, TypeOK
<1>2. \A j \in Trucks : IsFiniteSet(DeliveryRows(j)) /\ Cardinality(DeliveryRows(j)) \in Nat
                        /\ loads[j] \in Nat
  BY <1>1, FS_CardinalityType DEF LoadsPayForDeliveries
<1>3. ASSUME NEW j \in Trucks, j # k PROVE Carrying(j)' => Carrying(j)
  <2>1. \A q \in Sorties : TruckOf[q] = j => stage'[q] = stage[q]
    BY <1>1, <1>3 DEF Dispatch, Advance, OrderCreated, TruckArrival, LoadStart, LoadEnd,
                      DeliveryStart, DeliveryEnd
  <2> QED
    BY <2>1 DEF Carrying
<1>4. CASE OrderCreated(s) \/ TruckArrival(s) \/ LoadStart(s) \/ DeliveryStart(s)
  <2>1. UNCHANGED <<loads, deliveries>>
    BY <1>4 DEF OrderCreated, TruckArrival, LoadStart, DeliveryStart
  <2>2. stage'[s] \in {"loaded", "delivering"} => stage[s] \in {"loaded", "delivering"}
    BY <1>1, <1>4 DEF OrderCreated, TruckArrival, LoadStart, DeliveryStart, Advance
  <2>3. \A q \in Sorties : q # s => stage'[q] = stage[q]
    BY <1>1, <1>4 DEF OrderCreated, TruckArrival, LoadStart, DeliveryStart, Advance
  <2>4. \A j \in Trucks : Carrying(j)' => Carrying(j)
    BY <2>2, <2>3 DEF Carrying
  <2> QED
    BY <2>1, <2>4 DEF LoadsPayForDeliveries, DeliveryRows
<1>5. CASE LoadEnd(s)
  <2>1. stage[s] = "loading" /\ UNCHANGED deliveries /\ loads' = [loads EXCEPT ![k] = @ + 1]
    <3>1. stage[s] = "loading"
      BY <1>5 DEF LoadEnd, Advance
    <3>2. RacksOf(k) # {}
      BY <3>1, TimelineAssumption DEF SerialInv, OpenIsOurs, RacksOf, Racks
    <3> QED
      BY <1>5, <3>1, <3>2 DEF LoadEnd
  <2>2. \A j \in Trucks : DeliveryRows(j)' = DeliveryRows(j)
    BY <2>1 DEF DeliveryRows
  <2>3. ASSUME NEW j \in Trucks
        PROVE  /\ Cardinality(DeliveryRows(j)) <= loads'[j]
               /\ Carrying(j)' => Cardinality(DeliveryRows(j)) < loads'[j]
    <3>1. CASE j = k
      BY <1>1, <1>2, <2>1, <3>1 DEF LoadsPayForDeliveries
    <3>2. CASE j # k
      BY <1>1, <1>3, <2>1, <3>2 DEF LoadsPayForDeliveries
    <3> QED
      BY <3>1, <3>2
  <2> QED
    BY <1>2, <2>2, <2>3 DEF LoadsPayForDeliveries
<1>6. CASE DeliveryEnd(s)
  <2>1. stage[s] = "delivering" /\ stage' = [stage EXCEPT ![s] = "over"]
    BY <1>6 DEF DeliveryEnd, Advance
  <2>2. openDeliveries[k] = s
    BY <2>1 DEF SerialInv, OpenIsOurs
  <2>3. deliveries' = [deliveries EXCEPT ![s] = @ + 1] /\ loads' = loads
    BY <1>6, <2>2, TimelineAssumption DEF DeliveryEnd
  <2>4. Carrying(k) /\ ~ Carrying(k)'
    <3>1. \A q \in Sorties : TruckOf[q] = k /\ stage[q] \in UnderWay => q = s
      BY <2>1 DEF SerialInv, OneAtATime, UnderWay
    <3>2. \A q \in Sorties : TruckOf[q] = k => stage'[q] \notin {"loaded", "delivering"}
      BY <1>1, <2>1, <3>1 DEF UnderWay
    <3> QED
      BY <2>1, <3>2 DEF Carrying
  <2>5. ASSUME NEW j \in Trucks
        PROVE  /\ IsFiniteSet(DeliveryRows(j)')
               /\ Cardinality(DeliveryRows(j)') <= loads[j]
               /\ Carrying(j)' => Cardinality(DeliveryRows(j)') < loads[j]
    <3>1. CASE j = k
      <4>1. /\ IsFiniteSet(DeliveryRows(k)')
            /\ Cardinality(DeliveryRows(k)') = Cardinality(DeliveryRows(k)) + 1
        BY <1>1, <1>2, <2>3, OneRowMore
      <4>2. Cardinality(DeliveryRows(k)) < loads[k]
        BY <1>1, <2>4 DEF LoadsPayForDeliveries
      <4> QED
        BY <1>1, <1>2, <2>4, <3>1, <4>1, <4>2
    <3>2. CASE j # k
      <4>1. DeliveryRows(j)' = DeliveryRows(j)
        BY <1>1, <1>2, <2>3, <3>2, OneRowMore
      <4> QED
        BY <1>3, <3>2, <4>1 DEF LoadsPayForDeliveries
    <3> QED
      BY <3>1, <3>2
  <2> QED
    BY <2>3, <2>5 DEF LoadsPayForDeliveries
<1> QED
  BY <1>4, <1>5, <1>6 DEF Dispatch

(***************************************************************************)
(* Where the timeline does not let sorties meet and no rows are lost, a    *)
(* truck never has more deliveries than loads on record, whatever process  *)
(* deaths cut short: memory that is lost loses a delivery, never a load.   *)
(***************************************************************************)
THEOREM DeliveriesAreLoaded ==
  ASSUME Overlapping = FALSE, MaxLosses = 0
  PROVE  Spec => []NoDeliveryWithoutLoad
<1>1. Init => LoadsPayForDeliveries
  <2> SUFFICES ASSUME Init, NEW k \in Trucks
               PROVE  DeliveryRows(k) = {} /\ loads[k] = 0 /\ ~ Carrying(k)
    BY FS_EmptySet DEF LoadsPayForDeliveries
  <2>1. \A s \in Sorties : deliveries[s] = 0 /\ stage[s] = "new"
    BY DEF Init
  <2>2. \A x : x \notin DeliveryRows(k)
    BY <2>1, RowsOf
  <2> QED
    BY <2>1, <2>2 DEF Init, Carrying
<1>2. SerialInv /\ LoadsPayForDeliveries /\ [Next]_vars => LoadsPayForDeliveries'
  <2> SUFFICES ASSUME SerialInv, LoadsPayForDeliveries, [Next]_vars PROVE LoadsPayForDeliveries'
    OBVIOUS
  <2>1. ~Lost
    BY DEF SerialInv, TypeOK, Lost
  <2>2. ASSUME NEW s \in Sorties, Dispatch(s) PROVE LoadsPayForDeliveries'
    BY <2>1, <2>2, DispatchPays
  <2>3. CASE Rewind \/ Restart
    <3>1. (\A s \in Sorties : stage'[s] = "new") /\ UNCHANGED <<loads, deliveries>>
      BY <2>3 DEF Rewind, Restart, db
    <3>2. \A k \in Trucks : ~ Carrying(k)'
      BY <3>1 DEF Carrying
    <3> QED
      BY <3>1, <3>2 DEF LoadsPayForDeliveries, DeliveryRows
  <2>4. CASE SinglePassOver \/ UNCHANGED vars
    <3>1. UNCHANGED <<stage, loads, deliveries>>
      BY <2>4 DEF SinglePassOver, vars, db
    <3> QED
      BY <3>1 DEF LoadsPayForDeliveries, DeliveryRows, Carrying
  <2> QED
    BY <2>2, <2>3, <2>4 DEF Next
<1>3. LoadsPayForDeliveries => NoDeliveryWithoutLoad
  BY DEF LoadsPayForDeliveries, NoDeliveryWithoutLoad
<1> QED
  BY <1>1, <1>2, <1>3, SerialInvariant, PTL DEF Spec
===============================================================================
