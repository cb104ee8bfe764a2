---------------------------- MODULE FuelFarmProofs ----------------------------
(***************************************************************************)
(* Proofs about FuelFarm, for every timeline, every flow and meter width,  *)
(* and every number of external writes.                                    *)
(***************************************************************************)
EXTENDS FuelFarm, TLAPS

-------------------------------------------------------------------------------
(***************************************************************************)
(* Arithmetic of the totalizer.                                            *)
(***************************************************************************)

(***************************************************************************)
(* A number has one remainder.                                             *)
(***************************************************************************)
LEMMA RemainderUnique ==
  ASSUME NEW m \in Nat \ {0}, NEW x \in Nat, NEW q \in Nat, NEW rem \in 0 .. m - 1,
         x = m * q + rem
  PROVE  x % m = rem
  BY SMT

(***************************************************************************)
(* Masking after each addition is masking the sum: _tick may mask the      *)
(* totalizer every tick and still count modulo the width.                  *)
(***************************************************************************)
LEMMA MaskedSum ==
  ASSUME NEW m \in Nat \ {0}, NEW x \in Nat, NEW y \in Nat, y < m
  PROVE  ((x % m) + y) % m = (x + y) % m
<1> DEFINE q == x \div m
           rem == x % m
<1>1. x = m * q + rem /\ q \in Nat /\ rem \in 0 .. m - 1
  BY SMT
<1> HIDE DEF q, rem
<1>2. CASE rem + y < m
  <2>1. x + y = m * q + (rem + y) /\ rem + y \in 0 .. m - 1
    BY <1>1, <1>2
  <2>2. (x + y) % m = rem + y
    BY <1>1, <2>1, RemainderUnique
  <2>3. (rem + y) % m = rem + y
    BY <1>1, <1>2
  <2> QED
    BY <2>2, <2>3 DEF rem
<1>3. CASE rem + y >= m
  <2>1. m * (q + 1) = m * q + m
    BY <1>1
  <2>2. /\ x + y = m * (q + 1) + (rem + y - m)
        /\ rem + y - m \in 0 .. m - 1
        /\ q + 1 \in Nat /\ x + y \in Nat
    BY <1>1, <1>3, <2>1
  <2>3. (x + y) % m = rem + y - m
    BY <2>2, RemainderUnique, Zenon
  <2>4. (rem + y) % m = rem + y - m
    BY <1>1, <1>3
  <2> QED
    BY <2>3, <2>4 DEF rem
<1> QED
  BY <1>1, <1>2, <1>3

-------------------------------------------------------------------------------
(***************************************************************************)
(* Type correctness.                                                       *)
(***************************************************************************)

(***************************************************************************)
(* _resolve_src_tank yields a tank or nothing.                             *)
(***************************************************************************)
LEMMA SourceType ==
  ASSUME TypeOK, NEW r \in Racks
  PROVE  SourceOf(r) \in Tanks \cup {0}
<1>1. CASE srcTank[r] \in Tanks
  BY <1>1 DEF SourceOf
<1>2. CASE srcTank[r] \notin Tanks /\ OpenOutlets = {}
  BY <1>2 DEF SourceOf
<1>3. CASE srcTank[r] \notin Tanks /\ OpenOutlets # {}
  <2>1. \E t \in OpenOutlets : \A u \in OpenOutlets : t <= u
    BY <1>3 DEF OpenOutlets, Tanks
  <2>2. SourceOf(r) \in OpenOutlets
    BY <1>3, <2>1 DEF SourceOf
  <2> QED
    BY <2>2 DEF OpenOutlets
<1> QED
  BY <1>1, <1>2, <1>3

(***************************************************************************)
(* A rack delivers one tick of flow or nothing.                            *)
(***************************************************************************)
LEMMA DeliveredType ==
  ASSUME NEW r \in Racks
  PROVE  Delivered(r) \in {0, Flow} /\ Delivered(r) \in Nat
  BY PhysicsAssumption DEF Delivered

LEMMA NewLoadType ==
  ASSUME TypeOK, NEW s \in Sorties, NEW r \in Racks
  PROVE  [truck |-> TruckOf[s], tank |-> TankOf[s], meter_start |-> totalizer[r]] \in Load
  BY TimelineAssumption DEF TypeOK, Load

(***************************************************************************)
(* Every variable stays in its type: the totalizers within their width,    *)
(* the levels and counters at or above zero.                               *)
(***************************************************************************)
THEOREM TypeCorrect == Spec => []TypeOK
<1>1. Init => TypeOK
  <2> SUFFICES ASSUME Init PROVE TypeOK
    OBVIOUS
  <2>1. totalizer \in [Racks -> 0 .. MeterMod - 1]
    BY PhysicsAssumption DEF Init
  <2>2. /\ level \in [Tanks -> Nat] /\ batch \in [Racks -> Nat]
        /\ \A t \in Tanks : level[t] <= InitLevel[t]
    BY PhysicsAssumption DEF Init
  <2>3. openLoads \in [Racks -> Load \cup {NoLoad}] /\ srcTank \in [Racks -> Tanks \cup {0}]
    BY DEF Init
  <2>4. iteration \in 0 .. MaxPasses /\ writes \in 0 .. MaxWrites /\ restarts \in 0 .. MaxPasses
    BY BoundAssumption DEF Init
  <2> QED
    BY <2>1, <2>2, <2>3, <2>4 DEF Init, TypeOK
<1>2. TypeOK /\ [Next]_vars => TypeOK'
  <2> SUFFICES ASSUME TypeOK, [Next]_vars PROVE TypeOK'
    OBVIOUS
  <2> USE TimelineAssumption, PhysicsAssumption, BoundAssumption
  <2>1. ASSUME NEW s \in Sorties, LoadStart(s) PROVE TypeOK'
    <3> DEFINE r == RackOf[TruckOf[s]]
    <3>1. r \in Racks
      OBVIOUS
    <3>2. AccountOf(r) \in Tanks \cup {0}
      BY <3>1 DEF AccountOf, TypeOK, Load
    <3>3. openLoads' \in [Racks -> Load \cup {NoLoad}]
      BY <2>1, <3>1, NewLoadType DEF LoadStart, TypeOK
    <3>4. unbooked' \in [Tanks \cup {0} -> Nat]
      BY <2>1, <3>1, <3>2 DEF LoadStart, TypeOK
    <3> QED
      BY <2>1, <3>1, <3>3, <3>4 DEF ResetBatch, LoadStart, TypeOK, restartVars
  <2>2. ASSUME NEW s \in Sorties, LoadEnd(s) PROVE TypeOK'
    <3>1. CASE RacksOf(TruckOf[s]) = {}
      BY <2>2, <3>1 DEF LoadEnd, TypeOK, RacksOf, restartVars
    <3>2. ASSUME NEW r \in RacksOf(TruckOf[s]), CloseLoad(r) PROVE TypeOK'
      <4>1. r \in Racks /\ openLoads[r].tank \in Tanks
        BY <3>2 DEF RacksOf, TypeOK, Load
      <4>2. queued' \in [Tanks -> Nat]
        BY <3>2, <4>1 DEF CloseLoad, TypeOK
      <4>3. openLoads' \in [Racks -> Load \cup {NoLoad}] /\ batch' \in [Racks -> Nat]
        BY <3>2, <4>1 DEF ResetBatch, CloseLoad, TypeOK
      <4>4. /\ outVlv' \in [Tanks -> BOOLEAN]
            /\ runCmd' \in [Racks -> BOOLEAN]
            /\ loadVlv' \in [Racks -> BOOLEAN]
            /\ deadman' \in [Racks -> BOOLEAN]
            /\ srcTank' \in [Racks -> Tanks \cup {0}]
        BY <3>2, <4>1 DEF CloseLoad, TypeOK
      <4> QED
        BY <2>2, <4>2, <4>3, <4>4 DEF LoadEnd, TypeOK, restartVars
    <3> QED
      BY <2>2, <3>1, <3>2 DEF LoadEnd
  <2>3. CASE Rewind
    BY <2>3 DEF Rewind, TypeOK, physicsVars, coilVars, inputVars, auditVars, restartVars
  <2>4. CASE Tick
    <3>1. \A r \in Racks : Delivered(r) \in Nat
      BY DeliveredType
    <3>2. \A t \in Tanks : Draw(1, t) \in Nat /\ Draw(2, t) \in Nat
      BY <3>1 DEF Draw, Racks
    <3>3. \A gal \in Nat, drawn \in Nat : Drained(gal, drawn) \in Nat
      BY DEF Drained
    <3>4. level' \in [Tanks -> Nat] /\ \A t \in Tanks : level'[t] <= InitLevel[t]
      <4>1. \A gal \in Nat, drawn \in Nat : Drained(gal, drawn) <= gal
        BY DEF Drained
      <4>2. ASSUME NEW t \in Tanks
            PROVE  /\ level'[t] = Drained(Drained(level[t], Draw(1, t)), Draw(2, t))
                   /\ level'[t] \in Nat /\ level'[t] <= InitLevel[t]
        <5>1. level[t] \in Nat /\ level[t] <= InitLevel[t] /\ InitLevel[t] \in Nat
          BY DEF TypeOK
        <5>2. level'[t] = Drained(Drained(level[t], Draw(1, t)), Draw(2, t))
          BY <2>4 DEF Tick
        <5> DEFINE half == Drained(level[t], Draw(1, t))
        <5>3. half \in Nat /\ half <= level[t]
          BY <3>2, <3>3, <4>1, <5>1
        <5> HIDE DEF half
        <5>4. Drained(half, Draw(2, t)) \in Nat /\ Drained(half, Draw(2, t)) <= half
          BY <3>2, <3>3, <4>1, <5>3
        <5> QED
          BY <5>1, <5>2, <5>3, <5>4 DEF half
      <4>3. level' = [t \in Tanks |-> Drained(Drained(level[t], Draw(1, t)), Draw(2, t))]
        BY <2>4 DEF Tick
      <4> QED
        BY <4>2, <4>3
    <3>5. totalizer' \in [Racks -> 0 .. MeterMod - 1]
      BY <2>4, <3>1 DEF Masked, Tick, TypeOK
    <3>6. batch' \in [Racks -> Nat]
      BY <2>4, <3>1 DEF Tick, TypeOK
    <3>7. runSts' \in [Racks -> BOOLEAN]
      BY <2>4 DEF Tick, TypeOK, Runs, InterlockOk
    <3>8. Latched \in BOOLEAN
      BY DEF Latched, TypeOK
    <3> QED
      BY <2>4, <3>4, <3>5, <3>6, <3>7, <3>8 DEF Tick, TypeOK, replayVars, auditVars, restartVars
  <2>5. CASE MasterWrite
    <3>1. runCmd' \in [Racks -> BOOLEAN] /\ loadVlv' \in [Racks -> BOOLEAN]
      BY <2>5 DEF MasterWrite, TypeOK, coilVars
    <3>2. outVlv' \in [Tanks -> BOOLEAN] /\ esdReset' \in BOOLEAN
      BY <2>5 DEF MasterWrite, TypeOK, coilVars
    <3>3. srcTank' \in [Racks -> Tanks \cup {0}]
      BY <2>5 DEF MasterWrite, TypeOK, coilVars
    <3>4. writes' \in 0 .. MaxWrites
      BY <2>5 DEF MasterWrite, TypeOK
    <3> QED
      BY <2>5, <3>1, <3>2, <3>3, <3>4 DEF MasterWrite, TypeOK, replayVars, physicsVars, inputVars, auditVars,
                                                  restartVars
  <2>6. CASE FieldInput
    <3>1. /\ ground' \in [Racks -> BOOLEAN]
          /\ deadman' \in [Racks -> BOOLEAN]
          /\ overfill' \in [Racks -> BOOLEAN]
          /\ esdActive' \in BOOLEAN
      BY <2>6 DEF FieldInput, TypeOK
    <3>2. writes' \in 0 .. MaxWrites
      BY <2>6 DEF FieldInput, TypeOK
    <3> QED
      BY <2>6, <3>1, <3>2 DEF FieldInput, TypeOK, replayVars, physicsVars, coilVars, auditVars,
                                     restartVars
  <2>7. CASE Restart
    <3>1. iteration' \in 0 .. MaxPasses /\ restarts' \in 0 .. MaxPasses
      BY <2>7 DEF Restart, TypeOK
    <3>2. refilled' \in [Tanks -> Nat]
      BY <2>7 DEF Restart, TypeOK
    <3>3. unbooked' \in [Tanks \cup {0} -> Nat]
      <4>1. \A a \in Tanks \cup {0} :
               InFlight(1, a) \in Nat /\ InFlight(2, a) \in Nat /\ InQueue(a) \in Nat
        BY DEF InFlight, InQueue, TypeOK, Racks
      <4> QED
        BY <2>7, <4>1 DEF Restart, TypeOK
    <3>4. level' \in [Tanks -> Nat] /\ \A t \in Tanks : level'[t] <= InitLevel[t]
      BY <2>7 DEF Restart
    <3>5. totalizer' \in [Racks -> 0 .. MeterMod - 1] /\ batch' \in [Racks -> Nat]
      BY <2>7 DEF Restart
    <3> QED
      BY <2>7, <3>1, <3>2, <3>3, <3>4, <3>5 DEF Restart, TypeOK
  <2>8. CASE Flush
    <3>1. \A a \in Tanks \cup {0} : InQueue(a) \in Nat
      BY DEF InQueue, TypeOK
    <3>2. queued' \in [Tanks -> Nat]
      BY <2>8 DEF Flush
    <3>3. booked' \in [Tanks -> Nat] /\ unbooked' \in [Tanks \cup {0} -> Nat]
      BY <2>8, <3>1 DEF Flush, TypeOK
    <3> QED
      BY <2>8, <3>2, <3>3 DEF Flush, TypeOK, replayVars, physicsVars, coilVars, inputVars, restartVars
  <2>9. CASE UNCHANGED vars
    BY <2>9 DEF vars, TypeOK, replayVars, physicsVars, coilVars, inputVars, auditVars, restartVars
  <2> QED
    BY <2>1, <2>2, <2>3, <2>4, <2>5, <2>6, <2>7, <2>8, <2>9 DEF Next, Dispatch
<1> QED
  BY <1>1, <1>2, PTL DEF Spec

-------------------------------------------------------------------------------
(***************************************************************************)
(* Metering.                                                               *)
(***************************************************************************)

(***************************************************************************)
(* The totalizer and the batch counter of every open load agree: the two   *)
(* columns a load_txn row derives its gallons from cannot diverge, through *)
(* wraps of the totalizer, external writes and overwritten loads.          *)
(***************************************************************************)
THEOREM MeteringCorrect == Spec => []MeterMatchesBatch
<1>1. Init => MeterMatchesBatch
  BY DEF Init, MeterMatchesBatch
<1>2. TypeOK /\ MeterMatchesBatch /\ [Next]_vars => MeterMatchesBatch'
  <2> SUFFICES ASSUME TypeOK, MeterMatchesBatch, [Next]_vars,
                      NEW r \in Racks, openLoads'[r] # NoLoad
               PROVE  totalizer'[r] = (openLoads'[r].meter_start + batch'[r]) % MeterMod
    BY DEF MeterMatchesBatch
  <2> USE PhysicsAssumption
  <2>1. ASSUME NEW s \in Sorties, LoadStart(s)
        PROVE  totalizer'[r] = (openLoads'[r].meter_start + batch'[r]) % MeterMod
    <3>1. CASE r = RackOf[TruckOf[s]]
      <4>1. /\ openLoads'[r].meter_start = totalizer[r]
            /\ batch'[r] = 0
            /\ totalizer' = totalizer
        BY <2>1, <3>1 DEF ResetBatch, LoadStart, TypeOK
      <4>2. totalizer[r] \in 0 .. MeterMod - 1
        BY DEF TypeOK
      <4> QED
        BY <4>1, <4>2
    <3>2. CASE r # RackOf[TruckOf[s]]
      BY <2>1, <3>2 DEF ResetBatch, LoadStart, TypeOK, MeterMatchesBatch
    <3> QED
      BY <3>1, <3>2
  <2>2. ASSUME NEW s \in Sorties, LoadEnd(s)
        PROVE  totalizer'[r] = (openLoads'[r].meter_start + batch'[r]) % MeterMod
    <3>1. openLoads'[r] = openLoads[r] /\ batch'[r] = batch[r] /\ totalizer' = totalizer
      BY <2>2 DEF ResetBatch, LoadEnd, CloseLoad, RacksOf, TypeOK
    <3> QED
      BY <3>1 DEF MeterMatchesBatch
  <2>3. CASE Tick
    <3> DEFINE start == openLoads[r].meter_start
    <3>1. openLoads[r] # NoLoad /\ openLoads'[r] = openLoads[r]
      BY <2>3 DEF Tick
    <3>2. start \in Nat /\ batch[r] \in Nat
      BY <3>1 DEF TypeOK, Load
    <3>3. totalizer[r] = (start + batch[r]) % MeterMod
      BY <3>1 DEF MeterMatchesBatch
    <3>4. Delivered(r) \in Nat /\ Delivered(r) < MeterMod
      BY DeliveredType
    <3>5. /\ totalizer'[r] = (totalizer[r] + Delivered(r)) % MeterMod
          /\ batch'[r] = batch[r] + Delivered(r)
      BY <2>3 DEF Masked, Tick
    <3> HIDE DEF start
    <3>6. /\ MeterMod \in Nat \ {0}
          /\ start + batch[r] \in Nat
          /\ start + (batch[r] + Delivered(r)) = (start + batch[r]) + Delivered(r)
      BY <3>2, <3>4
    <3>7. (((start + batch[r]) % MeterMod) + Delivered(r)) % MeterMod
            = ((start + batch[r]) + Delivered(r)) % MeterMod
      BY <3>4, <3>6, MaskedSum, Zenon
    <3> QED
      BY <3>1, <3>3, <3>5, <3>6, <3>7, Zenon DEF start
  <2>4. CASE Rewind \/ Flush \/ MasterWrite \/ FieldInput \/ UNCHANGED vars
    <3>1. openLoads' = openLoads /\ batch' = batch /\ totalizer' = totalizer
      BY <2>4 DEF Rewind, Flush, MasterWrite, FieldInput, vars, physicsVars
    <3> QED
      BY <3>1 DEF MeterMatchesBatch
  <2>5. ~ Restart
    BY DEF Restart
  <2> QED
    BY <2>1, <2>2, <2>3, <2>4, <2>5 DEF Next, Dispatch
<1> QED
  BY <1>1, <1>2, TypeCorrect, PTL DEF Spec

-------------------------------------------------------------------------------
(***************************************************************************)
(* Levels.                                                                 *)
(***************************************************************************)

(***************************************************************************)
(* A rack that delivers draws on a tank above its switch point.            *)
(***************************************************************************)
LEMMA DrawNeedsLevel ==
  ASSUME TypeOK, NEW r \in Racks, NEW t \in Tanks
  PROVE  Draw(r, t) = 0 \/ (Draw(r, t) = Flow /\ level[t] > LoLevel)
  BY PhysicsAssumption DEF AboveCutout, Draw, Delivered, Runs, InterlockOk, TypeOK

(***************************************************************************)
(* The max(0, ...) of the tick never bites: the low-level switch leaves    *)
(* room for both racks.                                                    *)
(***************************************************************************)
LEMMA NoClamp ==
  ASSUME TypeOK, NEW t \in Tanks
  PROVE  /\ Draw(1, t) \in Nat /\ Draw(2, t) \in Nat
         /\ Draw(1, t) + Draw(2, t) <= level[t]
         /\ Drained(Drained(level[t], Draw(1, t)), Draw(2, t))
              = level[t] - (Draw(1, t) + Draw(2, t))
<1>1. /\ Draw(1, t) = 0 \/ (Draw(1, t) = Flow /\ level[t] > LoLevel)
      /\ Draw(2, t) = 0 \/ (Draw(2, t) = Flow /\ level[t] > LoLevel)
  BY DrawNeedsLevel DEF Racks
<1>2. level[t] \in Nat
  BY DEF TypeOK
<1> QED
  BY <1>1, <1>2, PhysicsAssumption DEF Drained

(***************************************************************************)
(* The low-level cutout holds to within one tick of both pumps, whoever    *)
(* writes to the bus.                                                      *)
(***************************************************************************)
THEOREM LevelSafe == Spec => []LevelFloor
<1>1. Init => LevelFloor
  BY DEF Init, LevelFloor
<1>2. TypeOK /\ LevelFloor /\ [Next]_vars => LevelFloor'
  <2> SUFFICES ASSUME TypeOK, LevelFloor, [Next]_vars, NEW t \in Tanks
               PROVE  level'[t] = InitLevel[t] \/ level'[t] + 2 * Flow > LoLevel
    BY DEF LevelFloor
  <2>1. CASE Tick
    <3>1. level'[t] = level[t] - (Draw(1, t) + Draw(2, t))
      BY <2>1, NoClamp DEF Tick
    <3>2. /\ Draw(1, t) = 0 \/ (Draw(1, t) = Flow /\ level[t] > LoLevel)
          /\ Draw(2, t) = 0 \/ (Draw(2, t) = Flow /\ level[t] > LoLevel)
      BY DrawNeedsLevel DEF Racks
    <3>3. level[t] \in Nat
      BY DEF TypeOK
    <3> QED
      BY <3>1, <3>2, <3>3, PhysicsAssumption DEF LevelFloor
  <2>2. CASE level' = level
    BY <2>2 DEF LevelFloor
  <2>3. CASE Restart
    BY <2>3 DEF Restart
  <2> QED
    BY <2>1, <2>2, <2>3 DEF Next, Dispatch, LoadStart, LoadEnd, Rewind, Flush, MasterWrite,
                      FieldInput, vars, physicsVars
<1> QED
  BY <1>1, <1>2, TypeCorrect, PTL DEF Spec

-------------------------------------------------------------------------------
(***************************************************************************)
(* Emergency shutdown.                                                     *)
(***************************************************************************)

(***************************************************************************)
(* While ESD_ACTIVE is set and no reset is pending, no step moves fuel or  *)
(* clears it.                                                              *)
(***************************************************************************)
THEOREM EsdSafe == Spec => EsdHolds
<1> DEFINE Holds == esdActive /\ ~ esdReset /\ restarts' = restarts =>
                      esdActive' /\ level' = level /\ totalizer' = totalizer
<1>1. TypeOK /\ [Next]_vars => [Holds]_vars
  <2> SUFFICES ASSUME TypeOK, [Next]_vars, esdActive, ~ esdReset, restarts' = restarts
               PROVE  esdActive' /\ level' = level /\ totalizer' = totalizer
    OBVIOUS
  <2>1. CASE Tick
    <3>1. Latched
      BY DEF Latched
    <3>2. \A r \in Racks : Delivered(r) = 0
      BY <3>1 DEF Delivered, Runs, InterlockOk
    <3>3. ASSUME NEW r \in Racks PROVE totalizer'[r] = totalizer[r]
      <4>1. totalizer'[r] = (totalizer[r] + Delivered(r)) % MeterMod
        BY <2>1 DEF Masked, Tick
      <4>2. totalizer[r] \in 0 .. MeterMod - 1 /\ Delivered(r) = 0
        BY <3>2 DEF TypeOK
      <4> QED
        BY <4>1, <4>2, PhysicsAssumption
    <3>4. \A t \in Tanks : level'[t] = level[t]
      BY <2>1, <3>2 DEF Tick, TypeOK, Draw, Drained, Racks
    <3>5. esdActive'
      BY <2>1, <3>1, Zenon DEF Tick
    <3>6. totalizer' = totalizer
      BY <2>1, <3>3 DEF Tick, TypeOK
    <3>7. level' = level
      BY <2>1, <3>4 DEF Tick, TypeOK
    <3> QED
      BY <3>5, <3>6, <3>7
  <2>2. CASE \E s \in Sorties : LoadStart(s) \/ LoadEnd(s)
    BY <2>2 DEF LoadStart, LoadEnd
  <2>3. CASE Rewind \/ Flush \/ UNCHANGED vars
    BY <2>3 DEF Rewind, Flush, vars, physicsVars, inputVars
  <2>4. CASE MasterWrite
    BY <2>4 DEF MasterWrite, physicsVars, inputVars
  <2>5. CASE FieldInput
    BY <2>5 DEF FieldInput, physicsVars
  <2>6. ~ Restart
    BY DEF Restart, TypeOK
  <2> QED
    BY <2>1, <2>2, <2>3, <2>4, <2>5, <2>6 DEF Next, Dispatch
<1> QED
  BY <1>1, TypeCorrect, PTL DEF Spec, EsdHolds

-------------------------------------------------------------------------------
(***************************************************************************)
(* The ledger.                                                             *)
(***************************************************************************)

(***************************************************************************)
(* What leaves the tanks in a tick is what the meters count.               *)
(***************************************************************************)
LEMMA DrawsAreDelivered ==
  ASSUME TypeOK, NEW r \in Racks
  PROVE  Draw(r, 1) + Draw(r, 2) + Draw(r, 3) = Delivered(r)
<1>1. SourceOf(r) \in {0, 1, 2, 3}
  BY SourceType DEF Tanks
<1>2. SourceOf(r) = 0 => Delivered(r) = 0
  BY DEF Delivered, Runs, InterlockOk
<1>3. Delivered(r) \in Nat
  BY DeliveredType
<1> QED
  BY <1>1, <1>2, <1>3 DEF Draw

(***************************************************************************)
(* A tick is a Dispense.                                                   *)
(***************************************************************************)
LEMMA TickDispenses ==
  ASSUME TypeOK, Tick
  PROVE  Books!Dispense
<1> DEFINE gal == Delivered(1) + Delivered(2)
           out(t) == Draw(1, t) + Draw(2, t)
<1>1. Delivered(1) \in Nat /\ Delivered(2) \in Nat
  BY DeliveredType DEF Racks
<1>2. \A t \in Tanks : /\ Draw(1, t) \in Nat /\ Draw(2, t) \in Nat
                       /\ Draw(1, t) + Draw(2, t) <= level[t]
                       /\ level'[t] = level[t] - (Draw(1, t) + Draw(2, t))
  BY NoClamp DEF Tick
<1>3. \A t \in Tanks : level[t] \in Nat
  BY DEF TypeOK
<1>4. /\ Draw(1, 1) + Draw(1, 2) + Draw(1, 3) = Delivered(1)
      /\ Draw(2, 1) + Draw(2, 2) + Draw(2, 3) = Delivered(2)
  BY DrawsAreDelivered DEF Racks
<1>5. gal \in 0 .. Stored /\ Stored' = Stored - gal
  BY <1>1, <1>2, <1>3, <1>4 DEF Stored, Tanks
<1>6. Metered' = Metered + gal
  BY <1>1 DEF Tick, Metered, Racks, TypeOK
<1>7. UNCHANGED <<Supplied, Queued, Booked, Unbooked>>
  BY DEF Tick, auditVars, restartVars, Supplied, Queued, Booked, Unbooked
<1> HIDE DEF gal
<1> QED
  BY <1>5, <1>6, <1>7, Zenon DEF Books!Dispense

(***************************************************************************)
(* A load_start drops what the rack's counter holds (nothing, when the     *)
(* load before it was closed).                                             *)
(***************************************************************************)
LEMMA LoadStartDrops ==
  ASSUME TypeOK, NEW s \in Sorties, LoadStart(s)
  PROVE  Books!Drop
<1> DEFINE r == RackOf[TruckOf[s]]
<1>1. r \in Racks
  BY TimelineAssumption
<1>2. AccountOf(r) \in Tanks \cup {0}
  BY <1>1 DEF AccountOf, TypeOK, Load
<1>3. /\ unbooked' = [unbooked EXCEPT ![AccountOf(r)] = @ + batch[r]]
      /\ batch' = [batch EXCEPT ![r] = 0]
  BY DEF ResetBatch, LoadStart
<1>4. UNCHANGED <<Supplied, Stored, Queued, Booked>>
  BY DEF LoadStart, restartVars, Supplied, Stored, Queued, Booked
<1> HIDE DEF r
<1>5. batch[1] \in Nat /\ batch[2] \in Nat /\ batch[r] \in 0 .. Metered
  BY <1>1 DEF TypeOK, Metered, Racks
<1>6. Metered' = Metered - batch[r]
  BY <1>1, <1>3, <1>5 DEF TypeOK, Metered, Racks
<1>7. Unbooked' = Unbooked + batch[r]
  BY <1>1, <1>2, <1>3, <1>5 DEF TypeOK, Unbooked, Tanks
<1> QED
  BY <1>4, <1>5, <1>6, <1>7, Zenon DEF Books!Drop

(***************************************************************************)
(* Closing a load submits its batch.                                       *)
(***************************************************************************)
LEMMA CloseLoadSubmits ==
  ASSUME TypeOK, NEW r \in Racks, openLoads[r] # NoLoad, CloseLoad(r),
         UNCHANGED <<level, booked, unbooked, refilled>>
  PROVE  Books!Submit
<1> DEFINE t == openLoads[r].tank
<1>1. t \in Tanks
  BY DEF TypeOK, Load
<1>2. /\ queued' = [queued EXCEPT ![t] = @ + batch[r]]
      /\ batch' = [batch EXCEPT ![r] = 0]
  BY DEF ResetBatch, CloseLoad
<1>3. UNCHANGED <<Supplied, Stored, Booked, Unbooked>>
  BY DEF Supplied, Stored, Booked, Unbooked
<1> HIDE DEF t
<1>4. batch[1] \in Nat /\ batch[2] \in Nat /\ batch[r] \in 0 .. Metered
  BY DEF TypeOK, Metered, Racks
<1>5. Metered' = Metered - batch[r]
  BY <1>2, <1>4 DEF TypeOK, Metered, Racks
<1>6. Queued' = Queued + batch[r]
  BY <1>1, <1>2, <1>4 DEF TypeOK, Queued, Tanks
<1> QED
  BY <1>3, <1>4, <1>5, <1>6, Zenon DEF Books!Submit

(***************************************************************************)
(* A round of the flusher books what is queued, or loses it.               *)
(***************************************************************************)
LEMMA FlushSettles ==
  ASSUME TypeOK, Flush
  PROVE  Books!Book \/ Books!Lose
<1>1. \A t \in {1, 2, 3} : queued[t] \in Nat /\ booked[t] \in Nat /\ unbooked[t] \in Nat
  BY DEF TypeOK, Tanks
<1>2. UNCHANGED <<Supplied, Stored, Metered>>
  BY DEF Flush, physicsVars, restartVars, Supplied, Stored, Metered
<1>3. Queued' = 0
  BY DEF Flush, Queued, Tanks
<1>4. CASE booked' = [t \in Tanks |-> booked[t] + queued[t]] /\ UNCHANGED unbooked
  <2>1. Booked' = Booked + Queued
    BY <1>1, <1>4 DEF Booked, Queued, Tanks
  <2>2. Unbooked' = Unbooked
    BY <1>4 DEF Unbooked
  <2> QED
    BY <1>2, <1>3, <2>1, <2>2, Zenon DEF Books!Book
<1>5. CASE /\ unbooked' = [a \in Tanks \cup {0} |-> unbooked[a] + InQueue(a)]
           /\ UNCHANGED booked
  <2>1. /\ unbooked'[0] = unbooked[0] + 0
        /\ \A t \in {1, 2, 3} : unbooked'[t] = unbooked[t] + queued[t]
    BY <1>5 DEF InQueue, Tanks
  <2>2. unbooked[0] \in Nat
    BY DEF TypeOK
  <2>3. Unbooked' = Unbooked + Queued
    BY <1>1, <2>1, <2>2 DEF Unbooked, Queued
  <2>4. Booked' = Booked
    BY <1>5 DEF Booked
  <2> QED
    BY <1>2, <1>3, <2>3, <2>4, Zenon DEF Books!Lose
<1> QED
  BY <1>4, <1>5 DEF Flush

(***************************************************************************)
(* A restart restocks the tanks and drops what both racks had metered,     *)
(* each batch from the one account it is on, and what was queued.          *)
(***************************************************************************)
LEMMA RestartRestocks ==
  ASSUME TypeOK, Restart
  PROVE  Books!Restock
<1>1. \A t \in Tanks : /\ level[t] \in Nat /\ InitLevel[t] \in Nat /\ level[t] <= InitLevel[t]
                       /\ refilled[t] \in Nat
                       /\ refilled'[t] = refilled[t] + (InitLevel[t] - level[t])
                       /\ level'[t] = InitLevel[t]
  BY PhysicsAssumption DEF TypeOK, Restart
<1> DEFINE gal == (InitLevel[1] - level[1]) + (InitLevel[2] - level[2]) + (InitLevel[3] - level[3])
<1>2. /\ gal \in 0 .. (InitLevel[1] + InitLevel[2] + InitLevel[3])
      /\ Supplied' = Supplied + gal
      /\ Stored' = Stored + gal
  BY <1>1 DEF Supplied, Stored, Tanks
<1>3. Metered' = 0 /\ Queued' = 0
  BY DEF Restart, Metered, Queued, Racks, Tanks
<1>4. ASSUME NEW r \in Racks
      PROVE  InFlight(r, 0) + InFlight(r, 1) + InFlight(r, 2) + InFlight(r, 3) = batch[r]
  <2>1. AccountOf(r) \in {0, 1, 2, 3} /\ batch[r] \in Nat
    BY DEF AccountOf, TypeOK, Load, Tanks
  <2> QED
    BY <2>1 DEF InFlight
<1>5. \A a \in {0, 1, 2, 3} : /\ InFlight(1, a) \in Nat /\ InFlight(2, a) \in Nat
                              /\ unbooked[a] \in Nat /\ InQueue(a) \in Nat
                              /\ unbooked'[a] = unbooked[a] + InQueue(a)
                                                 + InFlight(1, a) + InFlight(2, a)
  BY DEF Restart, TypeOK, InFlight, InQueue, Tanks, Racks
<1>6. /\ InFlight(1, 0) + InFlight(1, 1) + InFlight(1, 2) + InFlight(1, 3) = batch[1]
      /\ InFlight(2, 0) + InFlight(2, 1) + InFlight(2, 2) + InFlight(2, 3) = batch[2]
      /\ batch[1] \in Nat /\ batch[2] \in Nat
  BY <1>4 DEF Racks, TypeOK
<1>7. InQueue(0) + InQueue(1) + InQueue(2) + InQueue(3) = Queued
  BY DEF InQueue, Queued, Tanks, TypeOK
<1>8. Unbooked' = Unbooked + (Metered + Queued)
  <2>1. \A a \in {0, 1, 2, 3} :
           unbooked'[a] = unbooked[a] + (InQueue(a) + (InFlight(1, a) + InFlight(2, a)))
    BY <1>5
  <2>2. Metered + Queued = (InQueue(0) + InFlight(1, 0) + InFlight(2, 0))
                           + (InQueue(1) + InFlight(1, 1) + InFlight(2, 1))
                           + (InQueue(2) + InFlight(1, 2) + InFlight(2, 2))
                           + (InQueue(3) + InFlight(1, 3) + InFlight(2, 3))
    BY <1>5, <1>6, <1>7 DEF Metered
  <2> QED
    BY <1>5, <2>1, <2>2 DEF Unbooked
<1>9. Booked' = Booked
  BY DEF Restart, Booked
<1> HIDE DEF gal
<1> QED
  BY <1>2, <1>3, <1>8, <1>9, Zenon DEF Books!Restock

(***************************************************************************)
(* The farm implements the ledger: every gallon that leaves a tank is      *)
(* metered, and every metered gallon is in flight, queued, booked, or off  *)
(* the books, for every timeline, every loss of the flusher, every restart *)
(* and whoever writes to the bus.                                          *)
(***************************************************************************)
THEOREM FarmKeepsTheBooks == Spec => KeepsTheBooks
<1>1. Init => Books!Init
  BY PhysicsAssumption DEF Init, Books!Init, Supplied, Stored, Metered, Queued, Booked, Unbooked,
                            Tanks, Racks
<1>2. TypeOK /\ [Next]_vars => [Books!Next]_Books!vars
  <2> SUFFICES ASSUME TypeOK, [Next]_vars
               PROVE  Books!Next \/ UNCHANGED <<Supplied, Stored, Metered, Queued, Booked, Unbooked>>
    BY DEF Books!vars
  <2>1. CASE Tick
    BY <2>1, TickDispenses DEF Books!Next
  <2>2. ASSUME NEW s \in Sorties, LoadStart(s) PROVE Books!Next
    BY <2>2, LoadStartDrops DEF Books!Next
  <2>3. ASSUME NEW s \in Sorties, LoadEnd(s)
        PROVE  Books!Next \/ UNCHANGED <<Supplied, Stored, Metered, Queued, Booked, Unbooked>>
    <3>1. ASSUME NEW r \in RacksOf(TruckOf[s]), CloseLoad(r) PROVE Books!Next
      BY <2>3, <3>1, CloseLoadSubmits DEF LoadEnd, RacksOf, restartVars, Books!Next
    <3>2. CASE UNCHANGED <<queued, batch>>
      BY <2>3, <3>2 DEF LoadEnd, restartVars, Supplied, Stored, Metered, Queued, Booked, Unbooked
    <3> QED
      BY <2>3, <3>1, <3>2 DEF LoadEnd
  <2>4. CASE Rewind \/ MasterWrite \/ FieldInput \/ UNCHANGED vars
    <3>1. UNCHANGED <<level, batch, queued, booked, unbooked, refilled>>
      BY <2>4 DEF Rewind, MasterWrite, FieldInput, vars, physicsVars, auditVars, restartVars
    <3> QED
      BY <3>1 DEF Supplied, Stored, Metered, Queued, Booked, Unbooked
  <2>5. CASE Restart
    BY <2>5, RestartRestocks DEF Books!Next
  <2>6. CASE Flush
    BY <2>6, FlushSettles DEF Books!Next
  <2> QED
    BY <2>1, <2>2, <2>3, <2>4, <2>5, <2>6 DEF Next, Dispatch
<1> QED
  BY <1>1, <1>2, TypeCorrect, PTL DEF Spec, KeepsTheBooks, Books!Spec

(***************************************************************************)
(* What left the tanks is what is metered, queued, booked or dropped: the  *)
(* sum the reconciliation query forms, with its missing terms.             *)
(***************************************************************************)
THEOREM FarmBalances == Spec => []Books!Balanced
<1>1. Init => Books!Balanced
  BY PhysicsAssumption DEF Init, Books!Balanced, Supplied, Stored, Metered, Queued, Booked, Unbooked,
                            Tanks, Racks
<1>2. TypeOK => Books!TypeOK
  BY PhysicsAssumption DEF TypeOK, Books!TypeOK, Supplied, Stored, Metered, Queued, Booked,
                                    Unbooked, Tanks, Racks
<1>3. Books!TypeOK /\ Books!Balanced /\ [Books!Next]_Books!vars => Books!Balanced'
  <2> SUFFICES ASSUME Books!TypeOK, Books!Balanced, [Books!Next]_Books!vars
               PROVE  Books!Balanced'
    OBVIOUS
  <2> USE DEF Books!TypeOK, Books!Balanced
  <2>1. CASE Books!Dispense
    BY <2>1 DEF Books!Dispense
  <2>2. CASE Books!Submit
    BY <2>2 DEF Books!Submit
  <2>3. CASE Books!Book
    BY <2>3 DEF Books!Book
  <2>4. CASE Books!Drop
    BY <2>4 DEF Books!Drop
  <2>5. CASE Books!Lose
    BY <2>5 DEF Books!Lose
  <2>6. CASE Books!Restock
    BY <2>6 DEF Books!Restock
  <2>7. CASE UNCHANGED Books!vars
    BY <2>7 DEF Books!vars
  <2> QED
    BY <2>1, <2>2, <2>3, <2>4, <2>5, <2>6, <2>7 DEF Books!Next
<1> QED
  BY <1>1, <1>2, <1>3, TypeCorrect, FarmKeepsTheBooks, PTL DEF Spec, KeepsTheBooks, Books!Spec

-------------------------------------------------------------------------------
(***************************************************************************)
(* The closed farm: nobody but the dispatcher writes commands.             *)
(***************************************************************************)

(***************************************************************************)
(* A rack without a load is commanded off and has metered nothing; a rack  *)
(* with one draws on the load's tank.                                      *)
(***************************************************************************)
CommandsFollowLoads ==
  \A r \in Racks : IF openLoads[r] = NoLoad THEN ~ runCmd[r] /\ batch[r] = 0
                                            ELSE srcTank[r] = openLoads[r].tank

LEMMA ClosedCommands ==
  ASSUME MaxWrites = 0
  PROVE  Spec => []CommandsFollowLoads
<1>1. Init => CommandsFollowLoads
  BY DEF Init, CommandsFollowLoads
<1>2. TypeOK /\ CommandsFollowLoads /\ [Next]_vars => CommandsFollowLoads'
  <2> SUFFICES ASSUME TypeOK, CommandsFollowLoads, [Next]_vars, NEW r \in Racks
               PROVE  IF openLoads'[r] = NoLoad THEN ~ runCmd'[r] /\ batch'[r] = 0
                                                ELSE srcTank'[r] = openLoads'[r].tank
    BY DEF CommandsFollowLoads
  <2>1. CASE Tick
    <3>1. /\ openLoads' = openLoads /\ runCmd' = runCmd /\ srcTank' = srcTank
          /\ batch'[r] = batch[r] + Delivered(r)
      BY <2>1 DEF Tick
    <3>2. ~ runCmd[r] => Delivered(r) = 0
      BY DEF Delivered, Runs
    <3> QED
      BY <3>1, <3>2 DEF CommandsFollowLoads
  <2>2. ASSUME NEW s \in Sorties, LoadStart(s)
        PROVE  IF openLoads'[r] = NoLoad THEN ~ runCmd'[r] /\ batch'[r] = 0
                                         ELSE srcTank'[r] = openLoads'[r].tank
    <3>1. CASE r = RackOf[TruckOf[s]]
      <4>1. openLoads'[r] \in Load /\ openLoads'[r].tank = srcTank'[r]
        BY <2>2, <3>1, NewLoadType DEF LoadStart, TypeOK
      <4> QED
        BY <4>1, NoLoadAssumption
    <3>2. CASE r # RackOf[TruckOf[s]]
      <4>1. /\ openLoads'[r] = openLoads[r] /\ runCmd'[r] = runCmd[r]
            /\ batch'[r] = batch[r] /\ srcTank'[r] = srcTank[r]
        BY <2>2, <3>2 DEF ResetBatch, LoadStart, TypeOK
      <4> QED
        BY <4>1 DEF CommandsFollowLoads
    <3> QED
      BY <3>1, <3>2
  <2>3. ASSUME NEW s \in Sorties, LoadEnd(s)
        PROVE  IF openLoads'[r] = NoLoad THEN ~ runCmd'[r] /\ batch'[r] = 0
                                         ELSE srcTank'[r] = openLoads'[r].tank
    <3>1. ASSUME NEW q \in Racks, CloseLoad(q)
          PROVE  IF openLoads'[r] = NoLoad THEN ~ runCmd'[r] /\ batch'[r] = 0
                                           ELSE srcTank'[r] = openLoads'[r].tank
      <4>1. CASE r = q
        BY <3>1, <4>1 DEF ResetBatch, CloseLoad, TypeOK
      <4>2. CASE r # q
        <5>1. /\ openLoads'[r] = openLoads[r] /\ runCmd'[r] = runCmd[r]
              /\ batch'[r] = batch[r] /\ srcTank'[r] = srcTank[r]
          BY <3>1, <4>2 DEF ResetBatch, CloseLoad, TypeOK
        <5> QED
          BY <5>1 DEF CommandsFollowLoads
      <4> QED
        BY <4>1, <4>2
    <3>2. CASE UNCHANGED <<openLoads, batch, runCmd, srcTank>>
      BY <3>2 DEF CommandsFollowLoads
    <3> QED
      BY <2>3, <3>1, <3>2 DEF LoadEnd, RacksOf
  <2>4. CASE Rewind \/ Flush \/ UNCHANGED vars
    <3>1. UNCHANGED <<openLoads, batch, runCmd, srcTank>>
      BY <2>4 DEF Rewind, Flush, vars, physicsVars, coilVars
    <3> QED
      BY <3>1 DEF CommandsFollowLoads
  <2>5. ~ MasterWrite /\ ~ FieldInput
    BY MaxWrites = 0 DEF MasterWrite, FieldInput, TypeOK
  <2>6. CASE Restart
    BY <2>6 DEF Restart
  <2> QED
    BY <2>1, <2>2, <2>3, <2>4, <2>5, <2>6 DEF Next, Dispatch
<1> QED
  BY <1>1, <1>2, TypeCorrect, PTL DEF Spec

(***************************************************************************)
(* A tick adds to the loads of a tank what it takes out of that tank.      *)
(***************************************************************************)
LEMMA TickFillsLoads ==
  ASSUME TypeOK, CommandsFollowLoads, Tick, NEW r \in Racks, NEW t \in Tanks
  PROVE  InFlight(r, t)' = InFlight(r, t) + Draw(r, t)
<1>1. AccountOf(r)' = AccountOf(r) /\ batch'[r] = batch[r] + Delivered(r)
  BY DEF Tick, AccountOf
<1>2. batch[r] \in Nat /\ Delivered(r) \in Nat
  BY DeliveredType DEF TypeOK
<1>3. CASE openLoads[r] = NoLoad
  <2>1. Delivered(r) = 0 /\ AccountOf(r) = 0
    BY <1>3 DEF CommandsFollowLoads, Delivered, Runs, AccountOf
  <2> QED
    BY <1>1, <2>1 DEF InFlight, Draw, Tanks
<1>4. CASE openLoads[r] # NoLoad
  <2>1. openLoads[r].tank \in Tanks
    BY <1>4 DEF TypeOK, Load
  <2>2. SourceOf(r) = AccountOf(r)
    BY <1>4, <2>1 DEF CommandsFollowLoads, SourceOf, AccountOf
  <2> QED
    BY <1>1, <1>2, <2>2 DEF InFlight, Draw
<1> QED
  BY <1>3, <1>4

(***************************************************************************)
(* In the closed farm every tank reconciles: its drawdown is its stored    *)
(* rows, its queued rows, its open loads, and the gallons no row will ever *)
(* show, each charged to the tank its load named.                          *)
(***************************************************************************)
THEOREM ClosedFarmReconciles ==
  ASSUME MaxWrites = 0
  PROVE  Spec => []TankReconciles
<1>1. Init => TankReconciles
  BY PhysicsAssumption DEF Init, TankReconciles, Drawn, InFlight, Tanks, Racks
<1>2. TypeOK /\ CommandsFollowLoads /\ TankReconciles /\ [Next]_vars => TankReconciles'
  <2> SUFFICES ASSUME TypeOK, CommandsFollowLoads, TankReconciles, [Next]_vars
               PROVE  TankReconciles'
    OBVIOUS
  <2>1. /\ unbooked[0] = 0
        /\ \A t \in Tanks : /\ level[t] \in Nat /\ InitLevel[t] \in Nat
                             /\ queued[t] \in Nat /\ booked[t] \in Nat
                             /\ unbooked[t] \in Nat /\ refilled[t] \in Nat
                             /\ InFlight(1, t) \in Nat /\ InFlight(2, t) \in Nat
                             /\ refilled[t] + (InitLevel[t] - level[t]) =
                                  booked[t] + queued[t] + unbooked[t]
                                    + InFlight(1, t) + InFlight(2, t)
    BY PhysicsAssumption DEF TankReconciles, Drawn, TypeOK, InFlight, Racks
  <2>2. CASE Tick
    <3> SUFFICES ASSUME NEW t \in Tanks
                 PROVE  refilled[t] + (InitLevel[t] - level'[t]) =
                          booked[t] + queued[t] + unbooked[t]
                            + InFlight(1, t)' + InFlight(2, t)'
      BY <2>1, <2>2 DEF Tick, auditVars, restartVars, TankReconciles, Drawn
    <3>1. level'[t] = level[t] - (Draw(1, t) + Draw(2, t))
      BY <2>2, NoClamp DEF Tick
    <3>2. /\ InFlight(1, t)' = InFlight(1, t) + Draw(1, t)
          /\ InFlight(2, t)' = InFlight(2, t) + Draw(2, t)
      BY <2>2, TickFillsLoads DEF Racks
    <3>3. Draw(1, t) \in Nat /\ Draw(2, t) \in Nat
      BY NoClamp
    <3> QED
      BY <2>1, <3>1, <3>2, <3>3
  <2>3. ASSUME NEW s \in Sorties, LoadStart(s) PROVE TankReconciles'
    <3> DEFINE r == RackOf[TruckOf[s]]
    <3>1. r \in Racks
      BY TimelineAssumption
    <3>2. AccountOf(r) \in Tanks \cup {0} /\ batch[r] \in Nat
      BY <3>1 DEF AccountOf, TypeOK, Load
    <3>3. unbooked' = [unbooked EXCEPT ![AccountOf(r)] = @ + batch[r]]
      BY <2>3 DEF LoadStart
    <3>4. AccountOf(r) = 0 => batch[r] = 0
      BY <3>1 DEF CommandsFollowLoads, AccountOf, TypeOK, Load, Tanks
    <3>5. unbooked'[0] = 0
      BY <2>1, <3>2, <3>3, <3>4 DEF TypeOK
    <3>6. UNCHANGED <<level, queued, booked, refilled>>
      BY <2>3 DEF LoadStart, restartVars
    <3>7. \A q \in Racks, t \in Tanks :
             InFlight(q, t)' = IF q = r THEN 0 ELSE InFlight(q, t)
      BY <2>3, <3>1 DEF ResetBatch, LoadStart, InFlight, AccountOf, TypeOK
    <3>8. \A t \in Tanks :
             unbooked'[t] = IF AccountOf(r) = t THEN unbooked[t] + batch[r] ELSE unbooked[t]
      BY <3>3 DEF TypeOK
    <3> HIDE DEF r
    <3>9. \A t \in Tanks : unbooked'[t] = unbooked[t] + InFlight(r, t)
      BY <2>1, <3>8 DEF InFlight
    <3> QED
      BY <2>1, <3>1, <3>5, <3>6, <3>7, <3>9 DEF TankReconciles, Drawn, Racks
  <2>4. ASSUME NEW s \in Sorties, LoadEnd(s) PROVE TankReconciles'
    <3>1. UNCHANGED <<booked, unbooked, level, refilled>>
      BY <2>4 DEF LoadEnd, restartVars
    <3>2. ASSUME NEW r \in RacksOf(TruckOf[s]), CloseLoad(r) PROVE TankReconciles'
      <4>1. r \in Racks /\ openLoads[r] # NoLoad /\ openLoads[r].tank \in Tanks
        BY <3>2 DEF RacksOf, TypeOK, Load
      <4>2. \A q \in Racks, t \in Tanks :
               InFlight(q, t)' = IF q = r THEN 0 ELSE InFlight(q, t)
        BY <3>2, <4>1 DEF ResetBatch, CloseLoad, InFlight, AccountOf, TypeOK
      <4>3. \A t \in Tanks : queued'[t] = queued[t] + InFlight(r, t)
        BY <2>1, <3>2, <4>1 DEF CloseLoad, InFlight, AccountOf, TypeOK
      <4> QED
        BY <2>1, <3>1, <4>1, <4>2, <4>3 DEF TankReconciles, Drawn, Racks
    <3>3. CASE UNCHANGED <<queued, openLoads, batch>>
      BY <3>1, <3>3 DEF TankReconciles, Drawn, InFlight, AccountOf
    <3> QED
      BY <2>4, <3>2, <3>3 DEF LoadEnd
  <2>5. CASE Rewind \/ UNCHANGED vars
    <3>1. UNCHANGED <<openLoads, batch, queued, booked, unbooked, level, refilled>>
      BY <2>5 DEF Rewind, vars, physicsVars, auditVars, restartVars
    <3> QED
      BY <3>1 DEF TankReconciles, Drawn, InFlight, AccountOf
  <2>6. ~ MasterWrite /\ ~ FieldInput
    BY MaxWrites = 0 DEF MasterWrite, FieldInput, TypeOK
  <2>7. CASE Restart
    <3>1. \A t \in Tanks : /\ refilled'[t] = refilled[t] + (InitLevel[t] - level[t])
                           /\ level'[t] = InitLevel[t]
                           /\ booked'[t] = booked[t]
                           /\ queued'[t] = 0
                           /\ unbooked'[t] = unbooked[t] + queued[t]
                                              + InFlight(1, t) + InFlight(2, t)
                           /\ InFlight(1, t)' = 0 /\ InFlight(2, t)' = 0
      BY <2>7 DEF Restart, InQueue, InFlight, AccountOf, Racks
    <3>2. unbooked'[0] = 0
      <4>1. \A r \in Racks : InFlight(r, 0) = 0
        BY DEF InFlight, AccountOf, CommandsFollowLoads, TypeOK, Load, Tanks
      <4> QED
        BY <2>1, <2>7, <4>1 DEF Restart, InQueue, Racks, Tanks
    <3> QED
      BY <2>1, <3>1, <3>2 DEF TankReconciles, Drawn
  <2>8. CASE Flush
    <3>1. \A t \in Tanks : /\ UNCHANGED <<level[t], refilled[t], InFlight(1, t), InFlight(2, t)>>
                           /\ queued'[t] = 0
                           /\ \/ /\ booked'[t] = booked[t] + queued[t]
                                 /\ unbooked'[t] = unbooked[t]
                              \/ /\ booked'[t] = booked[t]
                                 /\ unbooked'[t] = unbooked[t] + queued[t]
      BY <2>8 DEF Flush, InQueue, InFlight, AccountOf, physicsVars, restartVars
    <3>2. unbooked'[0] = 0
      BY <2>1, <2>8 DEF Flush, InQueue, Tanks
    <3> QED
      BY <2>1, <3>1, <3>2 DEF TankReconciles, Drawn
  <2> QED
    BY <2>2, <2>3, <2>4, <2>5, <2>6, <2>7, <2>8 DEF Next, Dispatch
<1> QED
  BY <1>1, <1>2, TypeCorrect, ClosedCommands, PTL DEF Spec

(***************************************************************************)
(* In the closed farm fuel only ever leaves a tank for an open load that   *)
(* names it.                                                               *)
(***************************************************************************)
THEOREM ClosedFarmServesLoads ==
  ASSUME MaxWrites = 0
  PROVE  Spec => FuelGoesToALoad
<1> DEFINE Served == \A t \in Tanks : level'[t] < level[t] =>
             \E r \in Racks : openLoads[r] # NoLoad /\ openLoads[r].tank = t /\ runSts'[r]
<1>1. TypeOK /\ CommandsFollowLoads /\ [Next]_vars => [Served]_vars
  <2> SUFFICES ASSUME TypeOK, CommandsFollowLoads, [Next]_vars,
                      NEW t \in Tanks, level'[t] < level[t]
               PROVE  \E r \in Racks :
                        openLoads[r] # NoLoad /\ openLoads[r].tank = t /\ runSts'[r]
    OBVIOUS
  <2>1. level' # level
    BY DEF TypeOK
  <2>2. Tick
    <3>1. ~ Restart
      BY PhysicsAssumption DEF Restart, TypeOK
    <3> QED
      BY <2>1, <3>1 DEF Next, Dispatch, LoadStart, LoadEnd, Rewind, Flush, MasterWrite,
                        FieldInput, vars, physicsVars
  <2>3. level'[t] = level[t] - (Draw(1, t) + Draw(2, t))
    BY <2>2, NoClamp DEF Tick
  <2>4. PICK r \in Racks : Draw(r, t) # 0
    BY <2>3 DEF TypeOK, Racks
  <2>5. Runs(r) /\ SourceOf(r) = t
    BY <2>4 DEF Draw, Delivered
  <2>6. openLoads[r] # NoLoad /\ srcTank[r] = openLoads[r].tank
    BY <2>5 DEF Runs, CommandsFollowLoads
  <2>7. openLoads[r].tank = t
    BY <2>5, <2>6 DEF SourceOf, TypeOK, Load
  <2>8. runSts'[r]
    BY <2>2, <2>5, Zenon DEF Tick
  <2> QED
    BY <2>6, <2>7, <2>8
<1> QED
  BY <1>1, TypeCorrect, ClosedCommands, PTL DEF Spec, FuelGoesToALoad

-------------------------------------------------------------------------------
(***************************************************************************)
(* The end of a pass over the timeline.                                    *)
(***************************************************************************)

(***************************************************************************)
(* Every open load is at its truck's own rack and some load event of that  *)
(* truck is still to end; a rack without a load carries no command.  (A    *)
(* load that the truck's next one overwrites is ended by either's event.)  *)
(***************************************************************************)
LoadsAwaitTheirEnd ==
  \A r \in Racks :
    IF openLoads[r] = NoLoad
    THEN ~ runCmd[r] /\ ~ loadVlv[r] /\ ~ deadman[r] /\ srcTank[r] = 0
    ELSE /\ RackOf[openLoads[r].truck] = r
         /\ \E s \in Sorties : TruckOf[s] = openLoads[r].truck /\ stage[s] = "loading"

(***************************************************************************)
(* LoadsAwaitTheirEnd is kept by every step of the closed farm.            *)
(***************************************************************************)
LEMMA ClosedLoadsAwaitTheirEnd ==
  ASSUME MaxWrites = 0
  PROVE  Spec => []LoadsAwaitTheirEnd
<1>1. Init => LoadsAwaitTheirEnd
  BY DEF Init, LoadsAwaitTheirEnd
<1>2. TypeOK /\ LoadsAwaitTheirEnd /\ [Next]_vars => LoadsAwaitTheirEnd'
  <2> DEFINE Awaits(r) ==
        IF openLoads[r] = NoLoad
        THEN ~ runCmd[r] /\ ~ loadVlv[r] /\ ~ deadman[r] /\ srcTank[r] = 0
        ELSE /\ RackOf[openLoads[r].truck] = r
             /\ \E s \in Sorties : TruckOf[s] = openLoads[r].truck /\ stage[s] = "loading"
  <2> SUFFICES ASSUME TypeOK, LoadsAwaitTheirEnd, [Next]_vars, NEW r \in Racks
               PROVE  Awaits(r)'
    BY DEF LoadsAwaitTheirEnd
  <2>1. Awaits(r)
    BY DEF LoadsAwaitTheirEnd
  <2>2. ASSUME NEW s \in Sorties, LoadStart(s) PROVE Awaits(r)'
    <3>1. stage' = [stage EXCEPT ![s] = "loading"]
      BY <2>2 DEF LoadStart
    <3>2. CASE r = RackOf[TruckOf[s]]
      <4>1. openLoads'[r] \in Load /\ openLoads'[r].truck = TruckOf[s]
        BY <2>2, <3>2, NewLoadType DEF LoadStart, TypeOK
      <4>2. stage'[s] = "loading"
        BY <3>1 DEF TypeOK
      <4> QED
        BY <3>2, <4>1, <4>2, NoLoadAssumption
    <3>3. CASE r # RackOf[TruckOf[s]]
      <4>1. /\ openLoads'[r] = openLoads[r] /\ runCmd'[r] = runCmd[r]
            /\ loadVlv'[r] = loadVlv[r] /\ deadman'[r] = deadman[r]
            /\ srcTank'[r] = srcTank[r]
        BY <2>2, <3>3 DEF LoadStart, TypeOK
      <4>2. \A q \in Sorties : stage[q] = "loading" => stage'[q] = "loading"
        BY <3>1 DEF TypeOK
      <4> QED
        BY <2>1, <4>1, <4>2
    <3> QED
      BY <3>2, <3>3
  <2>3. ASSUME NEW s \in Sorties, LoadEnd(s) PROVE Awaits(r)'
    <3>1. stage' = [stage EXCEPT ![s] = "over"]
      BY <2>3 DEF LoadEnd
    <3>2. \A q \in Sorties : TruckOf[q] # TruckOf[s] /\ stage[q] = "loading"
                              => stage'[q] = "loading"
      BY <3>1 DEF TypeOK
    <3>3. ASSUME NEW p \in RacksOf(TruckOf[s]), CloseLoad(p) PROVE Awaits(r)'
      <4>1. /\ p \in Racks /\ openLoads[p] # NoLoad /\ openLoads[p].truck = TruckOf[s]
            /\ p = RackOf[TruckOf[s]]
        BY <3>3 DEF RacksOf, LoadsAwaitTheirEnd
      <4>2. CASE r = p
        BY <3>3, <4>1, <4>2 DEF CloseLoad, TypeOK
      <4>3. CASE r # p
        <5>1. /\ openLoads'[r] = openLoads[r] /\ runCmd'[r] = runCmd[r]
              /\ loadVlv'[r] = loadVlv[r] /\ deadman'[r] = deadman[r]
              /\ srcTank'[r] = srcTank[r]
          BY <3>3, <4>3 DEF CloseLoad, TypeOK
        <5>2. openLoads[r] # NoLoad => openLoads[r].truck # TruckOf[s]
          BY <2>1, <4>1, <4>3
        <5> QED
          BY <2>1, <3>2, <5>1, <5>2
      <4> QED
        BY <4>2, <4>3
    <3>4. CASE /\ RacksOf(TruckOf[s]) = {}
               /\ UNCHANGED <<queued, openLoads, batch, runCmd, loadVlv, deadman, outVlv, srcTank>>
      <4>1. openLoads[r] # NoLoad => openLoads[r].truck # TruckOf[s]
        BY <3>4 DEF RacksOf
      <4> QED
        BY <2>1, <3>2, <3>4, <4>1
    <3> QED
      BY <2>3, <3>3, <3>4 DEF LoadEnd
  <2>4. CASE Rewind
    <3>1. \A s \in Sorties : stage[s] # "loading"
      BY <2>4 DEF Rewind
    <3>2. UNCHANGED <<openLoads, runCmd, loadVlv, deadman, srcTank>>
      BY <2>4 DEF Rewind, coilVars, inputVars
    <3> QED
      BY <2>1, <3>1, <3>2
  <2>5. CASE Tick \/ Flush \/ UNCHANGED vars
    <3>1. UNCHANGED <<stage, openLoads, runCmd, loadVlv, deadman, srcTank>>
      BY <2>5 DEF Tick, Flush, vars, replayVars, coilVars, inputVars
    <3> QED
      BY <2>1, <3>1
  <2>6. CASE Restart
    BY <2>6 DEF Restart
  <2>7. ~ MasterWrite /\ ~ FieldInput
    BY MaxWrites = 0 DEF MasterWrite, FieldInput, TypeOK
  <2> QED
    BY <2>2, <2>3, <2>4, <2>5, <2>6, <2>7 DEF Next, Dispatch
<1> QED
  BY <1>1, <1>2, TypeCorrect, PTL DEF Spec

(***************************************************************************)
(* In the closed farm the timeline wraps cleanly, for every timeline and   *)
(* however its loads overlap: no load and no command outlives the pass.    *)
(***************************************************************************)
THEOREM ClosedFarmWraps ==
  ASSUME MaxWrites = 0
  PROVE  Spec => []WrapsCleanly
<1>1. LoadsAwaitTheirEnd => WrapsCleanly
  BY DEF LoadsAwaitTheirEnd, WrapsCleanly
<1> QED
  BY <1>1, ClosedLoadsAwaitTheirEnd, PTL
===============================================================================
