------------------------------- MODULE FuelFarm -------------------------------
(***************************************************************************)
(* The loading side of fuelsim: the load_start / load_end handlers of      *)
(* state_machine.py, the physics tick of physics.py, and the Modbus image  *)
(* (modbus.py, SimState) through which the two talk and which other Modbus *)
(* masters and the field instruments can write.                            *)
(*                                                                         *)
(* fuelsim is one asyncio thread.  Neither handler nor tick awaits         *)
(* anything that can suspend (the queues are unbounded), so each of them   *)
(* is one action; what interleaves is their order.  A round of db_flusher  *)
(* calls psycopg2, which blocks that thread: it is one action too, either  *)
(* of whose outcomes the database decides.                                 *)
(*                                                                         *)
(* The farm's shape is fixed by the code: three tanks (T-101..T-103 are    *)
(* Tanks 1..3) and two racks, pump r feeding rack r.  Gallons are counted  *)
(* in whole units of which one tick of a running pump moves Flow (2 gal at *)
(* the shipped 600 gpm and 5 Hz).                                          *)
(***************************************************************************)
EXTENDS Integers

CONSTANTS
  Sorties,       \* the timeline's refuelling cycles (generate_timeline.Sortie)
  Trucks,
  TruckOf,       \* the truck that flies sortie s
  TankOf,        \* the source tank of sortie s
  RackOf,        \* the rack of truck k: trucks and racks are dealt round robin
  InitLevel,     \* gallons in each tank at start
  LoLevel,       \* the low-level switch trips at or below this many gallons
  Flow,          \* gallons one running pump moves in one tick
  MeterMod,      \* the totalizer counts modulo this (2^32 in the code)
  NoLoad,        \* no open load at a rack
  FlushMayFail,  \* whether a round of db_flusher may lose what it drained
  MaxPasses,     \* bound: wraps of the timeline and restarts of the process
  MaxWrites      \* bound: writes by other masters and by field instruments

Tanks == 1 .. 3
Racks == 1 .. 2

(***************************************************************************)
(* LoadInProgress: what a load remembers until its load_end.  Its preset   *)
(* is left out: it is shown in a register and stored; nothing obeys it.    *)
(***************************************************************************)
Load == [truck : Trucks, tank : Tanks, meter_start : 0 .. MeterMod - 1]

ASSUME TimelineAssumption ==
  /\ TruckOf \in [Sorties -> Trucks]
  /\ TankOf \in [Sorties -> Tanks]
  /\ RackOf \in [Trucks -> Racks]

ASSUME PhysicsAssumption ==
  /\ Flow \in Nat \ {0}
  /\ MeterMod \in Nat /\ Flow < MeterMod
  /\ LoLevel \in Nat /\ 2 * Flow <= LoLevel + 1
  /\ InitLevel \in [Tanks -> Nat]

ASSUME NoLoadAssumption == NoLoad \notin Load

ASSUME FlushAssumption == FlushMayFail \in BOOLEAN

ASSUME BoundAssumption == MaxPasses \in Nat /\ MaxWrites \in Nat

VARIABLES
  \* replay: which of a sortie's load events have been dispatched
  stage, iteration,
  \* StateMachine.open_loads
  openLoads,
  \* Physics: tank levels, per rack totalizer and gallons of this batch, ESD latch
  level, totalizer, batch, esdLatched,
  \* SimState coils
  runCmd, outVlv, loadVlv, esdReset,
  \* SimState discrete inputs
  ground, deadman, overfill, esdActive, runSts,
  \* SimState holding registers LR*_SRC_TANK (0: unset)
  srcTank,
  \* db_queue: gallons of the load_txn rows it holds, per tank_id
  queued,
  \* SUM(load_txn.gallons) per tank_id in the database, which is what the
  \* reconciliation query sees
  booked,
  \* history: gallons that will never be in a load_txn, by the tank of their
  \* load: it was overwritten or forgotten, or its row was lost in db_queue
  \* (0: gallons metered while no load was open)
  unbooked,
  \* external writes so far
  writes,
  \* restarts of fuelsim so far, and the gallons they put back into each tank
  restarts, refilled

replayVars  == <<stage, iteration>>
physicsVars == <<level, totalizer, batch, esdLatched>>
coilVars    == <<runCmd, outVlv, loadVlv, esdReset>>
inputVars   == <<ground, deadman, overfill, esdActive, runSts>>
auditVars   == <<queued, booked, unbooked>>
restartVars == <<restarts, refilled>>

vars == <<replayVars, openLoads, physicsVars, coilVars, inputVars, srcTank, auditVars, writes,
          restartVars>>

TypeOK ==
  /\ stage \in [Sorties -> {"waiting", "loading", "over"}]
  /\ iteration \in 0 .. MaxPasses
  /\ openLoads \in [Racks -> Load \cup {NoLoad}]
  /\ level \in [Tanks -> Nat] /\ \A t \in Tanks : level[t] <= InitLevel[t]
  /\ totalizer \in [Racks -> 0 .. MeterMod - 1]
  /\ batch \in [Racks -> Nat]
  /\ esdLatched \in BOOLEAN
  /\ runCmd \in [Racks -> BOOLEAN]
  /\ outVlv \in [Tanks -> BOOLEAN]
  /\ loadVlv \in [Racks -> BOOLEAN]
  /\ esdReset \in BOOLEAN
  /\ ground \in [Racks -> BOOLEAN]
  /\ deadman \in [Racks -> BOOLEAN]
  /\ overfill \in [Racks -> BOOLEAN]
  /\ esdActive \in BOOLEAN
  /\ runSts \in [Racks -> BOOLEAN]
  /\ srcTank \in [Racks -> Tanks \cup {0}]
  /\ queued \in [Tanks -> Nat]
  /\ booked \in [Tanks -> Nat]
  /\ unbooked \in [Tanks \cup {0} -> Nat]
  /\ writes \in 0 .. MaxWrites
  /\ restarts \in 0 .. MaxPasses
  /\ refilled \in [Tanks -> Nat]

(***************************************************************************)
(* What a new process starts from: build_physics fills the tanks and       *)
(* clears the racks, every register of SimState is 0, the state machine    *)
(* has no open load, the replay is at the timeline's first event.          *)
(***************************************************************************)
Init ==
  /\ stage = [s \in Sorties |-> "waiting"]
  /\ iteration = 0
  /\ openLoads = [r \in Racks |-> NoLoad]
  /\ level = InitLevel
  /\ totalizer = [r \in Racks |-> 0]
  /\ batch = [r \in Racks |-> 0]
  /\ esdLatched = FALSE
  /\ runCmd = [r \in Racks |-> FALSE]
  /\ outVlv = [t \in Tanks |-> FALSE]
  /\ loadVlv = [r \in Racks |-> FALSE]
  /\ esdReset = FALSE
  /\ ground = [r \in Racks |-> FALSE]
  /\ deadman = [r \in Racks |-> FALSE]
  /\ overfill = [r \in Racks |-> FALSE]
  /\ esdActive = FALSE
  /\ runSts = [r \in Racks |-> FALSE]
  /\ srcTank = [r \in Racks |-> 0]
  /\ queued = [t \in Tanks |-> 0]
  /\ booked = [t \in Tanks |-> 0]
  /\ unbooked = [t \in Tanks \cup {0} |-> 0]
  /\ writes = 0
  /\ restarts = 0
  /\ refilled = [t \in Tanks |-> 0]

-------------------------------------------------------------------------------
(***************************************************************************)
(* The dispatcher's load events.                                           *)
(***************************************************************************)

(***************************************************************************)
(* The tank that answers for the gallons now in rack r's batch counter.    *)
(***************************************************************************)
AccountOf(r) == IF openLoads[r] = NoLoad THEN 0 ELSE openLoads[r].tank

(***************************************************************************)
(* dispensed_this_batch_gal = 0.  (BatchKept: a handler that forgets to.)  *)
(***************************************************************************)
BatchKept(r) == UNCHANGED batch

ResetBatch(r) == batch' = [batch EXCEPT ![r] = 0]

(***************************************************************************)
(* _on_load_start.  A load still open at the rack is overwritten, with no  *)
(* check: its batch counter is reset and no load_txn is ever written.      *)
(***************************************************************************)
LoadStart(s) ==
  LET k == TruckOf[s]
      t == TankOf[s]
      r == RackOf[k]
  IN
  /\ stage[s] = "waiting"
  /\ stage' = [stage EXCEPT ![s] = "loading"]
  /\ unbooked' = [unbooked EXCEPT ![AccountOf(r)] = @ + batch[r]]
  /\ ResetBatch(r)
  /\ openLoads' = [openLoads EXCEPT ![r] =
       [truck |-> k, tank |-> t, meter_start |-> totalizer[r]]]
  /\ srcTank' = [srcTank EXCEPT ![r] = t]
  /\ ground' = [ground EXCEPT ![r] = TRUE]
  /\ deadman' = [deadman EXCEPT ![r] = TRUE]
  /\ outVlv' = [outVlv EXCEPT ![t] = TRUE]
  /\ loadVlv' = [loadVlv EXCEPT ![r] = TRUE]
  /\ runCmd' = [runCmd EXCEPT ![r] = TRUE]
  /\ UNCHANGED <<iteration, level, totalizer, esdLatched, esdReset, overfill,
                 esdActive, runSts, queued, booked, writes, restartVars>>

(***************************************************************************)
(* _rack_for_truck: the racks whose open load is truck k's.  (FirstRackOf: *)
(* a search that gives up after the first rack.)                           *)
(***************************************************************************)
FirstRackOf(k) == {r \in {1} : openLoads[r] # NoLoad /\ openLoads[r].truck = k}

RacksOf(k) == {r \in Racks : openLoads[r] # NoLoad /\ openLoads[r].truck = k}

(***************************************************************************)
(* The body of _on_load_end: put the batch's load_txn on db_queue, close   *)
(* the load's commands and forget it.  The outlet valve closed is that of  *)
(* the load's own tank; the ground clamp stays on.                         *)
(***************************************************************************)
CloseLoad(r) ==
  LET t == openLoads[r].tank IN
  /\ queued' = [queued EXCEPT ![t] = @ + batch[r]]
  /\ openLoads' = [openLoads EXCEPT ![r] = NoLoad]
  /\ ResetBatch(r)
  /\ runCmd' = [runCmd EXCEPT ![r] = FALSE]
  /\ loadVlv' = [loadVlv EXCEPT ![r] = FALSE]
  /\ deadman' = [deadman EXCEPT ![r] = FALSE]
  /\ outVlv' = [outVlv EXCEPT ![t] = FALSE]
  /\ srcTank' = [srcTank EXCEPT ![r] = 0]

(***************************************************************************)
(* _on_load_end: a load_end whose truck has no open load is dropped.       *)
(***************************************************************************)
LoadEnd(s) ==
  /\ stage[s] = "loading"
  /\ stage' = [stage EXCEPT ![s] = "over"]
  /\ \/ \E r \in RacksOf(TruckOf[s]) : CloseLoad(r)
     \/ /\ RacksOf(TruckOf[s]) = {}
        /\ UNCHANGED <<queued, openLoads, batch, runCmd, loadVlv, deadman, outVlv, srcTank>>
  /\ UNCHANGED <<iteration, level, totalizer, esdLatched, esdReset, ground, overfill,
                 esdActive, runSts, booked, unbooked, writes, restartVars>>

(***************************************************************************)
(* replay.run wraps: the timeline is played again from its first event.    *)
(***************************************************************************)
Rewind ==
  /\ \A s \in Sorties : stage[s] = "over"
  /\ iteration + restarts < MaxPasses
  /\ iteration' = iteration + 1
  /\ stage' = [s \in Sorties |-> "waiting"]
  /\ UNCHANGED <<openLoads, physicsVars, coilVars, inputVars, srcTank, auditVars, writes, restartVars>>

-------------------------------------------------------------------------------
(***************************************************************************)
(* The gallons of the queued load_txn rows on the account a.               *)
(***************************************************************************)
InQueue(a) == IF a \in Tanks THEN queued[a] ELSE 0

(***************************************************************************)
(* A round of db_flusher: it drains the whole queue, and then the rows are *)
(* in the database (committed, whatever becomes of the answer) or the      *)
(* connect or the flush failed and they are dropped with their batch.  How *)
(* a round gets to its outcome is DbFlusher's matter.  (RequeuingFlush: a  *)
(* round that puts its rows back for a retry although they are stored.)    *)
(***************************************************************************)
RequeuingFlush ==
  /\ \E t \in Tanks : queued[t] # 0
  /\ booked' = [t \in Tanks |-> booked[t] + queued[t]]
  /\ UNCHANGED <<replayVars, openLoads, physicsVars, coilVars, inputVars, srcTank, queued,
                 unbooked, writes, restartVars>>

Flush ==
  /\ \E t \in Tanks : queued[t] # 0
  /\ queued' = [t \in Tanks |-> 0]
  /\ \/ /\ booked' = [t \in Tanks |-> booked[t] + queued[t]]
        /\ UNCHANGED unbooked
     \/ /\ FlushMayFail
        /\ unbooked' = [a \in Tanks \cup {0} |-> unbooked[a] + InQueue(a)]
        /\ UNCHANGED booked
  /\ UNCHANGED <<replayVars, openLoads, physicsVars, coilVars, inputVars, srcTank, writes,
                 restartVars>>

-------------------------------------------------------------------------------
(***************************************************************************)
(* The physics tick.                                                       *)
(***************************************************************************)

(***************************************************************************)
(* The ESD latch as this tick leaves it: a reset beats a trip.             *)
(* (LatchMissesTrip: ESD_ACTIVE is written before it is read.)             *)
(***************************************************************************)
LatchMissesTrip == esdLatched /\ ~ esdReset

Latched == (esdLatched \/ esdActive) /\ ~ esdReset

(***************************************************************************)
(* _resolve_src_tank: the register, else the first tank with an open       *)
(* outlet valve, else none (0).  (OutletOnly: the register is ignored.)    *)
(***************************************************************************)
OpenOutlets == {t \in Tanks : outVlv[t]}

OutletOnly(r) ==
  IF OpenOutlets = {} THEN 0 ELSE CHOOSE t \in OpenOutlets : \A u \in OpenOutlets : t <= u

SourceOf(r) ==
  IF srcTank[r] \in Tanks THEN srcTank[r]
  ELSE IF OpenOutlets = {} THEN 0
  ELSE CHOOSE t \in OpenOutlets : \A u \in OpenOutlets : t <= u

(***************************************************************************)
(* The low-level switch of tank t is clear.  (AboveEmpty: a switch that    *)
(* trips on an empty tank only.)                                           *)
(***************************************************************************)
AboveEmpty(t) == level[t] > 0

AboveCutout(t) == level[t] > LoLevel

(***************************************************************************)
(* _interlock_ok, and the pump it permits.  (RunsUnchecked: the meter      *)
(* counts the command.)                                                    *)
(***************************************************************************)
InterlockOk(r) ==
  /\ ~ Latched
  /\ loadVlv[r] /\ ground[r] /\ deadman[r]
  /\ ~ overfill[r]
  /\ SourceOf(r) # 0
  /\ AboveCutout(SourceOf(r))

RunsUnchecked(r) == runCmd[r]

Runs(r) == runCmd[r] /\ InterlockOk(r)

(***************************************************************************)
(* Gallons through rack r this tick, and what rack r takes out of tank t.  *)
(***************************************************************************)
Delivered(r) == IF Runs(r) THEN Flow ELSE 0

Draw(r, t) == IF SourceOf(r) = t THEN Delivered(r) ELSE 0

(***************************************************************************)
(* max(0.0, level - gallons).                                              *)
(***************************************************************************)
Drained(gal, drawn) == IF drawn <= gal THEN gal - drawn ELSE 0

(***************************************************************************)
(* & 0xFFFFFFFF.  (Unmasked: the totalizer without its mask.)              *)
(***************************************************************************)
Unmasked(n) == n

Masked(n) == n % MeterMod

(***************************************************************************)
(* _tick.  The interlocks of both racks are evaluated before either tank   *)
(* is drained.                                                             *)
(***************************************************************************)
Tick ==
  /\ esdLatched' = Latched
  /\ esdActive' = Latched
  /\ esdReset' = FALSE
  /\ level' = [t \in Tanks |-> Drained(Drained(level[t], Draw(1, t)), Draw(2, t))]
  /\ totalizer' = [r \in Racks |-> Masked(totalizer[r] + Delivered(r))]
  /\ batch' = [r \in Racks |-> batch[r] + Delivered(r)]
  /\ runSts' = [r \in Racks |-> Runs(r)]
  /\ UNCHANGED <<replayVars, openLoads, runCmd, outVlv, loadVlv, ground, deadman,
                 overfill, srcTank, auditVars, writes, restartVars>>

-------------------------------------------------------------------------------
(***************************************************************************)
(* The environment: other Modbus masters write coils and holding           *)
(* registers; instruments set discrete inputs.  MaxWrites bounds both; 0   *)
(* closes the system.                                                      *)
(***************************************************************************)
MasterWrite ==
  /\ writes < MaxWrites
  /\ writes' = writes + 1
  /\ \/ /\ \E r \in Racks : runCmd' = [runCmd EXCEPT ![r] = ~ @]
        /\ UNCHANGED <<outVlv, loadVlv, esdReset, srcTank>>
     \/ /\ \E t \in Tanks : outVlv' = [outVlv EXCEPT ![t] = ~ @]
        /\ UNCHANGED <<runCmd, loadVlv, esdReset, srcTank>>
     \/ /\ \E r \in Racks : loadVlv' = [loadVlv EXCEPT ![r] = ~ @]
        /\ UNCHANGED <<runCmd, outVlv, esdReset, srcTank>>
     \/ /\ esdReset' = TRUE
        /\ UNCHANGED <<runCmd, outVlv, loadVlv, srcTank>>
     \/ /\ \E r \in Racks, t \in Tanks \cup {0} : srcTank' = [srcTank EXCEPT ![r] = t]
        /\ UNCHANGED coilVars
  /\ UNCHANGED <<replayVars, openLoads, physicsVars, inputVars, auditVars, restartVars>>

FieldInput ==
  /\ writes < MaxWrites
  /\ writes' = writes + 1
  /\ \/ /\ esdActive' = TRUE
        /\ UNCHANGED <<ground, deadman, overfill>>
     \/ /\ \E r \in Racks : ground' = [ground EXCEPT ![r] = ~ @]
        /\ UNCHANGED <<deadman, overfill, esdActive>>
     \/ /\ \E r \in Racks : deadman' = [deadman EXCEPT ![r] = ~ @]
        /\ UNCHANGED <<ground, overfill, esdActive>>
     \/ /\ \E r \in Racks : overfill' = [overfill EXCEPT ![r] = ~ @]
        /\ UNCHANGED <<ground, deadman, esdActive>>
  /\ UNCHANGED <<replayVars, openLoads, physicsVars, coilVars, runSts, srcTank, auditVars,
                 restartVars>>

-------------------------------------------------------------------------------
(***************************************************************************)
(* What rack r's batch counter holds for the account a.                    *)
(***************************************************************************)
InFlight(r, a) == IF AccountOf(r) = a THEN batch[r] ELSE 0

(***************************************************************************)
(* The process ends and a new one is started (systemd after a failure, a   *)
(* play, a reboot).  Nothing is persisted but the database: the tanks      *)
(* are full again, the totalizers at 0, the ESD latch and every command    *)
(* and input forgotten, open loads gone, the timeline at its first event,  *)
(* and so is db_queue: no shutdown drains it.                              *)
(***************************************************************************)
Restart ==
  /\ iteration + restarts < MaxPasses
  /\ restarts' = restarts + 1
  /\ stage' = [s \in Sorties |-> "waiting"]
  /\ iteration' = 0
  /\ openLoads' = [r \in Racks |-> NoLoad]
  /\ refilled' = [t \in Tanks |-> refilled[t] + (InitLevel[t] - level[t])]
  /\ level' = InitLevel
  /\ unbooked' = [a \in Tanks \cup {0} |->
       unbooked[a] + InQueue(a) + InFlight(1, a) + InFlight(2, a)]
  /\ queued' = [t \in Tanks |-> 0]
  /\ batch' = [r \in Racks |-> 0]
  /\ totalizer' = [r \in Racks |-> 0]
  /\ esdLatched' = FALSE
  /\ runCmd' = [r \in Racks |-> FALSE]
  /\ outVlv' = [t \in Tanks |-> FALSE]
  /\ loadVlv' = [r \in Racks |-> FALSE]
  /\ esdReset' = FALSE
  /\ ground' = [r \in Racks |-> FALSE]
  /\ deadman' = [r \in Racks |-> FALSE]
  /\ overfill' = [r \in Racks |-> FALSE]
  /\ esdActive' = FALSE
  /\ runSts' = [r \in Racks |-> FALSE]
  /\ srcTank' = [r \in Racks |-> 0]
  /\ UNCHANGED <<booked, writes>>

-------------------------------------------------------------------------------
Dispatch == \E s \in Sorties : LoadStart(s) \/ LoadEnd(s)

Next == Dispatch \/ Rewind \/ Flush \/ Tick \/ MasterWrite \/ FieldInput \/ Restart

Spec == Init /\ [][Next]_vars

(***************************************************************************)
(* replay sleeps until each event is due and then enqueues it, and physics *)
(* sleeps dt and then ticks: neither is ever disabled by the other.        *)
(***************************************************************************)
FairSpec ==
  /\ Spec
  /\ WF_vars(Tick)
  /\ \A s \in Sorties : WF_vars(LoadStart(s)) /\ WF_vars(LoadEnd(s))
-------------------------------------------------------------------------------
(***************************************************************************)
(* Safety.                                                                 *)
(***************************************************************************)

(***************************************************************************)
(* The two measurements load_txn stores agree: for every open load, the    *)
(* totalizer has advanced from meter_start by exactly the batch counter,   *)
(* modulo the totalizer's width, whatever else is written to the bus and   *)
(* however often the totalizer wraps (meter_start / meter_end against      *)
(* gallons, _on_load_start, _on_load_end and _tick).                       *)
(***************************************************************************)
MeterMatchesBatch ==
  \A r \in Racks : openLoads[r] # NoLoad =>
    totalizer[r] = (openLoads[r].meter_start + batch[r]) % MeterMod

Stored == level[1] + level[2] + level[3]

Queued == queued[1] + queued[2] + queued[3]

Booked == booked[1] + booked[2] + booked[3]

Unbooked == unbooked[0] + unbooked[1] + unbooked[2] + unbooked[3]

Metered == batch[1] + batch[2]

Supplied ==
  InitLevel[1] + InitLevel[2] + InitLevel[3] + (refilled[1] + refilled[2] + refilled[3])

Books == INSTANCE Ledger WITH
  Total <- InitLevel[1] + InitLevel[2] + InitLevel[3],
  supplied <- Supplied, stored <- Stored, metered <- Metered, queued <- Queued,
  booked <- Booked, unbooked <- Unbooked

(***************************************************************************)
(* The farm keeps the ledger: no gallon is made up and none is lost, and   *)
(* every step moves fuel forward from the tanks to a rack's batch counter, *)
(* from there to a queued load_txn and from there into the database, or    *)
(* off the books.  It fails if a meter ever counts fuel that the           *)
(* max(0, ...) of the tick kept a tank from giving.  A restart is the only *)
(* step that supplies fuel.                                                *)
(***************************************************************************)
KeepsTheBooks == Books!Spec

(***************************************************************************)
(* The low-level cutout holds although a tick evaluates both racks before  *)
(* it drains: a tank that has been drawn on is at most two ticks of flow   *)
(* below the switch point, which keeps it from running dry.                *)
(***************************************************************************)
LevelFloor == \A t \in Tanks : level[t] = InitLevel[t] \/ level[t] + 2 * Flow > LoLevel

(***************************************************************************)
(* The per-tank reconciliation, without external writes: what was ever     *)
(* drawn from a tank, refills by restarts included, is the gallons of the  *)
(* stored load_txn rows that name it, of its queued ones, of its open      *)
(* loads, and of those that no row will ever show: loads another           *)
(* load_start overwrote, loads and queued rows a restart forgot, rows a    *)
(* failed flush dropped.                                                   *)
(***************************************************************************)
Drawn(t) == refilled[t] + (InitLevel[t] - level[t])

TankReconciles ==
  /\ unbooked[0] = 0
  /\ \A t \in Tanks :
       Drawn(t) = booked[t] + queued[t] + unbooked[t] + InFlight(1, t) + InFlight(2, t)

(***************************************************************************)
(* From the moment ESD_ACTIVE is set and as long as no ESD_RESET is        *)
(* pending, no step of this process or of any writer moves fuel or clears  *)
(* ESD_ACTIVE, load_start events and command writes included.  (A restart  *)
(* forgets the trip.)                                                      *)
(***************************************************************************)
EsdHolds ==
  [][esdActive /\ ~ esdReset /\ restarts' = restarts =>
       esdActive' /\ level' = level /\ totalizer' = totalizer]_vars

(***************************************************************************)
(* Without external writes a tank is only drawn on for an open load that   *)
(* names it: neither an outlet valve left open by an overwritten load nor  *)
(* the fallback of _resolve_src_tank ever makes fuel flow elsewhere.       *)
(***************************************************************************)
FuelGoesToALoad ==
  [][\A t \in Tanks : level'[t] < level[t] =>
       \E r \in Racks : openLoads[r] # NoLoad /\ openLoads[r].tank = t /\ runSts'[r]]_vars

(***************************************************************************)
(* Without external writes the loop wraps cleanly: when the last event of  *)
(* the timeline has been applied no load is open, and no pump, load valve  *)
(* or source register still carries the command of one, even if loads      *)
(* overwrote each other.  (An outlet valve may: load_end closes only the   *)
(* outlet of the load it finds.)                                           *)
(***************************************************************************)
WrapsCleanly ==
  (\A s \in Sorties : stage[s] = "over") =>
    \A r \in Racks : /\ openLoads[r] = NoLoad
                      /\ ~ runCmd[r] /\ ~ loadVlv[r] /\ ~ deadman[r]
                      /\ srcTank[r] = 0

-------------------------------------------------------------------------------
(***************************************************************************)
(* Liveness.                                                               *)
(***************************************************************************)

(***************************************************************************)
(* Once the timeline is over every pump stops for good, whatever loads     *)
(* overwrote each other: no overwritten load leaves a rack running.        *)
(***************************************************************************)
PumpsEventuallyOff == <>[](\A r \in Racks : ~ runCmd[r] /\ ~ runSts[r])

-------------------------------------------------------------------------------
(***************************************************************************)
(* What the build sheet says of the farm, and the code does not do.        *)
(***************************************************************************)

(***************************************************************************)
(* "tank drawdown should match SUM(load_txn.gallons) per source tank"      *)
(* (fuel-farm-build-sheet.md:274): with no load in progress and no row     *)
(* waiting in db_queue, every gallon that left a tank is in a load_txn.    *)
(***************************************************************************)
DrawdownMatchesLoads ==
  (\A r \in Racks : openLoads[r] = NoLoad) /\ (\A t \in Tanks : queued[t] = 0) =>
    \A t \in Tanks : Drawn(t) = booked[t]
===============================================================================
