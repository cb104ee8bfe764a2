# A verification of the airfield range

The repository deploys a training range: an airfield with a simulated fuel farm
(a Python simulator, an OpenPLC controller, a FUXA HMI, an audit database), an
air traffic control suite, two Active Directory domains, a Security Onion grid
and the network between them. Most of it is Ansible configuration of products
that live elsewhere. This directory models the parts that are programs with
state of their own, checks them with TLC on small instances and proves the most
important facts with TLAPS for all of them.

## 1. Inventory

### The fuel farm (`src/roles/fuel_sim`, `fuel_db`, `fuel_plc`, `fuel_hmi`)

| Part | State | Operations | Interaction |
|---|---|---|---|
| `replay.py` | position in the timeline, iteration | enqueue the next event, wrap | `event_queue` to the state machine |
| `state_machine.py` handlers | `open_loads` per rack, `open_deliveries` per truck | six events: order, arrival, load start and end, delivery start and end | write coils and registers in `SimState`, read and reset counters in `Physics`, put SQL on `db_queue` |
| `physics.py` | tank levels, totalizers, batch counters, ESD latch | one `_tick` | reads commands and inputs from `SimState`, writes measurements back |
| `modbus.py` | the Modbus image | get, set, totalizer words | shared by the two above and by any Modbus master |
| `db_flusher`, `snapshot_loop` | `db_queue`, a connection, a batch | drain, connect, execute, commit, roll back | PostgreSQL |
| `fuelsim.py` | the tasks | start, cancel on SIGTERM | systemd restarts it |
| `fuel_farm.st` | permits and outputs | one scan | reads the simulator's inputs as a Modbus master |
| `openplc_bootstrap.py` and its play | none of its own; the container's program, database and runtime | upload, compile, start, slave device | HTTP and `docker exec` |
| `fuxa_bootstrap.py` | the HMI's project | compare, upload | HTTP |

What is hard: everything in fuelsim is one asyncio thread, so handlers and ticks
do not interleave inside, but their order is anybody's; loads of one rack and
deliveries of one truck overlap (the shipped timeline does this hundreds of
times), and neither handler looks. The audit path crosses a process boundary
with a blocking driver, so failures strike between its steps. The bootstrap is a
sequence of requests of which any may fail, run again from its first task.

What makes it correct: fuel is conserved and accounted for; pumps obey the ESD,
the interlocks and the low-level cutout; two measurements of one load agree; the
audit trail stores an event whole and once; orders, trucks and queue rows end
where the build sheet says; a play that reports success has configured the PLC.

### Deployment (`src/deploy.sh`, `src/site.yml`)

`deploy.sh` runs `site.yml` up to three times; Ansible drops hosts that fail and
writes them to a retry file that limits the second run. Hard: state that
survives from one attempt, or one invocation, to the next. Correct: success
means one complete sweep.

### Air traffic control (`src/roles/atc_core`, `atc_inject`, `atc_weather`)

The feed interpolates flights and fans them out to TCP clients from one thread
under a lock while another accepts; the flight data processor caches the weather
in a dictionary all request threads share; the weather feed and the METAR
decoder are pure functions of their input. The flights themselves come from
`generate_schedule.py`, which draws them at random once; the feed replays them
modulo the cycle. Hard: a client that stops reading while the lock is held, a
list changed while it is walked, two threads refreshing the cache in two
assignments each, arithmetic at edges (north, latitude zones, rounding, the end
of the cycle). Correct: nobody misses a frame, weather that is not flagged is
recent, worse weather never looks better on the page, the forecast is the weather
to come, no flight is in the air when the cycle wraps.

### The rest

Ansible roles for Windows domains, mail, proxies, firewalls and Security Onion
configure third-party products; they keep no state in this repository and are
listed as not modelled in `PROJECT.json`, with the reason. So are the linters
(`verify_*.py`), the acceptance scripts and packaging.

## 2. Modules

| Module | Models | Lines of code behind it |
|---|---|---|
| `Ledger` | abstract: fuel moves from stored to metered to queued to booked, or off the books | build sheet, section 7 |
| `FuelFarm` | load handlers, physics tick, Modbus image | `state_machine.py`, `physics.py` |
| `FuelFarmProofs` | theorems about `FuelFarm` | |
| `Logistics` | all six handlers, in-memory dictionaries, database rows | `state_machine.py`, `replay.py` |
| `LogisticsProofs` | theorems about `Logistics` | |
| `AuditLog` | abstract: events stored whole, once, in order, or lost | |
| `DbFlusher` | `db_queue`, `db_flusher`, faults | `state_machine.py` |
| `AuditProofs` | theorems about `DbFlusher` and its refinement of `AuditLog` | |
| `SimState` | the register file: tags, scales, clamping, two-word totals | `modbus.py` |
| `PlcScan` | the PLC's poll and scan over `SimState`, and other masters | `fuel_farm.st` |
| `FieldBusProofs` | theorems about `SimState` and `PlcScan` | |
| `OpenPlcBootstrap` | the fuel_plc play and its script | `openplc_bootstrap.py`, the role's tasks |
| `OpenPlcProofs` | theorems about `OpenPlcBootstrap` | |
| `FuxaBootstrap` | the script's requests, FUXA's project, its editor | `fuxa_bootstrap.py`, the role's tasks |
| `Deploy` | the attempts, the retry file, the plays | `deploy.sh` |
| `DeployProofs` | theorems about `Deploy` and `FuxaBootstrap` | |
| `FdpWeather` | `weather()` in two request threads, the weather host's outages | `app.py` |
| `AtcFeed` | `run`, and the servers' `send` and `_accept` threads | `atc_feed.py` |
| `Metar` | severity to METAR to flight category; runway choice (pure) | `metar_feed.py`, `app.py` |
| `Taf` | the forecast's change groups, over `Metar` | `metar_feed.py` |
| `Adsb` | altitude, speed and position fields of DF17 (pure) | `atc_feed.py` |
| `AtcProofs` | theorems about `Metar`, `Taf`, `Adsb` and `FdpWeather` | |
| `Schedule` | both loops of the schedule generator | `generate_schedule.py` |
| `Timeline` | the sorties of the fuel timeline and the order of its events | `generate_timeline.py` |
| `ScheduleProofs` | theorems about `Schedule`, `Timeline` and `AtcFeed` | |
| `MC*` | instances for TLC | |

**FuelFarm.** One action per handler and one for the tick, since none awaits
anything that suspends. `LoadStart(s)` and `LoadEnd(s)` are parameterised by the
sortie whose event is dispatched; `stage` is how far the replay has come in each
sortie. The sim's coils, registers and discrete inputs are variables of their
own, because any Modbus master (`MasterWrite`) and any instrument (`FieldInput`)
may write them. Levels, totalizers and batches count gallons; a tick moves
`Flow`, a whole number, as the shipped 600 gpm at 5 Hz does (2 gal).

A `load_end` puts its load_txn row on `db_queue`: its gallons are `queued`, and
only a round of `db_flusher` (`Flush`) makes them `booked`, which is what
`SUM(load_txn.gallons)` in the database gives. A round may lose all it drained
instead (a failed connect or flush; `FlushMayFail`), and `Restart`, the end of
the process and the start of a new one at any moment, loses what is queued: no
shutdown drains the queue. Nothing else is persisted either, so that the tanks
are full again and the ESD latch, the totalizers and the open loads are gone.
`Flush` is one action because psycopg2 blocks the loop; what can go wrong inside
a round, and that it stores all or nothing, is `DbFlusher`'s matter. Two
variables are histories: `unbooked`, the gallons no row will ever show, by the
tank of their load (overwritten or forgotten loads, lost rows), and `refilled`,
what restarts put back into each tank. A restart forgets a trip, which is why
`EsdHolds` excludes that step.

**Logistics.** The same handlers as far as trucks, orders and queue rows see
them; gallons are left to `FuelFarm`. `queueRows[k][q]` counts truck k's rows in
state q, which is what the code's `UPDATE ... WHERE truck_id AND state` moves.
A handler's rows are applied together or lost together, which is what
`DbFlusher` establishes; its `Restart` loses no rows of its own accord, since
up to `MaxLosses` handlers may lose theirs at any time (none in
`LogisticsSerial`, one in `LogisticsOverlap`). `Overlapping` lets the timeline's
sorties meet.

**DbFlusher.** A handler's puts never wait (the queue has no limit), so that the
rows of one event are queued in one action. psycopg2 blocks the loop, so while a
round is in progress nothing else of fuelsim runs; the server and the process
may die between its steps.

**SimState, PlcScan.** `Set`, `SetTotalizer`, `Get` and `GetTotalizer` are the
code's methods over a function from registers to 16-bit words; values are in
hundredths, the finest scale of the map. That no two tags share a register
(`OneTagPerCell`) is a hypothesis, since `TagMap` refuses duplicate names only.
`PlcScan` adds the mirror OpenPLC polls, one whole scan of `fuel_farm.st` as one
action, and masters of the SCADA bus that write coils between two scans; `seen`,
`touched` and `ordered` are histories the properties speak of.

**FuxaBootstrap.** One action per request; each may end the run, before or after
the server has obeyed it. `Looks` is the set of projects `project_matches`
accepts, `Durable` says whether FUXA keeps what it acknowledged.

**OpenPlcBootstrap.** One action per request. A step that took effect may still
fail for the script (`Then`), or fail without effect (`FailsBefore`); the next
play begins with the copy task. Program and slave configurations are versions.
Four answers are examined by nobody: of both `/stop_plc` requests (lines 211 and
442), of the DELETE and of the query that reads a failure as an absent row;
`Unnoticed` names those that may be other than the play believes. A runtime that
refuses to stop (`StopRefused`) keeps what it runs, is renamed by the upload,
ignores the start and answers Running to the poll. The dashboard's doings are
the container's: they are modelled from how the script uses it.

**FdpWeather.** One action per access of `_WX`, since the interpreter may switch
threads between any two. Times are kept as ages, so that the state space is
finite without a horizon; time passes only while threads are idle or in a fetch.
`urlopen(timeout=1.5)` limits each operation on the socket, not the fetch: an
answer that trickles in is waited for. So nothing is assumed of how long a fetch
takes; `MaxFetch` bounds the model, and `slowest`, a history, is the longest any
request has waited so far, which is what the properties are relative to. That an
up host ends its answers some time is assumed for the liveness property only.

**AtcFeed.** `frames` is the list of ports still to be sent to for one flight;
`next` is the loop's iterator over the live list, so that removing an element
while looping would skip one as it does in Python. A full socket blocks the loop.
The sockets that raised are removed one per step, still under the lock, which
`SendReturns` releases; `list.remove` takes the first occurrence and raises if
there is none, which would end the feed (`DeadAreListed`). `AcceptFails` is the
`except OSError: break` of `_accept`: one error of `accept` ends the thread, and
nobody gets on that port's list any more, while the feed goes on for those on it.

**Metar.** Integers in place of floats: percents of severity, half miles, feet,
degrees; rounding is Python's, a half to the even side.

The wind is in tenths of a degree before it is reported. **Taf** adds one group
per change of band; which group is in force is the reader's side.

**Adsb.** The packed fields as numbers, `|` and `<<` as sums and products (which
they are as long as fields do not overlap: `FieldsApart`). A latitude is a
multiple of 1/59 of a microdegree, so that both zone heights are integers.

**Schedule.** The generator's two loops. A draw is a choice from the set the
random call can return; the time of a leg is any number of milliseconds up to
`MaxLeg` seconds, since geometry is left out; rounding and truncation are as in
the code. `OnScope` is the feed's side: from the first waypoint to the last.

**Timeline.** The generator of the fuel farm's sorties, slot by slot, draws being
free choices; `At` and `Before` are the order the events are written in. A load
of whole ten gallons may come out a second short, as floating point has it. It
justifies what `FuelFarm` assumes of its timeline: a truck keeps its rack, and a
sortie's events come in order.

**Deploy.** deploy.sh started without arguments: `"$@"` (lines 445 and 460), which
it hands on to Ansible and which could limit a run to some hosts or tags, is not
modelled, and with it success would rest on a complete sweep of those only. One
action per play; `Begin` is the head of the loop. What Ansible
does (dropping hosts, ending the run when a whole play fails, writing the retry
file) is marked external.

`SimState`, `PlcScan`, `FuxaBootstrap`, `Schedule`, `Timeline`, `Metar`, `Taf` and
`Adsb` have theorems and no run: what matters about them is proved for all parameters.
`Schedule` and `FuxaBootstrap` carry their name in their definitions
(`ScheduleSpec`, `fuxaVars`), since a proof module extends them beside another module. The
theorems name what they need of the parameters as a hypothesis (`Sensible`,
`Plausible`, `Wired`, `Forecastable`).

## 3. Runs

Passing:

| Run | Question |
|---|---|
| `FuelFarmClosed` | Do overwritten, dropped and lost loads spill, hide or misroute fuel, or leave a rack running, across a wrap or a restart, when nobody else writes to the bus? Does the ledger balance all the while? |
| `FuelFarmOpen` | Do ESD, cutout, meter and ledger hold when anybody writes anything (in one pass, without restart)? |
| `DbFlusher` | Does the flusher implement `AuditLog` under faults, and always recover? |
| `LogisticsSerial` | Without overlap: is every order filled, every queue row finished, every delivery loaded, across wraps and a restart, if no row is lost? |
| `LogisticsOverlap` | With overlap, a restart and lost rows: does the fleet return, is no order delivered twice in a pass, is a FILLED order on record as delivered? |
| `Deploy` | Does success rest on a complete sweep, does the loop end, is the retry file gone? |
| `PlcRecovers` | Failing while the runtime is down or the slave device is replaced, and stops refused unnoticed: but for what a refused stop leaves, does a running PLC run what it names, does the next play repair everything and disturb nothing? |
| `FdpWeather` | Two requests over one unlocked cache, with slow fetches and outages: is unflagged weather as recent as the fetches allow, is known weather always served, does the flag go away? |
| `AtcFeed` | Clients that come, read, stall and go, and an accept thread that ends: does nobody on the list miss a frame, does no removal raise, do feed and lists go on? |

Violated, each a finding in `PROJECT.json`:

| Run | What the code does against what is written |
|---|---|
| `FuelFarmDrawdown` | an overwritten load's gallons are in no `load_txn`; the build sheet has drawdown match the loads |
| `DbFlusherConnect` | a failed connect drops the batch it says it will retry |
| `PlcStaleProgram` | a play that fails early makes the next one skip the new program |

Seen while modelling, and left without a run of their own:

- With `Overlapping`, `QueueRowsFinish` and `NoDeliveryWithoutLoad` fail for the
  same reason as `FuelFarmDrawdown`: the overwritten load's queue row stays in
  LOADING, its delivery is booked without a load.
- A play that dies between adding the slave device and cycling the runtime is
  never made up for: `SlaveIsPolled` fails if `"add"` is in `FailAt`.
- A runtime that refuses `/stop_plc` unnoticed goes on running the old program
  under the new name, or polls the old slave device, and the play ends well; the
  next one finds the program's name and the device's row right and does nothing.
  `RunsWhatItNames`, `ProgramIsCurrent`, `SlaveIsPolled` and `Converges` except
  exactly that case (`refused`): no other unnoticed failure has this effect.
- No interlock looks at a load's preset and an ESD trip closes no valve in the
  simulator, although the build sheet (lines 64 and 365) says so of both. A reset
  that is pending in the tick that first sees a trip clears it unlatched.
- The PLC's program is simpler than the build sheet has it (lines 74-79): permits
  look at T-101's low switch whatever tank is drawn on, an overfill closes the
  valve but stops no pump, and after an ESD the racks' valves reopen by themselves
  once the inputs allow (outlet valves and pumps do not: `RunsOnOrder`). There is
  no lead/lag.
- The program binds ten input registers, so that LR2_METER_HI has no mirror.
- `modbus.py` says (16-17, 103) the words' split honours `totalizer_word_order`;
  `set_totalizer` ignores it, `get_totalizer` does not (`LoFirstExchangesTheWords`).
- `fuxa_bootstrap.py` calls `ModbusTCP` "unknown to plugin registry" in its
  comment (105-106) and requires that type in its code (35, 119), as the project
  template sets it. Its verification cannot tell an older project of ours from
  the one just posted, so that without `--force` and `Durable` a run that ends
  well need not have installed its file.
- `generate_schedule.py` says (243) there is always at least one ambient target.
  A racetrack ends at the last node it reaches in time, up to a leg before its
  successor need have started, and none starts in the last 1200 s; in the shipped
  schedule nothing is in the air in the last 55 s of the cycle. `StationKept` is
  what holds.
- A calm wind is sent as 00000KT and decoded to direction 0, not to none, so that
  `active_runway` takes the end nearest north and never reaches its branch for
  calm ("the first runway's low end", `app.py:148`).
- METAR times are the full hour's 53rd minute, which may be to come; the METAR
  and the ATIS letter of one reply read the clock separately.
- In the last half step of a latitude zone `_cpr` masks the position to 0 without
  moving the zone (`RlatNearButAtTheEdge`); the longitude zones are then those of
  a latitude some six degrees off.
- The timeline's sort puts `load_end` before `load_start` within one second; only
  that no aircraft takes less than ten gallons keeps loads in order
  (`TinyLoadsWouldEndFirst`). Trucks keep their racks only because six is a
  multiple of two.
- An interrupted `deploy.sh` leaves its retry file, and attempt 2 of the next
  invocation may be limited to its hosts (`LeavesNoRetryFile` needs `cleanStart`
  and an invocation that ends by itself).
- Two weather requests can lose a known TAF: one finds no cached TAF to fall back
  on, the other stores its own, the first stores none over it.
- The cache time alone does not bound the age of unflagged weather, because one
  request's time may end up on another's older data; nothing in the code bounds
  it absolutely, because nothing bounds a fetch.
- One OSError of `accept` ends accepting on its port until the feed is restarted,
  and nothing reports it.
- With a client that stops reading for ever the ATC feed stops for all clients.

## 4. Bounds

Every bound is a constant with `Max` in its name, used in a guard (and `Failing`,
the ports whose `accept` may raise). `FlushMayFail`, `FailAt` and `Unnoticed` say
which faults there are.

- FuelFarm: three or four sorties cover two loads meeting at a rack, two racks
  on one tank, and a truck returning before its last load has ended; a fifth
  could only repeat one of these. Levels of 2 to 5 gallons with a switch point of
  2 let a tank reach the cutout and overshoot it by both pumps; a totalizer
  modulo 3 wraps in the middle of a load. db_flusher may lose any round, except in
  `FuelFarmDrawdown`, where all that is missing is the overwritten load. `MaxPasses` bounds wraps and restarts
  together: one of either meets every state of the first pass. Two external writes suffice for a trip
  and a reset, or an input and its undoing. `FuelFarmOpen` leaves out wrap and
  restart (`MaxPasses = 0`), which `FuelFarmClosed` has.
- Logistics: three sorties, two on one truck and the third at the same rack; two
  passes or one restart, each with the other absent where the product is large.
- DbFlusher: four events of two rows and three faults allow a fault in a round,
  one in its successor and one in the reconnect.
- Deploy: two invocations, three plays (all hosts, one host, the rest); failures
  are not bounded. OpenPlcBootstrap: two edits, three failures or refusals, two
  container restarts: an edit, a failed play, and something on top of the repair.

- FdpWeather: two requests, since what goes wrong needs one refresh to overtake
  another; fetches of up to two ticks, so that they differ in length; ages above the
  longest promised one are one value. AtcFeed: two
  clients on one port (one behind the other), one on the other port, sockets that
  hold one frame, one connection each; the port with two clients may lose its accept
  thread (both ports run the same code).
- LogisticsOverlap has a restart and a lost handler together, without a wrap: to
  the database a restart is a wrap in mid-course.

`CHECK_DEADLOCK FALSE` is set where the system stops for good: `deploy.sh` after
its last invocation.

## 5. Fairness

- FuelFarm: physics ticks for ever and the replay's events fall due; weak
  fairness of the tick and of each event. Nothing is assumed of other masters.
- Logistics: weak fairness of each sortie's next event. Restarts are bounded.
- DbFlusher: the flusher wakes every second, and psycopg2 returns or raises in
  the end (`connect_timeout`, TCP). Faults are bounded and not fair.
- FdpWeather: `urlopen` returns at last, because an up host ends its answers and
  a cut-off request times out; threads run. AtcFeed: threads run,
  there are flights again and again, a lock that is free again and again is
  obtained; nothing is assumed of clients, so the liveness properties carry the
  premise that no client keeps its socket full for ever. That `accept` raises is
  possible at any time and never due.
- Deploy: `ansible-playbook` returns. OpenPlcBootstrap: every request has a
  timeout, and somebody runs the play again.

## 6. Proofs

`FuelFarmProofs` proves, for every timeline, fleet, tank content, totalizer
width, flow and bound that satisfies the assumptions in `FuelFarm`:

| Theorem | Argument |
|---|---|
| `TypeCorrect` | inductive as it stands |
| `MeteringCorrect` | inductive with the types: a load start makes both sides equal, a tick adds the same flow to both, and `(a % m + d) % m = (a + d) % m` |
| `LevelSafe` | inductive: a tick draws on a tank only above the switch point, at most twice `Flow` |
| `EsdSafe` | a tick that sees the trip without a reset latches it, so no interlock holds; no other step moves fuel or writes ESD_ACTIVE to 0 |
| `FarmKeepsTheBooks` | refinement: a load end is `Submit`, a round of db_flusher `Book` or `Lose`, a load start `Drop`, a restart `Restock`, a tick `Dispense`; that the tanks lose what the meters count needs the cutout's margin, `2 * Flow <= LoLevel + 1`, from `PhysicsAssumption` |
| `FarmBalances` | the ledger's invariant, through the refinement |
| `ClosedFarmReconciles` | with no external writes a rack's source register is that of its open load, and a running rack has one (lemma `ClosedCommands`: the commands follow the open loads, proved first). Per tank, drawn is booked, queued, unbooked and in flight, through lost rounds and restarts |
| `ClosedFarmServesLoads` | from the same strengthening |
| `ClosedFarmWraps` | every open load's truck has a sortie still to end (`ClosedLoadsAwaitTheirEnd`), and a truck always loads at one rack, so that its last load_end finds what is open there; then `ClosedCommands` |

`FieldBusProofs`, for every tag map and every wiring of the named inputs:

| Theorem | Argument |
|---|---|
| `RegistersHoldWords` | inductive: clamping, masking, bits |
| `SetDisturbsNoOther`, `SetReadsBack` | one register per tag; rounding errs by half a count at most (case split on the scale) |
| `TotalReadsBack`, `LoFirstExchangesTheWords` | the halves land in two registers, and a number below 2^32 is its halves |
| `OnlyOursMoveInstruments` | masters write coils and holding registers, other tags' sets other registers |
| `ValvesFollowPermits`, `RacksPartByTheirOwn`, `NothingRunsUnordered` | one invariant of the composition: between writes of a master the outputs are a function of the inputs last scanned, and a command is on only if it was ordered |

`LogisticsProofs`, for every timeline, fleet, number of passes, process deaths and
lost handlers:

| Theorem | Argument |
|---|---|
| `TypeCorrect` | inductive; dispatcher, dictionaries and tables apart, since a lost handler changes only the first two |
| `FleetCorrect` | what is open in memory still has its event to come: for a rack's load some sortie of its truck is loading, for a truck's delivery some sortie is delivering, and, unless rows were lost, a truck not AVAILABLE has a delivery open or a sortie that has yet to deliver. A `load_end` closes whatever its truck has at its rack, so the loading sortie need not be the one whose load is open: that is why the three are stated of the truck, not of the sortie |
| `FilledCorrect` | inductive with the types: the rows of a delivery are applied together |
| `OncePerPass` | an order has as many deliveries as there were passes only if its `delivery_start` has been played in this one and its delivery is not open any more (`DeliveredThisPass`) |
| `QueueRowsCorrect` | with `Overlapping = FALSE` and no losses: a truck has one sortie under way and what is open is its (`OneAtATime`, `OpenIsOurs`), and its rows have left the states the sortie has left (`RowsFollow`). Then an UPDATE that moves all rows of a state leaves none behind, those of sorties cut off by a restart included |
| `DeliveriesAreLoaded` | in the same invariant a truck between its `load_end` and its `delivery_end` has one load more than deliveries; a restart loses the delivery, never the load |

The two hypotheses are needed: with overlap, or with one lost handler, TLC breaks
either property, and the shipped timeline does overlap (section 3).

`AuditProofs`, for any number of rows per event, events and faults:

| Theorem | Argument |
|---|---|
| `TypeCorrect`, `EventsStayWhole` | queue, round and tables are each the rows of whole events, one after the other (`Whole`): a handler appends one event, a round takes the whole queue, executing moves a row from the batch to the transaction, so that the two together stay what the round took. A round whose connection broke is the exception, and goes nowhere any more |
| `FlusherImplementsAuditLog` | what is on its way is queue and round together, unless the round is over; a step of the flusher changes it only by a commit (`Store`) or a loss (`Lose`), a handler's only by `Record`. The event counts rest on lemmas about positions in sequences of whole events, without induction |
| `EventsOnceInOrder` | an invariant of `AuditLog`, carried through the refinement |

`OpenPlcProofs`, for any number of plays, edits, failures and restarts, and any
set `FailAt` of steps that may fail:

| Theorem | Argument |
|---|---|
| `TypeCorrect`, `RunningIsNamed` | unless it refused the stop, an upload finds the runtime stopped, and from the compilation on binary and name agree (`NameAndBinaryAgree`); the exception ends when a later upload finds it stopped |
| `NeverStoppedInVain` | a play that found all as wanted reaches a step that stops the runtime only if a restart of the container changed something meanwhile (`RightMeansRight`) |
| `SlavePolled` | hypothesis `{"add", "restart"} \cap FailAt = {}`: a running PLC polls the row of its database, except between the add and the cycle that follows it. Without the hypothesis it is false (section 3) |
| `ProgramCurrent` | hypothesis `{"login", "stop"} \cap FailAt = {}`: a running PLC runs the file on disk unless this play has just copied another and is about to stop it. Without it the finding `PlcStaleProgram` is its counterexample |

So the hypotheses name the very steps whose failure the script does not survive:
with any one of the four in `FailAt`, TLC breaks the property. Refused stops are
not among the hypotheses: the properties themselves name the one each excepts.

`DeployProofs`, of `deploy.sh` for any hosts, plays and invocations: a sweep in
which no host has failed yet has applied every play so far to all its hosts in
scope, and only a repair has a smaller scope than all hosts (`SweptSoFar`), from
which `SuccessDeploys`; attempt 3 begins without a retry file and attempt 1 of a
clean start too (`RetryFileByAttempt`), from which `RetryFileCleared`.

Of the FUXA project's import: the invariant `Inv` says at each request what is
already known of the server's project and of broadcastAll, unless the editor
saved. From it
`SuccessIsOurs` and `BroadcastSettled`; `ForcedInstallsTheFile` needs a server
that keeps what it acknowledged.

`ScheduleProofs`, for all parameters with an orbit of 3 s or more and an interval
of 2 s or more (shorter ones do not advance the clock at all) and every draw:

| Theorem | Argument |
|---|---|
| `FlightsAscend` | rounding and truncation are monotone, so that offsets follow the clock |
| `AddressesUnique` | every flight's number is below the next free one |
| `NoFlightWraps` | a racetrack stops within its hold and holds end with the cycle; other flights are filed only if they fit |
| `StationNeverCrowded` | departures are at least three quarters of a hold apart, so that three of one moment would span more than a hold |
| `StationKept` | departures are less than a hold apart, and a racetrack ends at most a leg before its hold does |

and for any hours, surge windows and presets of 20 gallons or more:

| Theorem | Argument |
|---|---|
| `TimelineKeepsSortiesInOrder` | every part of a sortie takes a second at least |
| `TrucksAreTiedToRacks` | equal remainders by six are equal by two and three |
| `TurnsAreTaken` | slots are 112 s apart or more, also across hours, and a truck's sorties six slots: jitter of 113 s either way is less |
| `NoSortieAtTheEnd` | the last slot ends its spacing before the hour does |

and of the feed, for any clients, room, and connections:

| Theorem | Argument |
|---|---|
| `EverybodyIsServed` | `run` holds the lock of the port it sends to, so the list does not change while it is walked; the clients before the iterator are served (`HoldsItsLock`, `ServedSoFar`) |
| `RemovalNeverRaises` | a client is on its list once and noted once (`ListedOnce`, `NotedSoFar`), so removing one leaves the others that were noted |

`AtcProofs`: `CategoryIsMonotone` (case split on the better category),
`WorseWeatherWorseCategory` (bands rise, visibility and ceiling fall, through the
rounding), `NeverATailwind` (the two ends of a runway are 180 degrees apart, so
one has at most 90 to the wind; the chosen end is no worse),
`TrueTailwindIsSlight` (rounding adds five degrees, across north),
`ForecastMatches` (the last group's band is the last hour's; earlier hours keep
their group), and of the encodings `AltitudeReadsBack`, `SpeedReadsBack`,
`RlatNearButAtTheEdge` and `FieldsApart` (arithmetic of quotients and remainders).

Of the weather proxy, for any number of threads, any cache time and fetches of any
length: `FreshIsRecent` and `BlankIsFirst`. The cached weather is at most two of
the slowest fetches so far older than the cache's stamp says (`CacheIsAsStamped`):
no request has waited longer than the slowest (`WaitsAreCounted`), a request
fetches twice, no time passes between a store and its stamp, and another thread's
later stamp can only land on weather stored by then. A thread about to answer
from the cache has compared before any time passed (`ServesRecent`).

The margin assumption is the code's: at 5 % of 500,000 gal the switch is at
25,000 gal and a tick moves 2.

Only model-checked: the liveness properties (`PumpsEventuallyOff`,
`EventuallyIdle`, `OrdersGetFilled`, `DeployEnds`, `Converges`,
`RecoversFromOutage`, `ListFollowsClients`, `FeedGoesOn`), since fairness is out of
the prover's reach. Every safety property of a passing run is proved. The
inductive invariants were checked by TLC in the runs' instances before they were
proved (that of `DbFlusher` apart, which speaks of some number of events in Nat);
they are not among the runs' properties, because the proofs say more.

## 7. What is abstracted or left out

Float gallons (whole ticks of flow instead), percent scaling, temperatures,
header pressure, HMI-only registers, log and event texts, wall-clock pacing,
the JSONL parser, SQL texts beyond the rows they touch. The death of the physics
task by an exception is not modelled, nor the truncation of the totalizer at
tick rates that do not divide the flow (a matter of floating point). Of the air
traffic side: the synoptic curves, geometry, callsigns, CRC, Beast framing, SBS
text, D-ATIS phrasing. `PROJECT.json` lists for every component what is modelled
and why the rest is not, and for every hazard the properties or theorems that
cover it or the reason none does.

Not modelled at all: the linters (`verify_*.py`) are offline text checks, map
tiles, packaging and acceptance scripts pure I/O; the interface watchdog and the
unbound supervisor are loops around commands whose answers the repository does
not determine; the Windows, Security Onion and network roles configure products
that live elsewhere.

## 8. Plan

Safety is proved throughout. What would say more: that `Logistics` implements an
abstract life of an order as `FuelFarm` implements `Ledger`; that `PlcScan`
and `FuelFarm` together keep the interlocks over the bus; the composition of
`Timeline`'s order with `Logistics`' premise (`Overlapping = FALSE` from the
lengths of sorties); and models of the JSONL parser and the historian's poll.
